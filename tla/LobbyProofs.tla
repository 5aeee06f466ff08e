------------------------------ MODULE LobbyProofs ------------------------------
(***************************************************************************)
(* For every number of clients, rooms and contents threads: until two      *)
(* threads are at one room at once, a room has one game at a time and a    *)
(* full room stays full until it is reset; until then, and as long as no   *)
(* seat leads to the session of somebody else, a client plays one game and *)
(* both players have been told where to play when they are handed over.    *)
(* However many threads are at it, a full room is on its way to become     *)
(* free.                                                                   *)
(*                                                                         *)
(* A room's match is in one place at a time: with the handler of who       *)
(* enters, with the game server, on its way back, or with the handler that *)
(* resets the room.  A client is in one place as well: asking for          *)
(* something, in a seat, chosen for a match, or in it.                     *)
(***************************************************************************)
EXTENDS Lobby, TLAPS

\* no two threads are at one room
Alone == \A t, u \in Thread :
  HasRoom(t) /\ HasRoom(u) /\ pkg[t].room = pkg[u].room => t = u

Early == {"info", "check", "count", "seat", "seat1", "seat2"}

\* a package is with the handler of its type
Shape ==
  /\ \A t \in Thread : pc[t] # "idle" =>
       /\ pkg[t] \in Package
       /\ pc[t] = "info" <=> pkg[t].type = "LOBBY_INFO"
       /\ pc[t] = "reset" <=> IsReset(pkg[t])
       /\ pc[t] \in {"notify", "handoff"} => ids[t] \in Client \X Client
  /\ \A c \in Client : wire[c] # Null =>
       wire[c] \in Package /\ ~IsReset(wire[c]) /\ wire[c].from = c

-----------------------------------------------------------------------------
(***************************************************************************)
(* The rooms.                                                              *)
(***************************************************************************)
ApartRoom(r) ==
  /\ InGames(r) => ~InEnded(r) /\ ~InQueue(r) /\ ~InReset(r)
  /\ InEnded(r) => ~InQueue(r) /\ ~InReset(r)
  /\ InQueue(r) => ~InReset(r)
  /\ InMatch(r) => ~Held(r)
  /\ Held(r) => member[r] = 2

OneGame == \A i, j \in DOMAIN games : games[i].room = games[j].room => i = j
OneEnded == \A i, j \in DOMAIN ended : ended[i] = ended[j] => i = j
OneReset == \A i, j \in DOMAIN queue :
  IsReset(queue[i]) /\ IsReset(queue[j]) /\ queue[i].room = queue[j].room => i = j

Counted == \A t \in Thread :
  /\ pc[t] = "count" => member[pkg[t].room] < 2
  /\ pc[t] \in {"ids", "notify", "handoff"} => member[pkg[t].room] = 2

RoomInv == (\A r \in Room : ApartRoom(r)) /\ OneGame /\ OneEnded /\ OneReset /\ Counted

-----------------------------------------------------------------------------
(***************************************************************************)
(* The clients.                                                            *)
(***************************************************************************)
InLine(c) == \E i \in DOMAIN queue : ~IsReset(queue[i]) /\ queue[i].from = c
Serves(t, c) == pc[t] # "idle" /\ ~IsReset(pkg[t]) /\ pkg[t].from = c
Served(c) == \E t \in Thread : Serves(t, c)
Enters(c) == \E t \in Thread : pc[t] \in Early /\ pkg[t].from = c
Asking(c) == wire[c] # Null \/ InLine(c) \/ Enters(c)

OneInLine == \A i, j \in DOMAIN queue :
  ~IsReset(queue[i]) /\ ~IsReset(queue[j]) /\ queue[i].from = queue[j].from => i = j

OneServes == \A t, u \in Thread : \A c \in Client : Serves(t, c) /\ Serves(u, c) => t = u

OneRequest ==
  /\ OneInLine /\ OneServes
  /\ \A c \in Client : /\ wire[c] # Null => ~InLine(c) /\ ~Served(c)
                       /\ InLine(c) => ~Served(c)

Sits(c, r) == user1[r] = c \/ user2[r] = c
Seated(c) == \E r \in Room : Sits(c, r)
Plays(c) == \E i \in DOMAIN games : c = games[i].id1 \/ c = games[i].id2
Picks(t, c) == pc[t] \in {"notify", "handoff"} /\ (c = ids[t][1] \/ c = ids[t][2])
Chosen(c) == \E t \in Thread : Picks(t, c)
Clears(r) == \E t \in Thread : pc[t] = "clear" /\ pkg[t].room = r

OneSeat ==
  /\ \A r, q \in Room : user1[r] # Null => /\ user1[r] # user2[q]
                                           /\ user1[r] = user1[q] => r = q
  /\ \A r, q \in Room : user2[r] # Null /\ user2[r] = user2[q] => r = q

ApartClient(c) ==
  /\ Asking(c) => ~Seated(c) /\ ~Plays(c) /\ ~Chosen(c)
  /\ Plays(c) => ~Chosen(c)
  /\ Plays(c) => \A r \in Room : Sits(c, r) => user1[r] = c /\ Clears(r)
  /\ c \notin closed =>
       /\ \A r \in Room : Sits(c, r) => c \in waiting[r]
       /\ Plays(c) \/ Chosen(c) => ~Outside(c)

\* a thread that is at a match it hands over
Chooses(t) ==
  LET r == pkg[t].room
  IN  /\ ids[t][1] # ids[t][2]
      /\ user1[r] \in {Null, ids[t][1]}
      /\ user2[r] = IF pc[t] = "notify" THEN ids[t][2] ELSE Null
      /\ \A q \in Room \ {r} : ~Sits(ids[t][1], q) /\ ~Sits(ids[t][2], q)
      /\ user1[r] = Null => ids[t][1] \in told \cup closed
      /\ pc[t] = "handoff" => /\ user1[r] = Null \/ ~sessionOne
                              /\ ids[t][2] \in told \cup closed

OneChoice == \A t, u \in Thread : \A c \in Client : Picks(t, c) /\ Picks(u, c) => t = u

\* what PlaysOneGame says of the games, without its exceptions
OneMatch == \A i, j \in DOMAIN games :
  /\ games[i].id1 # games[j].id2
  /\ i # j => games[i].id1 # games[j].id1 /\ games[i].id2 # games[j].id2

SeatInv == /\ OneSeat /\ OneMatch /\ OneChoice
           /\ \A c \in Client : ApartClient(c)
           /\ \A t \in Thread : pc[t] \in {"notify", "handoff"} => Chooses(t)

-----------------------------------------------------------------------------
LEMMA Packages ==
  ASSUME NEW p \in Package
  PROVE  /\ p.type = "LOBBY_INFO" \/ p.type = "ENTER_ROOM" \/ p.type = "INITIALIZE_ROOMMEMBER"
         /\ IsReset(p) => p.room \in Room
         /\ ~IsReset(p) => p.from \in Client
         /\ p.type = "ENTER_ROOM" => p.room \in Room /\ p.count \in 0..1
BY DEF Package, IsReset

LEMMA Removed ==
  ASSUME NEW S, NEW s \in Seq(S), NEW i \in DOMAIN s
  PROVE  /\ s[i] \in S /\ RemoveAt(s, i) \in Seq(S)
         /\ \A j \in DOMAIN RemoveAt(s, i) : \E k \in DOMAIN s \ {i} :
              k = (IF j < i THEN j ELSE j + 1) /\ RemoveAt(s, i)[j] = s[k]
<1> DEFINE a == SubSeq(s, 1, i - 1)
           b == SubSeq(s, i + 1, Len(s))
<1>1. i \in 1..Len(s) /\ Len(s) \in Nat
  OBVIOUS
<1>2. /\ a \in Seq(S) /\ Len(a) = i - 1
      /\ \A j \in 1..Len(a) : a[j] = s[j]
  BY <1>1
<1>3. /\ b \in Seq(S) /\ Len(b) = Len(s) - i
      /\ \A j \in 1..Len(b) : b[j] = s[i + j]
  BY <1>1
<1>4. RemoveAt(s, i) = a \o b
  BY DEF RemoveAt
<1> HIDE DEF a, b
<1>5. /\ a \o b \in Seq(S) /\ Len(a \o b) = Len(s) - 1
      /\ \A j \in 1..Len(a \o b) :
           (a \o b)[j] = IF j <= Len(a) THEN a[j] ELSE b[j - Len(a)]
  BY <1>1, <1>2, <1>3
<1>6. ASSUME NEW j \in 1..Len(a \o b)
      PROVE  \E k \in DOMAIN s \ {i} :
               k = (IF j < i THEN j ELSE j + 1) /\ (a \o b)[j] = s[k]
  <2>1. CASE j < i
    BY <1>1, <1>2, <1>5, <2>1
  <2>2. CASE ~(j < i)
    <3>1. j + 1 \in 1..Len(s) /\ j + 1 # i /\ j - (i - 1) \in 1..Len(b)
      BY <1>1, <1>2, <1>3, <1>5, <2>2
    <3>2. (a \o b)[j] = b[j - (i - 1)] /\ b[j - (i - 1)] = s[i + (j - (i - 1))]
      BY <1>1, <1>2, <1>3, <1>5, <2>2, <3>1
    <3> QED BY <1>1, <1>5, <2>2, <3>1, <3>2
  <2> QED BY <2>1, <2>2
<1> QED BY <1>4, <1>5, <1>6
LEMMA Kept ==
  ASSUME NEW S, NEW s \in Seq(S), NEW i \in DOMAIN s, NEW k \in DOMAIN s, k # i
  PROVE  \E j \in DOMAIN RemoveAt(s, i) : RemoveAt(s, i)[j] = s[k]
<1> DEFINE a == SubSeq(s, 1, i - 1)
           b == SubSeq(s, i + 1, Len(s))
<1>1. i \in 1..Len(s) /\ k \in 1..Len(s) /\ Len(s) \in Nat
  OBVIOUS
<1>2. /\ a \in Seq(S) /\ Len(a) = i - 1
      /\ \A j \in 1..Len(a) : a[j] = s[j]
  BY <1>1
<1>3. /\ b \in Seq(S) /\ Len(b) = Len(s) - i
      /\ \A j \in 1..Len(b) : b[j] = s[i + j]
  BY <1>1
<1>4. RemoveAt(s, i) = a \o b
  BY DEF RemoveAt
<1> HIDE DEF a, b
<1>5. /\ DOMAIN (a \o b) = 1..(Len(s) - 1)
      /\ \A j \in 1..(Len(s) - 1) :
           (a \o b)[j] = IF j <= Len(a) THEN a[j] ELSE b[j - Len(a)]
  BY <1>1, <1>2, <1>3
<1>6. CASE k < i
  <2>1. k \in 1..(Len(s) - 1) /\ k \in 1..Len(a)
    BY <1>1, <1>2, <1>6
  <2>2. (a \o b)[k] = a[k]
    BY <1>2, <1>5, <2>1
  <2>3. a[k] = s[k]
    BY <1>2, <2>1
  <2> QED BY <1>4, <1>5, <2>1, <2>2, <2>3
<1>7. CASE k > i
  <2>1. /\ k - 1 \in 1..(Len(s) - 1) /\ ~(k - 1 <= Len(a))
        /\ (k - 1) - Len(a) \in 1..Len(b) /\ i + ((k - 1) - Len(a)) = k
    <3>1. PICK n, la, lb : n = Len(s) /\ la = Len(a) /\ lb = Len(b)
      OBVIOUS
    <3>2. i \in 1..n /\ k \in 1..n /\ n \in Nat /\ la = i - 1 /\ lb = n - i
      BY <1>1, <1>2, <1>3, <3>1
    <3>3. k - 1 \in 1..(n - 1) /\ ~(k - 1 <= la) /\ (k - 1) - la \in 1..lb
      BY <1>7, <3>2
    <3>4. i + ((k - 1) - la) = k
      BY <3>2
    <3> QED BY <3>1, <3>3, <3>4
  <2>2. (a \o b)[k - 1] = b[(k - 1) - Len(a)]
    BY <1>5, <2>1
  <2>3. b[(k - 1) - Len(a)] = s[k]
    BY <1>3, <2>1
  <2> QED BY <1>4, <1>5, <2>1, <2>2, <2>3
<1> QED BY <1>1, <1>6, <1>7

Entering == Where \ {"idle", "info", "reset"}

\* a handler knows the package it has
LEMMA Handles ==
  ASSUME Shape, NEW t \in Thread
  PROVE  /\ pc[t] = "info" => pkg[t].from \in Client /\ ~IsReset(pkg[t])
         /\ pc[t] = "reset" => pkg[t].room \in Room /\ IsReset(pkg[t])
         /\ pc[t] \in Entering =>
              /\ pkg[t] \in Package /\ pkg[t].type = "ENTER_ROOM" /\ ~IsReset(pkg[t])
              /\ pkg[t].room \in Room /\ pkg[t].from \in Client /\ pkg[t].count \in 0..1
<1>1. ASSUME pc[t] # "idle"
      PROVE  /\ pkg[t] \in Package /\ (pc[t] = "info" <=> pkg[t].type = "LOBBY_INFO")
             /\ pc[t] = "reset" <=> IsReset(pkg[t])
  BY <1>1 DEF Shape
<1>2. CASE pc[t] = "info"
  BY <1>1, <1>2, Packages DEF Entering
<1>3. CASE pc[t] = "reset"
  BY <1>1, <1>3, Packages DEF Entering
<1>4. CASE pc[t] \in Entering
  BY <1>1, <1>4, Packages DEF Entering, IsReset
<1> QED BY <1>2, <1>3, <1>4

\* a pointer leads to a client's session
LEMMA Objects ==
  ASSUME NEW c \in Client
  PROVE  Obj(c) \in Client
BY DEF Obj, Open

LEMMA OutsideTypes ==
  ASSUME TypeOK, Shape, Clients \/ CloseSessionOne \/ ResetArrives
  PROVE  TypeOK' /\ Shape'
<1>1. ASSUME NEW c \in Client, AskLobbyInfo(c) PROVE TypeOK' /\ Shape'
  <2>1. [type |-> "LOBBY_INFO", from |-> c] \in Package
    BY DEF Package
  <2>2. ~IsReset([type |-> "LOBBY_INFO", from |-> c])
    BY DEF IsReset
  <2>3. wire' = [wire EXCEPT ![c] = [type |-> "LOBBY_INFO", from |-> c]]
    BY <1>1 DEF AskLobbyInfo, Request
  <2>4. TypeOK'
    BY <1>1, <2>1, <2>3 DEF TypeOK, AskLobbyInfo, roomVars, threadVars, knowledge, sessions, outcome, ghosts
  <2>5. Shape'
    BY <1>1, <2>1, <2>2, <2>3 DEF TypeOK, Shape, AskLobbyInfo, threadVars, IsReset
  <2> QED BY <2>4, <2>5
<1>2. ASSUME NEW c \in Client, NEW r \in Room, AskEnterRoom(c, r) PROVE TypeOK' /\ Shape'
  <2> DEFINE p == [type |-> "ENTER_ROOM", from |-> c, room |-> r, count |-> view[c][r]]
  <2>1. p \in Package
    BY <1>2 DEF Package, AskEnterRoom
  <2>2. ~IsReset(p) /\ p.from = c
    BY DEF IsReset
  <2>3. wire' = [wire EXCEPT ![c] = p]
    BY <1>2 DEF AskEnterRoom, Request
  <2>4. wire' \in [Client -> Package \cup {Null}]
        /\ \A d \in Client : wire'[d] # Null =>
             wire'[d] \in Package /\ ~IsReset(wire'[d]) /\ wire'[d].from = d
    <3> HIDE DEF p
    <3> QED BY <2>1, <2>2, <2>3 DEF TypeOK, Shape
  <2>5. asked' \in 0..MaxAsk
    BY <1>2, LobbyBounds DEF TypeOK, AskEnterRoom
  <2>6. TypeOK'
    BY <1>2, <2>4, <2>5 DEF TypeOK, AskEnterRoom, roomVars, threadVars, knowledge, sessions, outcome, ghosts
  <2>7. Shape'
    BY <1>2, <2>4 DEF Shape, AskEnterRoom, threadVars, IsReset
  <2> QED BY <2>6, <2>7
<1>3. ASSUME NEW c \in Client, RequestArrives(c) PROVE TypeOK' /\ Shape'
  BY <1>3 DEF TypeOK, Shape, RequestArrives, Send, roomVars, threadVars, knowledge,
            sessions, outcome, ghosts, IsReset
<1>4. ASSUME NEW c \in Client, CloseClient(c) PROVE TypeOK' /\ Shape'
  BY <1>4 DEF TypeOK, Shape, CloseClient, roomVars, threadVars, outcome, ghosts, IsReset
<1>5. CASE CloseSessionOne
  BY <1>5 DEF TypeOK, Shape, CloseSessionOne, roomVars, threadVars, clientVars, knowledge, sessions, outcome, ghosts,
     IsReset
<1>6. CASE ResetArrives
  <2>1. [type |-> "INITIALIZE_ROOMMEMBER", room |-> Head(ended)] \in Package
    BY <1>6 DEF ResetArrives, TypeOK, Package
  <2> QED BY <1>6, <2>1
          DEF TypeOK, Shape, ResetArrives, Send, roomVars, threadVars, clientVars, knowledge, sessions, outcome, ghosts,
              IsReset
<1>7. ASSUME NEW c \in Client, NEW a \in Address, Connect(c, a) PROVE TypeOK' /\ Shape'
  BY <1>7 DEF TypeOK, Shape, Connect, roomVars, threadVars, clientVars, knowledge, outcome,
     ghosts, IsReset
<1> QED BY <1>1, <1>2, <1>3, <1>4, <1>5, <1>6, <1>7 DEF Clients

LEMMA GameEndsTypes ==
  ASSUME TypeOK, Shape, NEW i \in DOMAIN games, GameEnds(i)
  PROVE  TypeOK' /\ Shape'
<1>1. games' \in Seq([room : Room, id1 : Client, id2 : Client])
  BY Removed DEF GameEnds, TypeOK
<1>2. games[i].room \in Room
  <2>1. games \in Seq([room : Room, id1 : Client, id2 : Client])
    BY DEF TypeOK
  <2>2. games[i] \in [room : Room, id1 : Client, id2 : Client]
    BY <2>1, Removed
  <2> QED BY <2>2
<1> QED BY <1>1, <1>2
        DEF TypeOK, Shape, GameEnds, roomVars, threadVars, clientVars, sessions, ghosts, IsReset

LEMMA TakeTypes ==
  ASSUME TypeOK, Shape, NEW t \in Thread, TakePackage(t)
  PROVE  TypeOK' /\ Shape'
<1>1. Head(queue) \in Package /\ Tail(queue) \in Seq(Package)
  BY DEF TypeOK, TakePackage
<1>2. PICK p : p = Head(queue)
  OBVIOUS
<1>3. /\ pkg' = [pkg EXCEPT ![t] = p] /\ pc' = [pc EXCEPT ![t] = FirstStep(p)]
      /\ p \in Package
  BY <1>1, <1>2 DEF TakePackage
<1>4. /\ FirstStep(p) \in Where
      /\ FirstStep(p) = "info" <=> p.type = "LOBBY_INFO"
      /\ FirstStep(p) = "reset" <=> IsReset(p)
      /\ FirstStep(p) \notin {"notify", "handoff"}
  BY <1>3, Packages DEF FirstStep, IsReset, Where
<1>5. TypeOK'
  BY <1>1, <1>3, <1>4 DEF TypeOK, TakePackage, roomVars, clientVars, knowledge, sessions,
     outcome
<1>6. Shape'
  BY <1>3, <1>4 DEF TypeOK, Shape, TakePackage, clientVars, IsReset
<1> QED BY <1>5, <1>6

LEMMA StepShape ==
  ASSUME TypeOK, Shape, NEW t \in Thread, NEW l \in Where, pc' = [pc EXCEPT ![t] = l],
         l = "idle" \/ (l \in Entering /\ pc[t] \in Entering /\ pkg' = pkg),
         \A u \in Thread \ {t} : pkg'[u] = pkg[u] /\ ids'[u] = ids[u],
         l \in {"notify", "handoff"} => ids'[t] \in Client \X Client,
         UNCHANGED wire
  PROVE  Shape'
<1>1. /\ pc'[t] = l
      /\ \A u \in Thread \ {t} : pc'[u] = pc[u] /\ pkg'[u] = pkg[u] /\ ids'[u] = ids[u]
  BY DEF TypeOK
<1>2. l # "idle" => /\ pc[t] \in Entering /\ pkg'[t] = pkg[t] /\ l \in Entering
                    /\ l # "info" /\ l # "reset"
                    /\ pc[t] # "info" /\ pc[t] # "reset" /\ pc[t] # "idle"
  BY DEF Entering
<1>3. ASSUME NEW u \in Thread, pc'[u] # "idle"
      PROVE  /\ pkg'[u] \in Package
             /\ pc'[u] = "info" <=> pkg'[u].type = "LOBBY_INFO"
             /\ pc'[u] = "reset" <=> IsReset(pkg'[u])
             /\ pc'[u] \in {"notify", "handoff"} => ids'[u] \in Client \X Client
  BY <1>1, <1>2, <1>3 DEF Shape
<1> QED BY <1>3 DEF Shape, IsReset

LEMMA FinishTypes ==
  ASSUME TypeOK, NEW t \in Thread, Finish(t)
  PROVE  /\ pc' \in [Thread -> Where] /\ pkg' \in [Thread -> Package \cup {Null}]
         /\ ids' \in [Thread -> (Client \cup {Null}) \X (Client \cup {Null})]
         /\ ret' \in [Thread -> 0..2]
BY DEF TypeOK, Finish, Where

LEMMA HandlerTypes ==
  ASSUME TypeOK, Shape, NEW t \in Thread, Handler(t)
  PROVE  TypeOK' /\ Shape'
<1> USE DEF roomVars, threadVars, clientVars, knowledge, sessions, outcome, ghosts, Goto,
            Finish, At, Crash, Using, MayStop, Follow, Where
<1>1. CASE C_REQ_LOBBY_INFO(t)
  <2>1. TypeOK'
    <3>1. view' \in [Client -> [Room -> 0..2 \cup {Null}]] /\ storage' \subseteq Client
      <4>1. member \in [Room -> 0..2 \cup {Null}]
        BY DEF TypeOK
      <4>2. Obj(pkg[t].from) \in Client
        BY <1>1, Handles, Objects DEF C_REQ_LOBBY_INFO
      <4> QED BY <1>1, <4>1, <4>2 DEF C_REQ_LOBBY_INFO, TypeOK
    <3>2. running' \in BOOLEAN
      BY <1>1 DEF C_REQ_LOBBY_INFO
    <3>3. Finish(t)
      BY <1>1 DEF C_REQ_LOBBY_INFO
    <3> QED BY <1>1, <3>1, <3>2, <3>3, FinishTypes DEF C_REQ_LOBBY_INFO, TypeOK
  <2>2. Shape'
    BY <1>1, StepShape DEF C_REQ_LOBBY_INFO, TypeOK
  <2> QED BY <2>1, <2>2
<1>2. CASE I_INITIALIZE_ROOMMEMBER(t)
  <2>1. TypeOK'
    BY <1>2, Handles DEF I_INITIALIZE_ROOMMEMBER, TypeOK
  <2>2. Shape'
    BY <1>2, StepShape DEF I_INITIALIZE_ROOMMEMBER, TypeOK
  <2> QED BY <2>1, <2>2
<1> DEFINE r == pkg[t].room
           c == pkg[t].from
<1> USE DEF Entering
<1>3. CASE EnterCheck(t)
  <2>1. TypeOK'
    <3>1. CASE Finish(t)
      BY <1>3, <3>1, FinishTypes DEF EnterCheck, TypeOK
    <3>2. CASE Goto(t, "count")
      BY <1>3, <3>2 DEF EnterCheck, TypeOK
    <3> QED BY <1>3, <3>1, <3>2 DEF EnterCheck
  <2>2. Shape'
    BY <1>3, StepShape DEF EnterCheck, TypeOK
  <2> QED BY <2>1, <2>2
<1>4. CASE EnterCount(t)
  <2>1. r \in Room /\ pkg[t].count + 1 \in 0..2
    BY <1>4, Handles DEF EnterCount
  <2> QED BY <1>4, <2>1, StepShape DEF EnterCount, TypeOK
<1>5. CASE EnterSeat(t)
  BY <1>5, StepShape DEF EnterSeat, TypeOK
<1>6. CASE TakeSeat(t)
  <2>1. r \in Room /\ c \in Client
    BY <1>6, Handles DEF TakeSeat
  <2>2. TypeOK'
    <3>1. user1' \in [Room -> Client \cup {Null}] /\ user2' \in [Room -> Client \cup {Null}]
      BY <1>6, <2>1 DEF TakeSeat, TypeOK
    <3>2. waiting' \in [Room -> SUBSET Client]
      BY <1>6, <2>1 DEF TakeSeat, TypeOK
    <3> QED BY <1>6, <3>1, <3>2 DEF TakeSeat, TypeOK
  <2>3. Shape'
    BY <1>6, StepShape DEF TakeSeat, TypeOK
  <2> QED BY <2>2, <2>3
<1>7. CASE AnnounceBegins(t)
  <2>1. r \in Room /\ ret' \in [Thread -> 0..2]
    BY <1>7, Handles DEF AnnounceBegins, TypeOK
  <2>2. TypeOK'
    BY <1>7, <2>1 DEF AnnounceBegins, TypeOK
  <2>3. Shape'
    BY <1>7, StepShape DEF AnnounceBegins, TypeOK
  <2> QED BY <2>2, <2>3
<1>8. CASE Announce(t)
  <2>1. r \in Room
    BY <1>8, Handles DEF Announce
  <2>2. view' \in [Client -> [Room -> 0..2 \cup {Null}]]
    BY <1>8, <2>1 DEF Announce, TypeOK
  <2>3. TypeOK'
    BY <1>8, <2>2 DEF Announce, TypeOK
  <2>4. Shape'
    BY <1>8, StepShape DEF Announce
  <2> QED BY <2>3, <2>4
<1>9. CASE RoomIsFull(t)
  <2>1. TypeOK'
    <3>1. CASE Finish(t)
      BY <1>9, <3>1, FinishTypes DEF RoomIsFull, TypeOK
    <3>2. CASE Goto(t, "ids")
      BY <1>9, <3>2 DEF RoomIsFull, TypeOK
    <3> QED BY <1>9, <3>1, <3>2 DEF RoomIsFull
  <2>2. Shape'
    BY <1>9, StepShape DEF RoomIsFull, TypeOK
  <2> QED BY <2>1, <2>2
<1>10. CASE ReadIds(t)
  <2>1. CASE Crash
    BY <2>1 DEF TypeOK, Shape, IsReset
  <2>2. CASE ~Crash
    <3>1. r \in Room /\ Obj(user1[r]) \in Client /\ Obj(user2[r]) \in Client
      BY <1>10, <2>2, Handles, Objects DEF ReadIds, TypeOK
    <3>2. /\ ids' = [ids EXCEPT ![t] = <<Obj(user1[r]), Obj(user2[r])>>]
          /\ running' \in BOOLEAN /\ met' = met /\ mistaken' \in BOOLEAN
          /\ pc' = [pc EXCEPT ![t] = "notify"] /\ pc[t] = "ids"
          /\ UNCHANGED <<roomVars, storage, sessions, queue, pkg, ret, clientVars, knowledge,
                         outcome>>
      BY <1>10, <2>2 DEF ReadIds, TypeOK
    <3>3. TypeOK'
      BY <3>1, <3>2 DEF TypeOK
    <3>4. Shape'
      BY <3>1, <3>2, StepShape DEF TypeOK
    <3> QED BY <3>3, <3>4
  <2> QED BY <2>1, <2>2
<1>11. CASE NotifyUser1(t)
  <2>1. r \in Room
    BY <1>11, Handles DEF NotifyUser1
  <2>2. CASE Crash
    BY <2>2 DEF TypeOK, Shape, IsReset
  <2>3. CASE ~Crash
    <3>1. Tell(r, user1[r]) /\ Obj(user1[r]) \in Client
      BY <1>11, <2>1, <2>3, Objects DEF NotifyUser1, TypeOK
    <3>2. told' \subseteq Client /\ waiting' \in [Room -> SUBSET Client]
      BY <2>1, <3>1 DEF Tell, TypeOK
    <3>3. TypeOK'
      BY <1>11, <2>1, <2>3, <3>2 DEF NotifyUser1, TypeOK
    <3>4. Shape'
      BY <1>11, <2>3 DEF NotifyUser1, Shape, IsReset
    <3> QED BY <3>3, <3>4
  <2> QED BY <2>2, <2>3
<1>12. CASE NotifyUser2(t)
  <2>1. r \in Room
    BY <1>12, Handles DEF NotifyUser2
  <2>2. CASE Crash
    BY <2>2 DEF TypeOK, Shape, IsReset
  <2>3. CASE ~Crash
    <3>1. Tell(r, user2[r]) /\ Obj(user2[r]) \in Client
      BY <1>12, <2>1, <2>3, Objects DEF NotifyUser2, TypeOK
    <3>2. told' \subseteq Client /\ waiting' \in [Room -> SUBSET Client]
      BY <2>1, <3>1 DEF Tell, TypeOK
    <3>3. TypeOK'
      BY <1>12, <2>1, <2>3, <3>2 DEF NotifyUser2, TypeOK
    <3>4. Shape'
      <4>1. ids[t] \in Client \X Client
        BY <1>12 DEF NotifyUser2, Shape
      <4> QED BY <1>12, <2>3, <4>1, StepShape DEF NotifyUser2, TypeOK
    <3> QED BY <3>3, <3>4
  <2> QED BY <2>2, <2>3
<1>13. CASE HandOff(t)
  <2>1. r \in Room /\ ids[t] \in Client \X Client
    BY <1>13, Handles DEF HandOff, Shape
  <2>2. [room |-> r, id1 |-> ids[t][1], id2 |-> ids[t][2]]
          \in [room : Room, id1 : Client, id2 : Client]
    BY <2>1
  <2>3. TypeOK'
    BY <1>13, <2>2 DEF HandOff, TypeOK
  <2>4. Shape'
    BY <1>13, StepShape DEF HandOff
  <2> QED BY <2>3, <2>4
<1>14. CASE ClearRoom(t)
  <2>1. TypeOK'
    <3>1. r \in Room /\ running' \in BOOLEAN
      BY <1>14, Handles DEF ClearRoom
    <3>2. user1' \in [Room -> Client \cup {Null}] /\ storage' \subseteq Client
      BY <1>14, <3>1 DEF ClearRoom, TypeOK
    <3>3. Finish(t)
      BY <1>14 DEF ClearRoom
    <3> QED BY <1>14, <3>1, <3>2, <3>3, FinishTypes DEF ClearRoom, TypeOK
  <2>2. Shape'
    BY <1>14, StepShape DEF ClearRoom, TypeOK
  <2> QED BY <2>1, <2>2
<1> QED BY <1>1, <1>2, <1>3, <1>4, <1>5, <1>6, <1>7, <1>8, <1>9, <1>10, <1>11, <1>12,
           <1>13, <1>14 DEF Handler, EnterRoom

LEMMA TypesKept == TypeOK /\ Shape /\ [Next]_vars => TypeOK' /\ Shape'
<1> SUFFICES ASSUME TypeOK, Shape, [Next]_vars PROVE TypeOK' /\ Shape'
  OBVIOUS
<1>1. CASE UNCHANGED vars
  BY <1>1 DEF vars, TypeOK, Shape, IsReset
<1> QED BY <1>1, OutsideTypes, GameEndsTypes, TakeTypes, HandlerTypes DEF Next, LobbyStep

LEMMA InitTypes == LobbyInit => TypeOK /\ Shape
<1> SUFFICES ASSUME LobbyInit PROVE TypeOK /\ Shape
  OBVIOUS
<1>1. /\ view \in [Client -> [Room -> 0..2 \cup {Null}]]
      /\ asked \in 0..MaxAsk /\ wire \in [Client -> Package \cup {Null}]
  BY LobbyBounds DEF LobbyInit
<1>2. /\ pc \in [Thread -> Where] /\ pkg \in [Thread -> Package \cup {Null}]
      /\ ids \in [Thread -> (Client \cup {Null}) \X (Client \cup {Null})]
      /\ ret \in [Thread -> 0..2]
  BY DEF LobbyInit, Where
<1>3. /\ user1 \in [Room -> Client \cup {Null}] /\ user2 \in [Room -> Client \cup {Null}]
      /\ member \in [Room -> 0..2] /\ waiting \in [Room -> SUBSET Client]
      /\ addr \in [Client -> Address \cup {Null}]
  BY DEF LobbyInit
<1>4. /\ queue \in Seq(Package) /\ ended \in Seq(Room)
      /\ games \in Seq([room : Room, id1 : Client, id2 : Client])
  BY DEF LobbyInit
<1>5. /\ running \in BOOLEAN /\ sessionOne \in BOOLEAN /\ met \in BOOLEAN /\ mistaken \in BOOLEAN
      /\ storage \subseteq Client /\ closed \subseteq Client /\ told \subseteq Client
  BY DEF LobbyInit
<1>6. TypeOK
  BY <1>1, <1>2, <1>3, <1>4, <1>5 DEF TypeOK
<1>7. Shape
  BY DEF LobbyInit, Shape
<1> QED BY <1>6, <1>7

(***************************************************************************)
(* The variables keep their types, however the handlers interleave: the    *)
(* count of a room stays between 0 and 2, and only clients are handed to   *)
(* the game server, since a null seat stops the process first.             *)
(***************************************************************************)
THEOREM LobbyTypes == Spec => []TypeOK
<1> QED BY InitTypes, TypesKept, PTL DEF Spec
-----------------------------------------------------------------------------
(***************************************************************************)
(* What the queue holds after a package is added or taken.                 *)
(***************************************************************************)
LEMMA Enqueued ==
  ASSUME TypeOK, NEW p \in Package, queue' = Append(queue, p)
  PROVE  /\ \A r : InQueue(r)' <=> InQueue(r) \/ (IsReset(p) /\ p.room = r)
         /\ \A c : InLine(c)' <=> InLine(c) \/ (~IsReset(p) /\ p.from = c)
         /\ OneReset /\ (IsReset(p) => ~InQueue(p.room)) => OneReset'
         /\ OneInLine /\ (~IsReset(p) => ~InLine(p.from)) => OneInLine'
<1>1. /\ DOMAIN queue' = DOMAIN queue \cup {Len(queue) + 1}
      /\ queue'[Len(queue) + 1] = p
      /\ \A i \in DOMAIN queue : queue'[i] = queue[i] /\ i # Len(queue) + 1
  BY DEF TypeOK
<1>2. \A r : InQueue(r)' <=> InQueue(r) \/ (IsReset(p) /\ p.room = r)
  BY <1>1 DEF InQueue, IsReset
<1>3. \A c : InLine(c)' <=> InLine(c) \/ (~IsReset(p) /\ p.from = c)
  BY <1>1 DEF InLine, IsReset
<1>4. OneReset /\ (IsReset(p) => ~InQueue(p.room)) => OneReset'
  BY <1>1 DEF OneReset, InQueue, IsReset
<1>5. OneInLine /\ (~IsReset(p) => ~InLine(p.from)) => OneInLine'
  BY <1>1 DEF OneInLine, InLine, IsReset
<1> QED BY <1>2, <1>3, <1>4, <1>5

LEMMA Dequeued ==
  ASSUME TypeOK, queue # <<>>, queue' = Tail(queue)
  PROVE  /\ OneReset => OneReset' /\ \A r : InQueue(r)' =>
              InQueue(r) /\ ~(IsReset(Head(queue)) /\ Head(queue).room = r)
         /\ OneInLine => OneInLine' /\ \A c : InLine(c)' =>
              InLine(c) /\ ~(~IsReset(Head(queue)) /\ Head(queue).from = c)
         /\ IsReset(Head(queue)) => InQueue(Head(queue).room)
         /\ ~IsReset(Head(queue)) => InLine(Head(queue).from)
<1>1. /\ 1 \in DOMAIN queue /\ queue[1] = Head(queue)
      /\ \A i \in DOMAIN queue' : /\ i + 1 \in DOMAIN queue /\ i + 1 # 1
                                  /\ queue'[i] = queue[i + 1]
      /\ \A i, j \in DOMAIN queue' : i + 1 = j + 1 => i = j
  BY DEF TypeOK
<1>2. ASSUME OneReset
      PROVE  OneReset' /\ \A r : InQueue(r)' =>
               InQueue(r) /\ ~(IsReset(Head(queue)) /\ Head(queue).room = r)
  <2>1. OneReset'
    BY <1>1, <1>2 DEF OneReset, IsReset
  <2>2. ASSUME NEW r, InQueue(r)'
        PROVE  InQueue(r) /\ ~(IsReset(Head(queue)) /\ Head(queue).room = r)
    BY <1>1, <1>2, <2>2 DEF InQueue, OneReset, IsReset
  <2> QED BY <2>1, <2>2
<1>3. ASSUME OneInLine
      PROVE  OneInLine' /\ \A c : InLine(c)' =>
               InLine(c) /\ ~(~IsReset(Head(queue)) /\ Head(queue).from = c)
  <2>1. OneInLine'
    BY <1>1, <1>3 DEF OneInLine, IsReset
  <2>2. ASSUME NEW c, InLine(c)'
        PROVE  InLine(c) /\ ~(~IsReset(Head(queue)) /\ Head(queue).from = c)
    BY <1>1, <1>3, <2>2 DEF InLine, OneInLine, IsReset
  <2> QED BY <2>1, <2>2
<1>4. /\ IsReset(Head(queue)) => InQueue(Head(queue).room)
      /\ ~IsReset(Head(queue)) => InLine(Head(queue).from)
  BY <1>1 DEF InQueue, InLine
<1> QED BY <1>2, <1>3, <1>4

-----------------------------------------------------------------------------
(***************************************************************************)
(* The rooms: a step moves the match of at most one room.                  *)
(***************************************************************************)
\* what a step of t leaves to the other threads
Others(t) == \A u \in Thread \ {t} : pc'[u] = pc[u] /\ pkg'[u] = pkg[u] /\ ids'[u] = ids[u]

LEMMA OthersKeep ==
  ASSUME TypeOK, NEW t \in Thread, TakePackage(t) \/ Handler(t)
  PROVE  Others(t)
<1> USE DEF Others, TypeOK, At, Goto, Finish, Crash, threadVars
<1>1. CASE TakePackage(t)
  BY <1>1 DEF TakePackage
<1>2. CASE C_REQ_LOBBY_INFO(t) \/ I_INITIALIZE_ROOMMEMBER(t)
  BY <1>2 DEF C_REQ_LOBBY_INFO, I_INITIALIZE_ROOMMEMBER
<1>3. CASE EnterCheck(t) \/ EnterCount(t) \/ EnterSeat(t) \/ TakeSeat(t) \/ AnnounceBegins(t)
  BY <1>3 DEF EnterCheck, EnterCount, EnterSeat, TakeSeat, AnnounceBegins
<1>4. CASE Announce(t) \/ RoomIsFull(t) \/ HandOff(t) \/ ClearRoom(t)
  BY <1>4 DEF Announce, RoomIsFull, HandOff, ClearRoom
<1>5. CASE ReadIds(t) \/ NotifyUser1(t) \/ NotifyUser2(t)
  BY <1>5 DEF ReadIds, NotifyUser1, NotifyUser2
<1> QED BY <1>1, <1>2, <1>3, <1>4, <1>5 DEF Handler, EnterRoom

\* a handler goes on with its package or ends
LEMMA HandlerGoesOn ==
  ASSUME TypeOK, NEW t \in Thread, Handler(t)
  PROVE  /\ pc'[t] = "idle" \/ (HasRoom(t) /\ pkg'[t] = pkg[t])
         /\ met' = met /\ (mistaken => mistaken')
<1> USE DEF HasRoom, TypeOK, At, Goto, Finish, Crash, threadVars, ghosts, Follow
<1>2. CASE C_REQ_LOBBY_INFO(t) \/ I_INITIALIZE_ROOMMEMBER(t)
  BY <1>2 DEF C_REQ_LOBBY_INFO, I_INITIALIZE_ROOMMEMBER
<1>3. CASE EnterCheck(t) \/ EnterCount(t) \/ EnterSeat(t) \/ TakeSeat(t) \/ AnnounceBegins(t)
  BY <1>3 DEF EnterCheck, EnterCount, EnterSeat, TakeSeat, AnnounceBegins
<1>4. CASE Announce(t) \/ RoomIsFull(t) \/ HandOff(t) \/ ClearRoom(t)
  BY <1>4 DEF Announce, RoomIsFull, HandOff, ClearRoom
<1>5. CASE ReadIds(t) \/ NotifyUser1(t) \/ NotifyUser2(t)
  BY <1>5 DEF ReadIds, NotifyUser1, NotifyUser2
<1> QED BY <1>2, <1>3, <1>4, <1>5 DEF Handler, EnterRoom

\* what happens outside the threads is no step of theirs
LEMMA OutsideStays ==
  ASSUME Clients \/ CloseSessionOne \/ ResetArrives \/ (\E i \in DOMAIN games : GameEnds(i))
  PROVE  UNCHANGED <<pc, pkg, ids, met, mistaken>>
BY DEF Clients, Connect, AskLobbyInfo, AskEnterRoom, RequestArrives, CloseClient,
       CloseSessionOne, ResetArrives, GameEnds, threadVars, ghosts

LEMMA AloneKept ==
  ASSUME TypeOK, [Next]_vars, ~met'
  PROVE  ~met /\ (Alone => Alone')
<1>1. CASE UNCHANGED <<pc, pkg, met>>
  BY <1>1 DEF Alone, HasRoom
<1>2. ASSUME NEW t \in Thread, TakePackage(t)
      PROVE  ~met /\ (Alone => Alone')
  <2>1. PICK p : p = Head(queue)
    OBVIOUS
  <2>2. /\ Others(t) /\ pkg'[t] = p /\ pc'[t] = FirstStep(p)
        /\ met' = (met \/ Meets(t, p))
    BY <1>2, <2>1, OthersKeep DEF TakePackage, TypeOK
  <2>3. ASSUME NEW u \in Thread \ {t}, HasRoom(t)', HasRoom(u)'
        PROVE  pkg'[t].room # pkg'[u].room
    <3>1. p.type # "LOBBY_INFO"
      BY <2>2, <2>3 DEF HasRoom, FirstStep
    <3>2. HasRoom(u) /\ pkg'[u] = pkg[u]
      BY <2>2, <2>3 DEF HasRoom, Others
    <3> QED BY <2>2, <3>1, <3>2 DEF Meets
  <2>4. ASSUME Alone, NEW u \in Thread \ {t}, NEW v \in Thread \ {t},
               HasRoom(u)', HasRoom(v)', pkg'[u].room = pkg'[v].room
        PROVE  u = v
    BY <2>2, <2>4 DEF Alone, HasRoom, Others
  <2> QED BY <2>2, <2>3, <2>4 DEF Alone
<1>3. ASSUME NEW t \in Thread, Handler(t)
      PROVE  ~met /\ (Alone => Alone')
  <2>1. Others(t)
    BY <1>3, OthersKeep
  <2>2. met' = met /\ (pc'[t] = "idle" \/ (HasRoom(t) /\ pkg'[t] = pkg[t]))
    BY <1>3, HandlerGoesOn
  <2>3. \A u \in Thread : HasRoom(u)' => HasRoom(u) /\ pkg'[u] = pkg[u]
    BY <2>1, <2>2 DEF HasRoom, Others
  <2> QED BY <2>2, <2>3 DEF Alone
<1>4. CASE UNCHANGED vars
  BY <1>1, <1>4 DEF vars
<1> QED BY <1>1, <1>2, <1>3, <1>4, OutsideStays DEF Next, LobbyStep

LEMMA AtRoom ==
  ASSUME Alone, NEW t \in Thread, Others(t), HasRoom(t), NEW q, q = pkg[t].room
  PROVE  /\ InReset(q) <=> pc[t] = "reset"
         /\ InMatch(q) <=> pc[t] \in Matching
         /\ InReset(q)' <=> pc'[t] = "reset" /\ pkg'[t].room = q
         /\ InMatch(q)' <=> pc'[t] \in Matching /\ pkg'[t].room = q
<1>1. \A u \in Thread \ {t} : pc[u] = "reset" \/ pc[u] \in Matching => pkg[u].room # q
  BY DEF Alone, HasRoom, Matching
<1> QED BY <1>1 DEF Others, InReset, InMatch

LEMMA OtherRooms ==
  ASSUME NEW t \in Thread, Others(t)
  PROVE  \A r : /\ InReset(r)' => InReset(r) \/ (pc'[t] = "reset" /\ pkg'[t].room = r)
                /\ InMatch(r)' => InMatch(r) \/ (pc'[t] \in Matching /\ pkg'[t].room = r)
BY DEF Others, InReset, InMatch

LEMMA OthersCounted ==
  ASSUME Counted, NEW t \in Thread, Others(t),
         \A u \in Thread \ {t} : HasRoom(u) => member'[pkg[u].room] = member[pkg[u].room],
         pc'[t] = "count" => member'[pkg'[t].room] < 2,
         pc'[t] \in {"ids", "notify", "handoff"} => member'[pkg'[t].room] = 2
  PROVE  Counted'
<1>1. ASSUME NEW u \in Thread \ {t}, HasRoom(u)
      PROVE  /\ pc'[u] = pc[u]
             /\ member'[pkg'[u].room] = member[pkg[u].room]
  BY <1>1 DEF Others
<1>2. \A u \in Thread \ {t} : ~HasRoom(u) => pc'[u] \in {"idle", "info"}
  BY DEF Others, HasRoom
<1> QED BY <1>1, <1>2 DEF Counted

RoomStays(r) == /\ InGames(r)' => InGames(r)
                /\ InEnded(r)' => InEnded(r)
                /\ InQueue(r)' => InQueue(r)
                /\ InReset(r)' => InReset(r)
                /\ InMatch(r)' => InMatch(r)
                /\ member'[r] = member[r]

LEMMA RoomsMove ==
  ASSUME RoomInv, \A r \in Room : RoomStays(r) \/ ApartRoom(r)'
  PROVE  \A r \in Room : ApartRoom(r)'
BY DEF RoomInv, ApartRoom, Held, RoomStays

\* what a room's match is told from
matches == <<member, games, ended>>

LEMMA MatchesStay ==
  ASSUME UNCHANGED matches
  PROVE  /\ OneGame => OneGame'
         /\ OneEnded => OneEnded'
         /\ \A r : (InGames(r)' <=> InGames(r)) /\ (InEnded(r)' <=> InEnded(r))
         /\ member' = member
BY DEF matches, OneGame, OneEnded, InGames, InEnded

LEMMA QueueStays ==
  ASSUME UNCHANGED queue
  PROVE  /\ OneReset => OneReset'
         /\ OneInLine => OneInLine'
         /\ \A r : InQueue(r)' <=> InQueue(r)
         /\ \A c : InLine(c)' <=> InLine(c)
BY DEF OneReset, OneInLine, InQueue, InLine, IsReset

LEMMA ThreadsStay ==
  ASSUME UNCHANGED <<pc, pkg, member>>
  PROVE  /\ Counted => Counted'
         /\ \A r : (InReset(r)' <=> InReset(r)) /\ (InMatch(r)' <=> InMatch(r))
BY DEF Counted, InReset, InMatch

LEMMA ClientsKeepRooms ==
  ASSUME TypeOK, Shape, RoomInv, Clients \/ CloseSessionOne
  PROVE  RoomInv'
<1>1. UNCHANGED matches /\ UNCHANGED <<pc, pkg>>
  BY DEF Clients, Connect, AskLobbyInfo, AskEnterRoom, RequestArrives, CloseClient,
         CloseSessionOne, roomVars, threadVars, matches, outcome
<1>2. OneReset' /\ \A r : InQueue(r)' => InQueue(r)
  <2>1. CASE UNCHANGED queue
    BY <2>1, QueueStays DEF RoomInv
  <2>2. ASSUME NEW c \in Client, RequestArrives(c)
        PROVE  OneReset' /\ \A r : InQueue(r)' => InQueue(r)
    <3>1. PICK p \in Package : ~IsReset(p) /\ queue' = Append(queue, p)
      BY <2>2 DEF RequestArrives, Send, Shape
    <3> QED BY <3>1, Enqueued DEF RoomInv
  <2> QED BY <2>1, <2>2
          DEF Clients, Connect, AskLobbyInfo, AskEnterRoom, CloseClient, CloseSessionOne
<1>3. \A r \in Room : RoomStays(r)
  BY <1>1, <1>2, MatchesStay, ThreadsStay DEF RoomStays, matches
<1>4. \A r \in Room : ApartRoom(r)'
  BY <1>3, RoomsMove
<1> QED BY <1>1, <1>2, <1>4, MatchesStay, ThreadsStay DEF RoomInv, matches

LEMMA GameEndsRooms ==
  ASSUME TypeOK, RoomInv, NEW i \in DOMAIN games, GameEnds(i)
  PROVE  RoomInv'
<1>q. PICK q : q = games[i].room
  OBVIOUS
<1>1. /\ UNCHANGED <<queue, pc, pkg, member>>
      /\ games' = RemoveAt(games, i) /\ ended' = Append(ended, q)
      /\ games \in Seq([room : Room, id1 : Client, id2 : Client]) /\ ended \in Seq(Room)
  BY <1>q DEF GameEnds, TypeOK, roomVars, threadVars
<1>2. q \in Room /\ InGames(q) /\ ApartRoom(q)
  <2>1. games[i] \in [room : Room, id1 : Client, id2 : Client]
    BY <1>1, Removed
  <2>2. q \in Room
    BY <1>q, <2>1
  <2> QED BY <1>q, <2>2 DEF InGames, RoomInv
<1>3. OneGame' /\ \A r : InGames(r)' => InGames(r) /\ r # q
  <2>1. \A j \in DOMAIN games' : \E k \in DOMAIN games \ {i} :
          k = (IF j < i THEN j ELSE j + 1) /\ games'[j] = games[k]
    BY <1>1, Removed
  <2>2. DOMAIN games' \subseteq Nat /\ i \in Nat
    BY <1>1, Removed
  <2>3. ASSUME NEW j \in DOMAIN games', NEW k \in DOMAIN games', games'[j].room = games'[k].room
        PROVE  j = k
    <3>1. PICK m \in DOMAIN games \ {i} : m = (IF j < i THEN j ELSE j + 1) /\ games'[j] = games[m]
      BY <2>1
    <3>2. PICK n \in DOMAIN games \ {i} : n = (IF k < i THEN k ELSE k + 1) /\ games'[k] = games[n]
      BY <2>1
    <3>3. m = n
      BY <2>3, <3>1, <3>2 DEF RoomInv, OneGame
    <3> QED BY <2>2, <3>1, <3>2, <3>3
  <2>4. \A r : InGames(r)' => InGames(r) /\ r # q
    BY <1>q, <2>1 DEF InGames, RoomInv, OneGame
  <2> QED BY <2>3, <2>4 DEF OneGame
<1>4. OneEnded' /\ \A r : InEnded(r)' => InEnded(r) \/ r = q
  <2>1. /\ DOMAIN ended' = DOMAIN ended \cup {Len(ended) + 1}
        /\ ended'[Len(ended) + 1] = q
        /\ \A j \in DOMAIN ended : ended'[j] = ended[j]
    BY <1>1, <1>2
  <2>2. ~InEnded(q)
    BY <1>2 DEF ApartRoom
  <2> QED BY <2>1, <2>2 DEF OneEnded, InEnded, RoomInv
<1>5. OneReset' /\ Counted' /\ \A r : /\ InQueue(r)' <=> InQueue(r)
                                      /\ InReset(r)' <=> InReset(r)
                                      /\ InMatch(r)' <=> InMatch(r)
  BY <1>1, QueueStays, ThreadsStay DEF RoomInv
<1>6. ApartRoom(q)'
  BY <1>1, <1>2, <1>3, <1>5 DEF ApartRoom, Held
<1>7. \A r \in Room \ {q} : RoomStays(r)
  BY <1>1, <1>3, <1>4, <1>5 DEF RoomStays
<1>8. \A r \in Room : ApartRoom(r)'
  BY <1>6, <1>7, RoomsMove
<1> QED BY <1>3, <1>4, <1>5, <1>8 DEF RoomInv

LEMMA ResetArrivesRooms ==
  ASSUME TypeOK, RoomInv, ResetArrives
  PROVE  RoomInv'
<1>q. PICK q, p : /\ q = Head(ended)
                  /\ p = [type |-> "INITIALIZE_ROOMMEMBER", room |-> q]
  OBVIOUS
<1>1. /\ UNCHANGED <<games, pc, pkg, member>>
      /\ queue' = Append(queue, p) /\ ended' = Tail(ended) /\ ended # <<>> /\ ended \in Seq(Room)
  BY <1>q DEF ResetArrives, Send, TypeOK, roomVars, threadVars
<1>2. q \in Room /\ p \in Package /\ IsReset(p) /\ p.room = q
  BY <1>q, <1>1 DEF Package, IsReset
<1>3. /\ 1 \in DOMAIN ended /\ ended[1] = q
      /\ \A i \in DOMAIN ended' : i + 1 \in DOMAIN ended /\ i + 1 # 1 /\ ended'[i] = ended[i + 1]
      /\ \A i, j \in DOMAIN ended' : i + 1 = j + 1 => i = j
  BY <1>q, <1>1
<1>4. InEnded(q) /\ ApartRoom(q) /\ OneEnded /\ OneReset
  BY <1>2, <1>3 DEF InEnded, RoomInv
<1>5. OneEnded' /\ \A r : InEnded(r)' => InEnded(r) /\ r # q
  <2>1. OneEnded'
    BY <1>3, <1>4 DEF OneEnded
  <2>2. ASSUME NEW r, InEnded(r)' PROVE InEnded(r) /\ r # q
    BY <1>3, <1>4, <2>2 DEF OneEnded, InEnded
  <2> QED BY <2>1, <2>2
<1>6. OneReset' /\ \A r : InQueue(r)' <=> InQueue(r) \/ r = q
  BY <1>1, <1>2, <1>4, Enqueued DEF ApartRoom
<1>7. Counted' /\ \A r : (InReset(r)' <=> InReset(r)) /\ (InMatch(r)' <=> InMatch(r))
  BY <1>1, ThreadsStay DEF RoomInv
<1>8. OneGame' /\ \A r : InGames(r)' <=> InGames(r)
  BY <1>1 DEF RoomInv, OneGame, InGames
<1>9. ApartRoom(q)'
  BY <1>1, <1>4, <1>5, <1>7, <1>8 DEF ApartRoom, Held
<1>10. \A r \in Room \ {q} : RoomStays(r)
  BY <1>1, <1>5, <1>6, <1>7, <1>8 DEF RoomStays
<1>11. \A r \in Room : ApartRoom(r)'
  BY <1>9, <1>10, RoomsMove
<1> QED BY <1>5, <1>6, <1>7, <1>8, <1>11 DEF RoomInv

LEMMA TakeRooms ==
  ASSUME TypeOK, Shape, RoomInv, NEW t \in Thread, TakePackage(t), ~met'
  PROVE  RoomInv'
<1>1. PICK p : p = Head(queue)
  OBVIOUS
<1>2. /\ UNCHANGED matches /\ queue # <<>> /\ queue' = Tail(queue) /\ pc[t] = "idle"
      /\ p \in Package /\ pc'[t] = FirstStep(p) /\ pkg'[t] = p /\ ~Meets(t, p)
      /\ Others(t)
  <2>1. Others(t)
    BY OthersKeep
  <2>2. ~Meets(t, p)
    BY <1>1 DEF TakePackage
  <2>3. UNCHANGED matches
    BY DEF TakePackage, matches, roomVars, outcome
  <2>4. /\ queue # <<>> /\ queue' = Tail(queue) /\ pc[t] = "idle"
        /\ pc' = [pc EXCEPT ![t] = FirstStep(p)] /\ pkg' = [pkg EXCEPT ![t] = p]
    BY <1>1 DEF TakePackage
  <2>5. p \in Package
    BY <1>1, <2>4 DEF TypeOK
  <2> QED BY <2>1, <2>2, <2>3, <2>4, <2>5 DEF TypeOK
<1>3. pc'[t] \in {"info", "check", "reset"} /\ (pc'[t] = "reset" <=> IsReset(p))
  BY <1>2, Packages DEF FirstStep, IsReset
<1>4. \A r : /\ InMatch(r)' => InMatch(r)
             /\ InReset(r)' => InReset(r) \/ (IsReset(p) /\ p.room = r)
             /\ IsReset(p) /\ p.room = r => ~InReset(r) /\ ~InMatch(r)
  <2>1. \A r : /\ InMatch(r)' => InMatch(r)
               /\ InReset(r)' => InReset(r) \/ (IsReset(p) /\ p.room = r)
    BY <1>2, <1>3, OtherRooms DEF Matching
  <2>2. ASSUME IsReset(p) PROVE ~InReset(p.room) /\ ~InMatch(p.room)
    BY <1>2, <2>2 DEF Meets, HasRoom, IsReset, InReset, InMatch, Matching
  <2> QED BY <2>1, <2>2
<1>5. OneReset' /\ \A r : InQueue(r)' => InQueue(r) /\ ~(IsReset(p) /\ p.room = r)
  BY <1>1, <1>2, Dequeued DEF RoomInv
<1>6. IsReset(p) => InQueue(p.room)
  BY <1>1, <1>2, Dequeued
<1>7. OneGame' /\ OneEnded' /\ \A r : (InGames(r)' <=> InGames(r)) /\ (InEnded(r)' <=> InEnded(r))
  BY <1>2, MatchesStay DEF RoomInv
<1>8. Counted'
  BY <1>3, <1>2, OthersCounted DEF RoomInv, matches
<1>9. ASSUME NEW r \in Room PROVE ApartRoom(r)'
  <2>1. ApartRoom(r) /\ member' = member
    BY <1>2, MatchesStay DEF RoomInv
  <2>2. CASE IsReset(p) /\ p.room = r
    BY <1>4, <1>5, <1>6, <1>7, <2>1, <2>2 DEF ApartRoom, Held
  <2>3. CASE ~(IsReset(p) /\ p.room = r)
    BY <1>4, <1>5, <1>7, <2>1, <2>3 DEF ApartRoom, Held
  <2> QED BY <2>2, <2>3
<1> QED BY <1>5, <1>7, <1>8, <1>9 DEF RoomInv

\* a step inside a handler, or its end
LEMMA StepRooms ==
  ASSUME TypeOK, RoomInv, NEW t \in Thread, Others(t), UNCHANGED matches, UNCHANGED queue,
         NEW l, pc' = [pc EXCEPT ![t] = l], l = "idle" \/ (l \in Entering /\ UNCHANGED pkg),
         l \in Matching => pc[t] \in Matching,
         l = "count" => member[pkg[t].room] < 2,
         l \in {"ids", "notify", "handoff"} => member[pkg[t].room] = 2
  PROVE  RoomInv'
<1>1. pc'[t] = l
  BY DEF TypeOK
<1>2. \A r \in Room : RoomStays(r)
  <2>1. \A r : (InReset(r)' => InReset(r)) /\ (InMatch(r)' => InMatch(r))
    BY <1>1, OtherRooms DEF Entering, InMatch, Matching
  <2> QED BY <2>1, MatchesStay, QueueStays DEF RoomStays
<1>3. \A r \in Room : ApartRoom(r)'
  BY <1>2, RoomsMove
<1>4. Counted'
  BY <1>1, OthersCounted DEF RoomInv, matches
<1> QED BY <1>3, <1>4, MatchesStay, QueueStays DEF RoomInv

LEMMA HandOffRooms ==
  ASSUME Alone, TypeOK, Shape, RoomInv, NEW t \in Thread, HandOff(t)
  PROVE  RoomInv'
<1>1. PICK q, g : /\ q = pkg[t].room /\ q \in Room
                  /\ g = [room |-> q, id1 |-> ids[t][1], id2 |-> ids[t][2]]
  BY Handles DEF HandOff, At, Entering, Where
<1>2. /\ games' = Append(games, g) /\ g.room = q
      /\ UNCHANGED <<member, queue, ended, pkg>>
      /\ pc[t] = "handoff" /\ pc'[t] = "clear" /\ Others(t)
  BY <1>1, OthersKeep DEF HandOff, At, Goto, roomVars, TypeOK, Handler, EnterRoom
<1>3. /\ DOMAIN games' = DOMAIN games \cup {Len(games) + 1}
      /\ games'[Len(games) + 1] = g
      /\ \A i \in DOMAIN games : games'[i] = games[i]
  BY <1>2 DEF TypeOK
<1>4. ~InReset(q)' /\ ~InMatch(q)' /\ InMatch(q)
      /\ \A r : (InReset(r)' => InReset(r)) /\ (InMatch(r)' => InMatch(r))
  <2>1. HasRoom(t)
    BY <1>2 DEF HasRoom
  <2>2. ~InReset(q)' /\ ~InMatch(q)' /\ InMatch(q)
    BY <1>1, <1>2, <2>1, AtRoom DEF Matching
  <2>3. \A r : (InReset(r)' => InReset(r)) /\ (InMatch(r)' => InMatch(r))
    BY <1>2, OtherRooms DEF Matching
  <2> QED BY <2>2, <2>3
<1>5. ApartRoom(q) /\ ~Held(q) /\ member[q] = 2
  BY <1>1, <1>2, <1>4 DEF RoomInv, ApartRoom, Counted
<1>6. OneGame' /\ \A r : InGames(r)' => InGames(r) \/ r = q
  BY <1>2, <1>3, <1>5 DEF RoomInv, OneGame, InGames, Held
<1>7. OneEnded' /\ \A r : InEnded(r)' <=> InEnded(r)
  BY <1>2 DEF RoomInv, OneEnded, InEnded
<1>8. OneReset' /\ \A r : InQueue(r)' <=> InQueue(r)
  BY <1>2, QueueStays DEF RoomInv
<1>9. Counted'
  BY <1>2, OthersCounted DEF RoomInv
<1>10. ApartRoom(q)'
  BY <1>2, <1>4, <1>5, <1>7, <1>8 DEF ApartRoom, Held
<1>11. \A r \in Room \ {q} : RoomStays(r)
  BY <1>2, <1>4, <1>6, <1>7, <1>8 DEF RoomStays
<1>12. \A r \in Room : ApartRoom(r)'
  BY <1>10, <1>11, RoomsMove
<1> QED BY <1>6, <1>7, <1>8, <1>9, <1>12 DEF RoomInv

\* a count is written by who enters, before the room is anybody's, and by
\* the handler that resets the room
LEMMA CountRooms ==
  ASSUME Alone, TypeOK, Shape, RoomInv, NEW t \in Thread,
         EnterCount(t) \/ I_INITIALIZE_ROOMMEMBER(t)
  PROVE  RoomInv'
<1>1. PICK q \in Room : q = pkg[t].room
  BY Handles DEF EnterCount, I_INITIALIZE_ROOMMEMBER, At, Entering, Where
<1>2. /\ UNCHANGED <<games, ended, queue>>
      /\ \A r \in Room \ {q} : member'[r] = member[r]
      /\ Others(t)
  BY <1>1, OthersKeep DEF EnterCount, I_INITIALIZE_ROOMMEMBER, TypeOK, Handler, EnterRoom, outcome
<1>3. \/ pc[t] = "count" /\ pc'[t] = "seat" /\ UNCHANGED pkg
      \/ pc[t] = "reset" /\ pc'[t] = "idle"
  BY DEF EnterCount, I_INITIALIZE_ROOMMEMBER, At, Goto, Finish, TypeOK
<1>4. /\ \A r : (InReset(r)' => InReset(r)) /\ (r # q => (InMatch(r)' => InMatch(r)))
      /\ ~InReset(q)'
      /\ InMatch(q)' => pc[t] = "count"
  <2>1. HasRoom(t)
    BY <1>3 DEF HasRoom
  <2>2. ~InReset(q)' /\ (InMatch(q)' => pc[t] = "count")
    BY <1>1, <1>2, <1>3, <2>1, AtRoom DEF Matching
  <2>3. \A r : (InReset(r)' => InReset(r)) /\ (r # q => (InMatch(r)' => InMatch(r)))
    BY <1>1, <1>2, <1>3, OtherRooms DEF Matching
  <2> QED BY <2>2, <2>3
<1>5. OneReset' /\ \A r : InQueue(r)' <=> InQueue(r)
  BY <1>2, QueueStays DEF RoomInv
<1>6. OneGame' /\ OneEnded' /\ \A r : (InGames(r)' <=> InGames(r)) /\ (InEnded(r)' <=> InEnded(r))
  BY <1>2 DEF RoomInv, OneGame, OneEnded, InGames, InEnded
<1>7. Counted'
  <2>1. ASSUME NEW u \in Thread \ {t}, HasRoom(u)
        PROVE  pkg[u].room \in Room \ {q}
    <3>1. pkg[u].room # q
      BY <1>1, <1>3, <2>1 DEF Alone, HasRoom
    <3>2. pkg[u].room \in Room
      BY <2>1, Handles DEF HasRoom, Entering, TypeOK
    <3> QED BY <3>1, <3>2
  <2> QED BY <1>2, <1>3, <2>1, OthersCounted DEF RoomInv
<1>8. ~Held(q)'
  <2>1. CASE pc[t] = "count"
    <3>1. member[q] # 2 /\ ApartRoom(q)
      BY <1>1, <2>1 DEF RoomInv, Counted, TypeOK
    <3> QED BY <1>4, <1>5, <1>6, <3>1 DEF ApartRoom, Held
  <2>2. CASE pc[t] = "reset"
    <3>1. InReset(q) /\ ApartRoom(q)
      BY <1>1, <2>2 DEF RoomInv, InReset
    <3> QED BY <1>4, <1>5, <1>6, <3>1 DEF ApartRoom, Held
  <2> QED BY <1>3, <2>1, <2>2
<1>9. ApartRoom(q)'
  BY <1>8 DEF ApartRoom, Held
<1>10. \A r \in Room \ {q} : RoomStays(r)
  BY <1>2, <1>4, <1>5, <1>6 DEF RoomStays
<1>11. \A r \in Room : ApartRoom(r)'
  BY <1>9, <1>10, RoomsMove
<1> QED BY <1>5, <1>6, <1>7, <1>11 DEF RoomInv

LEMMA HandlerRooms ==
  ASSUME Alone, TypeOK, Shape, RoomInv, NEW t \in Thread, Handler(t)
  PROVE  RoomInv'
<1> USE OthersKeep DEF At, Goto, Finish, Crash, Entering, Where, Matching, outcome
<1>1. CASE UNCHANGED <<matches, queue, pc, pkg>>
  <2>1. \A r \in Room : RoomStays(r)
    BY <1>1, MatchesStay, QueueStays, ThreadsStay DEF RoomStays, matches
  <2> QED BY <1>1, <2>1, RoomsMove, MatchesStay, QueueStays, ThreadsStay DEF RoomInv, matches
<1>2. CASE NotifyUser1(t)
  BY <1>1, <1>2 DEF NotifyUser1, roomVars, threadVars, matches
<1>3. CASE C_REQ_LOBBY_INFO(t) \/ ClearRoom(t)
  BY <1>3, StepRooms DEF C_REQ_LOBBY_INFO, ClearRoom, roomVars, matches
<1>4. CASE EnterCheck(t)
  <2>1. CASE pc' = [pc EXCEPT ![t] = "idle"]
    BY <1>4, <2>1, StepRooms DEF EnterCheck, roomVars, matches
  <2>2. CASE pc' = [pc EXCEPT ![t] = "count"] /\ UNCHANGED pkg /\ ~(member[pkg[t].room] >= 2)
    <3>1. member[pkg[t].room] < 2
      <4>1. pkg[t].room \in Room /\ member[pkg[t].room] \in 0..2
        BY <1>4, Handles DEF EnterCheck, TypeOK
      <4> QED BY <2>2, <4>1
    <3> QED BY <1>4, <2>2, <3>1, StepRooms DEF EnterCheck, roomVars, matches
  <2> QED BY <1>4, <2>1, <2>2 DEF EnterCheck
<1>5. CASE EnterSeat(t)
  BY <1>5, StepRooms DEF EnterSeat, roomVars, matches
<1>6. CASE TakeSeat(t) \/ AnnounceBegins(t) \/ Announce(t)
  BY <1>6, StepRooms DEF TakeSeat, AnnounceBegins, Announce, roomVars, matches
<1>7. CASE RoomIsFull(t)
  BY <1>7, StepRooms DEF RoomIsFull, roomVars, matches
<1>8. CASE ReadIds(t) \/ NotifyUser2(t)
  <2>1. CASE Crash
    BY <1>1, <2>1 DEF roomVars, threadVars, matches
  <2>2. CASE ~Crash
    <3>1. member[pkg[t].room] = 2
      BY <1>8 DEF ReadIds, NotifyUser2, RoomInv, Counted
    <3> QED BY <1>8, <2>2, <3>1, StepRooms DEF ReadIds, NotifyUser2, roomVars, matches
  <2> QED BY <2>1, <2>2
<1> QED BY <1>2, <1>3, <1>4, <1>5, <1>6, <1>7, <1>8, HandOffRooms, CountRooms
        DEF Handler, EnterRoom

\* until two threads meet at a room
RoomsApart == met \/ (Alone /\ RoomInv)

LEMMA RoomsKept == TypeOK /\ Shape /\ RoomsApart /\ [Next]_vars => RoomsApart'
<1> SUFFICES ASSUME TypeOK, Shape, RoomsApart, [Next]_vars, ~met' PROVE Alone' /\ RoomInv'
  BY DEF RoomsApart
<1>a. Alone /\ Alone' /\ RoomInv
  BY AloneKept DEF RoomsApart
<1>1. CASE UNCHANGED vars
  <2>1. UNCHANGED <<matches, queue, pc, pkg>>
    BY <1>1 DEF vars, matches
  <2>2. \A r \in Room : RoomStays(r)
    BY <1>a, <2>1, MatchesStay, QueueStays, ThreadsStay DEF RoomStays, matches
  <2> QED BY <1>a, <2>1, <2>2, RoomsMove, MatchesStay, QueueStays, ThreadsStay
          DEF RoomInv, matches
<1> QED BY <1>a, <1>1, ClientsKeepRooms, GameEndsRooms, ResetArrivesRooms, TakeRooms,
           HandlerRooms DEF Next, LobbyStep

LEMMA RoomsInvariant == Spec => [](TypeOK /\ Shape /\ RoomsApart)
<1>1. LobbyInit => RoomsApart
  BY DEF LobbyInit, RoomsApart, Alone, HasRoom, RoomInv, ApartRoom, Held, OneGame, OneEnded,
     OneReset, Counted, InGames, InEnded, InQueue, InReset, InMatch, Matching
<1> QED BY <1>1, InitTypes, TypesKept, RoomsKept, PTL DEF Spec

(***************************************************************************)
(* The room of a match is full until its reset is handled, and nobody      *)
(* enters a full room (line 170): with any number of contents threads, a   *)
(* room has one game at a time until two threads are at one room at once.  *)
(***************************************************************************)
THEOREM OneGameEach == Spec => []OneGamePerRoom
<1>1. TypeOK /\ RoomsApart => OneGamePerRoom
  <2> SUFFICES ASSUME TypeOK, RoomInv, ~met PROVE OneGamePerRoom
    BY DEF RoomsApart, OneGamePerRoom
  <2>1. ASSUME NEW i \in DOMAIN games, NEW j \in DOMAIN ended PROVE games[i].room # ended[j]
    <3>1. games[i] \in [room : Room, id1 : Client, id2 : Client]
      BY Removed DEF TypeOK
    <3>2. ApartRoom(games[i].room)
      BY <3>1 DEF RoomInv
    <3> QED BY <3>2 DEF ApartRoom, InGames, InEnded
  <2> QED BY <2>1 DEF RoomInv, OneGame, OneEnded, OneGamePerRoom
<1> QED BY <1>1, RoomsInvariant, PTL

(***************************************************************************)
(* A full room keeps its count, however old the counts are that clients    *)
(* send, until the reset of the game server is handled: as long as no      *)
(* other thread is at the room, who is about to write a count has seen the *)
(* room not full.                                                          *)
(***************************************************************************)
THEOREM FullStaysFull == Spec => FullUntilReset
<1>1. TypeOK /\ RoomsApart /\ [Next]_vars =>
        [~met => \A r \in Room : member[r] = 2 /\ member'[r] # 2 =>
           \E t \in Thread : pc[t] = "reset" /\ pkg[t].room = r]_vars
  <2> SUFFICES ASSUME TypeOK, RoomInv, Next, NEW r \in Room, member[r] = 2, member'[r] # 2
               PROVE  \E t \in Thread : pc[t] = "reset" /\ pkg[t].room = r
    BY DEF RoomsApart
  <2>1. PICK t \in Thread : EnterCount(t) \/ I_INITIALIZE_ROOMMEMBER(t)
    <3>1. member' # member
      OBVIOUS
    <3> QED BY <3>1
        DEF Next, LobbyStep, Clients, Connect, AskLobbyInfo, AskEnterRoom, RequestArrives,
            CloseClient, CloseSessionOne, ResetArrives, GameEnds, TakePackage, Handler, EnterRoom,
            C_REQ_LOBBY_INFO, EnterCheck, EnterSeat, TakeSeat, AnnounceBegins, Announce,
            RoomIsFull, ReadIds, NotifyUser1, NotifyUser2, HandOff, ClearRoom, Crash, roomVars
  <2>2. CASE EnterCount(t)
    <3>1. pkg[t].room = r
      BY <2>2 DEF EnterCount, TypeOK
    <3>2. member[r] < 2
      BY <2>2, <3>1 DEF EnterCount, At, RoomInv, Counted
    <3> QED BY <3>2
  <2>3. CASE I_INITIALIZE_ROOMMEMBER(t)
    BY <2>3 DEF I_INITIALIZE_ROOMMEMBER, At, TypeOK
  <2> QED BY <2>1, <2>2, <2>3
<1> QED BY <1>1, RoomsInvariant, PTL DEF Spec, FullUntilReset

-----------------------------------------------------------------------------
(***************************************************************************)
(* Who has a full room: this needs nothing of who else is at it.           *)
(***************************************************************************)
InHand(r) == InMatch(r) \/ Held(r)

LEMMA StaysInHand ==
  ASSUME NEW t \in Thread, Others(t), UNCHANGED <<games, ended, queue>>, NEW r, InHand(r),
         pc[t] \in Matching \cup {"reset"} => pc'[t] \in Matching /\ pkg'[t] = pkg[t]
  PROVE  InHand(r)'
<1>1. /\ InGames(r) => InGames(r)'
      /\ InEnded(r) => InEnded(r)'
      /\ InQueue(r) => InQueue(r)'
  BY DEF InGames, InEnded, InQueue, IsReset
<1>2. ASSUME NEW u \in Thread, pc[u] \in Matching \cup {"reset"}, pkg[u].room = r
      PROVE  InMatch(r)' \/ InReset(r)'
  <2>1. CASE u = t
    BY <1>2, <2>1 DEF InMatch
  <2>2. CASE u # t
    <3>1. pc'[u] = pc[u] /\ pkg'[u] = pkg[u]
      BY <2>2 DEF Others
    <3> QED BY <1>2, <3>1 DEF InMatch, InReset
  <2> QED BY <2>1, <2>2
<1> QED BY <1>1, <1>2 DEF InHand, Held, InMatch, InReset

LEMMA TakeInHand ==
  ASSUME TypeOK, NEW t \in Thread, TakePackage(t), NEW r, InHand(r)
  PROVE  InHand(r)'
<1>1. PICK p : p = Head(queue)
  OBVIOUS
<1>2. /\ UNCHANGED <<games, ended>> /\ queue # <<>> /\ queue' = Tail(queue) /\ pc[t] = "idle"
      /\ pc' = [pc EXCEPT ![t] = FirstStep(p)] /\ pkg' = [pkg EXCEPT ![t] = p]
  BY <1>1 DEF TakePackage, outcome
<1>3. Others(t)
  BY OthersKeep
<1>4. pc'[t] = FirstStep(p) /\ pkg'[t] = p
  BY <1>2 DEF TypeOK
<1>5. CASE InGames(r) \/ InEnded(r)
  BY <1>2, <1>5 DEF InGames, InEnded, InHand, Held
<1>6. ASSUME NEW i \in DOMAIN queue, IsReset(queue[i]), queue[i].room = r
      PROVE  InHand(r)'
  <2>1. CASE i = 1
    <3>1. IsReset(p) /\ p.room = r
      BY <1>1, <1>6, <2>1 DEF TypeOK
    <3>2. FirstStep(p) = "reset"
      BY <3>1 DEF FirstStep, IsReset
    <3> QED BY <1>4, <3>1, <3>2 DEF InHand, Held, InReset
  <2>2. CASE i # 1
    <3>1. i - 1 \in DOMAIN queue' /\ queue'[i - 1] = queue[i]
      BY <1>2, <2>2 DEF TypeOK
    <3> QED BY <1>6, <3>1 DEF InHand, Held, InQueue, IsReset
  <2> QED BY <2>1, <2>2
<1>7. ASSUME NEW u \in Thread, pc[u] \in Matching \cup {"reset"}, pkg[u].room = r
      PROVE  InHand(r)'
  <2>1. u # t
    BY <1>2, <1>7 DEF Matching
  <2>2. pc'[u] = pc[u] /\ pkg'[u] = pkg[u]
    BY <1>3, <2>1 DEF Others
  <2> QED BY <1>7, <2>2 DEF InHand, Held, InMatch, InReset
<1> QED BY <1>5, <1>6, <1>7 DEF InHand, Held, InMatch, InReset, InQueue

LEMMA OutsideInHand ==
  ASSUME TypeOK, Shape, NEW r, InHand(r),
         Clients \/ CloseSessionOne \/ ResetArrives \/ (\E i \in DOMAIN games : GameEnds(i))
  PROVE  InHand(r)'
<1>1. UNCHANGED <<pc, pkg>>
  BY OutsideStays
<1>2. CASE InMatch(r) \/ InReset(r)
  BY <1>1, <1>2 DEF InHand, Held, InMatch, InReset
<1>3. CASE (Clients \/ CloseSessionOne) /\ (InGames(r) \/ InEnded(r) \/ InQueue(r))
  <2>1. UNCHANGED <<games, ended>>
    BY <1>3 DEF Clients, Connect, AskLobbyInfo, AskEnterRoom, RequestArrives, CloseClient,
                CloseSessionOne, outcome
  <2>2. InQueue(r) => InQueue(r)'
    <3>1. CASE UNCHANGED queue
      BY <3>1, QueueStays
    <3>2. ASSUME NEW c \in Client, RequestArrives(c)
          PROVE  InQueue(r) => InQueue(r)'
      <4>1. PICK p \in Package : queue' = Append(queue, p)
        BY <3>2 DEF RequestArrives, Send, Shape
      <4> QED BY <4>1, Enqueued
    <3> QED BY <1>3, <3>1, <3>2
            DEF Clients, Connect, AskLobbyInfo, AskEnterRoom, CloseClient, CloseSessionOne
  <2> QED BY <1>3, <2>1, <2>2 DEF InHand, Held, InGames, InEnded
<1>4. CASE ResetArrives /\ (InGames(r) \/ InEnded(r) \/ InQueue(r))
  <2>1. PICK q, p : q = Head(ended) /\ p = [type |-> "INITIALIZE_ROOMMEMBER", room |-> q]
    OBVIOUS
  <2>2. /\ UNCHANGED games /\ ended # <<>> /\ ended' = Tail(ended) /\ ended \in Seq(Room)
        /\ queue' = Append(queue, p)
    BY <1>4, <2>1 DEF ResetArrives, Send, TypeOK
  <2>3. p \in Package /\ IsReset(p) /\ p.room = q
    BY <2>1, <2>2 DEF Package, IsReset
  <2>4. InQueue(r) \/ q = r => InQueue(r)'
    BY <2>2, <2>3, Enqueued
  <2>5. ASSUME NEW i \in DOMAIN ended, ended[i] = r
        PROVE  q = r \/ InEnded(r)'
    <3>1. CASE i = 1
      BY <2>1, <2>2, <2>5, <3>1
    <3>2. CASE i # 1
      <4>1. i - 1 \in DOMAIN ended' /\ ended'[i - 1] = ended[i]
        BY <2>2, <3>2
      <4> QED BY <2>5, <4>1 DEF InEnded
    <3> QED BY <3>1, <3>2
  <2>6. InGames(r) => InGames(r)'
    BY <2>2 DEF InGames
  <2> QED BY <1>4, <2>4, <2>5, <2>6 DEF InHand, Held, InEnded
<1>5. ASSUME NEW i \in DOMAIN games, GameEnds(i), InGames(r) \/ InEnded(r) \/ InQueue(r)
      PROVE  InHand(r)'
  <2>1. PICK s, q : s = games /\ q = games[i].room
    OBVIOUS
  <2>2. /\ games' = RemoveAt(s, i) /\ ended' = Append(ended, q) /\ UNCHANGED queue
        /\ ended \in Seq(Room) /\ q \in Room
        /\ s \in Seq([room : Room, id1 : Client, id2 : Client])
    <3>1. games' = RemoveAt(s, i) /\ ended' = Append(ended, q) /\ UNCHANGED queue
      BY <1>5, <2>1 DEF GameEnds
    <3>2. ended \in Seq(Room) /\ s \in Seq([room : Room, id1 : Client, id2 : Client])
      BY <2>1 DEF TypeOK
    <3>3. s[i] \in [room : Room, id1 : Client, id2 : Client]
      BY <1>5, <2>1, <3>2, Removed
    <3> QED BY <2>1, <3>1, <3>2, <3>3
  <2>3. InQueue(r) => InQueue(r)'
    BY <2>2, QueueStays
  <2>4. InEnded(r) \/ q = r => InEnded(r)'
    <3>1. /\ DOMAIN ended' = DOMAIN ended \cup {Len(ended) + 1}
          /\ ended'[Len(ended) + 1] = q
          /\ \A j \in DOMAIN ended : ended'[j] = ended[j]
      BY <2>2
    <3> QED BY <3>1 DEF InEnded
  <2>5. ASSUME NEW k \in DOMAIN s, s[k].room = r, k # i
        PROVE  InGames(r)'
    <3>1. \E j \in DOMAIN RemoveAt(s, i) : RemoveAt(s, i)[j] = s[k]
      BY <1>5, <2>1, <2>2, <2>5, Kept
    <3> QED BY <2>2, <2>5, <3>1 DEF InGames
  <2> QED BY <1>5, <2>1, <2>3, <2>4, <2>5 DEF InHand, Held, InGames
<1> QED BY <1>2, <1>3, <1>4, <1>5 DEF InHand, Held

LEMMA HandlerInHand ==
  ASSUME TypeOK, Shape, FullIsInHand, NEW t \in Thread, Handler(t)
  PROVE  FullIsInHand'
<1> SUFFICES ASSUME NEW r \in Room, member'[r] = 2 PROVE InHand(r)'
  BY DEF FullIsInHand, InHand
<1>o. Others(t)
  BY OthersKeep
<1> USE DEF At, Goto, Finish, Matching, outcome, roomVars
<1>1. CASE UNCHANGED <<games, ended, queue, pc, pkg, member>>
  BY <1>1, <1>o, StaysInHand, ThreadsStay, QueueStays
     DEF FullIsInHand, InHand, Held, InGames, InEnded
<1>2. CASE C_REQ_LOBBY_INFO(t) \/ EnterCheck(t) \/ ClearRoom(t)
  <2>1. UNCHANGED <<games, ended, queue, member>> /\ pc[t] \in {"info", "check", "clear"}
    BY <1>2 DEF C_REQ_LOBBY_INFO, EnterCheck, ClearRoom
  <2>2. InHand(r)
    BY <2>1 DEF FullIsInHand, InHand
  <2> QED BY <1>o, <2>1, <2>2, StaysInHand
<1>3. CASE I_INITIALIZE_ROOMMEMBER(t)
  <2>1. /\ UNCHANGED <<games, ended, queue>> /\ pc[t] = "reset"
        /\ pkg[t].room # r /\ member[r] = 2
    BY <1>3 DEF I_INITIALIZE_ROOMMEMBER, TypeOK
  <2>2. InHand(r)
    BY <2>1 DEF FullIsInHand, InHand
  <2>3. \/ InGames(r) \/ InEnded(r) \/ InQueue(r)
        \/ \E u \in Thread \ {t} : pc[u] \in Matching \cup {"reset"} /\ pkg[u].room = r
    BY <2>1, <2>2 DEF InHand, Held, InMatch, InReset
  <2>4. ASSUME NEW u \in Thread \ {t}, pc[u] \in Matching \cup {"reset"}, pkg[u].room = r
        PROVE  InHand(r)'
    <3>1. pc'[u] = pc[u] /\ pkg'[u] = pkg[u]
      BY <1>o DEF Others
    <3> QED BY <2>4, <3>1 DEF InHand, Held, InMatch, InReset
  <2>5. InGames(r) \/ InEnded(r) \/ InQueue(r) => InHand(r)'
    BY <2>1, QueueStays DEF InHand, Held, InGames, InEnded
  <2> QED BY <2>3, <2>4, <2>5
<1>4. CASE EnterCount(t)
  <2>1. /\ UNCHANGED <<games, ended, queue, pkg>> /\ pc[t] = "count" /\ pc'[t] = "seat"
        /\ pkg[t].room = r \/ member[r] = 2
    BY <1>4 DEF EnterCount, TypeOK
  <2>2. CASE pkg[t].room = r
    BY <2>1, <2>2 DEF InHand, InMatch
  <2>3. CASE member[r] = 2
    <3>1. InHand(r)
      BY <2>3 DEF FullIsInHand, InHand
    <3> QED BY <1>o, <2>1, <3>1, StaysInHand
  <2> QED BY <2>1, <2>2, <2>3
<1>5. CASE ~Crash /\ \/ EnterSeat(t) \/ TakeSeat(t) \/ AnnounceBegins(t) \/ Announce(t)
                     \/ ReadIds(t) \/ NotifyUser1(t) \/ NotifyUser2(t)
  <2>1. /\ UNCHANGED <<games, ended, queue, pkg, member>> /\ pc'[t] \in Matching
    BY <1>5 DEF EnterSeat, TakeSeat, AnnounceBegins, Announce, ReadIds, NotifyUser1,
                NotifyUser2, threadVars, TypeOK
  <2>2. InHand(r)
    BY <2>1 DEF FullIsInHand, InHand
  <2> QED BY <1>o, <2>1, <2>2, StaysInHand
<1>6. CASE RoomIsFull(t)
  <2>1. UNCHANGED <<games, ended, queue, member>> /\ pc[t] = "full"
    BY <1>6 DEF RoomIsFull
  <2>2. InHand(r)
    BY <2>1 DEF FullIsInHand, InHand
  <2>3. CASE member[pkg[t].room] = 2
    <3>1. pc'[t] = "ids" /\ UNCHANGED pkg
      BY <1>6, <2>3 DEF RoomIsFull, TypeOK
    <3> QED BY <1>o, <2>1, <2>2, <3>1, StaysInHand
  <2>4. CASE member[pkg[t].room] # 2
    <3>1. pkg[t].room # r
      BY <2>1, <2>4
    <3>2. \/ InGames(r) \/ InEnded(r) \/ InQueue(r)
          \/ \E u \in Thread \ {t} : pc[u] \in Matching \cup {"reset"} /\ pkg[u].room = r
      BY <2>2, <3>1 DEF InHand, Held, InMatch, InReset
    <3>3. ASSUME NEW u \in Thread \ {t}, pc[u] \in Matching \cup {"reset"}, pkg[u].room = r
          PROVE  InHand(r)'
      <4>1. pc'[u] = pc[u] /\ pkg'[u] = pkg[u]
        BY <1>o DEF Others
      <4> QED BY <3>3, <4>1 DEF InHand, Held, InMatch, InReset
    <3>4. InGames(r) \/ InEnded(r) \/ InQueue(r) => InHand(r)'
      BY <2>1, QueueStays DEF InHand, Held, InGames, InEnded
    <3> QED BY <3>2, <3>3, <3>4
  <2> QED BY <2>3, <2>4
<1>7. CASE HandOff(t)
  <2>1. PICK g : g = [room |-> pkg[t].room, id1 |-> ids[t][1], id2 |-> ids[t][2]]
    OBVIOUS
  <2>2. /\ games' = Append(games, g) /\ g.room = pkg[t].room
        /\ UNCHANGED <<ended, queue, member>> /\ pc[t] = "handoff"
    BY <1>7, <2>1 DEF HandOff
  <2>3. /\ DOMAIN games' = DOMAIN games \cup {Len(games) + 1}
        /\ games'[Len(games) + 1] = g
        /\ \A i \in DOMAIN games : games'[i] = games[i]
    BY <2>2 DEF TypeOK
  <2>4. InHand(r)
    BY <2>2 DEF FullIsInHand, InHand
  <2>5. pkg[t].room = r \/ InGames(r) => InGames(r)'
    BY <2>2, <2>3 DEF InGames
  <2>6. \/ pkg[t].room = r \/ InGames(r) \/ InEnded(r) \/ InQueue(r)
        \/ \E u \in Thread \ {t} : pc[u] \in Matching \cup {"reset"} /\ pkg[u].room = r
    BY <2>4 DEF InHand, Held, InMatch, InReset
  <2>7. ASSUME NEW u \in Thread \ {t}, pc[u] \in Matching \cup {"reset"}, pkg[u].room = r
        PROVE  InHand(r)'
    <3>1. pc'[u] = pc[u] /\ pkg'[u] = pkg[u]
      BY <1>o DEF Others
    <3> QED BY <2>7, <3>1 DEF InHand, Held, InMatch, InReset
  <2>8. InEnded(r) \/ InQueue(r) => InHand(r)'
    BY <2>2, QueueStays DEF InHand, Held, InEnded
  <2> QED BY <2>5, <2>6, <2>7, <2>8 DEF InHand, Held
<1>8. CASE Crash
  BY <1>1, <1>8 DEF Crash, threadVars
<1> QED BY <1>2, <1>3, <1>4, <1>5, <1>6, <1>7, <1>8 DEF Handler, EnterRoom

(***************************************************************************)
(* A full room is with a handler, with the game server, or on its way      *)
(* back, for any number of contents threads and whatever they do at one    *)
(* room at once: the last handler to count two in it hands it over, reads  *)
(* another count than two, or ends with the process.                       *)
(***************************************************************************)
THEOREM FullRoomComesBack == Spec => []FullIsInHand
<1>1. LobbyInit => FullIsInHand
  BY DEF LobbyInit, FullIsInHand
<1>2. TypeOK /\ Shape /\ FullIsInHand /\ [Next]_vars => FullIsInHand'
  <2> SUFFICES ASSUME TypeOK, Shape, FullIsInHand, [Next]_vars PROVE FullIsInHand'
    OBVIOUS
  <2>1. CASE UNCHANGED vars
    <3>1. UNCHANGED <<games, ended, queue, pc, pkg, member>>
      BY <2>1 DEF vars
    <3> QED BY <3>1, ThreadsStay, QueueStays DEF FullIsInHand, Held, InGames, InEnded
  <2>2. CASE \E t \in Thread : Handler(t)
    BY <2>2, HandlerInHand
  <2>3. ASSUME NEW t \in Thread, TakePackage(t)
        PROVE  FullIsInHand'
    <3>1. member' = member
      BY <2>3 DEF TakePackage, roomVars
    <3> QED BY <2>3, <3>1, TakeInHand DEF FullIsInHand, InHand
  <2>4. CASE Clients \/ CloseSessionOne \/ ResetArrives \/ (\E i \in DOMAIN games : GameEnds(i))
    <3>1. member' = member
      BY <2>4 DEF Clients, Connect, AskLobbyInfo, AskEnterRoom, RequestArrives, CloseClient,
                  CloseSessionOne, ResetArrives, GameEnds, roomVars
    <3> QED BY <2>4, <3>1, OutsideInHand DEF FullIsInHand, InHand
  <2> QED BY <2>1, <2>2, <2>3, <2>4 DEF Next, LobbyStep
<1> QED BY <1>1, <1>2, InitTypes, TypesKept, PTL DEF Spec

-----------------------------------------------------------------------------
(***************************************************************************)
(* The clients: a request is in one place, and who asks has no seat.       *)
(***************************************************************************)
LEMMA OtherClients ==
  ASSUME NEW t \in Thread, Others(t)
  PROVE  /\ \A u \in Thread \ {t} : \A c : (Serves(u, c)' <=> Serves(u, c))
                                         /\ (Picks(u, c)' <=> Picks(u, c))
         /\ \A c : /\ Served(c)' => Served(c) \/ Serves(t, c)'
                   /\ Enters(c)' => Enters(c) \/ (pc'[t] \in Early /\ pkg'[t].from = c)
                   /\ Chosen(c)' => Chosen(c) \/ Picks(t, c)'
         /\ \A r : Clears(r) => Clears(r)' \/ (pc[t] = "clear" /\ pkg[t].room = r)
<1>1. \A u \in Thread \ {t} : \A c : (Serves(u, c)' <=> Serves(u, c))
                                   /\ (Picks(u, c)' <=> Picks(u, c))
  BY DEF Others, Serves, Picks, IsReset
<1>2. \A c : Enters(c)' => Enters(c) \/ (pc'[t] \in Early /\ pkg'[t].from = c)
  BY DEF Others, Enters
<1>3. \A r : Clears(r) => Clears(r)' \/ (pc[t] = "clear" /\ pkg[t].room = r)
  BY DEF Others, Clears
<1> QED BY <1>1, <1>2, <1>3 DEF Served, Chosen

LEMMA EntersServed ==
  ASSUME Shape, NEW c \in Client
  PROVE  Enters(c) => Served(c)
BY Handles DEF Enters, Served, Serves, Early, Entering, Where

LEMMA AskRequests ==
  ASSUME TypeOK, Shape, OneRequest, NEW c \in Client,
         AskLobbyInfo(c) \/ \E r \in Room : AskEnterRoom(c, r)
  PROVE  OneRequest' /\ \A d \in Client : Asking(d)' => Asking(d) \/ MayAsk(d)
<1>1. /\ MayAsk(c) /\ UNCHANGED <<queue, pc, pkg>>
      /\ \A d \in Client \ {c} : wire'[d] = wire[d]
  BY DEF AskLobbyInfo, AskEnterRoom, Request, TypeOK, threadVars
<1>2. ~InLine(c) /\ ~Served(c)
  <2>1. ~Pending(c)
    BY <1>1 DEF MayAsk
  <2>2. ~InLine(c)
    BY <2>1 DEF Pending, InLine, IsReset
  <2>3. ~Served(c)
    BY <2>1 DEF Pending, Served, Serves, IsReset
  <2> QED BY <2>2, <2>3
<1>3. OneInLine' /\ \A d \in Client : /\ InLine(d)' <=> InLine(d)
                                      /\ Served(d)' <=> Served(d)
                                      /\ Enters(d)' <=> Enters(d)
  BY <1>1, QueueStays DEF OneRequest, Served, Serves, Enters, IsReset
<1>4. OneServes'
  BY <1>1 DEF OneRequest, OneServes, Serves, IsReset
<1> QED BY <1>1, <1>2, <1>3, <1>4 DEF OneRequest, Asking

LEMMA ArriveRequests ==
  ASSUME TypeOK, Shape, OneRequest, NEW c \in Client, RequestArrives(c)
  PROVE  OneRequest' /\ \A d \in Client : Asking(d)' => Asking(d)
<1>1. PICK p \in Package : ~IsReset(p) /\ p.from = c /\ queue' = Append(queue, p)
  BY DEF RequestArrives, Send, Shape
<1>2. /\ wire[c] # Null /\ wire' = [wire EXCEPT ![c] = Null] /\ wire'[c] = Null
      /\ \A d \in Client \ {c} : wire'[d] = wire[d]
      /\ UNCHANGED <<pc, pkg>>
  BY DEF RequestArrives, TypeOK, threadVars
<1>3. ~InLine(c) /\ ~Served(c)
  BY <1>2 DEF OneRequest
<1>4. OneInLine' /\ \A d \in Client : InLine(d)' <=> InLine(d) \/ d = c
  BY <1>1, <1>3, Enqueued DEF OneRequest
<1>5. \A d \in Client : (Served(d)' <=> Served(d)) /\ (Enters(d)' <=> Enters(d))
  BY <1>2 DEF Served, Serves, Enters, IsReset
<1>6. OneServes'
  BY <1>2 DEF OneRequest, OneServes, Serves, IsReset
<1> QED BY <1>2, <1>3, <1>4, <1>5, <1>6 DEF OneRequest, Asking

LEMMA TakeRequests ==
  ASSUME TypeOK, Shape, OneRequest, NEW t \in Thread, TakePackage(t)
  PROVE  OneRequest' /\ \A d \in Client : Asking(d)' => Asking(d)
<1>1. PICK p : p = Head(queue)
  OBVIOUS
<1>2. /\ UNCHANGED wire /\ queue # <<>> /\ queue' = Tail(queue) /\ pc[t] = "idle"
      /\ p \in Package /\ pkg'[t] = p /\ Others(t)
  <2>1. Others(t)
    BY OthersKeep
  <2> QED BY <1>1, <2>1 DEF TakePackage, TypeOK, clientVars
<1>3. OneInLine' /\ \A c \in Client : InLine(c)' => InLine(c) /\ ~(~IsReset(p) /\ p.from = c)
  BY <1>1, <1>2, Dequeued DEF OneRequest
<1>4. ~IsReset(p) => InLine(p.from)
  BY <1>1, <1>2, Dequeued
<1>5. \A c \in Client : Served(c)' => Served(c) \/ (~IsReset(p) /\ p.from = c)
  BY <1>2 DEF Others, Served, Serves, IsReset
<1>6. \A c \in Client : Enters(c)' => Enters(c) \/ (~IsReset(p) /\ p.from = c)
  <2>1. pc'[t] \in Early => ~IsReset(p)
    <3>1. pc'[t] = FirstStep(p)
      BY <1>1 DEF TakePackage, TypeOK
    <3> QED BY <3>1 DEF FirstStep, Early, IsReset
  <2> QED BY <1>2, <2>1 DEF Others, Enters
<1>7. OneServes'
  <2>1. ~IsReset(p) => ~Served(p.from)
    BY <1>2, <1>4, Packages DEF OneRequest
  <2>2. ASSUME NEW u \in Thread, NEW c \in Client, Serves(u, c)', u # t
        PROVE  Serves(u, c) /\ ~Serves(t, c)'
    <3>1. Serves(u, c)
      BY <1>2, <2>2 DEF Others, Serves, IsReset
    <3>2. Served(c)
      BY <3>1 DEF Served
    <3> QED BY <1>2, <2>1, <3>1, <3>2 DEF Serves, IsReset
  <2>3. ASSUME NEW u \in Thread, NEW v \in Thread, NEW c \in Client,
               Serves(u, c)', Serves(v, c)'
        PROVE  u = v
    BY <2>2, <2>3 DEF OneRequest, OneServes
  <2> QED BY <2>3 DEF OneServes, Serves, IsReset
<1> QED BY <1>2, <1>3, <1>4, <1>5, <1>6, <1>7 DEF OneRequest, Asking

\* a handler ends a request or goes on with it
LEMMA StepRequests ==
  ASSUME OneRequest, UNCHANGED queue,
         \A d \in Client : wire'[d] # Null => wire'[d] = wire[d],
         \/ UNCHANGED <<pc, pkg>>
         \/ \E t \in Thread :
              /\ Others(t)
              /\ \/ pc'[t] = "idle"
                 \/ pc[t] # "idle" /\ pkg'[t] = pkg[t] /\ (pc'[t] \in Early => pc[t] \in Early)
  PROVE  OneRequest' /\ \A d \in Client : Asking(d)' => Asking(d)
<1>1. \A u \in Thread : pc'[u] # "idle" =>
        pc[u] # "idle" /\ pkg'[u] = pkg[u] /\ (pc'[u] \in Early => pc[u] \in Early)
  BY DEF Others
<1>2. OneInLine' /\ \A c \in Client : InLine(c)' <=> InLine(c)
  BY QueueStays DEF OneRequest
<1>3. \A c \in Client : Served(c)' => Served(c)
  BY <1>1 DEF Served, Serves, IsReset
<1>4. OneServes'
  BY <1>1 DEF OneRequest, OneServes, Serves, IsReset
<1>5. \A c \in Client : Enters(c)' => Enters(c)
  BY <1>1 DEF Enters, Early
<1> QED BY <1>2, <1>3, <1>4, <1>5 DEF OneRequest, Asking

-----------------------------------------------------------------------------
(***************************************************************************)
(* The seats, the games, and what a handler has chosen.                    *)
(***************************************************************************)
seats == <<user1, user2, sessionOne, closed, waiting, told, games>>

LEMMA AskerIsFree ==
  ASSUME SeatInv, NEW c \in Client, Asking(c) \/ MayAsk(c)
  PROVE  ~Seated(c) /\ ~Plays(c) /\ ~Chosen(c)
BY DEF SeatInv, ApartClient, MayAsk, Open, Outside, Seated

LEMMA ChoosesNext ==
  ASSUME NEW t, NEW q, NEW a, NEW b, pkg'[t].room = q, ids'[t][1] = a, ids'[t][2] = b, a # b,
         user1'[q] = Null \/ user1'[q] = a,
         user2'[q] = IF pc'[t] = "notify" THEN b ELSE Null,
         \A r \in Room \ {q} : ~Sits(a, r)' /\ ~Sits(b, r)',
         user1'[q] = Null => a \in told' \cup closed',
         pc'[t] = "handoff" => /\ user1'[q] = Null \/ ~sessionOne'
                               /\ b \in told' \cup closed'
  PROVE  Chooses(t)'
BY DEF Chooses, Sits

\* what the others have chosen outlives a step of t in another room
LEMMA OthersChoose ==
  ASSUME Alone, Shape, SeatInv, NEW t \in Thread, Others(t), HasRoom(t), NEW q, q = pkg[t].room,
         \A r \in Room \ {q} : user1'[r] = user1[r] /\ user2'[r] = user2[r],
         \A c \in Client : Chosen(c) => \A r \in Room : Sits(c, r)' => Sits(c, r),
         told \cup closed \subseteq told' \cup closed', sessionOne' => sessionOne
  PROVE  \A u \in Thread \ {t} : pc'[u] \in {"notify", "handoff"} => Chooses(u)'
<1> SUFFICES ASSUME NEW u \in Thread \ {t}, pc'[u] \in {"notify", "handoff"}
             PROVE  Chooses(u)'
  OBVIOUS
<1>1. /\ pc'[u] = pc[u] /\ pkg'[u] = pkg[u] /\ ids'[u] = ids[u]
      /\ Chooses(u) /\ ids[u] \in Client \X Client
  BY DEF Others, SeatInv, Shape
<1>2. pkg[u].room # q /\ pkg[u].room \in Room
  BY <1>1, Handles DEF Alone, HasRoom, Entering, Where
<1>3. Chosen(ids[u][1]) /\ Chosen(ids[u][2])
  BY <1>1 DEF Chosen, Picks
<1>4. PICK a \in Client, b \in Client : a = ids[u][1] /\ b = ids[u][2]
  BY <1>1
<1>5. \A r \in Room : (Sits(a, r)' => Sits(a, r)) /\ (Sits(b, r)' => Sits(b, r))
  BY <1>3, <1>4
<1> QED BY <1>1, <1>2, <1>4, <1>5, ChoosesNext DEF Chooses

LEMMA SeatsStay ==
  ASSUME SeatInv, UNCHANGED seats,
         \A c \in Client : Asking(c)' => Asking(c) \/ MayAsk(c),
         \/ UNCHANGED <<pc, pkg, ids>>
         \/ \E t \in Thread : /\ Others(t)
                             /\ pc[t] \notin {"notify", "handoff", "clear"}
                             /\ pc'[t] \notin {"notify", "handoff", "clear"}
  PROVE  SeatInv'
<1>1. OneSeat' /\ OneMatch'
  BY DEF SeatInv, OneSeat, OneMatch, seats
<1>2. \A c : /\ Seated(c)' <=> Seated(c)
             /\ Plays(c)' <=> Plays(c)
             /\ Outside(c)' <=> Outside(c)
             /\ \A r \in Room : Sits(c, r)' <=> Sits(c, r)
  BY DEF Seated, Plays, Outside, Sits, seats
<1>3. /\ \A c : /\ Chosen(c)' => Chosen(c)
                /\ \A u \in Thread : Picks(u, c)' => Picks(u, c)
      /\ \A r \in Room : Clears(r) => Clears(r)'
      /\ \A u \in Thread : pc'[u] \in {"notify", "handoff"} =>
           pc[u] = pc'[u] /\ pkg'[u] = pkg[u] /\ ids'[u] = ids[u]
  <2>1. CASE UNCHANGED <<pc, pkg, ids>>
    BY <2>1 DEF Chosen, Picks, Clears
  <2>2. ASSUME NEW t \in Thread, Others(t), pc[t] \notin {"notify", "handoff", "clear"},
               pc'[t] \notin {"notify", "handoff", "clear"}
        PROVE  /\ \A c : /\ Chosen(c)' => Chosen(c)
                         /\ \A u \in Thread : Picks(u, c)' => Picks(u, c)
               /\ \A r \in Room : Clears(r) => Clears(r)'
               /\ \A u \in Thread : pc'[u] \in {"notify", "handoff"} =>
                    pc[u] = pc'[u] /\ pkg'[u] = pkg[u] /\ ids'[u] = ids[u]
    <3>1. \A c : ~Picks(t, c)'
      BY <2>2 DEF Picks
    <3>2. \A u \in Thread : pc'[u] \in {"notify", "handoff"} =>
            pc[u] = pc'[u] /\ pkg'[u] = pkg[u] /\ ids'[u] = ids[u]
      BY <2>2 DEF Others
    <3> QED BY <2>2, <3>1, <3>2, OtherClients
  <2> QED BY <2>1, <2>2
<1>4. OneChoice'
  BY <1>3 DEF SeatInv, OneChoice
<1>5. ASSUME NEW c \in Client PROVE ApartClient(c)'
  <2>1. ApartClient(c) /\ (Asking(c)' => ~Seated(c) /\ ~Plays(c) /\ ~Chosen(c))
    BY AskerIsFree DEF SeatInv
  <2>2. UNCHANGED <<user1, waiting, closed>>
    BY DEF seats
  <2> QED BY <1>2, <1>3, <2>1, <2>2 DEF ApartClient
<1>6. ASSUME NEW u \in Thread, pc'[u] \in {"notify", "handoff"} PROVE Chooses(u)'
  <2>1. pc[u] = pc'[u] /\ pkg'[u] = pkg[u] /\ ids'[u] = ids[u] /\ Chooses(u)
    BY <1>3, <1>6 DEF SeatInv
  <2> QED BY <2>1 DEF Chooses, Sits, seats
<1> QED BY <1>1, <1>4, <1>5, <1>6 DEF SeatInv

LEMMA CloseSeats ==
  ASSUME TypeOK, Shape, OneRequest, SeatInv,
         (\E c \in Client : CloseClient(c)) \/ CloseSessionOne
  PROVE  OneRequest' /\ SeatInv'
<1> DEFINE Closes(S) ==
             /\ closed' = closed \cup S /\ \A r \in Room : waiting'[r] = waiting[r] \ S
             /\ sessionOne' => sessionOne
             /\ UNCHANGED <<user1, user2, queue, pc, pkg, ids, told, games>>
             /\ \A d \in Client : wire'[d] # Null => wire'[d] = wire[d]
<1>1. PICK S \in SUBSET Client : Closes(S)
  <2>1. ASSUME NEW c \in Client, CloseClient(c) PROVE Closes({c})
    BY <2>1 DEF CloseClient, roomVars, threadVars, outcome, TypeOK
  <2>2. CASE CloseSessionOne
    <3>1. Closes({})
      BY <2>2 DEF CloseSessionOne, roomVars, threadVars, knowledge, clientVars, outcome
    <3> QED BY <3>1
  <2> QED BY <2>1, <2>2
<1>2. OneRequest' /\ \A c \in Client : Asking(c)' => Asking(c)
  <2>1. OneInLine' /\ \A c \in Client : InLine(c)' <=> InLine(c)
    BY <1>1, QueueStays DEF OneRequest
  <2>2. \A c \in Client : (Served(c)' <=> Served(c)) /\ (Enters(c)' <=> Enters(c))
    BY <1>1 DEF Served, Serves, Enters, IsReset
  <2>3. OneServes'
    BY <1>1 DEF OneRequest, OneServes, Serves, IsReset
  <2> QED BY <1>1, <2>1, <2>2, <2>3 DEF OneRequest, Asking
<1>3. OneSeat' /\ OneMatch' /\ OneChoice'
  BY <1>1 DEF SeatInv, OneSeat, OneMatch, OneChoice, Picks
<1>4. ASSUME NEW c \in Client PROVE ApartClient(c)'
  <2>1. /\ Seated(c)' <=> Seated(c)
        /\ Plays(c)' <=> Plays(c)
        /\ Chosen(c)' <=> Chosen(c)
        /\ \A r \in Room : (Sits(c, r)' <=> Sits(c, r)) /\ (Clears(r)' <=> Clears(r))
    BY <1>1 DEF Seated, Plays, Chosen, Picks, Sits, Clears
  <2>2. c \notin closed' => /\ c \notin closed
                            /\ \A r \in Room : c \in waiting[r] <=> c \in waiting'[r]
    BY <1>1
  <2>3. c \notin closed' /\ Outside(c)' => Outside(c)
    BY <1>1, <2>2 DEF Outside
  <2>4. ApartClient(c)
    BY DEF SeatInv
  <2> QED BY <1>1, <1>2, <2>1, <2>2, <2>3, <2>4 DEF ApartClient
<1>5. ASSUME NEW u \in Thread, pc'[u] \in {"notify", "handoff"} PROVE Chooses(u)'
  <2>1. Chooses(u)
    BY <1>1, <1>5 DEF SeatInv
  <2> QED BY <1>1, <2>1 DEF Chooses, Sits
<1> QED BY <1>2, <1>3, <1>4, <1>5 DEF SeatInv

LEMMA GameEndsSeats ==
  ASSUME TypeOK, Shape, OneRequest, SeatInv, NEW i \in DOMAIN games, GameEnds(i)
  PROVE  OneRequest' /\ SeatInv'
<1>1. PICK a, b : a = games[i].id1 /\ b = games[i].id2
  OBVIOUS
<1>2. /\ UNCHANGED <<user1, user2, sessionOne, closed, waiting, wire, queue, pc, pkg, ids>>
      /\ games' = RemoveAt(games, i) /\ told' = told \ {a, b}
      /\ games \in Seq([room : Room, id1 : Client, id2 : Client])
  BY <1>1 DEF GameEnds, TypeOK, roomVars, threadVars, clientVars, sessions
<1>3. \A j \in DOMAIN games' : \E k \in DOMAIN games \ {i} :
        k = (IF j < i THEN j ELSE j + 1) /\ games'[j] = games[k]
  BY <1>2, Removed
<1>4. DOMAIN games' \subseteq Nat /\ i \in Nat
  BY <1>2, Removed
<1>5. OneRequest' /\ \A c \in Client : Asking(c)' <=> Asking(c)
  <2>1. OneInLine' /\ \A c \in Client : InLine(c)' <=> InLine(c)
    BY <1>2, QueueStays DEF OneRequest
  <2>2. \A c \in Client : (Served(c)' <=> Served(c)) /\ (Enters(c)' <=> Enters(c))
    BY <1>2 DEF Served, Serves, Enters, IsReset
  <2>3. OneServes'
    BY <1>2 DEF OneRequest, OneServes, Serves, IsReset
  <2> QED BY <1>2, <2>1, <2>2, <2>3 DEF OneRequest, Asking
<1>6. OneMatch'
  <2>1. ASSUME NEW j \in DOMAIN games', NEW k \in DOMAIN games'
        PROVE  /\ games'[j].id1 # games'[k].id2
               /\ j # k => games'[j].id1 # games'[k].id1 /\ games'[j].id2 # games'[k].id2
    <3>1. PICK m \in DOMAIN games \ {i} : m = (IF j < i THEN j ELSE j + 1) /\ games'[j] = games[m]
      BY <1>3
    <3>2. PICK n \in DOMAIN games \ {i} : n = (IF k < i THEN k ELSE k + 1) /\ games'[k] = games[n]
      BY <1>3
    <3>3. j # k => m # n
      BY <1>4, <3>1, <3>2
    <3> QED BY <3>1, <3>2, <3>3 DEF SeatInv, OneMatch
  <2> QED BY <2>1 DEF OneMatch
<1>7. /\ \A c : Plays(c)' => Plays(c) /\ c # a /\ c # b
      /\ Plays(a) /\ Plays(b)
  <2>1. ASSUME NEW c, Plays(c)' PROVE Plays(c) /\ c # a /\ c # b
    <3>1. PICK k \in DOMAIN games \ {i} : c = games[k].id1 \/ c = games[k].id2
      BY <1>3, <2>1 DEF Plays
    <3> QED BY <1>1, <3>1 DEF Plays, SeatInv, OneMatch
  <2> QED BY <1>1, <2>1 DEF Plays
<1>8. \A c : /\ Seated(c)' <=> Seated(c)
             /\ Chosen(c)' <=> Chosen(c)
             /\ \A r \in Room : (Sits(c, r)' <=> Sits(c, r)) /\ (Clears(r)' <=> Clears(r))
             /\ c # a /\ c # b => (Outside(c)' <=> Outside(c))
  BY <1>2 DEF Seated, Chosen, Picks, Sits, Clears, Outside
<1>9. ASSUME NEW c \in Client PROVE ApartClient(c)' /\ (Chosen(c) => c # a /\ c # b)
  <2>1. ApartClient(c)
    BY DEF SeatInv
  <2>2. Chosen(c) => c # a /\ c # b
    BY <1>7, <2>1 DEF ApartClient
  <2> QED BY <1>2, <1>5, <1>7, <1>8, <2>1, <2>2 DEF ApartClient
<1>10. ASSUME NEW u \in Thread, pc'[u] \in {"notify", "handoff"} PROVE Chooses(u)'
  <2>1. Chooses(u) /\ ids[u] \in Client \X Client
    BY <1>2, <1>10 DEF SeatInv, Shape
  <2>2. Chosen(ids[u][1]) /\ Chosen(ids[u][2])
    BY <1>2, <1>10 DEF Chosen, Picks
  <2>3. {ids[u][1], ids[u][2]} \cap {a, b} = {}
    BY <1>9, <2>1, <2>2
  <2> QED BY <1>2, <2>1, <2>3 DEF Chooses, Sits
<1>11. OneSeat' /\ OneChoice'
  BY <1>2 DEF SeatInv, OneSeat, OneChoice, Picks
<1> QED BY <1>5, <1>6, <1>9, <1>10, <1>11 DEF SeatInv

LEMMA TakeSeatSeats ==
  ASSUME Alone, TypeOK, Shape, OneRequest, SeatInv, NEW t \in Thread, TakeSeat(t)
  PROVE  SeatInv'
<1>1. PICK q \in Room, e \in Client : q = pkg[t].room /\ e = pkg[t].from
  BY Handles DEF TakeSeat, Entering, Where
<1>2. /\ \/ user1' = [user1 EXCEPT ![q] = e] /\ UNCHANGED user2
         \/ user2' = [user2 EXCEPT ![q] = e] /\ UNCHANGED user1
      /\ waiting' = [waiting EXCEPT ![q] = @ \cup ({e} \ closed)]
      /\ UNCHANGED <<queue, wire, pkg, ids, closed, told, games, sessionOne>>
      /\ pc[t] \in {"seat1", "seat2"} /\ pc'[t] = "announce"
  BY <1>1 DEF TakeSeat, Goto, TypeOK, clientVars, sessions, outcome
<1>o. Others(t) /\ HasRoom(t)
  BY <1>2, OthersKeep DEF Handler, EnterRoom, HasRoom
<1>3. Enters(e) /\ Served(e)
  BY <1>1, <1>2, EntersServed DEF Enters, Early
<1>4. ~Seated(e) /\ ~Plays(e) /\ wire[e] = Null /\ ~InLine(e)
  BY <1>3, AskerIsFree DEF Asking, OneRequest
<1>5. ~Asking(e)' /\ \A c \in Client : Asking(c)' => Asking(c)
  <2>1. \A c \in Client : Asking(c)' => Asking(c)
    BY <1>2, <1>o, StepRequests DEF Early
  <2>2. ~InLine(e)' /\ wire'[e] = Null
    BY <1>2, <1>4, QueueStays
  <2>3. ~Enters(e)'
    <3>1. Serves(t, e)
      BY <1>1, <1>2, Handles DEF Serves, Entering, Where
    <3>2. ASSUME NEW u \in Thread \ {t}, pc[u] \in Early, pkg[u].from = e PROVE FALSE
      <4>1. Serves(u, e)
        BY <3>2, Handles DEF Serves, Early, Entering, Where
      <4> QED BY <3>1, <3>2, <4>1 DEF OneRequest, OneServes
    <3> QED BY <1>2, <1>o, <3>2 DEF Enters, Early, Others
  <2> QED BY <2>1, <2>2, <2>3 DEF Asking
<1>6. \A c : c # e => \A r \in Room : Sits(c, r)' => Sits(c, r)
  BY <1>1, <1>2 DEF Sits, TypeOK
<1>7. \A r \in Room : user1[r] # e /\ user2[r] # e /\ e # Null
  BY <1>4, ClientAssumption DEF Seated, Sits
<1>8. OneSeat' /\ OneMatch'
  <2>1. CASE user1' = [user1 EXCEPT ![q] = e] /\ UNCHANGED user2
    BY <1>1, <1>2, <1>7, <2>1 DEF SeatInv, OneSeat, OneMatch, TypeOK
  <2>2. CASE user2' = [user2 EXCEPT ![q] = e] /\ UNCHANGED user1
    BY <1>1, <1>2, <1>7, <2>2 DEF SeatInv, OneSeat, OneMatch, TypeOK
  <2> QED BY <1>2, <2>1, <2>2
<1>9. \A c : /\ Plays(c)' <=> Plays(c)
             /\ Chosen(c)' => Chosen(c)
             /\ Outside(c)' => Outside(c)
  <2>1. \A c : Plays(c)' <=> Plays(c)
    BY <1>2 DEF Plays
  <2>2. \A c : Chosen(c)' => Chosen(c)
    BY <1>2, <1>o, OtherClients DEF Picks
  <2>3. \A r \in Room : waiting[r] \subseteq waiting'[r]
    BY <1>2 DEF TypeOK
  <2>4. \A c : Outside(c)' => Outside(c)
    BY <1>2, <2>3 DEF Outside
  <2> QED BY <2>1, <2>2, <2>4
<1>10. /\ \A r \in Room : waiting[r] \subseteq waiting'[r] /\ (Clears(r) => Clears(r)')
       /\ ~Clears(q)
  <2>1. \A r \in Room : waiting[r] \subseteq waiting'[r]
    BY <1>1, <1>2 DEF TypeOK
  <2>2. \A r \in Room : Clears(r) => Clears(r)'
    BY <1>2, <1>o, OtherClients
  <2>3. ~Clears(q)
    BY <1>1, <1>2, <1>o DEF Alone, HasRoom, Clears
  <2> QED BY <2>1, <2>2, <2>3
<1>11. ASSUME NEW c \in Client PROVE ApartClient(c)'
  <2>1. ApartClient(c)
    BY DEF SeatInv
  <2>2. CASE c = e
    <3>1. \A r \in Room \ {q} : ~Sits(e, r)'
      BY <1>1, <1>2, <1>7 DEF Sits, TypeOK
    <3>2. e \notin closed => e \in waiting'[q]
      BY <1>1, <1>2 DEF TypeOK
    <3>3. ~Plays(e)' /\ ~Chosen(e)'
      BY <1>3, <1>4, <1>9, AskerIsFree DEF Asking
    <3> QED BY <1>2, <1>5, <2>2, <3>1, <3>2, <3>3 DEF ApartClient
  <2>3. CASE c # e
    <3>1. (Seated(c)' => Seated(c)) /\ \A r \in Room : Sits(c, r)' => Sits(c, r)
      BY <1>6, <2>3 DEF Seated
    <3>2. ASSUME Plays(c)', NEW r \in Room, Sits(c, r)'
          PROVE  user1'[r] = c /\ Clears(r)'
      <4>1. user1[r] = c /\ Clears(r)
        BY <1>9, <2>1, <3>1, <3>2 DEF ApartClient
      <4>2. r # q
        BY <1>10, <4>1
      <4> QED BY <1>1, <1>2, <1>10, <4>1, <4>2 DEF TypeOK
    <3> QED BY <1>2, <1>5, <1>9, <1>10, <2>1, <3>1, <3>2 DEF ApartClient
  <2> QED BY <2>2, <2>3
<1>12. ASSUME NEW u \in Thread, pc'[u] \in {"notify", "handoff"} PROVE Chooses(u)'
  <2>1. u # t
    BY <1>2, <1>12
  <2>2. ~Chosen(e)
    BY <1>3, AskerIsFree DEF Asking
  <2>3. \A c \in Client : Chosen(c) => \A r \in Room : Sits(c, r)' => Sits(c, r)
    BY <1>6, <2>2
  <2>4. \A r \in Room \ {q} : user1'[r] = user1[r] /\ user2'[r] = user2[r]
    BY <1>1, <1>2 DEF TypeOK
  <2> QED BY <1>1, <1>2, <1>o, <1>12, <2>1, <2>3, <2>4, OthersChoose
<1>13. OneChoice'
  <2>1. \A u \in Thread : pc'[u] \in {"notify", "handoff"} =>
          pc[u] = pc'[u] /\ ids'[u] = ids[u]
    BY <1>2, <1>o DEF Others
  <2> QED BY <2>1 DEF SeatInv, OneChoice, Picks
<1> QED BY <1>8, <1>11, <1>12, <1>13 DEF SeatInv

LEMMA ReadIdsSeats ==
  ASSUME Alone, TypeOK, Shape, OneRequest, SeatInv, NEW t \in Thread, ReadIds(t), ~Crash,
         ~mistaken'
  PROVE  SeatInv'
<1>1. PICK q \in Room, a \in Client, b \in Client :
        q = pkg[t].room /\ a = user1[q] /\ b = user2[q]
  <2>1. PICK q \in Room : q = pkg[t].room
    BY Handles DEF ReadIds, At, Entering, Where
  <2> QED BY <2>1 DEF ReadIds, TypeOK
<1>2. /\ UNCHANGED <<user1, user2, queue, wire, pkg, closed, told, waiting, games, sessionOne>>
      /\ pc[t] = "ids" /\ pc'[t] = "notify" /\ ids'[t] = <<a, b>>
  <2>1. Obj(a) = a /\ Obj(b) = b
    BY <1>1 DEF ReadIds, Follow
  <2> QED BY <1>1, <2>1 DEF ReadIds, At, TypeOK, roomVars, clientVars, knowledge, sessions, outcome
<1>o. Others(t) /\ HasRoom(t)
  BY <1>2, OthersKeep DEF Handler, EnterRoom, HasRoom
<1>3. OneSeat' /\ OneMatch'
  BY <1>2 DEF SeatInv, OneSeat, OneMatch
<1>4. \A c : /\ Seated(c)' <=> Seated(c)
             /\ Plays(c)' <=> Plays(c)
             /\ Outside(c)' <=> Outside(c)
             /\ \A r \in Room : Sits(c, r)' <=> Sits(c, r)
  BY <1>2 DEF Seated, Plays, Outside, Sits
<1>5. \A c : /\ Picks(t, c)' => Sits(c, q)
             /\ Chosen(c)' => Sits(c, q) \/ Chosen(c)
  <2>1. \A c : Picks(t, c)' => Sits(c, q)
    BY <1>1, <1>2 DEF Sits, Picks
  <2> QED BY <1>o, <2>1, OtherClients
<1>6. ~Clears(q) /\ \A r \in Room : Clears(r) => Clears(r)'
  <2>1. ~Clears(q)
    BY <1>1, <1>2, <1>o DEF Alone, HasRoom, Clears
  <2> QED BY <1>2, <1>o, <2>1, OtherClients
<1>7. \A c \in Client : Asking(c)' => Asking(c)
  BY <1>2, <1>o, StepRequests DEF Early
<1>8. ASSUME NEW c \in Client PROVE ApartClient(c)'
  <2>1. ApartClient(c)
    BY DEF SeatInv
  <2>2. Chosen(c)' => (Seated(c) \/ Chosen(c)) /\ (c \notin closed => ~Outside(c))
    BY <1>1, <1>5, <2>1 DEF ApartClient, Seated, Outside
  <2>3. Plays(c)' => ~Chosen(c)'
    BY <1>1, <1>4, <1>5, <1>6, <2>1 DEF ApartClient
  <2> QED BY <1>1, <1>2, <1>4, <1>6, <1>7, <2>1, <2>2, <2>3 DEF ApartClient
<1>9. Chooses(t)'
  <2>1. a # b /\ a # Null /\ \A r \in Room \ {q} : ~Sits(a, r) /\ ~Sits(b, r)
    BY <1>1, ClientAssumption DEF SeatInv, OneSeat, Sits
  <2>2. \A r \in Room : (Sits(a, r)' <=> Sits(a, r)) /\ (Sits(b, r)' <=> Sits(b, r))
    BY <1>4
  <2>3. ids'[t][1] = a /\ ids'[t][2] = b /\ pkg'[t].room = q /\ user1'[q] = a /\ user2'[q] = b
    BY <1>1, <1>2
  <2> QED BY <1>2, <2>1, <2>2, <2>3, ChoosesNext
<1>10. \A u \in Thread \ {t} : pc'[u] \in {"notify", "handoff"} => Chooses(u)'
  BY <1>1, <1>2, <1>4, <1>o, OthersChoose
<1>11. OneChoice'
  <2>1. ASSUME NEW u \in Thread \ {t}, NEW c \in Client, Picks(u, c)' PROVE ~Sits(c, q)
    <3>1. Picks(u, c)
      BY <1>o, <2>1, OtherClients
    <3>2. Chooses(u) /\ pkg[u].room # q
      BY <1>1, <1>o, <3>1 DEF SeatInv, Picks, Alone, HasRoom
    <3> QED BY <1>1, <3>1, <3>2 DEF Chooses, Picks
  <2>2. ASSUME NEW u \in Thread, NEW v \in Thread, NEW c \in Client, Picks(u, c)', Picks(v, c)'
        PROVE  u = v
    <3>1. CASE u = t \/ v = t
      BY <1>5, <2>1, <2>2, <3>1
    <3>2. CASE u # t /\ v # t
      <4>1. Picks(u, c) /\ Picks(v, c)
        BY <1>o, <2>2, <3>2, OtherClients
      <4> QED BY <4>1 DEF SeatInv, OneChoice
    <3> QED BY <3>1, <3>2
  <2> QED BY <2>2 DEF OneChoice, Picks
<1> QED BY <1>3, <1>8, <1>9, <1>10, <1>11 DEF SeatInv

\* a chosen client is told and leaves its seat
LEMMA ToldLeaves ==
  ASSUME Alone, TypeOK, Shape, SeatInv, NEW t \in Thread, NEW q \in Room, NEW c \in Client,
         pc[t] = "notify", pc'[t] \in {"notify", "handoff"}, pkg[t].room = q, Others(t),
         UNCHANGED <<pkg, ids, closed, games, sessionOne>>, Obj(c) = c, Tell(q, c),
         c = ids[t][1] \/ c = ids[t][2],
         \/ user1[q] = c /\ user1' = [user1 EXCEPT ![q] = Null] /\ UNCHANGED user2
         \/ user2[q] = c /\ user2' = [user2 EXCEPT ![q] = Null] /\ UNCHANGED user1,
         \A d \in Client : Asking(d)' => Asking(d)
  PROVE  /\ OneSeat' /\ OneMatch' /\ OneChoice' /\ \A d \in Client : ApartClient(d)'
         /\ \A u \in Thread \ {t} : pc'[u] \in {"notify", "handoff"} => Chooses(u)'
<1>1. OneMatch' /\ OneSeat'
  <2>1. CASE user1' = [user1 EXCEPT ![q] = Null] /\ UNCHANGED user2
    BY <2>1 DEF SeatInv, OneSeat, OneMatch, TypeOK
  <2>2. CASE user2' = [user2 EXCEPT ![q] = Null] /\ UNCHANGED user1
    BY <2>2 DEF SeatInv, OneSeat, OneMatch, TypeOK
  <2> QED BY <2>1, <2>2
<1>2. Chooses(t) /\ \A r \in Room \ {q} : ~Sits(c, r)
  BY DEF SeatInv, Chooses
<1>3. c # Null /\ ~Sits(c, q)'
  BY ClientAssumption DEF SeatInv, OneSeat, Sits, TypeOK
<1>4. \A d \in Client : \A r \in Room : Sits(d, r)' => Sits(d, r)
  BY ClientAssumption DEF Sits, TypeOK
<1>5. \A r \in Room : ~Sits(c, r)'
  BY <1>2, <1>3, <1>4
<1>6. /\ told' = told \cup ({c} \ closed)
      /\ \A r \in Room : waiting'[r] = IF r = q THEN waiting[r] \ {c} ELSE waiting[r]
  <2>1. Obj(c) = c
    OBVIOUS
  <2> QED BY <2>1 DEF Tell, TypeOK
<1>c. ~Clears(q) /\ \A r : Clears(r) => Clears(r)'
  <2>1. ~Clears(q)
    BY DEF Alone, HasRoom, Clears
  <2> QED BY <2>1, OtherClients
<1>p. /\ \A u \in Thread : \A d : Picks(u, d)' <=> Picks(u, d)
      /\ \A d : Chosen(d)' <=> Chosen(d)
  <2>1. \A d : Picks(t, d)' <=> Picks(t, d)
    BY DEF Picks
  <2>2. \A u \in Thread : \A d : Picks(u, d)' <=> Picks(u, d)
    BY <2>1, OtherClients
  <2>3. \A d : Chosen(d)' <=> Chosen(d)
    BY DEF Chosen, Picks, Others
  <2> QED BY <2>2, <2>3
<1>7. ASSUME NEW d \in Client PROVE ApartClient(d)'
  <2>1. ApartClient(d)
    BY DEF SeatInv
  <2>2. /\ Plays(d)' <=> Plays(d)
        /\ Chosen(d)' <=> Chosen(d)
        /\ Seated(d)' => Seated(d)
    BY <1>4, <1>p DEF Plays, Seated
  <2>3. d \notin closed /\ Outside(d)' => Outside(d)
    BY <1>6 DEF Outside
  <2>4. d \notin closed' => \A r \in Room : Sits(d, r)' => d \in waiting'[r]
    BY <1>4, <1>5, <1>6, <2>1 DEF ApartClient
  <2>5. ASSUME Plays(d)', NEW r \in Room, Sits(d, r)'
        PROVE  user1'[r] = d /\ Clears(r)'
    <3>1. user1[r] = d /\ Clears(r)
      BY <1>4, <2>1, <2>2, <2>5 DEF ApartClient
    <3>2. r # q
      BY <1>c, <3>1
    <3> QED BY <1>c, <3>1, <3>2 DEF TypeOK
  <2> QED BY <2>1, <2>2, <2>3, <2>4, <2>5 DEF ApartClient
<1>8. OneChoice'
  BY <1>p DEF SeatInv, OneChoice
<1>9. \A u \in Thread \ {t} : pc'[u] \in {"notify", "handoff"} => Chooses(u)'
  <2>1. \A r \in Room \ {q} : user1'[r] = user1[r] /\ user2'[r] = user2[r]
    BY DEF TypeOK
  <2>2. told \cup closed \subseteq told' \cup closed' /\ HasRoom(t)
    BY <1>6 DEF HasRoom
  <2> QED BY <1>4, <2>1, <2>2, OthersChoose
<1> QED BY <1>1, <1>7, <1>8, <1>9

LEMMA NotifySeats ==
  ASSUME Alone, TypeOK, Shape, OneRequest, SeatInv, NEW t \in Thread,
         NotifyUser1(t) \/ NotifyUser2(t), ~Crash, ~mistaken'
  PROVE  SeatInv'
<1>o. Others(t)
  BY OthersKeep DEF Handler, EnterRoom
<1>1. PICK q \in Room, a \in Client, b \in Client : q = pkg[t].room /\ ids[t] = <<a, b>>
  <2>1. PICK q \in Room : q = pkg[t].room
    BY Handles DEF NotifyUser1, NotifyUser2, At, Entering, Where
  <2>2. ids[t] \in Client \X Client
    BY DEF NotifyUser1, NotifyUser2, At, Shape
  <2> QED BY <2>1, <2>2
<1>2. Chooses(t) /\ pc[t] = "notify"
  BY DEF NotifyUser1, NotifyUser2, At, SeatInv
<1>3. /\ ids[t][1] = a /\ ids[t][2] = b /\ a # b
      /\ user1[q] \in {Null, a} /\ user2[q] = b
      /\ \A r \in Room \ {q} : ~Sits(a, r) /\ ~Sits(b, r)
      /\ user1[q] = Null => a \in told \cup closed
  BY <1>1, <1>2 DEF Chooses
<1>4. CASE NotifyUser1(t)
  <2>1. /\ UNCHANGED <<user2, sessionOne, closed, queue, wire, pc, pkg, ids, games>>
        /\ user1[q] = a /\ Obj(a) = a /\ a \notin closed /\ Tell(q, a)
        /\ user1' = [user1 EXCEPT ![q] = Null] /\ user1'[q] = Null
    <3>1. user1[q] = a /\ Follow({a}) /\ Obj(a) \notin closed
      BY <1>1, <1>3, <1>4 DEF NotifyUser1
    <3>2. Obj(a) = a
      BY <3>1 DEF Follow
    <3> QED BY <1>1, <1>4, <3>1, <3>2
            DEF NotifyUser1, TypeOK, threadVars, clientVars, sessions, outcome
  <2>2. \A c \in Client : Asking(c)' => Asking(c)
    BY <1>2, <1>o, <2>1, StepRequests
  <2>3. /\ OneSeat' /\ OneMatch' /\ OneChoice' /\ \A c \in Client : ApartClient(c)'
        /\ \A u \in Thread \ {t} : pc'[u] \in {"notify", "handoff"} => Chooses(u)'
    BY <1>1, <1>2, <1>3, <1>o, <2>1, <2>2, ToldLeaves
  <2>4. \A r \in Room \ {q} : ~Sits(a, r)' /\ ~Sits(b, r)'
    BY <1>1, <1>3, <2>1, ClientAssumption DEF Sits, TypeOK
  <2>5. a \in told' /\ told' = told \cup ({Obj(a)} \ closed)
    BY <2>1 DEF Tell
  <2>6. /\ ids'[t][1] = a /\ ids'[t][2] = b /\ pkg'[t].room = q
        /\ user1'[q] = Null /\ user2'[q] = b /\ pc'[t] = "notify"
    BY <1>1, <1>2, <1>3, <2>1
  <2>7. Chooses(t)'
    BY <1>3, <2>4, <2>5, <2>6, ChoosesNext
  <2> QED BY <2>3, <2>7 DEF SeatInv
<1>5. CASE NotifyUser2(t)
  <2>1. /\ UNCHANGED <<user1, sessionOne, closed, queue, wire, pkg, ids, games>>
        /\ user1[q] = Null \/ ~sessionOne
        /\ user2[q] = b /\ Obj(b) = b /\ Tell(q, b) /\ pc'[t] = "handoff"
        /\ user2' = [user2 EXCEPT ![q] = Null] /\ user2'[q] = Null
    <3>1. user2[q] = b /\ Follow({b})
      BY <1>1, <1>3, <1>5 DEF NotifyUser2
    <3>2. Obj(b) = b
      BY <3>1 DEF Follow
    <3> QED BY <1>1, <1>5, <3>1, <3>2 DEF NotifyUser2, Goto, TypeOK, clientVars, sessions, outcome
  <2>2. \A c \in Client : Asking(c)' => Asking(c)
    BY <1>2, <1>o, <2>1, StepRequests DEF Early
  <2>3. /\ OneSeat' /\ OneMatch' /\ OneChoice' /\ \A c \in Client : ApartClient(c)'
        /\ \A u \in Thread \ {t} : pc'[u] \in {"notify", "handoff"} => Chooses(u)'
    BY <1>1, <1>2, <1>3, <1>o, <2>1, <2>2, ToldLeaves
  <2>4. \A r \in Room \ {q} : ~Sits(a, r)' /\ ~Sits(b, r)'
    BY <1>1, <1>3, <2>1, ClientAssumption DEF Sits, TypeOK
  <2>5. b \in told' \cup closed' /\ told \subseteq told'
    BY <2>1 DEF Tell
  <2>6. /\ ids'[t][1] = a /\ ids'[t][2] = b /\ pkg'[t].room = q
        /\ user1'[q] = user1[q] /\ user2'[q] = Null
    BY <1>1, <1>3, <2>1
  <2>7. Chooses(t)'
    BY <1>3, <2>1, <2>4, <2>5, <2>6, ChoosesNext
  <2> QED BY <2>3, <2>7 DEF SeatInv
<1> QED BY <1>4, <1>5

LEMMA HandOffSeats ==
  ASSUME Alone, TypeOK, Shape, OneRequest, SeatInv, NEW t \in Thread, HandOff(t)
  PROVE  SeatInv'
<1>1. PICK q \in Room, a \in Client, b \in Client, g \in [room : Room, id1 : Client, id2 : Client] :
        /\ q = pkg[t].room /\ ids[t] = <<a, b>>
        /\ g.id1 = a /\ g.id2 = b /\ games' = Append(games, g)
  <2>1. PICK q \in Room : q = pkg[t].room
    BY Handles DEF HandOff, At, Entering, Where
  <2>2. ids[t] \in Client \X Client
    BY DEF HandOff, At, Shape
  <2>3. games' = Append(games, [room |-> q, id1 |-> ids[t][1], id2 |-> ids[t][2]])
    BY <2>1 DEF HandOff
  <2> QED BY <2>1, <2>2, <2>3
<1>2. /\ UNCHANGED <<user1, user2, sessionOne, closed, waiting, told, queue, wire, pkg, ids>>
      /\ pc[t] = "handoff" /\ pc'[t] = "clear"
  BY DEF HandOff, At, Goto, TypeOK, roomVars, clientVars, knowledge, sessions
<1>o. Others(t) /\ HasRoom(t)
  BY <1>2, OthersKeep DEF Handler, EnterRoom, HasRoom
<1>3. Chooses(t) /\ ids[t][1] = a /\ ids[t][2] = b
  BY <1>1, <1>2 DEF SeatInv
<1>4. /\ a # b /\ user1[q] \in {Null, a} /\ user2[q] = Null
      /\ \A r \in Room \ {q} : ~Sits(a, r) /\ ~Sits(b, r)
  BY <1>1, <1>2, <1>3 DEF Chooses
<1>5. /\ DOMAIN games' = DOMAIN games \cup {Len(games) + 1}
      /\ games'[Len(games) + 1] = g
      /\ \A i \in DOMAIN games : games'[i] = games[i]
  <2>1. games \in Seq([room : Room, id1 : Client, id2 : Client])
    BY DEF TypeOK
  <2> QED BY <1>1, <2>1
<1>6. /\ Picks(t, a) /\ Picks(t, b) /\ Chosen(a) /\ Chosen(b)
      /\ ApartClient(a) /\ ApartClient(b)
  <2>1. Picks(t, a) /\ Picks(t, b)
    BY <1>2, <1>3 DEF Picks
  <2> QED BY <1>1, <2>1 DEF Chosen, SeatInv
<1>7. ~Plays(a) /\ ~Plays(b) /\ ~Asking(a) /\ ~Asking(b)
  BY <1>6 DEF ApartClient
<1>8. OneMatch' /\ \A c : Plays(c)' => Plays(c) \/ c = a \/ c = b
  <2>1. OneMatch'
    BY <1>1, <1>4, <1>5, <1>7 DEF Plays, SeatInv, OneMatch
  <2>2. \A c : Plays(c)' => Plays(c) \/ c = a \/ c = b
    BY <1>1, <1>5 DEF Plays
  <2> QED BY <2>1, <2>2
<1>9. \A c \in Client : Asking(c)' => Asking(c)
  BY <1>2, <1>o, StepRequests DEF Early
<1>10. OneSeat'
  BY <1>2 DEF SeatInv, OneSeat
<1>n. \A u \in Thread : \A c : Picks(u, c)' => Picks(u, c) /\ u # t
  BY <1>2, <1>o DEF Picks, Others
<1>11. ASSUME NEW c \in Client
       PROVE  /\ Seated(c)' <=> Seated(c)
              /\ Outside(c)' <=> Outside(c)
              /\ \A r \in Room : Sits(c, r)' <=> Sits(c, r)
              /\ Chosen(c)' => Chosen(c) /\ c # a /\ c # b
  <2>1. /\ Seated(c)' <=> Seated(c)
        /\ Outside(c)' <=> Outside(c)
        /\ \A r \in Room : Sits(c, r)' <=> Sits(c, r)
    BY <1>2 DEF Seated, Outside, Sits
  <2>2. ASSUME NEW u \in Thread, Picks(u, c)' PROVE Chosen(c) /\ c # a /\ c # b
    <3>1. Picks(u, c) /\ u # t
      BY <1>n, <2>2
    <3> QED BY <1>1, <1>6, <3>1 DEF SeatInv, OneChoice, Chosen
  <2> QED BY <2>1, <2>2 DEF Chosen
<1>12. Clears(q)' /\ \A r \in Room : Clears(r) => Clears(r)'
  <2>1. Clears(q)'
    BY <1>1, <1>2 DEF Clears
  <2> QED BY <1>2, <1>o, <2>1, OtherClients
<1>13. ASSUME NEW c \in Client PROVE ApartClient(c)'
  <2>1. ApartClient(c)
    BY DEF SeatInv
  <2>2. CASE c = a \/ c = b
    <3>1. \A r \in Room : Sits(c, r) => r = q /\ user1[r] = c
      BY <1>1, <1>4, <2>2, ClientAssumption DEF Sits
    <3> QED BY <1>2, <1>6, <1>7, <1>9, <1>11, <1>12, <2>1, <2>2, <3>1 DEF ApartClient
  <2>3. CASE c # a /\ c # b
    BY <1>2, <1>8, <1>9, <1>11, <1>12, <2>1, <2>3 DEF ApartClient
  <2> QED BY <2>2, <2>3
<1>14. \A u \in Thread : pc'[u] \in {"notify", "handoff"} => Chooses(u)'
  BY <1>1, <1>2, <1>11, <1>o, OthersChoose
<1>15. OneChoice'
  BY <1>n DEF SeatInv, OneChoice
<1> QED BY <1>8, <1>10, <1>13, <1>14, <1>15 DEF SeatInv

LEMMA ClearRoomSeats ==
  ASSUME Alone, TypeOK, Shape, OneRequest, SeatInv, NEW t \in Thread, ClearRoom(t)
  PROVE  SeatInv'
<1>1. PICK q \in Room : q = pkg[t].room
  BY Handles DEF ClearRoom, At, Entering, Where
<1>2. /\ UNCHANGED <<user2, sessionOne, closed, waiting, told, games, queue, wire>>
      /\ pc[t] = "clear" /\ pc'[t] = "idle" /\ user1' = [user1 EXCEPT ![q] = Null]
  BY <1>1 DEF ClearRoom, At, Finish, TypeOK, clientVars, knowledge, sessions, outcome
<1>o. Others(t) /\ HasRoom(t)
  BY <1>2, OthersKeep DEF Handler, EnterRoom, HasRoom
<1>3. OneSeat' /\ OneMatch'
  BY <1>1, <1>2 DEF SeatInv, OneSeat, OneMatch, TypeOK
<1>4. \A c \in Client : \A r \in Room : Sits(c, r)' => Sits(c, r)
  BY <1>1, <1>2, ClientAssumption DEF Sits, TypeOK
<1>5. \A c \in Client : Asking(c)' => Asking(c)
  BY <1>2, <1>o, StepRequests
<1>6. \A r : Clears(r) /\ r # q => Clears(r)'
  BY <1>1, <1>2, <1>o, OtherClients
<1>n. /\ \A u \in Thread : \A c : Picks(u, c)' => Picks(u, c)
      /\ \A c : Chosen(c)' => Chosen(c)
  <2>1. \A u \in Thread : \A c : Picks(u, c)' => Picks(u, c)
    BY <1>2, <1>o DEF Picks, Others
  <2> QED BY <1>2, <1>o, OtherClients DEF Picks
<1>7. ASSUME NEW c \in Client PROVE ApartClient(c)'
  <2>1. ApartClient(c)
    BY DEF SeatInv
  <2>2. /\ Plays(c)' <=> Plays(c)
        /\ Outside(c)' <=> Outside(c)
        /\ Seated(c)' => Seated(c)
        /\ Chosen(c)' => Chosen(c)
    BY <1>2, <1>4, <1>n DEF Plays, Outside, Seated
  <2>3. ASSUME Plays(c), NEW r \in Room, Sits(c, r)'
        PROVE  user1'[r] = c /\ Clears(r)'
    <3>1. user1[r] = c /\ Clears(r)
      BY <1>4, <2>1, <2>3 DEF ApartClient
    <3>2. r # q
      <4>1. ASSUME r = q PROVE FALSE
        <5>1. user1'[q] = Null /\ user2'[q] = c
          BY <1>1, <1>2, <2>3, <4>1, ClientAssumption DEF Sits, TypeOK
        <5> QED BY <1>2, <3>1, <4>1, <5>1, ClientAssumption DEF SeatInv, OneSeat
      <4> QED BY <4>1
    <3> QED BY <1>1, <1>2, <1>6, <3>1, <3>2 DEF TypeOK
  <2> QED BY <1>2, <1>4, <1>5, <2>1, <2>2, <2>3 DEF ApartClient
<1>8. ASSUME NEW u \in Thread, pc'[u] \in {"notify", "handoff"} PROVE Chooses(u)'
  <2>1. \A r \in Room \ {q} : user1'[r] = user1[r] /\ user2'[r] = user2[r]
    BY <1>1, <1>2 DEF TypeOK
  <2> QED BY <1>1, <1>2, <1>4, <1>8, <1>o, <2>1, OthersChoose
<1>9. OneChoice'
  BY <1>n DEF SeatInv, OneChoice
<1> QED BY <1>3, <1>7, <1>8, <1>9 DEF SeatInv

ClientInv == OneRequest /\ SeatInv

LEMMA HandlerSeats ==
  ASSUME Alone, TypeOK, Shape, ClientInv, NEW t \in Thread, Handler(t), ~mistaken'
  PROVE  ClientInv'
<1> USE DEF ClientInv, At, Goto, Finish, roomVars, threadVars, clientVars, knowledge, sessions,
            outcome
<1>o. Others(t)
  BY OthersKeep
<1>1. CASE Crash
  <2>1. OneRequest' /\ \A c \in Client : Asking(c)' => Asking(c)
    BY <1>1, StepRequests DEF Crash
  <2> QED BY <1>1, <2>1, SeatsStay DEF Crash, seats
<1>2. CASE C_REQ_LOBBY_INFO(t) \/ I_INITIALIZE_ROOMMEMBER(t)
  <2>1. OneRequest' /\ \A c \in Client : Asking(c)' => Asking(c)
    BY <1>2, <1>o, StepRequests DEF C_REQ_LOBBY_INFO, I_INITIALIZE_ROOMMEMBER, TypeOK
  <2> QED BY <1>2, <1>o, <2>1, SeatsStay DEF C_REQ_LOBBY_INFO, I_INITIALIZE_ROOMMEMBER, seats, TypeOK
<1>3. CASE EnterCheck(t) \/ EnterCount(t) \/ EnterSeat(t)
  <2>1. OneRequest' /\ \A c \in Client : Asking(c)' => Asking(c)
    BY <1>3, <1>o, StepRequests DEF EnterCheck, EnterCount, EnterSeat, TypeOK, Early
  <2> QED BY <1>3, <1>o, <2>1, SeatsStay DEF EnterCheck, EnterCount, EnterSeat, seats, TypeOK
<1>4. CASE AnnounceBegins(t) \/ Announce(t) \/ RoomIsFull(t)
  <2>1. OneRequest' /\ \A c \in Client : Asking(c)' => Asking(c)
    BY <1>4, <1>o, StepRequests DEF AnnounceBegins, Announce, RoomIsFull, TypeOK, Early
  <2> QED BY <1>4, <1>o, <2>1, SeatsStay DEF AnnounceBegins, Announce, RoomIsFull, seats, TypeOK
<1>5. CASE TakeSeat(t)
  BY <1>5, <1>o, TakeSeatSeats, StepRequests DEF TakeSeat, TypeOK, Early
<1>6. CASE ReadIds(t) /\ ~Crash
  BY <1>6, <1>o, ReadIdsSeats, StepRequests DEF ReadIds, TypeOK, Early
<1>7. CASE NotifyUser1(t) /\ ~Crash
  BY <1>7, <1>o, NotifySeats, StepRequests DEF NotifyUser1, TypeOK, Early
<1>8. CASE NotifyUser2(t) /\ ~Crash
  BY <1>8, <1>o, NotifySeats, StepRequests DEF NotifyUser2, TypeOK, Early
<1>9. CASE HandOff(t)
  BY <1>9, <1>o, HandOffSeats, StepRequests DEF HandOff, TypeOK, Early
<1>10. CASE ClearRoom(t)
  BY <1>10, <1>o, ClearRoomSeats, StepRequests DEF ClearRoom, TypeOK
<1> QED BY <1>1, <1>2, <1>3, <1>4, <1>5, <1>6, <1>7, <1>8, <1>9, <1>10 DEF Handler, EnterRoom

LEMMA ClientsKept ==
  ASSUME Alone, TypeOK, Shape, ClientInv, [Next]_vars, ~mistaken'
  PROVE  ClientInv'
<1> USE DEF ClientInv, roomVars, threadVars, clientVars, knowledge, sessions, outcome
<1>1. CASE UNCHANGED vars
  <2>1. OneRequest' /\ \A c \in Client : Asking(c)' => Asking(c)
    BY <1>1, StepRequests DEF vars
  <2> QED BY <1>1, <2>1, SeatsStay DEF vars, seats
<1>2. ASSUME NEW c \in Client, AskLobbyInfo(c) \/ \E r \in Room : AskEnterRoom(c, r)
      PROVE  ClientInv'
  BY <1>2, AskRequests, SeatsStay DEF AskLobbyInfo, AskEnterRoom, seats
<1>3. ASSUME NEW c \in Client, RequestArrives(c) PROVE ClientInv'
  BY <1>3, ArriveRequests, SeatsStay DEF RequestArrives, seats
<1>4. CASE ResetArrives
  <2>1. PICK p \in Package : IsReset(p) /\ queue' = Append(queue, p)
    <3>1. Head(ended) \in Room
      BY <1>4 DEF ResetArrives, TypeOK
    <3> QED BY <1>4, <3>1 DEF ResetArrives, Send, Package, IsReset
  <2>2. OneInLine' /\ \A c \in Client : InLine(c)' <=> InLine(c)
    BY <2>1, Enqueued DEF OneRequest
  <2>3. UNCHANGED <<wire, pc, pkg, ids, seats>>
    BY <1>4 DEF ResetArrives, seats
  <2>4. \A c \in Client : (Served(c)' <=> Served(c)) /\ (Enters(c)' <=> Enters(c))
    BY <2>3 DEF Served, Serves, Enters, IsReset
  <2>5. OneServes'
    BY <2>3 DEF OneRequest, OneServes, Serves, IsReset
  <2>6. OneRequest' /\ \A c \in Client : Asking(c)' => Asking(c)
    BY <2>2, <2>3, <2>4, <2>5 DEF OneRequest, Asking
  <2> QED BY <2>3, <2>6, SeatsStay
<1>6. ASSUME NEW c \in Client, NEW a \in Address, Connect(c, a) PROVE ClientInv'
  <2>1. UNCHANGED <<queue, wire, pc, pkg, ids, seats>>
    BY <1>6 DEF Connect, seats
  <2>2. OneRequest' /\ \A d \in Client : Asking(d)' => Asking(d)
    BY <2>1, StepRequests
  <2> QED BY <2>1, <2>2, SeatsStay
<1>5. ASSUME NEW u \in Thread, TakePackage(u) PROVE ClientInv'
  <2>1. OneRequest' /\ \A c \in Client : Asking(c)' => Asking(c)
    BY <1>5, TakeRequests
  <2>2. /\ UNCHANGED seats /\ Others(u)
        /\ pc[u] \notin {"notify", "handoff", "clear"}
        /\ pc'[u] \notin {"notify", "handoff", "clear"}
    BY <1>5, OthersKeep DEF TakePackage, FirstStep, TypeOK, seats
  <2> QED BY <2>1, <2>2, SeatsStay
<1> QED BY <1>1, <1>2, <1>3, <1>4, <1>5, <1>6, CloseSeats, GameEndsSeats, HandlerSeats
        DEF Next, LobbyStep, Clients

\* until then, and until a seat leads to somebody else's session
ClientsApart == met \/ mistaken \/ ClientInv

LEMMA MistakenStays ==
  ASSUME TypeOK, [Next]_vars, ~mistaken'
  PROVE  ~mistaken
<1>1. CASE UNCHANGED mistaken
  BY <1>1
<1>2. ASSUME NEW t \in Thread, TakePackage(t) PROVE ~mistaken
  BY <1>1, <1>2 DEF TakePackage
<1>3. CASE UNCHANGED vars
  BY <1>1, <1>3 DEF vars
<1> QED BY <1>1, <1>2, <1>3, OutsideStays, HandlerGoesOn DEF Next, LobbyStep

LEMMA ClientsInvariant == Spec => [](TypeOK /\ ClientsApart)
<1>1. LobbyInit => ClientsApart
  <2> SUFFICES ASSUME LobbyInit PROVE ClientInv
    BY DEF ClientsApart
  <2>2. OneRequest /\ OneSeat /\ OneMatch /\ OneChoice
    BY DEF LobbyInit, OneRequest, OneInLine, OneServes, Serves, InLine, Served, OneSeat, OneMatch,
       OneChoice, Picks
  <2>3. \A c \in Client : ~Asking(c) /\ ~Seated(c) /\ ~Plays(c) /\ ~Chosen(c)
    BY ClientAssumption
    DEF LobbyInit, Asking, InLine, Enters, Early, Seated, Sits, Plays, Chosen, Picks
  <2>4. \A c \in Client : ApartClient(c)
    BY <2>3 DEF ApartClient, Seated
  <2>5. \A u \in Thread : pc[u] \notin {"notify", "handoff"}
    BY DEF LobbyInit
  <2> QED BY <2>2, <2>4, <2>5 DEF ClientInv, SeatInv
<1>2. TypeOK /\ Shape /\ RoomsApart /\ ClientsApart /\ [Next]_vars => ClientsApart'
  <2> SUFFICES ASSUME TypeOK, Shape, RoomsApart, ClientsApart, [Next]_vars, ~met', ~mistaken'
               PROVE  ClientInv'
    BY DEF ClientsApart
  <2>1. ~met /\ Alone /\ ~mistaken
    BY AloneKept, MistakenStays DEF RoomsApart
  <2> QED BY <2>1, ClientsKept DEF ClientsApart
<1> QED BY <1>1, <1>2, RoomsInvariant, PTL DEF Spec

(***************************************************************************)
(* The ids handed over are those of two clients that sat in the room, and  *)
(* who is handed over has left every other seat: with any number of        *)
(* contents threads no client plays two games, nor one against itself,     *)
(* until two threads are at one room at once or a seat leads to the        *)
(* session of the next client that connected.                              *)
(***************************************************************************)
THEOREM OneGameForAll == Spec => []PlaysOneGame
<1>1. ClientsApart => PlaysOneGame
  BY DEF ClientsApart, ClientInv, SeatInv, OneMatch, PlaysOneGame
<1> QED BY <1>1, ClientsInvariant, PTL

(***************************************************************************)
(* When a match is handed over the second player has been told where the   *)
(* game server is, and the first has unless session 1 is closed, for which *)
(* line 219 looks; who is not told is gone.  The exceptions are those of   *)
(* OneGameForAll.                                                          *)
(***************************************************************************)
THEOREM BothAreTold == Spec => []HandOffTellsBoth
<1>1. ClientsApart => HandOffTellsBoth
  BY DEF ClientsApart, ClientInv, SeatInv, Chooses, HandOffTellsBoth
<1> QED BY <1>1, ClientsInvariant, PTL
=============================================================================
