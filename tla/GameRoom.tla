------------------------------ MODULE GameRoom ------------------------------
(***************************************************************************)
(* InGameServer/InGameProcess.cpp and RoomManager.cpp: the game rooms.     *)
(* The lobby names two session ids for a room; the server makes a Room,    *)
(* looks the two sessions up, up to three times, and either tells both     *)
(* that the game is on or gives the room back to the lobby.  During the    *)
(* game it relays what one player does to the other; the first player's    *)
(* C_REQ_BOSS_EXPLOSION ends the game.                                     *)
(*                                                                         *)
(* roomArr has no lock; simpleSessionManager has one per call.  A handler  *)
(* finds a Room and uses the pointer in later steps.  A deleted Room has   *)
(* its ids zeroed by ~Room: using one stops the process, or finds ids that *)
(* match nobody.  Using a deleted Session stops the process or is not      *)
(* noticed.                                                                *)
(***************************************************************************)
EXTENDS Naturals, Sequences, FiniteSets

CONSTANTS Id,          \* session ids of this server
          Room,        \* room numbers
          Thread, Null,
          MaxGames,    \* bound: matches the lobby hands over
          MaxClose,    \* bound: players that disconnect
          Setups       \* bound: players, contents threads, and the requests a player sends

ASSUME IdAssumption == Null \notin Id
ASSUME GameBounds ==
  /\ MaxGames \in Nat /\ MaxClose \in Nat
  /\ Setups \subseteq [id : SUBSET Id, thread : SUBSET Thread, sends : Nat]

VARIABLES
  setup,      \* the setup of this server, which never changes
  running,    \* the process has not crashed
  conn,       \* the session of each id: absent, listed by SESSIONMANAGER, closed
  roomArr,    \* the index in objs of the Room a number maps to, or 0
  objs,       \* every Room made: its two ids, its count, deleted or not
  users,      \* simpleSessionManager: no entry, an entry with NULL, a Session*
  queue, pc, pkg,
  obj,        \* each thread: the Room it points to, an index in objs
  tries,      \* each thread: count in I_USER_INFO
  toChat,     \* rooms given back, on their way to the lobby
  lent,       \* the lobby: rooms it has handed over and not got back
  playing,    \* the room each player was told his game is on in, or Null
  sent,       \* requests sent by each player
  met         \* ghost: room numbers a match was begun under while another match
              \* was mapped to it, or another handler had a Room of that number

roomVars == <<roomArr, objs, users>>
threadVars == <<pc, pkg, obj, tries>>
outside == <<lent, playing, sent>>
gameVars == <<running, conn, roomVars, queue, threadVars, toChat, outside, met>>
vars == <<setup, gameVars>>

\* what one player does and the other must see, and how the handler does it
Relays == {"PLAYER_MOVE", "FIRE_BULLET", "MAKE_ENEMY", "MAKE_BOSS"}
User1Only == {"MAKE_ENEMY", "MAKE_BOSS"}
NullChecked == {"PLAYER_MOVE", "MAKE_ENEMY"}

Package == [type : {"USER_INFO"}, room : Room, id1 : Id, id2 : Id]
             \cup [type : Relays \cup {"ENEMY_EXPLOSION", "BOSS_EXPLOSION"},
                   from : Id, room : Room]

GameInit ==
  /\ setup \in Setups
  /\ running = TRUE
  /\ conn = [i \in Id |-> "absent"]
  /\ roomArr = [r \in Room |-> 0]
  /\ objs = <<>>
  /\ users = [i \in Id |-> "none"]
  /\ queue = <<>>
  /\ pc = [t \in Thread |-> "idle"]
  /\ pkg = [t \in Thread |-> Null]
  /\ obj = [t \in Thread |-> 0]
  /\ tries = [t \in Thread |-> 0]
  /\ toChat = <<>>
  /\ lent = {}
  /\ playing = [i \in Id |-> Null]
  /\ sent = [i \in Id |-> 0]
  /\ met = {}

-----------------------------------------------------------------------------
(***************************************************************************)
(* The outside: players and the lobby.                                     *)
(***************************************************************************)
Connect(i) ==
  /\ running /\ conn[i] = "absent"
  /\ conn' = [conn EXCEPT ![i] = "listed"]
  /\ UNCHANGED <<running, roomVars, queue, threadVars, toChat, outside, met>>

Close(i) ==
  /\ running /\ conn[i] = "listed"
  /\ Cardinality({j \in Id : conn[j] = "closed"}) < MaxClose
  /\ conn' = [conn EXCEPT ![i] = "closed"]
  /\ playing' = [playing EXCEPT ![i] = Null]
  /\ UNCHANGED <<running, roomVars, queue, threadVars, toChat, lent, sent, met>>

InGame(i) == \/ \E k \in DOMAIN queue : /\ queue[k].type = "USER_INFO"
                                        /\ i \in {queue[k].id1, queue[k].id2}
             \/ \E t \in Thread : /\ pc[t] # "idle" /\ pkg[t].type = "USER_INFO"
                                  /\ i \in {pkg[t].id1, pkg[t].id2}
             \/ playing[i] # Null

HandOver(r, i, j) ==
  /\ running /\ r \notin lent /\ i # j /\ ~InGame(i) /\ ~InGame(j)
  /\ Len(objs) < MaxGames
  /\ \A k \in DOMAIN queue : queue[k].type # "USER_INFO"
  /\ lent' = lent \cup {r}
  /\ queue' = Append(queue, [type |-> "USER_INFO", room |-> r, id1 |-> i, id2 |-> j])
  /\ UNCHANGED <<running, conn, roomVars, threadVars, toChat, playing, sent, met>>

GiveBack ==
  /\ running /\ toChat # <<>>
  /\ lent' = lent \ {Head(toChat)}
  /\ toChat' = Tail(toChat)
  /\ UNCHANGED <<running, conn, roomVars, queue, threadVars, playing, sent, met>>

\* a client asks for the end of its game once
Ending(i) == \/ \E k \in DOMAIN queue : queue[k].type = "BOSS_EXPLOSION" /\ queue[k].from = i
             \/ \E t \in Thread : /\ pc[t] # "idle" /\ pkg[t].type = "BOSS_EXPLOSION"
                                  /\ pkg[t].from = i

Play(i, type) ==
  /\ running /\ playing[i] # Null /\ sent[i] < setup.sends /\ ~Ending(i)
  /\ sent' = [sent EXCEPT ![i] = @ + 1]
  /\ queue' = Append(queue, [type |-> type, from |-> i, room |-> playing[i]])
  /\ UNCHANGED <<running, conn, roomVars, threadVars, toChat, lent, playing, met>>

-----------------------------------------------------------------------------
(***************************************************************************)
(* The contents threads.                                                   *)
(***************************************************************************)
At(t, l) == running /\ pc[t] = l

Goto(t, l) == pc' = [pc EXCEPT ![t] = l]

\* the handler returns, execute() deletes the package
Return(t) == /\ pc' = [pc EXCEPT ![t] = "idle"]
             /\ pkg' = [pkg EXCEPT ![t] = Null]
             /\ obj' = [obj EXCEPT ![t] = 0]
             /\ tries' = [tries EXCEPT ![t] = 0]

Crash == /\ running' = FALSE
         /\ UNCHANGED <<conn, roomVars, queue, threadVars, toChat, outside, met>>

\* sendPacket through the pointers of these sessions
SendTo(S) == running' \in IF \E i \in S : conn[i] = "closed" THEN BOOLEAN ELSE {TRUE}

Players(o) == {objs[o].u1, objs[o].u2} \ {Null}

\* mutant: ~Room takes out the first player only
DeleteFirst(o) ==
  /\ users' = [i \in Id |-> IF i = objs[o].u1 THEN "none" ELSE users[i]]
  /\ objs' = [objs EXCEPT ![o].u1 = Null, ![o].u2 = Null, ![o].deleted = TRUE]

\* delete of a Room: ~Room takes both players out of simpleSessionManager
Delete(o) ==
  /\ users' = [i \in Id |-> IF i \in Players(o) THEN "none" ELSE users[i]]
  /\ objs' = [objs EXCEPT ![o].u1 = Null, ![o].u2 = Null, ![o].deleted = TRUE]

TakePackage(t) ==
  /\ t \in setup.thread
  /\ running /\ pc[t] = "idle" /\ queue # <<>>
  /\ pkg' = [pkg EXCEPT ![t] = Head(queue)]
  /\ queue' = Tail(queue)
  /\ pc' = [pc EXCEPT ![t] = IF Head(queue).type = "USER_INFO" THEN "insert" ELSE "find"]
  /\ UNCHANGED <<running, conn, roomVars, obj, tries, toChat, outside, met>>

(***************************************************************************)
(* I_USER_INFO                                                             *)
(***************************************************************************)
\* its handler has a pointer to a Room
HasRoom(t) == pc[t] \notin {"idle", "insert", "find"}

Meets(t, r) == roomArr[r] # 0 \/ \E u \in Thread \ {t} : HasRoom(u) /\ pkg[u].room = r

\* new Room; Insert_User_Info: insert() leaves an existing entry alone
InsertRoom(t) ==
  LET r == pkg[t].room  o == Len(objs) + 1
  IN /\ At(t, "insert")
     /\ objs' = Append(objs, [u1 |-> pkg[t].id1, u2 |-> pkg[t].id2, total |-> 0,
                              deleted |-> FALSE, given |-> 0, on |-> FALSE, room |-> r])
     /\ met' = IF Meets(t, r) THEN met \cup {r} ELSE met
     /\ roomArr' = IF roomArr[r] = 0 THEN [roomArr EXCEPT ![r] = o] ELSE roomArr
     /\ obj' = [obj EXCEPT ![t] = o]
     /\ Goto(t, "try")
     /\ UNCHANGED <<running, conn, users, queue, pkg, tries, toChat, outside>>

\* Insert_Sessions(id, SESSIONMANAGER.session(id)): insert() again
Register(i) ==
  users' = [users EXCEPT ![i] = IF @ # "none" THEN @
                                ELSE IF conn[i] = "listed" THEN "set" ELSE "null"]

\* mutant: the count is not advanced
TryUncounted(t) ==
  /\ At(t, "try")
  /\ tries[t] < 3
  /\ Register(pkg[t].id1)
  /\ Goto(t, "second")
  /\ UNCHANGED <<running, conn, roomArr, objs, queue, pkg, obj, tries, toChat, outside, met>>

Try(t) ==
  /\ At(t, "try") /\ ~objs[obj[t]].deleted
  /\ tries[t] < 3
  /\ tries' = [tries EXCEPT ![t] = @ + 1]
  /\ Register(pkg[t].id1)
  /\ Goto(t, "second")
  /\ UNCHANGED <<running, conn, roomArr, objs, queue, pkg, obj, toChat, outside, met>>

TrySecond(t) ==
  /\ At(t, "second") /\ ~objs[obj[t]].deleted
  /\ Register(pkg[t].id2)
  /\ Goto(t, "both")
  /\ UNCHANGED <<running, conn, roomArr, objs, queue, pkg, obj, tries, toChat, outside, met>>

\* Find_sessions of both; while (temp1 == NULL || temp2 == NULL)
FoundBoth(t) ==
  LET p == {pkg[t].id1, pkg[t].id2}
  IN /\ At(t, "both") /\ ~objs[obj[t]].deleted
     /\ \A i \in p : users[i] = "set"
     /\ SendTo(p)
     /\ playing' = [i \in Id |-> IF i \in p /\ conn[i] = "listed" THEN pkg[t].room
                                                                  ELSE playing[i]]
     /\ objs' = [objs EXCEPT ![obj[t]].on = TRUE]
     /\ Return(t)
     /\ UNCHANGED <<conn, roomArr, users, queue, toChat, lent, sent, met>>

FoundNotBoth(t) ==
  /\ At(t, "both") /\ ~objs[obj[t]].deleted
  /\ \E i \in {pkg[t].id1, pkg[t].id2} : users[i] # "set"
  /\ Goto(t, "try")
  /\ UNCHANGED <<running, conn, roomVars, queue, pkg, obj, tries, toChat, outside, met>>

\* another thread has ended this match: the ids of its Room name nobody, and
\* the remaining tries find nobody
StaleMatch(t) ==
  /\ running /\ pc[t] \in {"try", "second", "both"}
  /\ tries[t] < 3 \/ pc[t] # "try"
  /\ objs[obj[t]].deleted
  /\ \/ Crash
     \/ /\ tries' = [tries EXCEPT ![t] = 3]
        /\ Goto(t, "try")
        /\ UNCHANGED <<running, conn, roomVars, queue, pkg, obj, toChat, outside, met>>

\* mutant: gives the room back and tries on
GiveUpAgain(t) ==
  /\ At(t, "try")
  /\ tries[t] >= 3
  /\ toChat' = Append(toChat, pkg[t].room)
  /\ objs' = [objs EXCEPT ![obj[t]].given = @ + 1]
  /\ tries' = [tries EXCEPT ![t] = 0]
  /\ UNCHANGED <<running, conn, roomArr, users, queue, pc, pkg, obj, outside, met>>

\* if (count >= 3): I_INITIALIZE_ROOMMEMBER, erase by number, delete
GiveUp(t) ==
  /\ At(t, "try")
  /\ tries[t] >= 3
  /\ toChat' = Append(toChat, pkg[t].room)
  /\ objs' = [objs EXCEPT ![obj[t]].given = @ + 1]
  /\ Goto(t, "erase")
  /\ UNCHANGED <<running, conn, roomArr, users, queue, pkg, obj, tries, outside, met>>

(***************************************************************************)
(* The requests of the players begin with roomArr.find.                    *)
(***************************************************************************)
FindRoom(t) ==
  LET o == roomArr[pkg[t].room]
  IN /\ At(t, "find")
     /\ IF o = 0 THEN Return(t)
                 ELSE /\ obj' = [obj EXCEPT ![t] = o]
                      /\ Goto(t, pkg[t].type)
                      /\ UNCHANGED <<pkg, tries>>
     /\ UNCHANGED <<running, conn, roomVars, queue, toChat, outside, met>>

\* a Room another thread has deleted
StaleRoom(t) ==
  /\ running /\ pc[t] \in Relays \cup {"ENEMY_EXPLOSION", "BOSS_EXPLOSION", "explode"}
  /\ objs[obj[t]].deleted
  /\ \/ Crash
     \/ /\ Return(t)
        /\ UNCHANGED <<running, conn, roomVars, queue, toChat, outside, met>>

Partner(o, i) == IF objs[o].u1 = i THEN objs[o].u2
                 ELSE IF objs[o].u2 = i THEN objs[o].u1 ELSE Null

MayRelay(o, i, type) ==
  /\ Partner(o, i) # Null
  /\ type \in User1Only => objs[o].u1 = i
  /\ type = "MAKE_ENEMY" => objs[o].total = 0

\* C_REQ_PLAYER_MOVE, C_REQ_FIRE_BULLET, C_REQ_MAKE_ENEMY, C_REQ_MAKE_BOSS
Relay(t) ==
  LET o == obj[t]  i == pkg[t].from  p == Partner(o, i)
  IN /\ running /\ pc[t] \in Relays /\ ~objs[o].deleted
     /\ IF ~MayRelay(o, i, pkg[t].type)
          THEN Return(t) /\ UNCHANGED <<running, conn, roomVars, queue, toChat, outside, met>>
          ELSE IF users[p] # "set"
            THEN IF pkg[t].type \in NullChecked
                   THEN Return(t) /\ UNCHANGED <<running, conn, roomVars, queue,
                                                 toChat, outside, met>>
                   ELSE Crash
            ELSE /\ SendTo({p} \cup IF pkg[t].type \in User1Only THEN {i} ELSE {})
                 /\ Return(t)
                 /\ UNCHANGED <<conn, roomVars, queue, toChat, outside, met>>

\* total_exploded_enemy < 5, then += enemycount (one at a time here)
C_REQ_ENEMY_EXPLOSION(t) ==
  LET o == obj[t]
  IN /\ At(t, "ENEMY_EXPLOSION") /\ ~objs[o].deleted
     /\ IF pkg[t].from = objs[o].u1 /\ objs[o].total < 5
          THEN Goto(t, "explode") /\ UNCHANGED <<pkg, obj, tries>>
          ELSE Return(t)
     /\ UNCHANGED <<running, conn, roomVars, queue, toChat, outside, met>>

Explode(t) ==
  LET o == obj[t]
  IN /\ At(t, "explode") /\ ~objs[o].deleted
     /\ objs' = [objs EXCEPT ![o].total = @ + 1]
     /\ SendTo({pkg[t].from})
     /\ Return(t)
     /\ UNCHANGED <<conn, roomArr, users, queue, toChat, outside, met>>

(***************************************************************************)
(* C_REQ_BOSS_EXPLOSION: give the room back, tell both, erase, delete.     *)
(***************************************************************************)
C_REQ_BOSS_EXPLOSION(t) ==
  LET o == obj[t]
  IN /\ At(t, "BOSS_EXPLOSION") /\ ~objs[o].deleted
     /\ IF pkg[t].from = objs[o].u1
          THEN /\ toChat' = Append(toChat, pkg[t].room)
               /\ objs' = [objs EXCEPT ![o].given = @ + 1]
               /\ Goto(t, "tell")
               /\ UNCHANGED <<pkg, obj, tries>>
          ELSE Return(t) /\ UNCHANGED <<toChat, objs>>
     /\ UNCHANGED <<running, conn, roomArr, users, queue, outside, met>>

TellBoth(t) ==
  LET o == obj[t]  p == objs[o].u2
  IN /\ At(t, "tell")
     /\ IF objs[o].deleted \/ users[p] # "set"
          THEN Crash
          ELSE /\ SendTo({pkg[t].from, p})
               /\ playing' = [playing EXCEPT ![pkg[t].from] = Null, ![p] = Null]
               /\ Goto(t, "erase")
               /\ UNCHANGED <<conn, roomVars, queue, pkg, obj, tries, toChat,
                              lent, sent, met>>

\* mutant: the Room is deleted and stays in roomArr
EraseNothing(t) ==
  /\ At(t, "erase")
  /\ Goto(t, "delete")
  /\ UNCHANGED <<running, conn, roomArr, objs, users, queue, pkg, obj, tries,
                 toChat, outside, met>>

\* GetroomArr()->erase(room_num), whatever Room it maps to by now
EraseRoom(t) ==
  /\ At(t, "erase")
  /\ roomArr' = [roomArr EXCEPT ![pkg[t].room] = 0]
  /\ Goto(t, "delete")
  /\ UNCHANGED <<running, conn, objs, users, queue, pkg, obj, tries, toChat, outside, met>>

DeleteRoom(t) ==
  /\ At(t, "delete")
  /\ IF objs[obj[t]].deleted
       THEN Crash
       ELSE /\ Delete(obj[t])
            /\ Return(t)
            /\ UNCHANGED <<running, conn, roomArr, queue, toChat, outside, met>>
-----------------------------------------------------------------------------
I_USER_INFO(t) == \/ InsertRoom(t) \/ Try(t) \/ TrySecond(t)
                  \/ FoundBoth(t) \/ FoundNotBoth(t)
                  \/ StaleMatch(t) \/ GiveUp(t)

EndGame(t) == \/ C_REQ_BOSS_EXPLOSION(t) \/ TellBoth(t)
              \/ EraseRoom(t) \/ DeleteRoom(t)

Handler(t) == \/ I_USER_INFO(t) \/ FindRoom(t) \/ StaleRoom(t) \/ Relay(t)
              \/ C_REQ_ENEMY_EXPLOSION(t) \/ Explode(t) \/ EndGame(t)

Work(t) == TakePackage(t) \/ Handler(t)

Outside == \/ \E i \in setup.id : \/ Connect(i) \/ Close(i)
                            \/ \E type \in Relays \cup {"ENEMY_EXPLOSION", "BOSS_EXPLOSION"} :
                                 Play(i, type)
           \/ \E r \in Room, i, j \in setup.id : HandOver(r, i, j)
           \/ GiveBack

Next == /\ Outside \/ \E t \in Thread : Work(t)
        /\ UNCHANGED setup

Spec == GameInit /\ [][Next]_vars

(***************************************************************************)
(* The contents threads keep running (process() loops until shutdown).     *)
(***************************************************************************)
FairSpec == Spec /\ \A t \in Thread : WF_gameVars(Work(t))
-----------------------------------------------------------------------------
Where == {"idle", "insert", "find", "try", "second", "both", "tell", "erase", "delete",
          "explode", "ENEMY_EXPLOSION", "BOSS_EXPLOSION"} \cup Relays

RoomObject == [u1 : Id \cup {Null}, u2 : Id \cup {Null}, total : Nat, deleted : BOOLEAN,
               given : Nat, on : BOOLEAN,
               room : Room]    \* ghost: the number it was made under

TypeOK ==
  /\ setup \in Setups
  /\ running \in BOOLEAN
  /\ conn \in [Id -> {"absent", "listed", "closed"}]
  /\ roomArr \in [Room -> Nat]
  /\ objs \in Seq(RoomObject)
  /\ users \in [Id -> {"none", "null", "set"}]
  /\ queue \in Seq(Package)
  /\ pc \in [Thread -> Where]
  /\ pkg \in [Thread -> Package \cup {Null}]
  /\ obj \in [Thread -> Nat]
  /\ tries \in [Thread -> 0..3]
  /\ toChat \in Seq(Room)
  /\ lent \subseteq Room
  /\ playing \in [Id -> Room \cup {Null}]
  /\ sent \in [Id -> Nat]
  /\ met \subseteq Room

\* setups in which no two handlers overlap
OneThread == \E t \in Thread : setup.thread = {t}

(***************************************************************************)
(* A game that is on can be found: as long as it has not been given back,  *)
(* its room number maps to it, so the players' requests reach it.  What    *)
(* takes it away is a match begun under a number another match still has,  *)
(* or that another handler is still at: the lobby may have the room back   *)
(* before it is erased.  Contents threads that overlap in any other way do *)
(* no harm, and with one of them even this never happens.                  *)
(***************************************************************************)
GameOnIsFound ==
  /\ \A o \in DOMAIN objs : objs[o].on /\ objs[o].given = 0 /\ objs[o].room \notin met =>
       roomArr[objs[o].room] = o
  /\ OneThread => met = {}

(***************************************************************************)
(* A room is given back to the lobby at most once per match: giving up and *)
(* winning exclude each other, and of the two players only the first ends  *)
(* the game.                                                               *)
(***************************************************************************)
GivenBackOnce == OneThread => \A o \in DOMAIN objs : objs[o].given <= 1

(***************************************************************************)
(* simpleSessionManager holds only players of rooms that exist: every end  *)
(* of a match takes out both of its players, when handlers do not overlap. *)
(***************************************************************************)
EntriesBelongToRooms ==
  OneThread /\ running => \A i \in Id : users[i] # "none" =>
    \E o \in DOMAIN objs : ~objs[o].deleted /\ i \in {objs[o].u1, objs[o].u2}

(***************************************************************************)
(* Every match the lobby hands over is answered: both players are told     *)
(* that the game is on, or the room is given back.                         *)
(***************************************************************************)
Answered(o) == objs[o].on \/ objs[o].given > 0

MatchIsAnswered ==
  \A o \in 1..MaxGames :
    o \in DOMAIN objs ~> (o \in DOMAIN objs /\ Answered(o)) \/ ~running
=============================================================================
