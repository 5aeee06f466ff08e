---------------------------- MODULE GameRoomProofs ----------------------------
(***************************************************************************)
(* For every number of rooms, players, matches and requests: in a game     *)
(* server whose handlers do not overlap a room is given back once for each *)
(* match, and no player is left behind in simpleSessionManager; and        *)
(* however they overlap, a game that is on is found under its room number  *)
(* until another match is begun under a number that is still in use.       *)
(*                                                                         *)
(* The lobby hands a room over again only after it has got it back.  So a  *)
(* room number is in one place at a time: in a package or with its         *)
(* handler, mapped to a match that goes on, or on its way back.  A handler *)
(* that ends a match gives the room back first and erases it before the    *)
(* only thread takes the package of the next match.                        *)
(***************************************************************************)
EXTENDS GameRoom, SequenceTheorems, TLAPS

Match == {"try", "second", "both"}
End == {"tell", "erase", "delete"}
Requests == Relays \cup {"ENEMY_EXPLOSION", "BOSS_EXPLOSION"}

\* a package is with the handler of its type, and a handler past it has a Room
Shape(t) ==
  /\ pc[t] # "idle" => pkg[t] \in Package
  /\ pc[t] \in Match \cup {"insert"} => pkg[t].type = "USER_INFO"
  /\ pc[t] = "find" => pkg[t].type \in Requests
  /\ pc[t] \notin {"idle", "insert", "find"} => obj[t] \in DOMAIN objs

Known == \A r \in Room : roomArr[r] # 0 => roomArr[r] \in DOMAIN objs

TypeInv == TypeOK /\ Known /\ \A t \in Thread : Shape(t)

\* a handler has a Room that exists, under the number of its package
Points(t) ==
  pc[t] \notin {"idle", "insert", "find"} =>
    /\ ~objs[obj[t]].deleted
    /\ pc[t] # "delete" => roomArr[pkg[t].room] = obj[t]
    /\ pc[t] = "delete" => \A r \in Room : roomArr[r] # obj[t]
    /\ pc[t] \in Match => objs[obj[t]].u1 = pkg[t].id1 /\ objs[obj[t]].u2 = pkg[t].id2

Mapped ==
  /\ \A r \in Room : roomArr[r] # 0 => ~objs[roomArr[r]].deleted
  /\ \A q, r \in Room : roomArr[q] = roomArr[r] /\ roomArr[r] # 0 => q = r

Reached(t) ==
  \A o \in DOMAIN objs : ~objs[o].deleted =>
    (\E r \in Room : roomArr[r] = o) \/ (pc[t] = "delete" /\ obj[t] = o)

\* given back by the handler that deletes it
Returned(t) ==
  \A o \in DOMAIN objs :
    objs[o].given = IF objs[o].deleted \/ (pc[t] \in End /\ obj[t] = o) THEN 1 ELSE 0

-----------------------------------------------------------------------------
(***************************************************************************)
(* Where a room number that the lobby has handed over is.                  *)
(***************************************************************************)
IsMatch(p) == p.type = "USER_INFO"

InQueue(r) == \E k \in DOMAIN queue : IsMatch(queue[k]) /\ queue[k].room = r
InInsert(t, r) == pc[t] = "insert" /\ pkg[t].room = r
Begun(r) == roomArr[r] # 0 /\ objs[roomArr[r]].given = 0
GoesBack(r) == \E k \in DOMAIN toChat : toChat[k] = r

OnePlace(t, r) ==
  /\ InQueue(r) => ~InInsert(t, r) /\ ~Begun(r) /\ ~GoesBack(r)
  /\ InInsert(t, r) => ~Begun(r) /\ ~GoesBack(r)
  /\ Begun(r) => ~GoesBack(r)
  /\ InQueue(r) \/ InInsert(t, r) \/ Begun(r) \/ GoesBack(r) => r \in lent

OnceEach ==
  /\ \A k, l \in DOMAIN queue : IsMatch(queue[k]) /\ IsMatch(queue[l]) => k = l
  /\ \A k, l \in DOMAIN toChat : toChat[k] = toChat[l] => k = l

Entries ==
  \A i \in Id : users[i] # "none" =>
    \E o \in DOMAIN objs : ~objs[o].deleted /\ i \in {objs[o].u1, objs[o].u2}

Alone(t) ==
  /\ \A s \in Thread \ {t} : pc[s] = "idle"
  /\ Shape(t) /\ Points(t) /\ Mapped /\ Reached(t) /\ Returned(t)
  /\ (\A r \in Room : OnePlace(t, r)) /\ OnceEach /\ Entries

AloneInv == \A t \in Thread : setup.thread = {t} => Alone(t)
-----------------------------------------------------------------------------
(***************************************************************************)
(* What changes of a Room.                                                 *)
(***************************************************************************)
SameIds(e, x) ==
  e.deleted = x.deleted /\ e.u1 = x.u1 /\ e.u2 = x.u2 /\ e.room = x.room

LEMMA Put ==
  ASSUME NEW s \in Seq(RoomObject), NEW o \in DOMAIN s, NEW e \in RoomObject, NEW z,
         z = [s EXCEPT ![o] = e]
  PROVE  /\ z \in Seq(RoomObject) /\ DOMAIN z = DOMAIN s /\ z[o] = e
         /\ \A k \in DOMAIN s \ {o} : z[k] = s[k]
  OBVIOUS

LEMMA GivenBack ==
  ASSUME NEW s \in Seq(RoomObject), NEW o \in DOMAIN s
  PROVE  \E e \in RoomObject :
           /\ [s EXCEPT ![o].given = s[o].given + 1] = [s EXCEPT ![o] = e]
           /\ e.given = s[o].given + 1
           /\ SameIds(e, s[o])
<1>1. s[o] \in RoomObject /\ s[o].given + 1 \in Nat
  <2>1. s[o] \in RoomObject
    OBVIOUS
  <2>2. s[o].given \in Nat
    BY <2>1, Zenon DEF RoomObject
  <2> QED BY <2>1, <2>2
<1>2. PICK x, e : x = s[o] /\ e = [x EXCEPT !.given = x.given + 1]
  OBVIOUS
<1>3. e \in RoomObject
  BY <1>1, <1>2, Zenon DEF RoomObject
<1>4. e.given = x.given + 1 /\ SameIds(e, x)
  BY <1>1, <1>2, Zenon DEF RoomObject, SameIds
<1>5. [s EXCEPT ![o].given = s[o].given + 1] = [s EXCEPT ![o] = e]
  BY <1>2
<1> QED BY <1>2, <1>3, <1>4, <1>5

LEMMA GameBegins ==
  ASSUME NEW s \in Seq(RoomObject), NEW o \in DOMAIN s
  PROVE  \E e \in RoomObject :
           /\ [s EXCEPT ![o].on = TRUE] = [s EXCEPT ![o] = e]
           /\ e.given = s[o].given
           /\ SameIds(e, s[o])
<1>1. s[o] \in RoomObject
  OBVIOUS
<1>2. PICK x, e : x = s[o] /\ e = [x EXCEPT !.on = TRUE]
  OBVIOUS
<1>3. e \in RoomObject
  BY <1>1, <1>2, Zenon DEF RoomObject
<1>4. e.given = x.given /\ SameIds(e, x)
  BY <1>1, <1>2, Zenon DEF RoomObject, SameIds
<1>5. [s EXCEPT ![o].on = TRUE] = [s EXCEPT ![o] = e]
  BY <1>2
<1> QED BY <1>2, <1>3, <1>4, <1>5

LEMMA EnemyCounted ==
  ASSUME NEW s \in Seq(RoomObject), NEW o \in DOMAIN s
  PROVE  \E e \in RoomObject :
           /\ [s EXCEPT ![o].total = s[o].total + 1] = [s EXCEPT ![o] = e]
           /\ e.given = s[o].given
           /\ SameIds(e, s[o])
<1>1. s[o] \in RoomObject /\ s[o].total + 1 \in Nat
  <2>1. s[o] \in RoomObject
    OBVIOUS
  <2>2. s[o].total \in Nat
    BY <2>1, Zenon DEF RoomObject
  <2> QED BY <2>1, <2>2
<1>2. PICK x, e : x = s[o] /\ e = [x EXCEPT !.total = x.total + 1]
  OBVIOUS
<1>3. e \in RoomObject
  BY <1>1, <1>2, Zenon DEF RoomObject
<1>4. e.given = x.given /\ SameIds(e, x)
  BY <1>1, <1>2, Zenon DEF RoomObject, SameIds
<1>5. [s EXCEPT ![o].total = s[o].total + 1] = [s EXCEPT ![o] = e]
  BY <1>2
<1> QED BY <1>2, <1>3, <1>4, <1>5

LEMMA RoomDeleted ==
  ASSUME NEW s \in Seq(RoomObject), NEW o \in DOMAIN s
  PROVE  \E e \in RoomObject :
           /\ [s EXCEPT ![o].u1 = Null, ![o].u2 = Null, ![o].deleted = TRUE] = [s EXCEPT ![o] = e]
           /\ e.given = s[o].given
           /\ e.deleted /\ e.room = s[o].room
<1>1. s[o] \in RoomObject
  OBVIOUS
<1>2. PICK x, e : x = s[o] /\ e = [x EXCEPT !.u1 = Null, !.u2 = Null, !.deleted = TRUE]
  OBVIOUS
<1>3. e \in RoomObject
  BY <1>1, <1>2, Zenon DEF RoomObject
<1>4. e.given = x.given /\ e.deleted /\ e.room = x.room
  BY <1>1, <1>2, Zenon DEF RoomObject
<1>5. [s EXCEPT ![o].u1 = Null, ![o].u2 = Null, ![o].deleted = TRUE] = [s EXCEPT ![o] = e]
  BY <1>2
<1> QED BY <1>2, <1>3, <1>4, <1>5


-----------------------------------------------------------------------------
(***************************************************************************)
(* Types, for handlers that may overlap.                                   *)
(***************************************************************************)
LEMMA PackageTypes ==
  /\ \A p \in Package : p.room \in Room /\ p.type \in Requests \cup {"USER_INFO"}
  /\ \A p \in Package : p.type = "USER_INFO" => p.id1 \in Id /\ p.id2 \in Id
  /\ \A r \in Room, i, j \in Id :
       [type |-> "USER_INFO", room |-> r, id1 |-> i, id2 |-> j] \in Package
  /\ \A r \in Room, i \in Id : \A x \in Requests :
       [type |-> x, from |-> i, room |-> r] \in Package
  BY DEF Package, Requests, Relays

LEMMA SetupTypes ==
  ASSUME TypeOK PROVE setup.id \subseteq Id /\ setup.thread \subseteq Thread
  BY GameBounds DEF TypeOK

LEMMA ObjectTypes ==
  ASSUME TypeOK PROVE objs \in Seq(RoomObject) /\ Len(objs) \in Nat /\ DOMAIN objs = 1..Len(objs)
<1>1. objs \in Seq(RoomObject)
  BY DEF TypeOK
<1> QED BY <1>1

LEMMA OutsideTypes ==
  ASSUME TypeInv, UNCHANGED setup, Outside
  PROVE  TypeInv'
<1> USE DEF roomVars, threadVars, outside
<1>1. ASSUME NEW i \in setup.id, Connect(i) \/ Close(i) PROVE TypeInv'
  <2>1. TypeOK'
    BY <1>1 DEF TypeInv, TypeOK, Connect, Close
  <2>2. Known' /\ \A t \in Thread : Shape(t)'
    BY <1>1 DEF TypeInv, Known, Shape, Connect, Close
  <2> QED BY <2>1, <2>2 DEF TypeInv
<1>2. ASSUME NEW i \in setup.id, NEW type \in Relays \cup {"ENEMY_EXPLOSION", "BOSS_EXPLOSION"},
             Play(i, type)
      PROVE  TypeInv'
  <2>1. i \in Id /\ playing[i] \in Room
    BY <1>2, SetupTypes DEF TypeInv, TypeOK, Play
  <2>2. PICK p \in Package : p = [type |-> type, from |-> i, room |-> playing[i]]
    BY <2>1, PackageTypes DEF Requests
  <2>3. queue' = Append(queue, p) /\ queue \in Seq(Package)
    BY <1>2, <2>2 DEF Play, TypeInv, TypeOK
  <2>4. queue' \in Seq(Package)
    BY <2>3
  <2>5. TypeOK'
    BY <1>2, <2>1, <2>4 DEF TypeInv, TypeOK, Play
  <2>6. Known' /\ \A t \in Thread : Shape(t)'
    BY <1>2 DEF TypeInv, Known, Shape, Play
  <2> QED BY <2>5, <2>6 DEF TypeInv
<1>3. ASSUME NEW r \in Room, NEW i \in setup.id, NEW j \in setup.id, HandOver(r, i, j)
      PROVE  TypeInv'
  <2>1. i \in Id /\ j \in Id
    BY SetupTypes DEF TypeInv
  <2>2. PICK p \in Package : p = [type |-> "USER_INFO", room |-> r, id1 |-> i, id2 |-> j]
    BY <2>1, PackageTypes
  <2>3. queue' = Append(queue, p) /\ queue \in Seq(Package)
    BY <1>3, <2>2 DEF HandOver, TypeInv, TypeOK
  <2>4. queue' \in Seq(Package)
    BY <2>3
  <2>5. TypeOK'
    BY <1>3, <2>4 DEF TypeInv, TypeOK, HandOver
  <2>6. Known' /\ \A t \in Thread : Shape(t)'
    BY <1>3 DEF TypeInv, Known, Shape, HandOver
  <2> QED BY <2>5, <2>6 DEF TypeInv
<1>4. CASE GiveBack
  <2>1. toChat' \in Seq(Room)
    <3>1. toChat \in Seq(Room) /\ toChat # <<>> /\ toChat' = Tail(toChat)
      BY <1>4 DEF GiveBack, TypeInv, TypeOK
    <3> QED BY <3>1
  <2>2. TypeOK'
    BY <1>4, <2>1 DEF TypeInv, TypeOK, GiveBack
  <2>3. Known' /\ \A t \in Thread : Shape(t)'
    BY <1>4 DEF TypeInv, Known, Shape, GiveBack
  <2> QED BY <2>2, <2>3 DEF TypeInv
<1> QED BY <1>1, <1>2, <1>3, <1>4 DEF Outside

LEMMA CrashTypes == ASSUME TypeInv, UNCHANGED setup, Crash PROVE TypeInv'
<1> USE DEF roomVars, threadVars, outside
<1>1. TypeOK'
  BY DEF TypeInv, TypeOK, Crash
<1>2. Known' /\ \A t \in Thread : Shape(t)'
  BY DEF TypeInv, Known, Shape, Crash
<1> QED BY <1>1, <1>2 DEF TypeInv

LEMMA SendType == ASSUME NEW S, SendTo(S) PROVE running' \in BOOLEAN
  BY DEF SendTo

LEMMA TakeTypes ==
  ASSUME TypeInv, UNCHANGED setup, NEW t \in Thread, TakePackage(t)
  PROVE  TypeInv'
<1> USE DEF roomVars, threadVars, outside
<1>1. PICK p, q : p = Head(queue) /\ q = Tail(queue)
  OBVIOUS
<1>2. p \in Package /\ q \in Seq(Package)
  <2>1. queue \in Seq(Package) /\ queue # <<>>
    BY DEF TypeInv, TypeOK, TakePackage
  <2> QED BY <1>1, <2>1
<1>3. /\ pkg' = [pkg EXCEPT ![t] = p] /\ queue' = q
      /\ pc' = [pc EXCEPT ![t] = IF p.type = "USER_INFO" THEN "insert" ELSE "find"]
      /\ UNCHANGED <<running, conn, roomVars, obj, tries, toChat, outside, met>>
  BY <1>1 DEF TakePackage
<1>4. TypeOK'
  BY <1>2, <1>3 DEF TypeInv, TypeOK, Where
<1>5. Known'
  BY <1>3 DEF TypeInv, Known
<1>6. \A s \in Thread : Shape(s)'
  BY <1>2, <1>3, PackageTypes DEF TypeInv, TypeOK, Shape, Match
<1> QED BY <1>4, <1>5, <1>6 DEF TypeInv

\* the Rooms after a step that makes none
RoomsKeep ==
  /\ objs' \in Seq(RoomObject) /\ DOMAIN objs' = DOMAIN objs
  /\ users' \in [Id -> {"none", "null", "set"}]

LEMMA SameRooms == ASSUME TypeInv, UNCHANGED <<objs, users>> PROVE RoomsKeep
  BY DEF TypeInv, TypeOK, RoomsKeep

\* the handler returns
LEMMA ReturnTypes ==
  ASSUME TypeInv, RoomsKeep, UNCHANGED <<setup, conn, roomArr, queue, lent, sent, met>>,
         running' \in BOOLEAN, playing' \in [Id -> Room \cup {Null}], toChat' = toChat,
         NEW t \in Thread, Return(t)
  PROVE  TypeInv'
<1>1. TypeOK'
  BY DEF TypeInv, TypeOK, Return, Where, RoomsKeep
<1>2. Known' /\ \A s \in Thread : Shape(s)'
  BY DEF TypeInv, TypeOK, Known, Shape, Return, Match, RoomsKeep
<1> QED BY <1>1, <1>2 DEF TypeInv

\* the handler goes on with its package and its Room
LEMMA GoesOnTypes ==
  ASSUME TypeInv, RoomsKeep, UNCHANGED <<setup, conn, queue, pkg, obj, lent, sent, met>>,
         running' \in BOOLEAN, playing' \in [Id -> Room \cup {Null}],
         roomArr' = roomArr \/ \E r : roomArr' = [roomArr EXCEPT ![r] = 0],
         toChat' \in Seq(Room), tries' \in [Thread -> 0..3],
         NEW t \in Thread, pc[t] \notin {"idle", "insert", "find"},
         NEW l \in Where \ {"idle", "insert", "find"}, Goto(t, l),
         l \in Match => pc[t] \in Match
  PROVE  TypeInv'
<1>1. roomArr' \in [Room -> Nat]
  <2>1. CASE roomArr' = roomArr
    BY <2>1 DEF TypeInv, TypeOK
  <2>2. ASSUME NEW r, roomArr' = [roomArr EXCEPT ![r] = 0] PROVE roomArr' \in [Room -> Nat]
    BY <2>2 DEF TypeInv, TypeOK
  <2> QED BY <2>1, <2>2
<1>2. TypeOK'
  BY <1>1 DEF TypeInv, TypeOK, Goto, RoomsKeep
<1>3. Known'
  BY DEF TypeInv, TypeOK, Known, RoomsKeep
<1>4. \A s \in Thread : Shape(s)'
  BY DEF TypeInv, TypeOK, Shape, Goto, RoomsKeep
<1> QED BY <1>2, <1>3, <1>4 DEF TypeInv

LEMMA InsertTypes ==
  ASSUME TypeInv, UNCHANGED setup, NEW t \in Thread, InsertRoom(t)
  PROVE  TypeInv'
<1> USE DEF roomVars, threadVars, outside, At, Goto
<1>1. PICK p \in Package : p = pkg[t]
  BY DEF TypeInv, Shape, InsertRoom
<1>2. p.room \in Room /\ p.id1 \in Id /\ p.id2 \in Id
  BY <1>1, PackageTypes DEF TypeInv, Shape, InsertRoom
<1>3. PICK e \in RoomObject :
        e = [u1 |-> p.id1, u2 |-> p.id2, total |-> 0, deleted |-> FALSE, given |-> 0, on |-> FALSE,
             room |-> p.room]
  BY <1>2 DEF RoomObject
<1>4. objs \in Seq(RoomObject) /\ Len(objs) \in Nat /\ DOMAIN objs = 1..Len(objs)
  BY ObjectTypes DEF TypeInv
<1>5. objs' = Append(objs, e)
  BY <1>1, <1>3 DEF InsertRoom
<1>6. objs' \in Seq(RoomObject) /\ DOMAIN objs' = 1..(Len(objs) + 1)
  BY <1>4, <1>5
<1>7. /\ roomArr' = IF roomArr[p.room] = 0 THEN [roomArr EXCEPT ![p.room] = Len(objs) + 1] ELSE roomArr
      /\ obj' = [obj EXCEPT ![t] = Len(objs) + 1] /\ pc' = [pc EXCEPT ![t] = "try"]
      /\ UNCHANGED <<running, conn, users, queue, pkg, tries, toChat, outside>> /\ pc[t] = "insert"
  BY <1>1 DEF InsertRoom
<1>8. TypeOK'
  <2>1. roomArr' \in [Room -> Nat] /\ obj' \in [Thread -> Nat] /\ pc' \in [Thread -> Where]
    <3>1. Len(objs) + 1 \in Nat
      BY <1>4
    <3>2. PICK n \in Nat : n = Len(objs) + 1
      BY <3>1
    <3>3. roomArr' \in [Room -> Nat]
      <4>1. roomArr' = roomArr \/ roomArr' = [roomArr EXCEPT ![p.room] = n]
        BY <1>7, <3>2
      <4> QED BY <3>2, <4>1 DEF TypeInv, TypeOK
    <3>4. obj' \in [Thread -> Nat]
      BY <1>7, <3>2 DEF TypeInv, TypeOK
    <3>5. pc' \in [Thread -> Where]
      BY <1>7 DEF TypeInv, TypeOK, Where
    <3> QED BY <3>3, <3>4, <3>5
  <2>2. met' \subseteq Room
    <3>1. met' = met \/ met' = met \cup {p.room}
      BY <1>1, Zenon DEF InsertRoom
    <3> QED BY <1>2, <3>1 DEF TypeInv, TypeOK
  <2> QED BY <1>6, <1>7, <2>1, <2>2 DEF TypeInv, TypeOK
<1>9. Known'
  BY <1>2, <1>4, <1>6, <1>7 DEF TypeInv, TypeOK, Known
<1>10. \A s \in Thread : Shape(s)'
  BY <1>4, <1>6, <1>7 DEF TypeInv, TypeOK, Shape, Match
<1> QED BY <1>8, <1>9, <1>10 DEF TypeInv

LEMMA RegisterTypes ==
  ASSUME TypeInv, NEW i, Register(i) PROVE users' \in [Id -> {"none", "null", "set"}]
  BY DEF TypeInv, TypeOK, Register

LEMMA TryTypes ==
  ASSUME TypeInv, UNCHANGED setup, NEW t \in Thread,
         Try(t) \/ TrySecond(t) \/ FoundNotBoth(t) \/ StaleMatch(t)
  PROVE  TypeInv'
<1> USE DEF roomVars, outside, At
<1>1. running' \in BOOLEAN /\ playing' \in [Id -> Room \cup {Null}] /\ toChat' \in Seq(Room)
  BY DEF TypeInv, TypeOK, Try, TrySecond, FoundNotBoth, StaleMatch, Crash
<1>2. CASE Try(t)
  <2>1. RoomsKeep
    BY <1>2, RegisterTypes DEF Try, RoomsKeep, TypeInv, TypeOK
  <2>2. tries' \in [Thread -> 0..3]
    <3>1. tries[t] \in 0..3 /\ tries[t] < 3
      BY <1>2 DEF Try, TypeInv, TypeOK
    <3>2. PICK n \in 0..3 : n = tries[t] + 1
      BY <3>1
    <3>3. tries' = [tries EXCEPT ![t] = n]
      BY <1>2, <3>2 DEF Try
    <3> QED BY <3>3 DEF TypeInv, TypeOK
  <2> QED BY <1>1, <1>2, <2>1, <2>2, GoesOnTypes DEF Try, Where, Match
<1>3. CASE TrySecond(t)
  <2>1. RoomsKeep
    BY <1>3, RegisterTypes DEF TrySecond, RoomsKeep, TypeInv, TypeOK
  <2>2. tries' \in [Thread -> 0..3]
    BY <1>3 DEF TrySecond, TypeInv, TypeOK
  <2> QED BY <1>1, <1>3, <2>1, <2>2, GoesOnTypes DEF TrySecond, Where, Match
<1>4. CASE FoundNotBoth(t)
  <2>1. RoomsKeep /\ tries' \in [Thread -> 0..3]
    BY <1>4, SameRooms DEF FoundNotBoth, TypeInv, TypeOK
  <2> QED BY <1>1, <1>4, <2>1, GoesOnTypes DEF FoundNotBoth, Where, Match
<1>5. CASE StaleMatch(t)
  <2>1. CASE Crash
    BY <2>1, CrashTypes
  <2>2. CASE ~Crash
    <3>1. RoomsKeep
      BY <1>5, <2>2, SameRooms DEF StaleMatch
    <3>2. tries' = [tries EXCEPT ![t] = 3]
      BY <1>5, <2>2 DEF StaleMatch
    <3>3. tries' \in [Thread -> 0..3]
      BY <3>2 DEF TypeInv, TypeOK
    <3> QED BY <1>1, <1>5, <2>2, <3>1, <3>3, GoesOnTypes DEF StaleMatch, Where, Match
  <2> QED BY <2>1, <2>2
<1> QED BY <1>2, <1>3, <1>4, <1>5

LEMMA FindTypes ==
  ASSUME TypeInv, UNCHANGED setup, NEW t \in Thread, FindRoom(t)
  PROVE  TypeInv'
<1> USE DEF roomVars, outside, At
<1>1. PICK p \in Package : p = pkg[t]
  BY DEF TypeInv, Shape, FindRoom
<1>2. p.room \in Room /\ p.type \in Requests
  BY <1>1, PackageTypes DEF TypeInv, Shape, FindRoom
<1>3. CASE roomArr[p.room] = 0
  <2>1. RoomsKeep /\ running' \in BOOLEAN /\ playing' \in [Id -> Room \cup {Null}]
    BY SameRooms DEF FindRoom, TypeInv, TypeOK
  <2> QED BY <1>1, <1>3, <2>1, ReturnTypes DEF FindRoom
<1>4. CASE roomArr[p.room] # 0
  <2>1. PICK o \in DOMAIN objs : o = roomArr[p.room]
    BY <1>2, <1>4 DEF TypeInv, Known
  <2>2. o \in Nat
    BY <2>1, ObjectTypes DEF TypeInv
  <2>3. /\ obj' = [obj EXCEPT ![t] = o] /\ pc' = [pc EXCEPT ![t] = p.type]
        /\ UNCHANGED <<running, conn, roomVars, queue, pkg, tries, toChat, outside, met>>
    BY <1>1, <1>4, <2>1 DEF FindRoom, Goto
  <2>4. p.type \in Where /\ p.type \notin Match \cup {"insert", "find"}
    BY <1>2 DEF Requests, Relays, Where, Match
  <2>5. TypeOK'
    BY <2>2, <2>3, <2>4 DEF TypeInv, TypeOK
  <2>6. Known'
    BY <2>3 DEF TypeInv, Known
  <2>7. \A s \in Thread : Shape(s)'
    BY <1>1, <2>1, <2>3, <2>4 DEF TypeInv, TypeOK, Shape
  <2> QED BY <2>5, <2>6, <2>7 DEF TypeInv
<1> QED BY <1>3, <1>4

LEMMA AnswerTypes ==
  ASSUME TypeInv, UNCHANGED setup, NEW t \in Thread,
         StaleRoom(t) \/ Relay(t) \/ C_REQ_ENEMY_EXPLOSION(t)
  PROVE  TypeInv'
<1> USE DEF roomVars, outside, At
<1>1. CASE Crash
  BY <1>1, CrashTypes
<1>2. CASE ~Crash
  <2>1. /\ UNCHANGED <<conn, roomArr, objs, users, queue, toChat, lent, playing, sent, met>>
        /\ running' \in BOOLEAN
    <3>1. CASE StaleRoom(t) \/ C_REQ_ENEMY_EXPLOSION(t)
      BY <1>2, <3>1 DEF StaleRoom, C_REQ_ENEMY_EXPLOSION, TypeInv, TypeOK
    <3>2. CASE Relay(t)
      BY <1>2, <3>2, SendType DEF Relay, TypeInv, TypeOK
    <3> QED BY <3>1, <3>2
  <2>2. RoomsKeep /\ playing' \in [Id -> Room \cup {Null}]
    BY <2>1, SameRooms DEF TypeInv, TypeOK
  <2>3. CASE Return(t)
    BY <2>1, <2>2, <2>3, ReturnTypes
  <2>4. CASE ~Return(t)
    <3>1. pc[t] = "ENEMY_EXPLOSION" /\ Goto(t, "explode") /\ UNCHANGED <<pkg, obj, tries>>
      BY <1>2, <2>4 DEF StaleRoom, Relay, C_REQ_ENEMY_EXPLOSION
    <3>2. tries' \in [Thread -> 0..3] /\ toChat' \in Seq(Room)
      BY <2>1, <3>1 DEF TypeInv, TypeOK
    <3> QED BY <2>1, <2>2, <3>1, <3>2, GoesOnTypes DEF Where, Match
  <2> QED BY <2>3, <2>4
<1> QED BY <1>1, <1>2

\* what the steps that change a Room do to it
LEMMA Begins ==
  ASSUME TypeInv, NEW t \in Thread, FoundBoth(t)
  PROVE  \E e \in RoomObject :
           /\ objs' = [objs EXCEPT ![obj[t]] = e]
           /\ e.given = objs[obj[t]].given
           /\ SameIds(e, objs[obj[t]])
<1>1. objs' = [objs EXCEPT ![obj[t]].on = TRUE] /\ pc[t] = "both"
  BY Zenon DEF FoundBoth, At
<1>2. obj[t] \in DOMAIN objs
  BY <1>1, Zenon DEF TypeInv, Shape
<1>3. objs \in Seq(RoomObject)
  BY ObjectTypes DEF TypeInv
<1>4. \E e \in RoomObject :
        /\ [objs EXCEPT ![obj[t]].on = TRUE] = [objs EXCEPT ![obj[t]] = e]
        /\ e.given = objs[obj[t]].given
        /\ SameIds(e, objs[obj[t]])
  BY <1>2, <1>3, GameBegins, Zenon
<1> QED BY <1>1, <1>4, Zenon

LEMMA Counts ==
  ASSUME TypeInv, NEW t \in Thread, Explode(t)
  PROVE  \E e \in RoomObject :
           /\ objs' = [objs EXCEPT ![obj[t]] = e]
           /\ e.given = objs[obj[t]].given
           /\ SameIds(e, objs[obj[t]])
<1>1. objs' = [objs EXCEPT ![obj[t]].total = objs[obj[t]].total + 1] /\ pc[t] = "explode"
  BY Zenon DEF Explode, At
<1>2. obj[t] \in DOMAIN objs
  BY <1>1, Zenon DEF TypeInv, Shape
<1>3. objs \in Seq(RoomObject)
  BY ObjectTypes DEF TypeInv
<1>4. \E e \in RoomObject :
        /\ [objs EXCEPT ![obj[t]].total = objs[obj[t]].total + 1] = [objs EXCEPT ![obj[t]] = e]
        /\ e.given = objs[obj[t]].given
        /\ SameIds(e, objs[obj[t]])
  BY <1>2, <1>3, EnemyCounted, Zenon
<1> QED BY <1>1, <1>4, Zenon

\* the handler gives its room back and goes on to l
GivesBack(t, l) ==
  /\ pc[t] \in {"try", "BOSS_EXPLOSION"}
  /\ \E e \in RoomObject :
       /\ objs' = [objs EXCEPT ![obj[t]] = e]
       /\ e.given = objs[obj[t]].given + 1
       /\ SameIds(e, objs[obj[t]])
  /\ toChat' = Append(toChat, pkg[t].room)
  /\ Goto(t, l)
  /\ UNCHANGED <<running, conn, roomArr, users, queue, pkg, obj, tries, outside, met>>

LEMMA Gives ==
  ASSUME TypeInv, NEW t \in Thread, GiveUp(t) \/ C_REQ_BOSS_EXPLOSION(t)
  PROVE  \/ GivesBack(t, "erase") \/ GivesBack(t, "tell")
         \/ /\ Return(t)
            /\ UNCHANGED <<running, conn, roomVars, queue, toChat, outside, met>>
<1>1. pc[t] \in {"try", "BOSS_EXPLOSION"}
  BY Zenon DEF GiveUp, C_REQ_BOSS_EXPLOSION, At
<1>2. obj[t] \in DOMAIN objs
  BY <1>1, SMT DEF TypeInv, Shape
<1>3. objs \in Seq(RoomObject)
  BY ObjectTypes DEF TypeInv
<1>4. \E e \in RoomObject :
        /\ [objs EXCEPT ![obj[t]].given = objs[obj[t]].given + 1] = [objs EXCEPT ![obj[t]] = e]
        /\ e.given = objs[obj[t]].given + 1
        /\ SameIds(e, objs[obj[t]])
  BY <1>2, <1>3, GivenBack, Zenon
<1>5. ASSUME objs' = [objs EXCEPT ![obj[t]].given = objs[obj[t]].given + 1]
      PROVE  \E e \in RoomObject :
               /\ objs' = [objs EXCEPT ![obj[t]] = e]
               /\ e.given = objs[obj[t]].given + 1
               /\ SameIds(e, objs[obj[t]])
  BY <1>4, <1>5, Zenon
<1>6. CASE GiveUp(t)
  <2>1. objs' = [objs EXCEPT ![obj[t]].given = objs[obj[t]].given + 1]
    BY <1>6, Zenon DEF GiveUp
  <2>2. /\ toChat' = Append(toChat, pkg[t].room) /\ Goto(t, "erase")
        /\ UNCHANGED <<running, conn, roomArr, users, queue, pkg, obj, tries, outside, met>>
    BY <1>6, Zenon DEF GiveUp
  <2> QED BY <1>1, <1>5, <2>1, <2>2, Zenon DEF GivesBack
<1>7. CASE C_REQ_BOSS_EXPLOSION(t) /\ pkg[t].from = objs[obj[t]].u1
  <2>1. objs' = [objs EXCEPT ![obj[t]].given = objs[obj[t]].given + 1]
    BY <1>7, Zenon DEF C_REQ_BOSS_EXPLOSION
  <2>2. /\ toChat' = Append(toChat, pkg[t].room) /\ Goto(t, "tell")
        /\ UNCHANGED <<pkg, obj, tries>>
        /\ UNCHANGED <<running, conn, roomArr, users, queue, outside, met>>
    BY <1>7, Zenon DEF C_REQ_BOSS_EXPLOSION
  <2>3. UNCHANGED <<running, conn, roomArr, users, queue, pkg, obj, tries, outside, met>>
    BY <2>2
  <2> QED BY <1>1, <1>5, <2>1, <2>2, <2>3, Zenon DEF GivesBack
<1>8. CASE C_REQ_BOSS_EXPLOSION(t) /\ pkg[t].from # objs[obj[t]].u1
  <2>1. /\ Return(t) /\ UNCHANGED <<toChat, objs>>
        /\ UNCHANGED <<running, conn, roomArr, users, queue, outside, met>>
    BY <1>8, Zenon DEF C_REQ_BOSS_EXPLOSION
  <2>2. UNCHANGED <<running, conn, roomVars, queue, toChat, outside, met>>
    BY <2>1 DEF roomVars
  <2> QED BY <2>1, <2>2, Zenon
<1> QED BY <1>6, <1>7, <1>8, Zenon

LEMMA Deletes ==
  ASSUME TypeInv, NEW t \in Thread, DeleteRoom(t)
  PROVE  \/ Crash
         \/ /\ \E e \in RoomObject :
                 /\ objs' = [objs EXCEPT ![obj[t]] = e]
                 /\ e.given = objs[obj[t]].given
                 /\ e.deleted /\ e.room = objs[obj[t]].room
            /\ users' = [i \in Id |-> IF i \in Players(obj[t]) THEN "none" ELSE users[i]]
            /\ Return(t)
            /\ UNCHANGED <<running, conn, roomArr, queue, toChat, outside, met>>
<1>1. pc[t] = "delete"
  BY Zenon DEF DeleteRoom, At
<1>2. obj[t] \in DOMAIN objs
  BY <1>1, SMT DEF TypeInv, Shape
<1>3. objs \in Seq(RoomObject)
  BY ObjectTypes DEF TypeInv
<1>4. \E e \in RoomObject :
        /\ [objs EXCEPT ![obj[t]].u1 = Null, ![obj[t]].u2 = Null, ![obj[t]].deleted = TRUE]
             = [objs EXCEPT ![obj[t]] = e]
        /\ e.given = objs[obj[t]].given
        /\ e.deleted /\ e.room = objs[obj[t]].room
  BY <1>2, <1>3, RoomDeleted, Zenon
<1>5. CASE ~Crash
  <2>1. /\ Delete(obj[t]) /\ Return(t)
        /\ UNCHANGED <<running, conn, roomArr, queue, toChat, outside, met>>
    BY <1>5, Zenon DEF DeleteRoom
  <2>2. objs' = [objs EXCEPT ![obj[t]].u1 = Null, ![obj[t]].u2 = Null, ![obj[t]].deleted = TRUE]
    BY <2>1, Zenon DEF Delete
  <2>3. users' = [i \in Id |-> IF i \in Players(obj[t]) THEN "none" ELSE users[i]]
    BY <2>1, Zenon DEF Delete
  <2>4. \E e \in RoomObject :
          /\ objs' = [objs EXCEPT ![obj[t]] = e]
          /\ e.given = objs[obj[t]].given
          /\ e.deleted /\ e.room = objs[obj[t]].room
    BY <1>4, <2>2, Zenon
  <2> QED BY <2>1, <2>3, <2>4, Zenon
<1> QED BY <1>5, Zenon

LEMMA ChangedRoom ==
  ASSUME TypeInv, NEW o \in DOMAIN objs, NEW e \in RoomObject, objs' = [objs EXCEPT ![o] = e]
  PROVE  objs' \in Seq(RoomObject) /\ DOMAIN objs' = DOMAIN objs /\ objs'[o] = e
         /\ \A k \in DOMAIN objs \ {o} : objs'[k] = objs[k]
<1>1. objs \in Seq(RoomObject)
  BY ObjectTypes DEF TypeInv
<1> QED BY <1>1, Put

LEMMA BeginsTypes ==
  ASSUME TypeInv, UNCHANGED setup, NEW t \in Thread, FoundBoth(t) \/ Explode(t)
  PROVE  TypeInv'
<1>1. /\ Return(t) /\ UNCHANGED <<conn, roomArr, users, queue, toChat, lent, sent, met>>
      /\ \E S : SendTo(S)
      /\ pc[t] \in {"both", "explode"}
  <2>1. CASE FoundBoth(t)
    BY <2>1, Zenon DEF FoundBoth, At
  <2>2. CASE Explode(t)
    <3>1. /\ Return(t) /\ UNCHANGED <<conn, roomArr, users, queue, toChat, outside, met>>
          /\ \E S : SendTo(S)
          /\ pc[t] \in {"both", "explode"}
      BY <2>2, Zenon DEF Explode, At
    <3> QED BY <3>1 DEF outside
  <2> QED BY <2>1, <2>2, Zenon
<1>2. running' \in BOOLEAN
  BY <1>1, SendType
<1>3. playing' \in [Id -> Room \cup {Null}]
  <2>1. CASE FoundBoth(t)
    <3>1. PICK p : p = {pkg[t].id1, pkg[t].id2}
      OBVIOUS
    <3>2. playing' = [i \in Id |-> IF i \in p /\ conn[i] = "listed" THEN pkg[t].room ELSE playing[i]]
      BY <2>1, <3>1, Zenon DEF FoundBoth
    <3>3. pc[t] = "both"
      BY <2>1, Zenon DEF FoundBoth, At
    <3>4. pkg[t].room \in Room
      BY <3>3, PackageTypes DEF TypeInv, Shape
    <3> QED BY <3>2, <3>4 DEF TypeInv, TypeOK
  <2>2. CASE Explode(t)
    <3>1. UNCHANGED <<conn, roomArr, users, queue, toChat, outside, met>>
      BY <2>2, Zenon DEF Explode
    <3> QED BY <3>1 DEF outside, TypeInv, TypeOK
  <2> QED BY <2>1, <2>2, Zenon
<1>4. PICK e \in RoomObject : objs' = [objs EXCEPT ![obj[t]] = e]
  BY Begins, Counts, Zenon
<1>5. obj[t] \in DOMAIN objs
  BY <1>1 DEF TypeInv, Shape
<1>6. RoomsKeep
  BY <1>1, <1>4, <1>5, ChangedRoom DEF RoomsKeep, TypeInv, TypeOK
<1> QED BY <1>1, <1>2, <1>3, <1>6, ReturnTypes

LEMMA GivesTypes ==
  ASSUME TypeInv, UNCHANGED setup, NEW t \in Thread, GiveUp(t) \/ C_REQ_BOSS_EXPLOSION(t)
  PROVE  TypeInv'
<1>1. ASSUME NEW l \in {"erase", "tell"}, GivesBack(t, l) PROVE TypeInv'
  <2>1. PICK e \in RoomObject : objs' = [objs EXCEPT ![obj[t]] = e]
    BY <1>1 DEF GivesBack
  <2>2. obj[t] \in DOMAIN objs /\ pkg[t].room \in Room
    BY <1>1, PackageTypes DEF GivesBack, TypeInv, Shape
  <2>3. RoomsKeep
    BY <1>1, <2>1, <2>2, ChangedRoom DEF RoomsKeep, TypeInv, TypeOK, GivesBack
  <2>4. toChat' \in Seq(Room)
    <3>1. toChat \in Seq(Room) /\ toChat' = Append(toChat, pkg[t].room)
      BY <1>1 DEF GivesBack, TypeInv, TypeOK
    <3> QED BY <2>2, <3>1
  <2>5. /\ UNCHANGED <<conn, queue, pkg, obj, lent, sent, roomArr, met>> /\ Goto(t, l)
        /\ tries' \in [Thread -> 0..3] /\ running' \in BOOLEAN
        /\ playing' \in [Id -> Room \cup {Null}]
        /\ pc[t] \notin {"idle", "insert", "find"}
    BY <1>1 DEF GivesBack, TypeInv, TypeOK, outside
  <2> QED BY <2>3, <2>4, <2>5, GoesOnTypes DEF Where, Match
<1>2. CASE Return(t) /\ UNCHANGED <<running, conn, roomVars, queue, toChat, outside, met>>
  <2>1. RoomsKeep
    BY <1>2, SameRooms DEF roomVars
  <2> QED BY <1>2, <2>1, ReturnTypes DEF roomVars, outside, TypeInv, TypeOK
<1> QED BY <1>1, <1>2, Gives

LEMMA TellTypes ==
  ASSUME TypeInv, UNCHANGED setup, NEW t \in Thread, TellBoth(t) \/ EraseRoom(t)
  PROVE  TypeInv'
<1> USE DEF roomVars, outside, At
<1>1. CASE Crash
  BY <1>1, CrashTypes
<1>2. CASE TellBoth(t) /\ ~Crash
  <2>1. PICK i, p : playing' = [playing EXCEPT ![i] = Null, ![p] = Null] /\ SendTo({i, p})
    BY <1>2, Zenon DEF TellBoth
  <2>2. /\ Goto(t, "erase") /\ pc[t] = "tell"
        /\ UNCHANGED <<conn, roomVars, queue, pkg, obj, tries, toChat, lent, sent, met>>
    BY <1>2 DEF TellBoth
  <2>3. playing' \in [Id -> Room \cup {Null}] /\ running' \in BOOLEAN
    BY <2>1, SendType DEF TypeInv, TypeOK
  <2>4. RoomsKeep /\ toChat' \in Seq(Room) /\ tries' \in [Thread -> 0..3]
    BY <2>2, SameRooms DEF TypeInv, TypeOK
  <2> QED BY <2>2, <2>3, <2>4, GoesOnTypes DEF Where, Match
<1>3. CASE EraseRoom(t)
  <2>1. RoomsKeep /\ toChat' \in Seq(Room) /\ tries' \in [Thread -> 0..3] /\ running' \in BOOLEAN
        /\ playing' \in [Id -> Room \cup {Null}]
    BY <1>3, SameRooms DEF EraseRoom, TypeInv, TypeOK
  <2> QED BY <1>3, <2>1, GoesOnTypes DEF EraseRoom, Where, Match
<1> QED BY <1>1, <1>2, <1>3

LEMMA DeleteTypes ==
  ASSUME TypeInv, UNCHANGED setup, NEW t \in Thread, DeleteRoom(t)
  PROVE  TypeInv'
<1>1. CASE Crash
  BY <1>1, CrashTypes
<1>2. CASE ~Crash
  <2>1. PICK e \in RoomObject : objs' = [objs EXCEPT ![obj[t]] = e]
    BY <1>2, Deletes, Zenon
  <2>2. /\ users' = [i \in Id |-> IF i \in Players(obj[t]) THEN "none" ELSE users[i]]
        /\ Return(t) /\ UNCHANGED <<running, conn, roomArr, queue, toChat, outside, met>>
    BY <1>2, Deletes, Zenon
  <2>3. obj[t] \in DOMAIN objs
    <3>1. pc[t] = "delete"
      BY Zenon DEF DeleteRoom, At
    <3> QED BY <3>1 DEF TypeInv, Shape
  <2>4. RoomsKeep
    BY <2>1, <2>2, <2>3, ChangedRoom DEF RoomsKeep, TypeInv, TypeOK
  <2> QED BY <2>2, <2>4, ReturnTypes DEF outside, TypeInv, TypeOK
<1> QED BY <1>1, <1>2

LEMMA TypeStep == TypeInv /\ [Next]_vars => TypeInv'
<1> SUFFICES ASSUME TypeInv, [Next]_vars PROVE TypeInv'
  OBVIOUS
<1>1. CASE UNCHANGED vars
  BY <1>1 DEF vars, gameVars, roomVars, threadVars, outside, TypeInv, TypeOK, Known, Shape
<1>2. CASE Next /\ Outside
  BY <1>2, OutsideTypes DEF Next
<1>3. ASSUME Next, NEW t \in Thread, Work(t) PROVE TypeInv'
  <2>1. UNCHANGED setup
    BY <1>3, Zenon DEF Next
  <2>2. CASE TakePackage(t)
    BY <2>1, <2>2, TakeTypes
  <2>3. CASE I_USER_INFO(t)
    BY <2>1, <2>3, InsertTypes, TryTypes, BeginsTypes, GivesTypes, Zenon DEF I_USER_INFO
  <2>4. CASE EndGame(t)
    BY <2>1, <2>4, GivesTypes, TellTypes, DeleteTypes, Zenon DEF EndGame
  <2>5. CASE FindRoom(t) \/ StaleRoom(t) \/ Relay(t) \/ C_REQ_ENEMY_EXPLOSION(t) \/ Explode(t)
    BY <2>1, <2>5, FindTypes, AnswerTypes, BeginsTypes, Zenon
  <2> QED BY <1>3, <2>2, <2>3, <2>4, <2>5, Zenon DEF Work, Handler
<1> QED BY <1>1, <1>2, <1>3, Zenon DEF Next

LEMMA TypeStart == GameInit => TypeInv
<1> SUFFICES ASSUME GameInit PROVE TypeInv
  OBVIOUS
<1>1. objs \in Seq(RoomObject) /\ queue \in Seq(Package) /\ toChat \in Seq(Room)
  BY DEF GameInit
<1>2. TypeOK
  BY <1>1 DEF GameInit, TypeOK, Where
<1>3. Known /\ \A t \in Thread : Shape(t)
  BY DEF GameInit, Known, Shape, Match
<1> QED BY <1>2, <1>3 DEF TypeInv

LEMMA TypeInvariant == Spec => []TypeInv
  BY TypeStart, TypeStep, PTL DEF Spec

(***************************************************************************)
(* The rooms, players and handlers keep their types, whatever number of    *)
(* contents threads runs the handlers.                                     *)
(***************************************************************************)
THEOREM GameTypes == Spec => []TypeOK
<1>1. TypeInv => TypeOK
  BY DEF TypeInv
<1> QED BY <1>1, TypeInvariant, PTL

-----------------------------------------------------------------------------
(***************************************************************************)
(* One contents thread: the players and the lobby.                         *)
(***************************************************************************)
LEMMA Indices ==
  ASSUME TypeInv
  PROVE  /\ DOMAIN objs = 1..Len(objs) /\ Len(objs) \in Nat
         /\ DOMAIN queue = 1..Len(queue) /\ Len(queue) \in Nat /\ queue \in Seq(Package)
         /\ DOMAIN toChat = 1..Len(toChat) /\ Len(toChat) \in Nat /\ toChat \in Seq(Room)
<1>1. queue \in Seq(Package) /\ toChat \in Seq(Room)
  BY DEF TypeInv, TypeOK
<1> QED BY <1>1, ObjectTypes DEF TypeInv

LEMMA LastOne ==
  ASSUME NEW S, NEW s \in Seq(S), NEW x
  PROVE  /\ DOMAIN Append(s, x) = 1..(Len(s) + 1)
         /\ Append(s, x)[Len(s) + 1] = x
         /\ \A k \in 1..Len(s) : Append(s, x)[k] = s[k]
  OBVIOUS

LEMMA FirstOne ==
  ASSUME NEW S, NEW s \in Seq(S), s # <<>>
  PROVE  /\ 1 \in DOMAIN s /\ Head(s) = s[1]
         /\ DOMAIN Tail(s) = 1..(Len(s) - 1)
         /\ \A k \in 1..(Len(s) - 1) : k + 1 \in DOMAIN s /\ Tail(s)[k] = s[k + 1]
  OBVIOUS

LEMMA UnmovedAlone ==
  ASSUME NEW t \in Thread, Alone(t),
         UNCHANGED <<objs, roomArr, users, queue, toChat, lent, pc, pkg, obj>>
  PROVE  Alone(t)'
<1>1. Shape(t)' /\ Points(t)' /\ Mapped' /\ Reached(t)'
  BY DEF Alone, Shape, Points, Mapped, Reached
<1>2. Returned(t)' /\ Entries' /\ OnceEach'
  BY DEF Alone, Returned, Entries, OnceEach
<1>3. \A r \in Room : OnePlace(t, r)'
  BY DEF Alone, OnePlace, InQueue, InInsert, Begun, GoesBack
<1>4. \A s \in Thread \ {t} : pc'[s] = "idle"
  BY DEF Alone
<1> QED BY <1>1, <1>2, <1>3, <1>4 DEF Alone

\* what HandOver, GiveBack and Play leave alone
LEMMA OutsideKeeps ==
  ASSUME NEW t \in Thread, Alone(t), UNCHANGED <<objs, roomArr, users, pc, pkg, obj>>
  PROVE  /\ \A s \in Thread \ {t} : pc'[s] = "idle"
         /\ Shape(t)' /\ Points(t)' /\ Mapped' /\ Reached(t)' /\ Returned(t)' /\ Entries'
<1>1. Shape(t)' /\ Points(t)' /\ Mapped' /\ Reached(t)'
  BY DEF Alone, Shape, Points, Mapped, Reached
<1>2. Returned(t)' /\ Entries' /\ \A s \in Thread \ {t} : pc'[s] = "idle"
  BY DEF Alone, Returned, Entries
<1> QED BY <1>1, <1>2

LEMMA PlayAlone ==
  ASSUME TypeInv, NEW t \in Thread, Alone(t), NEW i, NEW type \in Requests, Play(i, type)
  PROVE  Alone(t)'
<1>1. PICK p : p = [type |-> type, from |-> i, room |-> playing[i]]
  OBVIOUS
<1>2. ~IsMatch(p) /\ queue' = Append(queue, p)
  BY <1>1 DEF IsMatch, Play, Requests, Relays
<1>3. /\ UNCHANGED <<objs, roomArr, users, pc, pkg, obj>>
      /\ UNCHANGED <<toChat, lent>>
  BY DEF Play, roomVars, threadVars
<1>4. /\ DOMAIN queue' = 1..(Len(queue) + 1) /\ queue'[Len(queue) + 1] = p
      /\ \A k \in 1..Len(queue) : queue'[k] = queue[k]
      /\ DOMAIN queue = 1..Len(queue) /\ Len(queue) \in Nat
  BY <1>2, Indices, LastOne
<1>5. \A k \in DOMAIN queue' : IsMatch(queue'[k]) => k \in DOMAIN queue /\ queue'[k] = queue[k]
  BY <1>2, <1>4
<1>6. OnceEach'
  BY <1>3, <1>5 DEF Alone, OnceEach, IsMatch
<1>7. ASSUME NEW r \in Room PROVE OnePlace(t, r)'
  <2>1. OnePlace(t, r)
    BY DEF Alone
  <2>2. InQueue(r)' => InQueue(r)
    BY <1>5 DEF InQueue, IsMatch
  <2>3. (InInsert(t, r)' <=> InInsert(t, r)) /\ (Begun(r)' <=> Begun(r))
        /\ (GoesBack(r)' <=> GoesBack(r))
    BY <1>3 DEF InInsert, Begun, GoesBack
  <2> QED BY <1>3, <2>1, <2>2, <2>3 DEF OnePlace
<1> QED BY <1>3, <1>6, <1>7, OutsideKeeps DEF Alone

LEMMA HandOverAlone ==
  ASSUME TypeInv, NEW t \in Thread, Alone(t), NEW r \in Room, NEW i, NEW j, HandOver(r, i, j)
  PROVE  Alone(t)'
<1>1. PICK p : p = [type |-> "USER_INFO", room |-> r, id1 |-> i, id2 |-> j]
  OBVIOUS
<1>2. p.room = r /\ queue' = Append(queue, p)
  BY <1>1 DEF HandOver
<1>3. /\ UNCHANGED <<objs, roomArr, users, pc, pkg, obj>>
      /\ toChat' = toChat /\ lent' = lent \cup {r} /\ r \notin lent
      /\ \A k \in DOMAIN queue : ~IsMatch(queue[k])
  BY DEF HandOver, roomVars, threadVars, IsMatch
<1>4. /\ DOMAIN queue' = 1..(Len(queue) + 1) /\ queue'[Len(queue) + 1] = p
      /\ \A k \in 1..Len(queue) : queue'[k] = queue[k]
      /\ DOMAIN queue = 1..Len(queue) /\ Len(queue) \in Nat
  BY <1>2, Indices, LastOne
<1>5. \A k \in DOMAIN queue' : IsMatch(queue'[k]) => k = Len(queue) + 1
  BY <1>3, <1>4
<1>6. OnceEach'
  BY <1>3, <1>5 DEF Alone, OnceEach, IsMatch
<1>7. ASSUME NEW q \in Room PROVE OnePlace(t, q)'
  <2>1. OnePlace(t, q)
    BY DEF Alone
  <2>2. InQueue(q)' => q = r
    BY <1>2, <1>4, <1>5 DEF InQueue, IsMatch
  <2>3. (InInsert(t, q)' <=> InInsert(t, q)) /\ (Begun(q)' <=> Begun(q))
        /\ (GoesBack(q)' <=> GoesBack(q))
    BY <1>3 DEF InInsert, Begun, GoesBack
  <2> QED BY <1>3, <2>1, <2>2, <2>3 DEF OnePlace
<1> QED BY <1>3, <1>6, <1>7, OutsideKeeps DEF Alone

LEMMA GiveBackAlone ==
  ASSUME TypeInv, NEW t \in Thread, Alone(t), GiveBack
  PROVE  Alone(t)'
<1>1. /\ UNCHANGED <<objs, roomArr, users, pc, pkg, obj>> /\ queue' = queue
      /\ toChat # <<>> /\ toChat' = Tail(toChat) /\ lent' = lent \ {Head(toChat)}
  BY DEF GiveBack, roomVars, threadVars
<1>2. /\ 1 \in DOMAIN toChat /\ Head(toChat) = toChat[1]
      /\ DOMAIN toChat' = 1..(Len(toChat) - 1) /\ Len(toChat) \in Nat
      /\ \A k \in 1..(Len(toChat) - 1) : k + 1 \in DOMAIN toChat /\ toChat'[k] = toChat[k + 1]
  BY <1>1, Indices, FirstOne
<1>3. OnceEach'
  <2>1. \A k, l \in DOMAIN toChat' : toChat'[k] = toChat'[l] => k = l
    <3>1. ASSUME NEW k \in DOMAIN toChat', NEW l \in DOMAIN toChat', toChat'[k] = toChat'[l]
          PROVE  k = l
      <4>1. k + 1 = l + 1
        BY <1>2, <3>1 DEF Alone, OnceEach
      <4> QED BY <1>2, <4>1
    <3> QED BY <3>1
  <2> QED BY <1>1, <2>1 DEF Alone, OnceEach, IsMatch
<1>4. ASSUME NEW q \in Room PROVE OnePlace(t, q)'
  <2>1. OnePlace(t, q)
    BY DEF Alone
  <2>2. GoesBack(q)' => GoesBack(q) /\ q # Head(toChat)
    <3>1. ASSUME NEW k \in DOMAIN toChat', toChat'[k] = q PROVE GoesBack(q) /\ q # Head(toChat)
      <4>1. k + 1 \in DOMAIN toChat /\ toChat[k + 1] = q /\ k + 1 # 1
        BY <1>2, <3>1
      <4> QED BY <1>2, <4>1 DEF Alone, OnceEach, GoesBack
    <3> QED BY <3>1 DEF GoesBack
  <2>3. (InInsert(t, q)' <=> InInsert(t, q)) /\ (Begun(q)' <=> Begun(q))
        /\ (InQueue(q)' <=> InQueue(q))
    BY <1>1 DEF InInsert, Begun, InQueue
  <2>4. GoesBack(Head(toChat))
    BY <1>2 DEF GoesBack
  <2> QED BY <1>1, <2>1, <2>2, <2>3, <2>4 DEF OnePlace
<1> QED BY <1>1, <1>3, <1>4, OutsideKeeps DEF Alone

-----------------------------------------------------------------------------
(***************************************************************************)
(* One contents thread: its handlers.                                      *)
(***************************************************************************)

LEMMA OthersIdle ==
  ASSUME TypeInv, NEW t \in Thread, Alone(t), NEW l, pc' = [pc EXCEPT ![t] = l]
  PROVE  pc'[t] = l /\ \A s \in Thread \ {t} : pc'[s] = "idle"
<1>1. pc \in [Thread -> Where]
  BY DEF TypeInv, TypeOK
<1> QED BY <1>1 DEF Alone

LEMMA TakeAlone ==
  ASSUME TypeInv, TypeInv', NEW t \in Thread, Alone(t), TakePackage(t)
  PROVE  Alone(t)'
<1>1. PICK p, l : p = Head(queue) /\ l = IF p.type = "USER_INFO" THEN "insert" ELSE "find"
  OBVIOUS
<1>2. /\ pc[t] = "idle" /\ queue # <<>> /\ queue' = Tail(queue)
      /\ pc' = [pc EXCEPT ![t] = l] /\ pkg' = [pkg EXCEPT ![t] = p]
      /\ UNCHANGED <<objs, roomArr, users, obj, toChat, lent>>
  BY <1>1 DEF TakePackage, roomVars, outside
<1>3. /\ 1 \in DOMAIN queue /\ p = queue[1]
      /\ DOMAIN queue' = 1..(Len(queue) - 1) /\ Len(queue) \in Nat
      /\ \A k \in 1..(Len(queue) - 1) : k + 1 \in DOMAIN queue /\ queue'[k] = queue[k + 1]
  BY <1>1, <1>2, Indices, FirstOne
<1>4. pc'[t] = l /\ (\A s \in Thread \ {t} : pc'[s] = "idle") /\ pkg'[t] = p
  BY <1>2, OthersIdle DEF TypeInv, TypeOK
<1>5. l \in {"insert", "find"} /\ (l = "insert" <=> IsMatch(p))
  BY <1>1 DEF IsMatch
<1>6. Points(t)' /\ Mapped' /\ Reached(t)' /\ Entries' /\ Shape(t)'
  BY <1>2, <1>4, <1>5 DEF Alone, Points, Mapped, Reached, Entries, TypeInv
<1>7. Returned(t)'
  BY <1>2, <1>4, <1>5 DEF Alone, Returned, End
<1>8. OnceEach'
  <2>1. ASSUME NEW k \in DOMAIN queue', NEW m \in DOMAIN queue', IsMatch(queue'[k]), IsMatch(queue'[m])
        PROVE  k = m
    <3>1. k + 1 = m + 1
      BY <1>3, <2>1 DEF Alone, OnceEach
    <3> QED BY <1>3, <3>1
  <2> QED BY <1>2, <2>1 DEF Alone, OnceEach, IsMatch
<1>9. ASSUME NEW r \in Room PROVE OnePlace(t, r)'
  <2>1. OnePlace(t, r)
    BY DEF Alone
  <2>2. InQueue(r)' => InQueue(r) /\ ~IsMatch(p)
    <3>1. ASSUME NEW k \in DOMAIN queue', IsMatch(queue'[k]), queue'[k].room = r
          PROVE  InQueue(r) /\ ~IsMatch(p)
      <4>1. k + 1 \in DOMAIN queue /\ queue'[k] = queue[k + 1] /\ k + 1 # 1
        BY <1>3
      <4> QED BY <1>3, <3>1, <4>1 DEF Alone, OnceEach, InQueue
    <3> QED BY <3>1 DEF InQueue, IsMatch
  <2>3. (Begun(r)' <=> Begun(r)) /\ (GoesBack(r)' <=> GoesBack(r))
    BY <1>2 DEF Begun, GoesBack
  <2>4. InInsert(t, r)' => InQueue(r) /\ IsMatch(p)
    BY <1>3, <1>4, <1>5 DEF InInsert, InQueue
  <2> QED BY <1>2, <2>1, <2>2, <2>3, <2>4 DEF OnePlace
<1> QED BY <1>4, <1>6, <1>7, <1>8, <1>9 DEF Alone

\* no match is left under the number of the next
LEMMA FreshNumber ==
  ASSUME TypeInv, NEW t \in Thread, Alone(t), InsertRoom(t)
  PROVE  pkg[t].room \in Room /\ roomArr[pkg[t].room] = 0
<1>1. PICK p \in Package : p = pkg[t]
  BY DEF TypeInv, Shape, InsertRoom, At
<1>2. p.room \in Room /\ InInsert(t, p.room) /\ pc[t] = "insert"
  BY <1>1, PackageTypes DEF InInsert, InsertRoom, At
<1>3. roomArr[p.room] = 0
  <2>1. SUFFICES ASSUME roomArr[p.room] # 0 PROVE Begun(p.room)
    BY <1>2 DEF Alone, OnePlace
  <2>2. roomArr[p.room] \in DOMAIN objs /\ ~objs[roomArr[p.room]].deleted
    BY <1>2, <2>1 DEF TypeInv, Known, Alone, Mapped
  <2>3. objs[roomArr[p.room]].given = 0
    BY <1>2, <2>2 DEF Alone, Returned, End
  <2> QED BY <2>1, <2>3 DEF Begun
<1> QED BY <1>1, <1>2, <1>3

LEMMA InsertAlone ==
  ASSUME TypeInv, TypeInv', NEW t \in Thread, Alone(t), InsertRoom(t)
  PROVE  Alone(t)'
<1>1. PICK p \in Package : p = pkg[t]
  BY DEF TypeInv, Shape, InsertRoom, At
<1>2. p.room \in Room /\ InInsert(t, p.room) /\ pc[t] = "insert"
  BY <1>1, PackageTypes DEF InInsert, InsertRoom, At
<1>3. roomArr[p.room] = 0
  BY <1>1, FreshNumber
<1>4. PICK e : e = [u1 |-> p.id1, u2 |-> p.id2, total |-> 0, deleted |-> FALSE,
                    given |-> 0, on |-> FALSE, room |-> p.room]
  OBVIOUS
<1>5. e.u1 = p.id1 /\ e.u2 = p.id2 /\ ~e.deleted /\ e.given = 0
  BY <1>4
<1>6. PICK o \in Nat : o = Len(objs) + 1
  BY Indices
<1>7. /\ objs' = Append(objs, e) /\ roomArr' = [roomArr EXCEPT ![p.room] = o]
      /\ obj' = [obj EXCEPT ![t] = o] /\ pc' = [pc EXCEPT ![t] = "try"]
      /\ UNCHANGED <<users, queue, pkg, toChat, lent>>
  BY <1>1, <1>3, <1>4, <1>6, Zenon DEF InsertRoom, Goto, outside
<1>8. /\ DOMAIN objs' = 1..o /\ objs'[o] = e /\ DOMAIN objs = 1..Len(objs) /\ Len(objs) \in Nat
      /\ \A k \in DOMAIN objs : objs'[k] = objs[k]
  <2>1. objs \in Seq(RoomObject) /\ DOMAIN objs = 1..Len(objs) /\ Len(objs) \in Nat
    BY ObjectTypes DEF TypeInv
  <2> QED BY <1>6, <1>7, <2>1, LastOne
<1>9. pc'[t] = "try" /\ (\A s \in Thread \ {t} : pc'[s] = "idle") /\ obj'[t] = o /\ pkg'[t] = p
  BY <1>1, <1>7, OthersIdle DEF TypeInv, TypeOK
<1>10. /\ roomArr'[p.room] = o
       /\ \A r \in Room \ {p.room} : roomArr'[r] = roomArr[r]
       /\ \A r \in Room : roomArr[r] # 0 => roomArr[r] \in DOMAIN objs /\ roomArr[r] # o
  <2>1. \A r \in Room : roomArr[r] # 0 => roomArr[r] \in DOMAIN objs
    BY DEF TypeInv, Known
  <2> QED BY <1>2, <1>6, <1>7, <1>8, <2>1 DEF TypeInv, TypeOK
<1>11. o # 0
  BY <1>6, <1>8
<1>12. Points(t)'
  BY <1>2, <1>5, <1>8, <1>9, <1>10 DEF Points
<1>13. Mapped'
  BY <1>2, <1>5, <1>8, <1>10 DEF Alone, Mapped
<1>14. Reached(t)' /\ Returned(t)'
  <2>1. \A k \in DOMAIN objs' : k \in DOMAIN objs \/ k = o
    BY <1>6, <1>8
  <2>2. Reached(t)'
    <3>1. ASSUME NEW k \in DOMAIN objs', ~objs'[k].deleted
          PROVE  \E r \in Room : roomArr'[r] = k
      <4>1. CASE k = o
        BY <1>2, <1>10, <4>1
      <4>2. CASE k \in DOMAIN objs
        <5>1. k # 0
          BY <1>8, <4>2
        <5>2. PICK r \in Room : roomArr[r] = k
          BY <1>2, <1>8, <3>1, <4>2 DEF Alone, Reached
        <5>3. r # p.room
          BY <1>3, <5>1, <5>2
        <5> QED BY <1>10, <5>2, <5>3
      <4> QED BY <2>1, <4>1, <4>2
    <3> QED BY <3>1 DEF Reached
  <2>3. Returned(t)'
    BY <1>2, <1>5, <1>8, <1>9, <2>1 DEF Alone, Returned, End
  <2> QED BY <2>2, <2>3
<1>15. ASSUME NEW r \in Room PROVE OnePlace(t, r)'
  <2>1. OnePlace(t, r)
    BY DEF Alone
  <2>2. /\ InQueue(r)' <=> InQueue(r)
        /\ GoesBack(r)' <=> GoesBack(r)
        /\ ~InInsert(t, r)'
    BY <1>7, <1>9 DEF InQueue, GoesBack, InInsert
  <2>3. Begun(r)' => Begun(r) \/ r = p.room
    BY <1>8, <1>10 DEF Begun
  <2> QED BY <1>2, <1>7, <2>1, <2>2, <2>3 DEF OnePlace
<1>16. Entries'
  BY <1>6, <1>7, <1>8 DEF Alone, Entries
<1>17. OnceEach'
  BY <1>7 DEF Alone, OnceEach
<1> QED BY <1>9, <1>12, <1>13, <1>14, <1>15, <1>16, <1>17 DEF Alone, TypeInv

\* a step that makes, ends and gives back no match
SameGame ==
  /\ DOMAIN objs' = DOMAIN objs
  /\ \A o \in DOMAIN objs : objs'[o].given = objs[o].given /\ SameIds(objs'[o], objs[o])
  /\ UNCHANGED <<roomArr, queue, toChat, lent>>

LEMMA SameGameAlone ==
  ASSUME TypeInv, NEW t \in Thread, Alone(t), SameGame,
         pc[t] \notin {"insert", "delete"}, pc'[t] \notin {"insert", "delete"},
         pc'[t] \in End <=> pc[t] \in End, pc[t] \in End => obj'[t] = obj[t]
  PROVE  /\ Mapped' /\ Reached(t)' /\ Returned(t)' /\ OnceEach'
         /\ (\A r \in Room : OnePlace(t, r)')
         /\ (users' = users => Entries')
<1>1. Mapped'
  BY DEF SameGame, SameIds, Alone, Mapped, TypeInv, Known
<1>2. Reached(t)'
  BY DEF SameGame, SameIds, Alone, Reached
<1>3. Returned(t)'
  BY DEF SameGame, SameIds, Alone, Returned
<1>4. OnceEach'
  BY DEF SameGame, Alone, OnceEach
<1>5. ASSUME NEW r \in Room PROVE OnePlace(t, r)'
  <2>1. /\ InQueue(r)' <=> InQueue(r)
        /\ GoesBack(r)' <=> GoesBack(r)
        /\ ~InInsert(t, r)' /\ ~InInsert(t, r)
    BY DEF SameGame, InQueue, GoesBack, InInsert
  <2>2. Begun(r)' <=> Begun(r)
    BY DEF SameGame, Begun, TypeInv, Known
  <2> QED BY <2>1, <2>2 DEF OnePlace, Alone, SameGame
<1>6. ASSUME users' = users PROVE Entries'
  BY <1>6 DEF SameGame, SameIds, Alone, Entries
<1> QED BY <1>1, <1>2, <1>3, <1>4, <1>5, <1>6

\* the handler returns without having ended its match
LEMMA ReturnAlone ==
  ASSUME TypeInv, TypeInv', NEW t \in Thread, Alone(t), SameGame, users' = users, Return(t),
         pc[t] \notin End \cup {"insert"}
  PROVE  Alone(t)'
<1>1. pc'[t] = "idle" /\ \A s \in Thread \ {t} : pc'[s] = "idle"
  BY OthersIdle DEF Return
<1>2. Points(t)'
  BY <1>1 DEF Points
<1>3. /\ Mapped' /\ Reached(t)' /\ Returned(t)' /\ OnceEach' /\ (\A r \in Room : OnePlace(t, r)')
      /\ Entries'
  BY <1>1, SameGameAlone DEF End
<1> QED BY <1>1, <1>2, <1>3 DEF Alone, TypeInv

\* the handler goes on with its package and its Room, before or after its match ends
LEMMA GoesOnAlone ==
  ASSUME TypeInv, TypeInv', NEW t \in Thread, Alone(t), SameGame, Entries', NEW l, Goto(t, l),
         UNCHANGED <<pkg, obj>>, pc[t] \notin {"idle", "insert", "find", "delete"},
         l \notin {"idle", "insert", "find", "delete"}, l \in Match => pc[t] \in Match,
         l \in End <=> pc[t] \in End
  PROVE  Alone(t)'
<1>1. pc'[t] = l /\ \A s \in Thread \ {t} : pc'[s] = "idle"
  BY OthersIdle DEF Goto
<1>2. obj[t] \in DOMAIN objs
  BY DEF TypeInv, Shape
<1>3. Points(t)'
  BY <1>1, <1>2 DEF Alone, Points, SameGame, SameIds
<1>4. /\ Mapped' /\ Reached(t)' /\ Returned(t)' /\ OnceEach' /\ \A r \in Room : OnePlace(t, r)'
  BY <1>1, SameGameAlone
<1> QED BY <1>1, <1>3, <1>4 DEF Alone, TypeInv

LEMMA RegisterEntries ==
  ASSUME TypeInv, NEW t \in Thread, Alone(t), pc[t] \in Match, objs' = objs,
         NEW i \in {pkg[t].id1, pkg[t].id2}, Register(i)
  PROVE  Entries'
<1>1. /\ obj[t] \in DOMAIN objs /\ ~objs[obj[t]].deleted
      /\ i \in {objs[obj[t]].u1, objs[obj[t]].u2}
  BY DEF TypeInv, Shape, Alone, Points, Match
<1>2. \A j \in Id : j # i => users'[j] = users[j]
  BY DEF Register, TypeInv, TypeOK
<1> QED BY <1>1, <1>2 DEF Alone, Entries

LEMMA SameObjects ==
  ASSUME UNCHANGED <<objs, roomArr, queue, toChat, lent>> PROVE SameGame
  BY DEF SameGame, SameIds

LEMMA TryAlone ==
  ASSUME TypeInv, TypeInv', NEW t \in Thread, Alone(t),
         Try(t) \/ TrySecond(t) \/ FoundNotBoth(t) \/ StaleMatch(t)
  PROVE  Alone(t)'
<1> USE DEF roomVars, outside, At
<1>1. pc[t] \in Match
  BY DEF Try, TrySecond, FoundNotBoth, StaleMatch, Match
<1>2. ~objs[obj[t]].deleted
  BY <1>1 DEF Alone, Points, Match
<1>3. /\ UNCHANGED <<objs, roomArr, queue, toChat, lent, pkg, obj>>
      /\ \E l \in Match : Goto(t, l)
  BY <1>2 DEF Try, TrySecond, FoundNotBoth, StaleMatch, Match
<1>4. Entries'
  <2>1. CASE users' = users
    BY <1>3, <2>1 DEF Alone, Entries
  <2>2. CASE users' # users
    BY <1>1, <1>2, <1>3, <2>2, RegisterEntries DEF Try, TrySecond, FoundNotBoth, StaleMatch
  <2> QED BY <2>1, <2>2
<1>5. SameGame
  BY <1>3, SameObjects
<1> QED BY <1>1, <1>3, <1>4, <1>5, GoesOnAlone DEF Match, End

LEMMA ChangesAlone ==
  ASSUME TypeInv, TypeInv', NEW t \in Thread, Alone(t), FoundBoth(t) \/ Explode(t)
  PROVE  Alone(t)'
<1>1. /\ Return(t) /\ UNCHANGED <<roomArr, users, queue, toChat, lent>>
      /\ pc[t] \in {"both", "explode"}
  <2>1. CASE FoundBoth(t)
    <3>1. /\ Return(t) /\ UNCHANGED <<conn, roomArr, users, queue, toChat, lent, sent>>
          /\ pc[t] = "both"
      BY <2>1, Zenon DEF FoundBoth, At
    <3> QED BY <3>1
  <2>2. CASE Explode(t)
    <3>1. /\ Return(t) /\ UNCHANGED <<conn, roomArr, users, queue, toChat, outside>>
          /\ pc[t] = "explode"
      BY <2>2, Zenon DEF Explode, At
    <3> QED BY <3>1 DEF outside
  <2> QED BY <2>1, <2>2, Zenon
<1>2. PICK e \in RoomObject : /\ objs' = [objs EXCEPT ![obj[t]] = e]
                              /\ e.given = objs[obj[t]].given
                              /\ SameIds(e, objs[obj[t]])
  BY Begins, Counts, Zenon
<1>3. obj[t] \in DOMAIN objs
  BY <1>1 DEF TypeInv, Shape
<1>4. SameGame
  BY <1>1, <1>2, <1>3, ChangedRoom DEF SameGame, SameIds
<1> QED BY <1>1, <1>4, ReturnAlone DEF End

LEMMA FindAlone ==
  ASSUME TypeInv, TypeInv', NEW t \in Thread, Alone(t), FindRoom(t)
  PROVE  Alone(t)'
<1> USE DEF roomVars, outside, At
<1>1. UNCHANGED <<objs, roomArr, queue, toChat, lent, users>> /\ pc[t] = "find"
  BY DEF FindRoom
<1>2. SameGame
  BY <1>1, SameObjects
<1>3. CASE Return(t)
  BY <1>1, <1>2, <1>3, ReturnAlone DEF End
<1>4. CASE ~Return(t)
  <2>1. PICK p \in Package : p = pkg[t]
    BY <1>1 DEF TypeInv, Shape
  <2>2. p.room \in Room /\ p.type \in Requests
    BY <1>1, <2>1, PackageTypes DEF TypeInv, Shape
  <2>3. PICK o : o = roomArr[p.room]
    OBVIOUS
  <2>4. o # 0 /\ obj' = [obj EXCEPT ![t] = o] /\ Goto(t, p.type) /\ pkg' = pkg
    BY <1>4, <2>1, <2>3 DEF FindRoom
  <2>5. /\ pc'[t] = p.type /\ (\A s \in Thread \ {t} : pc'[s] = "idle")
        /\ obj'[t] = o /\ pkg'[t] = p
    BY <2>1, <2>4, OthersIdle DEF Goto, TypeInv, TypeOK
  <2>6. p.type \notin Match \cup End \cup {"idle", "insert", "find"}
    BY <2>2 DEF Requests, Relays, Match, End
  <2>7. o \in DOMAIN objs /\ ~objs[o].deleted
    BY <2>2, <2>3, <2>4 DEF Alone, Mapped, TypeInv, Known
  <2>8. Points(t)'
    BY <1>1, <2>3, <2>5, <2>6, <2>7 DEF Points, End
  <2>9. /\ Mapped' /\ Reached(t)' /\ Returned(t)' /\ OnceEach' /\ (\A r \in Room : OnePlace(t, r)')
        /\ Entries'
    BY <1>1, <1>2, <2>5, <2>6, SameGameAlone DEF End
  <2> QED BY <2>5, <2>8, <2>9 DEF Alone, TypeInv
<1> QED BY <1>3, <1>4

LEMMA AnswerAlone ==
  ASSUME TypeInv, TypeInv', NEW t \in Thread, Alone(t),
         StaleRoom(t) \/ Relay(t) \/ C_REQ_ENEMY_EXPLOSION(t)
  PROVE  Alone(t)'
<1> USE DEF roomVars, outside, threadVars, At
<1>1. CASE Crash
  BY <1>1, UnmovedAlone DEF Crash
<1>2. CASE ~Crash
  <2>1. /\ UNCHANGED <<roomArr, objs, users, queue, toChat, lent>>
        /\ pc[t] \in Requests \cup {"explode"}
    BY <1>2 DEF StaleRoom, C_REQ_ENEMY_EXPLOSION, Relay, Requests
  <2>2. SameGame /\ Entries' /\ users' = users
    BY <2>1, SameObjects DEF Alone, Entries
  <2>3. pc[t] \notin End \cup Match \cup {"idle", "insert", "find"}
    BY <2>1 DEF Requests, Relays, End, Match
  <2>4. CASE Return(t)
    BY <2>2, <2>3, <2>4, ReturnAlone
  <2>5. CASE ~Return(t)
    <3>1. Goto(t, "explode") /\ UNCHANGED <<pkg, obj>>
      BY <1>2, <2>5 DEF StaleRoom, Relay, C_REQ_ENEMY_EXPLOSION
    <3> QED BY <2>2, <2>3, <3>1, GoesOnAlone DEF Match, End
  <2> QED BY <2>4, <2>5
<1> QED BY <1>1, <1>2

LEMMA GivesBackAlone ==
  ASSUME TypeInv, TypeInv', NEW t \in Thread, Alone(t), NEW l \in {"erase", "tell"}, GivesBack(t, l)
  PROVE  Alone(t)'
<1>1. PICK e \in RoomObject : /\ objs' = [objs EXCEPT ![obj[t]] = e]
                              /\ e.given = objs[obj[t]].given + 1
                              /\ SameIds(e, objs[obj[t]])
  BY Zenon DEF GivesBack
<1>2. /\ toChat' = Append(toChat, pkg[t].room) /\ pc' = [pc EXCEPT ![t] = l]
      /\ UNCHANGED <<roomArr, users, queue, pkg, obj, lent>>
      /\ pc[t] \in {"try", "BOSS_EXPLOSION"}
  BY DEF GivesBack, Goto, outside
<1>3. PICK o \in DOMAIN objs, r \in Room : o = obj[t] /\ r = pkg[t].room
  BY <1>2, PackageTypes DEF TypeInv, Shape
<1>4. ~objs[o].deleted /\ roomArr[r] = o /\ objs[o].given = 0
  <2>1. ~objs[o].deleted /\ roomArr[r] = o
    BY <1>2, <1>3 DEF Alone, Points
  <2> QED BY <1>2, <2>1 DEF Alone, Returned, End
<1>5. o # 0
  BY <1>3, Indices
<1>6. Begun(r)
  BY <1>4, <1>5 DEF Begun
<1>7. /\ DOMAIN objs' = DOMAIN objs /\ objs'[o] = e
      /\ \A k \in DOMAIN objs \ {o} : objs'[k] = objs[k]
  BY <1>1, <1>3, ChangedRoom
<1>8. pc'[t] = l /\ (\A s \in Thread \ {t} : pc'[s] = "idle") /\ obj'[t] = o
  BY <1>2, <1>3, OthersIdle
<1>9. e.given = 1 /\ ~e.deleted /\ e.u1 = objs[o].u1 /\ e.u2 = objs[o].u2
  BY <1>1, <1>3, <1>4 DEF SameIds
<1>10. Points(t)'
  BY <1>2, <1>3, <1>4, <1>7, <1>8, <1>9 DEF Points, Match
<1>11. Mapped' /\ Reached(t)' /\ Entries'
  <2>1. Mapped'
    BY <1>2, <1>7, <1>9 DEF Alone, Mapped, TypeInv, Known
  <2>2. Reached(t)'
    BY <1>2, <1>4, <1>7, <1>8, <1>9 DEF Alone, Reached
  <2>3. Entries'
    BY <1>2, <1>4, <1>7, <1>9 DEF Alone, Entries
  <2> QED BY <2>1, <2>2, <2>3
<1>12. Returned(t)'
  BY <1>2, <1>3, <1>4, <1>7, <1>8, <1>9 DEF Alone, Returned, End
<1>13. /\ DOMAIN toChat' = 1..(Len(toChat) + 1) /\ toChat'[Len(toChat) + 1] = r
       /\ \A k \in 1..Len(toChat) : toChat'[k] = toChat[k]
       /\ DOMAIN toChat = 1..Len(toChat) /\ Len(toChat) \in Nat
  BY <1>2, <1>3, Indices, LastOne
<1>14. ~GoesBack(r)
  BY <1>6 DEF Alone, OnePlace
<1>15. OnceEach'
  <2>1. \A k, m \in DOMAIN toChat' : toChat'[k] = toChat'[m] => k = m
    BY <1>13, <1>14 DEF Alone, OnceEach, GoesBack
  <2> QED BY <1>2, <2>1 DEF Alone, OnceEach, IsMatch
<1>16. ASSUME NEW q \in Room PROVE OnePlace(t, q)'
  <2>1. OnePlace(t, q) /\ OnePlace(t, r)
    BY DEF Alone
  <2>2. /\ InQueue(q)' <=> InQueue(q)
        /\ ~InInsert(t, q)' /\ ~InInsert(t, q)
    BY <1>2, <1>8 DEF InQueue, InInsert
  <2>3. GoesBack(q)' => GoesBack(q) \/ q = r
    BY <1>13 DEF GoesBack
  <2>4. Begun(q)' => Begun(q) /\ q # r
    BY <1>2, <1>4, <1>7, <1>9 DEF Begun, TypeInv, Known
  <2> QED BY <1>2, <1>6, <2>1, <2>2, <2>3, <2>4 DEF OnePlace
<1> QED BY <1>8, <1>10, <1>11, <1>12, <1>15, <1>16 DEF Alone, TypeInv

LEMMA GivesAlone ==
  ASSUME TypeInv, TypeInv', NEW t \in Thread, Alone(t), GiveUp(t) \/ C_REQ_BOSS_EXPLOSION(t)
  PROVE  Alone(t)'
<1>1. CASE Return(t) /\ UNCHANGED <<running, conn, roomVars, queue, toChat, outside>>
  <2>1. SameGame /\ users' = users
    BY <1>1, SameObjects DEF roomVars, outside
  <2>2. pc[t] \in {"try", "BOSS_EXPLOSION"}
    BY Zenon DEF GiveUp, C_REQ_BOSS_EXPLOSION, At
  <2> QED BY <1>1, <2>1, <2>2, ReturnAlone DEF End
<1> QED BY <1>1, Gives, GivesBackAlone, Zenon

LEMMA TellAlone ==
  ASSUME TypeInv, TypeInv', NEW t \in Thread, Alone(t), TellBoth(t)
  PROVE  Alone(t)'
<1> USE DEF roomVars, outside, threadVars, At
<1>1. CASE Crash
  BY <1>1, UnmovedAlone DEF Crash
<1>2. CASE ~Crash
  <2>1. /\ pc[t] = "tell" /\ Goto(t, "erase") /\ users' = users
        /\ UNCHANGED <<roomArr, objs, queue, toChat, lent, pkg, obj>>
    <3>1. pc[t] = "tell" /\ Goto(t, "erase")
          /\ UNCHANGED <<conn, roomVars, queue, pkg, obj, tries, toChat, lent, sent>>
      BY <1>2, Zenon DEF TellBoth
    <3> QED BY <3>1
  <2>2. SameGame /\ Entries'
    BY <2>1, SameObjects DEF Alone, Entries
  <2> QED BY <2>1, <2>2, GoesOnAlone DEF Match, End
<1> QED BY <1>1, <1>2

LEMMA EraseAlone ==
  ASSUME TypeInv, TypeInv', NEW t \in Thread, Alone(t), EraseRoom(t)
  PROVE  Alone(t)'
<1>1. /\ pc[t] = "erase" /\ pc' = [pc EXCEPT ![t] = "delete"]
      /\ roomArr' = [roomArr EXCEPT ![pkg[t].room] = 0]
      /\ UNCHANGED <<objs, users, queue, pkg, obj, toChat, lent>>
  BY DEF EraseRoom, At, Goto, outside
<1>2. PICK o \in DOMAIN objs, r \in Room : o = obj[t] /\ r = pkg[t].room
  BY <1>1, PackageTypes DEF TypeInv, Shape
<1>3. ~objs[o].deleted /\ roomArr[r] = o /\ objs[o].given = 1 /\ o # 0
  <2>1. ~objs[o].deleted /\ roomArr[r] = o
    BY <1>1, <1>2 DEF Alone, Points
  <2>2. objs[o].given = 1
    BY <1>1, <1>2 DEF Alone, Returned, End
  <2>3. o # 0
    BY <1>2, Indices
  <2> QED BY <2>1, <2>2, <2>3
<1>4. pc'[t] = "delete" /\ \A s \in Thread \ {t} : pc'[s] = "idle"
  BY <1>1, OthersIdle
<1>5. roomArr'[r] = 0 /\ \A q \in Room \ {r} : roomArr'[q] = roomArr[q] /\ roomArr[q] # o
  BY <1>1, <1>2, <1>3 DEF TypeInv, TypeOK, Alone, Mapped
<1>6. Points(t)'
  BY <1>1, <1>2, <1>3, <1>4, <1>5 DEF Points, Match
<1>7. Mapped' /\ Entries' /\ OnceEach'
  BY <1>1, <1>5 DEF Alone, Mapped, Entries, OnceEach
<1>8. Reached(t)'
  <2>1. ASSUME NEW k \in DOMAIN objs, ~objs[k].deleted, k # o
        PROVE  \E q \in Room : roomArr'[q] = k
    <3>1. PICK q \in Room : roomArr[q] = k
      BY <1>1, <2>1 DEF Alone, Reached
    <3> QED BY <1>3, <1>5, <2>1, <3>1
  <2> QED BY <1>1, <1>2, <1>4, <2>1 DEF Reached
<1>9. Returned(t)'
  BY <1>1, <1>4 DEF Alone, Returned, End
<1>10. ASSUME NEW q \in Room PROVE OnePlace(t, q)'
  <2>1. OnePlace(t, q)
    BY DEF Alone
  <2>2. /\ InQueue(q)' <=> InQueue(q)
        /\ GoesBack(q)' <=> GoesBack(q)
        /\ ~InInsert(t, q)' /\ ~InInsert(t, q)
    BY <1>1, <1>4 DEF InQueue, GoesBack, InInsert
  <2>3. Begun(q)' => Begun(q)
    BY <1>1, <1>5 DEF Begun
  <2> QED BY <1>1, <2>1, <2>2, <2>3 DEF OnePlace
<1> QED BY <1>4, <1>6, <1>7, <1>8, <1>9, <1>10 DEF Alone, TypeInv

LEMMA DeleteAlone ==
  ASSUME TypeInv, TypeInv', NEW t \in Thread, Alone(t), DeleteRoom(t)
  PROVE  Alone(t)'
<1>1. pc[t] = "delete"
  BY Zenon DEF DeleteRoom, At
<1>2. CASE Crash
  BY <1>2, UnmovedAlone DEF Crash, roomVars, outside, threadVars
<1>3. CASE ~Crash
  <2>1. PICK e \in RoomObject :
          objs' = [objs EXCEPT ![obj[t]] = e] /\ e.given = objs[obj[t]].given /\ e.deleted
    BY <1>3, Deletes, Zenon
  <2>2. /\ users' = [i \in Id |-> IF i \in Players(obj[t]) THEN "none" ELSE users[i]]
        /\ Return(t) /\ UNCHANGED <<running, conn, roomArr, queue, toChat, outside>>
    BY <1>3, Deletes, Zenon
  <2>3. PICK o \in DOMAIN objs : o = obj[t]
    BY <1>1 DEF TypeInv, Shape
  <2>4. /\ DOMAIN objs' = DOMAIN objs /\ objs'[o] = e
        /\ \A k \in DOMAIN objs \ {o} : objs'[k] = objs[k]
    BY <2>1, <2>3, ChangedRoom
  <2>5. UNCHANGED <<roomArr, queue, toChat, lent>>
    BY <2>2 DEF outside
  <2>6. pc'[t] = "idle" /\ \A s \in Thread \ {t} : pc'[s] = "idle"
    BY <2>2, OthersIdle DEF Return
  <2>7. ~objs[o].deleted /\ objs[o].given = 1 /\ \A r \in Room : roomArr[r] # o
    <3>1. ~objs[o].deleted /\ \A r \in Room : roomArr[r] # o
      BY <1>1, <2>3 DEF Alone, Points
    <3> QED BY <1>1, <2>3, <3>1 DEF Alone, Returned, End
  <2>8. Points(t)' /\ Mapped'
    BY <2>4, <2>5, <2>6, <2>7 DEF Alone, Points, Mapped, TypeInv, Known
  <2>9. Reached(t)'
    BY <2>1, <2>3, <2>4, <2>5 DEF Alone, Reached
  <2>10. Returned(t)'
    BY <1>1, <2>1, <2>3, <2>4, <2>6, <2>7 DEF Alone, Returned, End
  <2>11. OnceEach'
    BY <2>5 DEF Alone, OnceEach
  <2>12. Entries'
    <3>1. ASSUME NEW i \in Id, users'[i] # "none"
          PROVE  \E k \in DOMAIN objs' : ~objs'[k].deleted /\ i \in {objs'[k].u1, objs'[k].u2}
      <4>1. i \notin Players(o) /\ users[i] # "none"
        BY <2>2, <2>3, <3>1
      <4>2. i \notin {objs[o].u1, objs[o].u2}
        BY <4>1, IdAssumption DEF Players
      <4>3. PICK k \in DOMAIN objs : ~objs[k].deleted /\ i \in {objs[k].u1, objs[k].u2}
        BY <4>1 DEF Alone, Entries
      <4> QED BY <2>4, <4>2, <4>3
    <3> QED BY <3>1 DEF Entries
  <2>13. ASSUME NEW q \in Room PROVE OnePlace(t, q)'
    <3>1. OnePlace(t, q)
      BY DEF Alone
    <3>2. /\ InQueue(q)' <=> InQueue(q)
          /\ GoesBack(q)' <=> GoesBack(q)
          /\ ~InInsert(t, q)' /\ ~InInsert(t, q)
      BY <1>1, <2>5, <2>6 DEF InQueue, GoesBack, InInsert
    <3>3. Begun(q)' <=> Begun(q)
      BY <2>4, <2>5, <2>7 DEF Begun, TypeInv, Known
    <3> QED BY <2>5, <3>1, <3>2, <3>3 DEF OnePlace
  <2> QED BY <2>6, <2>8, <2>9, <2>10, <2>11, <2>12, <2>13 DEF Alone, TypeInv
<1> QED BY <1>2, <1>3

-----------------------------------------------------------------------------
LEMMA AloneStart == GameInit => AloneInv
<1> SUFFICES ASSUME GameInit, NEW t \in Thread PROVE Alone(t)
  BY DEF AloneInv
<1>1. Shape(t) /\ Points(t) /\ Mapped /\ \A s \in Thread \ {t} : pc[s] = "idle"
  BY DEF GameInit, Shape, Points, Mapped, Match
<1>2. Reached(t) /\ Returned(t) /\ OnceEach /\ Entries
  BY DEF GameInit, Reached, Returned, OnceEach, Entries
<1>3. ASSUME NEW r \in Room PROVE OnePlace(t, r)
  BY DEF GameInit, OnePlace, InQueue, InInsert, Begun, GoesBack
<1> QED BY <1>1, <1>2, <1>3 DEF Alone

LEMMA AloneStep == TypeInv /\ TypeInv' /\ AloneInv /\ [Next]_vars => AloneInv'
<1> SUFFICES ASSUME TypeInv, TypeInv', AloneInv, [Next]_vars, NEW t \in Thread, setup'.thread = {t}
             PROVE  Alone(t)'
  BY DEF AloneInv
<1>1. setup' = setup
  BY DEF Next, vars
<1>2. Alone(t) /\ setup.thread = {t}
  BY <1>1 DEF AloneInv
<1>3. CASE UNCHANGED vars
  BY <1>2, <1>3, UnmovedAlone DEF vars, gameVars, roomVars, threadVars, outside
<1>4. CASE Outside
  <2>1. ASSUME NEW i, Connect(i) \/ Close(i) PROVE Alone(t)'
    BY <1>2, <2>1, UnmovedAlone DEF Connect, Close, roomVars, threadVars, outside
  <2>2. ASSUME NEW i, NEW type \in Requests, Play(i, type) PROVE Alone(t)'
    BY <1>2, <2>2, PlayAlone
  <2>3. ASSUME NEW r \in Room, NEW i, NEW j, HandOver(r, i, j) PROVE Alone(t)'
    BY <1>2, <2>3, HandOverAlone
  <2>4. CASE GiveBack
    BY <1>2, <2>4, GiveBackAlone
  <2> QED BY <1>4, <2>1, <2>2, <2>3, <2>4, Zenon DEF Outside, Requests
<1>5. ASSUME NEW s \in Thread, Work(s) PROVE Alone(t)'
  <2>1. s = t
    <3>1. CASE TakePackage(s)
      BY <1>2, <3>1, Zenon DEF TakePackage
    <3>2. CASE Handler(s)
      <4>1. pc[s] # "idle"
        <5>1. CASE I_USER_INFO(s)
          <6>1. pc[s] \in Match \cup {"insert"}
            BY <5>1, Zenon DEF I_USER_INFO, InsertRoom, Try, TrySecond, FoundBoth, FoundNotBoth,
                               StaleMatch, GiveUp, At, Match
          <6> QED BY <6>1 DEF Match
        <5>2. CASE EndGame(s)
          <6>1. pc[s] \in End \cup {"BOSS_EXPLOSION"}
            BY <5>2, Zenon DEF EndGame, C_REQ_BOSS_EXPLOSION, TellBoth, EraseRoom, DeleteRoom, At, End
          <6> QED BY <6>1 DEF End
        <5>3. CASE FindRoom(s) \/ StaleRoom(s) \/ Relay(s) \/ C_REQ_ENEMY_EXPLOSION(s) \/ Explode(s)
          <6>1. pc[s] \in Requests \cup {"find", "explode"}
            BY <5>3, Zenon DEF FindRoom, StaleRoom, Relay, C_REQ_ENEMY_EXPLOSION, Explode, At, Requests
          <6> QED BY <6>1 DEF Requests, Relays
        <5> QED BY <3>2, <5>1, <5>2, <5>3, Zenon DEF Handler
      <4> QED BY <1>2, <4>1 DEF Alone
    <3> QED BY <1>5, <3>1, <3>2, Zenon DEF Work
  <2>2. CASE TakePackage(t)
    BY <1>2, <2>2, TakeAlone
  <2>3. CASE I_USER_INFO(t)
    BY <1>2, <2>3, InsertAlone, TryAlone, ChangesAlone, GivesAlone, Zenon DEF I_USER_INFO
  <2>4. CASE EndGame(t)
    BY <1>2, <2>4, GivesAlone, TellAlone, EraseAlone, DeleteAlone, Zenon DEF EndGame
  <2>5. CASE FindRoom(t) \/ StaleRoom(t) \/ Relay(t) \/ C_REQ_ENEMY_EXPLOSION(t) \/ Explode(t)
    BY <1>2, <2>5, FindAlone, AnswerAlone, ChangesAlone, Zenon
  <2> QED BY <1>5, <2>1, <2>2, <2>3, <2>4, <2>5, Zenon DEF Work, Handler
<1> QED BY <1>3, <1>4, <1>5, Zenon DEF Next

LEMMA AloneInvariant == Spec => [](TypeInv /\ AloneInv)
<1>1. TypeInv /\ AloneInv /\ [Next]_vars => TypeInv' /\ AloneInv'
  BY TypeStep, AloneStep
<1> QED BY <1>1, TypeStart, AloneStart, PTL DEF Spec

(***************************************************************************)
(* With one contents thread the lobby gets a room back once for each       *)
(* match: I_USER_INFO gives it back and goes on to delete the Room, and so *)
(* does C_REQ_BOSS_EXPLOSION, so neither runs for the match again.         *)
(***************************************************************************)
THEOREM BackOnce == Spec => []GivenBackOnce
<1>1. TypeInv /\ AloneInv => GivenBackOnce
  <2> SUFFICES ASSUME TypeInv, AloneInv, OneThread, NEW o \in DOMAIN objs
               PROVE  objs[o].given <= 1
    BY DEF GivenBackOnce
  <2>1. PICK t \in Thread : setup.thread = {t}
    BY DEF OneThread
  <2>2. objs[o].given \in {0, 1}
    BY <2>1 DEF AloneInv, Alone, Returned
  <2> QED BY <2>2
<1> QED BY <1>1, AloneInvariant, PTL

(***************************************************************************)
(* With one contents thread an entry of simpleSessionManager is that of a  *)
(* player of a Room that exists: Insert_Sessions runs for the players of a *)
(* Room only, and ~Room erases both.                                       *)
(***************************************************************************)
THEOREM EntriesHaveRooms == Spec => []EntriesBelongToRooms
<1>1. TypeInv /\ AloneInv => EntriesBelongToRooms
  BY DEF EntriesBelongToRooms, OneThread, AloneInv, Alone, Entries
<1> QED BY <1>1, AloneInvariant, PTL
-----------------------------------------------------------------------------
(***************************************************************************)
(* Any number of contents threads: where a room number leads.              *)
(***************************************************************************)
\* a handler of a number that was never met has the Room of this number, or none is there
Leads(t) ==
  HasRoom(t) /\ pkg[t].room \notin met => roomArr[pkg[t].room] \in {0, obj[t]}

\* a Room is given back before it is erased
GaveFirst(t) == pc[t] \in End => objs[obj[t]].given > 0

Found ==
  \A o \in DOMAIN objs : objs[o].given = 0 /\ objs[o].room \notin met =>
    roomArr[objs[o].room] = o

FoundInv == Found /\ \A t \in Thread : Leads(t) /\ GaveFirst(t)

\* the Rooms and their numbers stay as they are; one may be given back
SameNumbers ==
  /\ DOMAIN objs' = DOMAIN objs /\ roomArr' = roomArr /\ met' = met
  /\ \A o \in DOMAIN objs : /\ objs'[o].room = objs[o].room
                           /\ objs'[o].given \in Nat /\ objs'[o].given >= objs[o].given

OthersStay(t) ==
  \A u \in Thread \ {t} : pc'[u] = pc[u] /\ pkg'[u] = pkg[u] /\ obj'[u] = obj[u]

LEMMA RoomTypes ==
  ASSUME TypeInv, NEW o \in DOMAIN objs PROVE objs[o].given \in Nat /\ objs[o].room \in Room
<1>1. objs[o] \in RoomObject
  BY ObjectTypes DEF TypeInv
<1> QED BY <1>1 DEF RoomObject

LEMMA HolderTypes ==
  ASSUME TypeInv, NEW t \in Thread, HasRoom(t)
  PROVE  obj[t] \in DOMAIN objs /\ pkg[t].room \in Room
  BY PackageTypes DEF TypeInv, Shape, HasRoom

LEMMA EndsHave == ASSUME NEW t, pc[t] \in End PROVE HasRoom(t)
  BY DEF End, HasRoom

LEMMA NumbersLead ==
  ASSUME TypeInv, FoundInv, SameNumbers, NEW t \in Thread, OthersStay(t), Leads(t)', GaveFirst(t)'
  PROVE  FoundInv'
<1>1. Found'
  BY RoomTypes DEF FoundInv, Found, SameNumbers
<1>2. ASSUME NEW u \in Thread \ {t} PROVE Leads(u)' /\ GaveFirst(u)'
  <2>1. Leads(u) /\ GaveFirst(u) /\ pc'[u] = pc[u] /\ pkg'[u] = pkg[u] /\ obj'[u] = obj[u]
    BY DEF FoundInv, OthersStay
  <2>2. Leads(u)'
    BY <2>1 DEF Leads, HasRoom, SameNumbers
  <2>3. pc[u] \in End => obj[u] \in DOMAIN objs
    BY EndsHave, HolderTypes
  <2>4. ASSUME pc[u] \in End PROVE objs'[obj[u]].given > 0
    <3>1. PICK o \in DOMAIN objs : o = obj[u]
      BY <2>3, <2>4
    <3>2. objs[o].given > 0 /\ objs[o].given \in Nat /\ objs'[o].given >= objs[o].given
      BY <2>1, <2>4, <3>1, RoomTypes DEF GaveFirst, SameNumbers
    <3>3. objs'[o].given \in Nat
      BY DEF SameNumbers
    <3> QED BY <3>1, <3>2, <3>3
  <2>5. GaveFirst(u)'
    BY <2>1, <2>4 DEF GaveFirst
  <2> QED BY <2>2, <2>5
<1> QED BY <1>1, <1>2 DEF FoundInv

LEMMA Unmoved ==
  ASSUME TypeInv, FoundInv, UNCHANGED <<objs, roomArr, met, pc, pkg, obj>> PROVE FoundInv'
  BY DEF FoundInv, Found, Leads, HasRoom, GaveFirst

\* the handler returns, or goes on with its package and its Room
LEMMA ReturnLeads ==
  ASSUME TypeInv, FoundInv, SameNumbers, NEW t \in Thread, Return(t)
  PROVE  FoundInv'
<1>1. OthersStay(t) /\ pc'[t] = "idle"
  BY DEF Return, OthersStay, TypeInv, TypeOK
<1>2. Leads(t)' /\ GaveFirst(t)'
  BY <1>1 DEF Leads, HasRoom, GaveFirst, End
<1> QED BY <1>1, <1>2, NumbersLead

LEMMA GoesOnLeads ==
  ASSUME TypeInv, FoundInv, SameNumbers, NEW t \in Thread, HasRoom(t), NEW l, Goto(t, l),
         UNCHANGED <<pkg, obj>>,
         l \in End => pc[t] \in End \/ objs'[obj[t]].given > 0
  PROVE  FoundInv'
<1>1. OthersStay(t) /\ pc'[t] = l
  BY DEF Goto, OthersStay, TypeInv, TypeOK
<1>2. Leads(t) /\ GaveFirst(t) /\ obj[t] \in DOMAIN objs
  BY HolderTypes DEF FoundInv
<1>3. Leads(t)'
  BY <1>2 DEF Leads, HasRoom, SameNumbers
<1>4. PICK o \in DOMAIN objs : o = obj[t]
  BY <1>2
<1>5. objs[o].given \in Nat /\ objs'[o].given \in Nat /\ objs'[o].given >= objs[o].given
  BY RoomTypes DEF SameNumbers
<1>6. GaveFirst(t)'
  BY <1>1, <1>2, <1>4, <1>5 DEF GaveFirst
<1> QED BY <1>1, <1>3, <1>6, NumbersLead

\* one Room changes, and not its number
LEMMA ChangedNumbers ==
  ASSUME TypeInv, NEW o \in DOMAIN objs, NEW e \in RoomObject, objs' = [objs EXCEPT ![o] = e],
         e.room = objs[o].room, e.given >= objs[o].given, UNCHANGED <<roomArr, met>>
  PROVE  SameNumbers /\ objs'[o] = e
<1>1. /\ DOMAIN objs' = DOMAIN objs /\ objs'[o] = e
      /\ \A k \in DOMAIN objs \ {o} : objs'[k] = objs[k]
  BY ChangedRoom
<1>2. e.given \in Nat
  BY DEF RoomObject
<1>3. ASSUME NEW k \in DOMAIN objs
      PROVE  objs'[k].room = objs[k].room /\ objs'[k].given \in Nat
             /\ objs'[k].given >= objs[k].given
  <2>1. objs[k].given \in Nat
    BY RoomTypes
  <2>2. CASE k = o
    BY <1>1, <1>2, <2>2
  <2>3. CASE k # o
    BY <1>1, <2>1, <2>3
  <2> QED BY <2>2, <2>3
<1> QED BY <1>1, <1>3 DEF SameNumbers

LEMMA SameIfUnchanged ==
  ASSUME TypeInv, UNCHANGED <<objs, roomArr, met>> PROVE SameNumbers
  BY RoomTypes DEF SameNumbers

LEMMA TakeLeads ==
  ASSUME TypeInv, FoundInv, NEW t \in Thread, TakePackage(t) PROVE FoundInv'
<1>1. /\ UNCHANGED <<objs, roomArr, met, obj>> /\ OthersStay(t)
      /\ pc'[t] \in {"insert", "find"}
  BY DEF TakePackage, OthersStay, roomVars, TypeInv, TypeOK
<1>2. Leads(t)' /\ GaveFirst(t)'
  BY <1>1 DEF Leads, HasRoom, GaveFirst, End
<1> QED BY <1>1, <1>2, SameIfUnchanged, NumbersLead

LEMMA TryLeads ==
  ASSUME TypeInv, FoundInv, NEW t \in Thread,
         Try(t) \/ TrySecond(t) \/ FoundNotBoth(t) \/ StaleMatch(t)
  PROVE  FoundInv'
<1> USE DEF roomVars, threadVars, At
<1>1. CASE Crash
  BY <1>1, Unmoved DEF Crash
<1>2. CASE ~Crash
  <2>1. PICK l \in Match : Goto(t, l) /\ UNCHANGED <<objs, roomArr, met, pkg, obj>>
                           /\ pc[t] \in Match
    BY <1>2 DEF Try, TrySecond, FoundNotBoth, StaleMatch, Match
  <2> QED BY <2>1, GoesOnLeads, SameIfUnchanged DEF HasRoom, Match, End
<1> QED BY <1>1, <1>2

LEMMA BeginsLeads ==
  ASSUME TypeInv, FoundInv, NEW t \in Thread, FoundBoth(t) \/ Explode(t)
  PROVE  FoundInv'
<1>1. PICK e \in RoomObject : /\ objs' = [objs EXCEPT ![obj[t]] = e]
                              /\ e.given = objs[obj[t]].given
                              /\ SameIds(e, objs[obj[t]])
  BY Begins, Counts, Zenon
<1>2. Return(t) /\ UNCHANGED <<roomArr, met>> /\ pc[t] \in {"both", "explode"}
  BY DEF FoundBoth, Explode, At
<1>3. PICK o \in DOMAIN objs : o = obj[t]
  BY <1>2, HolderTypes DEF HasRoom
<1>4. SameNumbers
  <2>1. e.room = objs[o].room /\ e.given >= objs[o].given /\ objs' = [objs EXCEPT ![o] = e]
    BY <1>1, <1>3, RoomTypes DEF SameIds
  <2> QED BY <1>2, <2>1, ChangedNumbers
<1> QED BY <1>2, <1>4, ReturnLeads

LEMMA GivesLeads ==
  ASSUME TypeInv, FoundInv, NEW t \in Thread, GiveUp(t) \/ C_REQ_BOSS_EXPLOSION(t)
  PROVE  FoundInv'
<1>1. ASSUME NEW l \in {"erase", "tell"}, GivesBack(t, l) PROVE FoundInv'
  <2>1. PICK e \in RoomObject : /\ objs' = [objs EXCEPT ![obj[t]] = e]
                                /\ e.given = objs[obj[t]].given + 1
                                /\ SameIds(e, objs[obj[t]])
    BY <1>1 DEF GivesBack
  <2>2. HasRoom(t) /\ Goto(t, l) /\ UNCHANGED <<roomArr, met, pkg, obj>>
    BY <1>1 DEF GivesBack, HasRoom
  <2>3. PICK o \in DOMAIN objs : o = obj[t]
    BY <2>2, HolderTypes
  <2>4. /\ objs' = [objs EXCEPT ![o] = e] /\ e.room = objs[o].room
        /\ e.given = objs[o].given + 1 /\ objs[o].given \in Nat
    BY <2>1, <2>3, RoomTypes DEF SameIds
  <2>5. SameNumbers /\ objs'[o] = e
    <3>1. e.given >= objs[o].given
      BY <2>4
    <3> QED BY <2>2, <2>4, <3>1, ChangedNumbers
  <2>6. objs'[obj[t]].given > 0
    BY <2>3, <2>4, <2>5
  <2> QED BY <2>2, <2>5, <2>6, GoesOnLeads
<1>2. CASE Return(t) /\ UNCHANGED <<running, conn, roomVars, queue, toChat, outside, met>>
  BY <1>2, ReturnLeads, SameIfUnchanged DEF roomVars
<1> QED BY <1>1, <1>2, Gives

LEMMA AnswerLeads ==
  ASSUME TypeInv, FoundInv, NEW t \in Thread,
         StaleRoom(t) \/ Relay(t) \/ C_REQ_ENEMY_EXPLOSION(t)
  PROVE  FoundInv'
<1> USE DEF roomVars, threadVars, At
<1>1. CASE Crash
  BY <1>1, Unmoved DEF Crash
<1>2. CASE ~Crash
  <2>1. UNCHANGED <<objs, roomArr, met>>
    BY <1>2 DEF StaleRoom, Relay, C_REQ_ENEMY_EXPLOSION
  <2>2. SameNumbers
    BY <2>1, SameIfUnchanged
  <2>3. CASE Return(t)
    BY <2>2, <2>3, ReturnLeads
  <2>4. CASE ~Return(t)
    <3>1. pc[t] = "ENEMY_EXPLOSION" /\ Goto(t, "explode") /\ UNCHANGED <<pkg, obj>>
      BY <1>2, <2>4 DEF StaleRoom, Relay, C_REQ_ENEMY_EXPLOSION
    <3> QED BY <2>2, <3>1, GoesOnLeads DEF HasRoom, End
  <2> QED BY <2>3, <2>4
<1> QED BY <1>1, <1>2

LEMMA TellLeads ==
  ASSUME TypeInv, FoundInv, NEW t \in Thread, TellBoth(t) PROVE FoundInv'
<1> USE DEF roomVars, threadVars, At
<1>1. CASE Crash
  BY <1>1, Unmoved DEF Crash
<1>2. CASE ~Crash
  <2>1. /\ pc[t] = "tell" /\ Goto(t, "erase")
        /\ UNCHANGED <<objs, roomArr, met, pkg, obj>>
    BY <1>2 DEF TellBoth
  <2> QED BY <2>1, GoesOnLeads, SameIfUnchanged DEF HasRoom, End
<1> QED BY <1>1, <1>2

LEMMA DeleteLeads ==
  ASSUME TypeInv, FoundInv, NEW t \in Thread, DeleteRoom(t) PROVE FoundInv'
<1>1. CASE Crash
  BY <1>1, Unmoved DEF Crash, roomVars, threadVars
<1>2. CASE ~Crash
  <2>1. PICK e \in RoomObject : /\ objs' = [objs EXCEPT ![obj[t]] = e]
                                /\ e.given = objs[obj[t]].given
                                /\ e.room = objs[obj[t]].room
    BY <1>2, Deletes, Zenon
  <2>2. Return(t) /\ UNCHANGED <<roomArr, met>> /\ pc[t] = "delete"
    BY <1>2 DEF DeleteRoom, At
  <2>3. PICK o \in DOMAIN objs : o = obj[t]
    BY <2>2, HolderTypes DEF HasRoom
  <2>4. SameNumbers
    <3>1. e.room = objs[o].room /\ e.given >= objs[o].given /\ objs' = [objs EXCEPT ![o] = e]
      BY <2>1, <2>3, RoomTypes
    <3> QED BY <2>2, <3>1, ChangedNumbers
  <2> QED BY <2>2, <2>4, ReturnLeads
<1> QED BY <1>1, <1>2

LEMMA FindLeads ==
  ASSUME TypeInv, FoundInv, NEW t \in Thread, FindRoom(t) PROVE FoundInv'
<1> USE DEF roomVars, At
<1>1. UNCHANGED <<objs, roomArr, met>> /\ pc[t] = "find"
  BY DEF FindRoom
<1>2. SameNumbers
  BY <1>1, SameIfUnchanged
<1>3. CASE Return(t)
  BY <1>2, <1>3, ReturnLeads
<1>4. CASE ~Return(t)
  <2>1. PICK p \in Package : p = pkg[t]
    BY <1>1 DEF TypeInv, Shape
  <2>2. p.type \in Requests
    BY <1>1, <2>1 DEF TypeInv, Shape
  <2>3. obj' = [obj EXCEPT ![t] = roomArr[p.room]] /\ Goto(t, p.type) /\ pkg' = pkg
    BY <1>4, <2>1 DEF FindRoom
  <2>4. /\ OthersStay(t) /\ pc'[t] = p.type /\ obj'[t] = roomArr[p.room] /\ pkg'[t] = p
    BY <2>1, <2>3 DEF OthersStay, Goto, TypeInv, TypeOK
  <2>5. Leads(t)'
    BY <1>1, <2>4 DEF Leads
  <2>6. GaveFirst(t)'
    BY <2>2, <2>4 DEF GaveFirst, End, Requests, Relays
  <2> QED BY <1>2, <2>4, <2>5, <2>6, NumbersLead
<1> QED BY <1>3, <1>4

\* a match begun under a number nobody has is found there
LEMMA InsertLeads ==
  ASSUME TypeInv, FoundInv, NEW t \in Thread, InsertRoom(t) PROVE FoundInv'
<1>1. PICK p \in Package : p = pkg[t]
  BY DEF TypeInv, Shape, InsertRoom, At
<1>2. PICK r \in Room : r = p.room /\ pc[t] = "insert"
  BY <1>1, PackageTypes DEF InsertRoom, At
<1>3. PICK e : e = [u1 |-> p.id1, u2 |-> p.id2, total |-> 0, deleted |-> FALSE,
                    given |-> 0, on |-> FALSE, room |-> p.room]
  OBVIOUS
<1>4. e.given = 0 /\ e.room = r
  BY <1>2, <1>3
<1>5. PICK o \in Nat : o = Len(objs) + 1
  BY Indices
<1>6. /\ objs' = Append(objs, e)
      /\ roomArr' = IF roomArr[r] = 0 THEN [roomArr EXCEPT ![r] = o] ELSE roomArr
      /\ met' = IF Meets(t, r) THEN met \cup {r} ELSE met
      /\ obj' = [obj EXCEPT ![t] = o] /\ pc' = [pc EXCEPT ![t] = "try"] /\ pkg' = pkg
  BY <1>1, <1>2, <1>3, <1>5, Zenon DEF InsertRoom, Goto
<1>7. /\ DOMAIN objs' = DOMAIN objs \cup {o} /\ objs'[o] = e
      /\ \A k \in DOMAIN objs : objs'[k] = objs[k] /\ k # 0
  <2>1. objs \in Seq(RoomObject) /\ DOMAIN objs = 1..Len(objs) /\ Len(objs) \in Nat
    BY ObjectTypes DEF TypeInv
  <2> QED BY <1>5, <1>6, <2>1, LastOne
<1>8. /\ pc'[t] = "try" /\ obj'[t] = o /\ OthersStay(t)
  BY <1>6 DEF OthersStay, TypeInv, TypeOK
<1>9. \A q \in Room \ {r} : roomArr'[q] = roomArr[q] /\ (q \in met' <=> q \in met)
  BY <1>6 DEF TypeInv, TypeOK
<1>10. ASSUME r \notin met'
       PROVE  /\ roomArr[r] = 0 /\ roomArr'[r] = o /\ r \notin met
              /\ \A u \in Thread \ {t} : ~(HasRoom(u) /\ pkg[u].room = r)
  BY <1>6, <1>10 DEF Meets, TypeInv, TypeOK
<1>11. Found'
  <2> SUFFICES ASSUME NEW k \in DOMAIN objs', objs'[k].given = 0, objs'[k].room \notin met'
               PROVE  roomArr'[objs'[k].room] = k
    BY DEF Found
  <2>1. CASE k = o
    BY <1>4, <1>7, <1>10, <2>1
  <2>2. CASE k \in DOMAIN objs
    <3>1. objs'[k] = objs[k] /\ k # 0 /\ objs[k].room \in Room
      BY <1>7, <2>2, RoomTypes
    <3>2. objs[k].room \notin met
      BY <1>9, <1>10, <3>1
    <3>3. roomArr[objs[k].room] = k
      BY <2>2, <3>1, <3>2 DEF FoundInv, Found
    <3>4. objs[k].room # r
      BY <1>10, <3>1, <3>3
    <3> QED BY <1>9, <3>1, <3>3, <3>4
  <2> QED BY <1>7, <2>1, <2>2
<1>12. Leads(t)' /\ GaveFirst(t)'
  <2>1. pkg'[t].room = r
    BY <1>1, <1>2, <1>6
  <2> QED BY <1>8, <1>10, <2>1 DEF Leads, GaveFirst, End
<1>13. ASSUME NEW u \in Thread \ {t} PROVE Leads(u)' /\ GaveFirst(u)'
  <2>1. Leads(u) /\ GaveFirst(u) /\ pc'[u] = pc[u] /\ pkg'[u] = pkg[u] /\ obj'[u] = obj[u]
    BY <1>8 DEF FoundInv, OthersStay
  <2>2. HasRoom(u) => pkg[u].room \in Room /\ obj[u] \in DOMAIN objs
    BY HolderTypes
  <2>3. Leads(u)'
    BY <1>9, <1>10, <2>1, <2>2 DEF Leads, HasRoom
  <2>4. pc[u] \in End => obj[u] \in DOMAIN objs
    BY <2>2, EndsHave
  <2>5. GaveFirst(u)'
    BY <1>7, <2>1, <2>4 DEF GaveFirst
  <2> QED BY <2>3, <2>5
<1> QED BY <1>11, <1>12, <1>13 DEF FoundInv

\* what is erased has been given back
LEMMA EraseLeads ==
  ASSUME TypeInv, FoundInv, NEW t \in Thread, EraseRoom(t) PROVE FoundInv'
<1>1. /\ pc[t] = "erase" /\ pc' = [pc EXCEPT ![t] = "delete"]
      /\ roomArr' = [roomArr EXCEPT ![pkg[t].room] = 0]
      /\ UNCHANGED <<objs, met, pkg, obj>>
  BY DEF EraseRoom, At, Goto
<1>2. PICK r \in Room : r = pkg[t].room
  BY <1>1, HolderTypes DEF HasRoom
<1>3. /\ roomArr'[r] = 0 /\ \A q \in Room \ {r} : roomArr'[q] = roomArr[q]
      /\ pc'[t] = "delete" /\ \A u \in Thread \ {t} : pc'[u] = pc[u]
  BY <1>1, <1>2 DEF TypeInv, TypeOK
<1>4. /\ objs[obj[t]].given > 0
      /\ r \notin met => roomArr[r] \in {0, obj[t]}
  BY <1>1, <1>2 DEF FoundInv, GaveFirst, Leads, End, HasRoom
<1>5. Found'
  <2> SUFFICES ASSUME NEW k \in DOMAIN objs, objs[k].given = 0, objs[k].room \notin met
               PROVE  roomArr'[objs[k].room] = k
    BY <1>1 DEF Found
  <2>1. roomArr[objs[k].room] = k /\ objs[k].room \in Room
    BY RoomTypes DEF FoundInv, Found
  <2>2. k # 0
    BY Indices
  <2>3. objs[k].room # r
    BY <1>4, <2>1, <2>2
  <2> QED BY <1>3, <2>1, <2>3
<1>6. ASSUME NEW u \in Thread PROVE Leads(u)' /\ GaveFirst(u)'
  <2>1. Leads(u) /\ GaveFirst(u)
    BY DEF FoundInv
  <2>2. (HasRoom(u)' => HasRoom(u)) /\ (pc'[u] \in End => pc[u] \in End)
    BY <1>1, <1>3 DEF HasRoom, End
  <2>3. HasRoom(u) => pkg[u].room \in Room
    BY HolderTypes
  <2>4. Leads(u)'
    BY <1>1, <1>3, <2>1, <2>2, <2>3 DEF Leads
  <2>5. GaveFirst(u)'
    BY <1>1, <2>1, <2>2 DEF GaveFirst
  <2> QED BY <2>4, <2>5
<1> QED BY <1>5, <1>6 DEF FoundInv

LEMMA FoundStep == TypeInv /\ FoundInv /\ [Next]_vars => FoundInv'
<1> SUFFICES ASSUME TypeInv, FoundInv, [Next]_vars PROVE FoundInv'
  OBVIOUS
<1>1. CASE UNCHANGED vars
  BY <1>1, Unmoved DEF vars, gameVars, roomVars, threadVars
<1>2. CASE Outside
  <2>1. UNCHANGED <<objs, roomArr, met, pc, pkg, obj>>
    BY <1>2 DEF Outside, Connect, Close, Play, HandOver, GiveBack, roomVars, threadVars
  <2> QED BY <2>1, Unmoved
<1>3. ASSUME NEW t \in Thread, Work(t) PROVE FoundInv'
  <2>1. CASE I_USER_INFO(t)
    BY <2>1, InsertLeads, TryLeads, BeginsLeads, GivesLeads, Zenon DEF I_USER_INFO
  <2>2. CASE EndGame(t)
    BY <2>2, GivesLeads, TellLeads, EraseLeads, DeleteLeads, Zenon DEF EndGame
  <2>3. CASE FindRoom(t) \/ StaleRoom(t) \/ Relay(t) \/ C_REQ_ENEMY_EXPLOSION(t) \/ Explode(t)
    BY <2>3, FindLeads, AnswerLeads, BeginsLeads, Zenon
  <2> QED BY <1>3, <2>1, <2>2, <2>3, TakeLeads, Zenon DEF Work, Handler
<1> QED BY <1>1, <1>2, <1>3, Zenon DEF Next

LEMMA FoundStart == GameInit => FoundInv
  BY DEF GameInit, FoundInv, Found, Leads, HasRoom, GaveFirst, End

\* a single handler meets nobody
NeverMet == OneThread => met = {}

LEMMA NeverMetStep == TypeInv /\ AloneInv /\ NeverMet /\ [Next]_vars => NeverMet'
<1> SUFFICES ASSUME TypeInv, AloneInv, NeverMet, [Next]_vars, NEW t \in Thread, setup'.thread = {t}
             PROVE  met' = {}
  BY DEF NeverMet, OneThread
<1>1. setup' = setup
  BY DEF Next, vars
<1>2. Alone(t) /\ met = {}
  BY <1>1 DEF AloneInv, NeverMet, OneThread
<1>3. CASE met' = met
  BY <1>2, <1>3
<1>4. ASSUME NEW s \in Thread, InsertRoom(s) PROVE met' = {}
  <2>1. s = t
    BY <1>2, <1>4 DEF Alone, InsertRoom, At
  <2>2. roomArr[pkg[t].room] = 0
    BY <1>2, <1>4, <2>1, FreshNumber
  <2>3. ~Meets(t, pkg[t].room)
    BY <1>2, <2>2 DEF Meets, Alone, HasRoom
  <2> QED BY <1>2, <1>4, <2>1, <2>3 DEF InsertRoom
<1>5. CASE UNCHANGED vars
  BY <1>3, <1>5 DEF vars, gameVars
<1>6. CASE Outside
  BY <1>3, <1>6 DEF Outside, Connect, Close, Play, HandOver, GiveBack
<1>7. ASSUME NEW s \in Thread, Work(s), ~InsertRoom(s) PROVE met' = met
  <2>1. CASE TakePackage(s)
    BY <2>1 DEF TakePackage
  <2>2. CASE I_USER_INFO(s)
    BY <1>7, <2>2 DEF I_USER_INFO, Try, TrySecond, FoundBoth, FoundNotBoth, StaleMatch, GiveUp,
       Crash
  <2>3. CASE EndGame(s)
    BY <2>3 DEF EndGame, C_REQ_BOSS_EXPLOSION, TellBoth, EraseRoom, DeleteRoom, Crash
  <2>4. CASE FindRoom(s) \/ StaleRoom(s) \/ Relay(s) \/ C_REQ_ENEMY_EXPLOSION(s) \/ Explode(s)
    BY <2>4 DEF FindRoom, StaleRoom, Relay, C_REQ_ENEMY_EXPLOSION, Explode, Crash
  <2> QED BY <1>7, <2>1, <2>2, <2>3, <2>4, Zenon DEF Work, Handler
<1> QED BY <1>3, <1>4, <1>5, <1>6, <1>7, Zenon DEF Next

LEMMA FoundInvariant == Spec => [](TypeInv /\ FoundInv /\ NeverMet)
<1>1. GameInit => NeverMet
  BY DEF GameInit, NeverMet
<1>2. TypeInv /\ AloneInv /\ FoundInv /\ NeverMet /\ [Next]_vars => FoundInv' /\ NeverMet'
  BY FoundStep, NeverMetStep
<1> QED BY <1>1, <1>2, FoundStart, AloneInvariant, PTL DEF Spec

(***************************************************************************)
(* However many contents threads there are, a game that is on and has not  *)
(* been given back is found under its room number, until a match is begun  *)
(* under the number of one that is still mapped or still in a handler's    *)
(* hands: a handler erases a number after it has given its Room back.      *)
(* With one contents thread that is always soon enough.                    *)
(***************************************************************************)
THEOREM GameFoundUntilMet == Spec => []GameOnIsFound
<1>1. TypeInv /\ FoundInv /\ NeverMet => GameOnIsFound
  BY DEF FoundInv, Found, NeverMet, GameOnIsFound
<1> QED BY <1>1, FoundInvariant, PTL
=============================================================================
