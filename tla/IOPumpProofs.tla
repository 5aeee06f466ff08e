----------------------------- MODULE IOPumpProofs -----------------------------
(***************************************************************************)
(* For every number of sessions, IO workers, contents threads and packets: *)
(* a packet of an open session is in one place between the socket and the  *)
(* handlers; the packages are handed over in the order of sending until    *)
(* two workers hold packages of one session at once; and a client that     *)
(* hangs up has been heard, unless another worker is still at its session. *)
(*                                                                         *)
(* The packets of a session are numbered.  Those still in packageStorage,  *)
(* in the receive buffer and on the wire follow each other without a gap,  *)
(* up to the last one sent; the ones before have been popped, each of them *)
(* once, and are in a worker's hand or have been given to the contents     *)
(* queue.                                                                  *)
(*                                                                         *)
(* Then the bytes of the same sessions: what decode() makes of what        *)
(* encode() has written, what is cut out of a stream of packets, received  *)
(* in segments of any size, and the packets sent on a session.             *)
(*                                                                         *)
(* What Bytes, Encode, Decode and the framing of a sequence compute is     *)
(* shown by induction over the natural numbers, in the form the provers    *)
(* can use: a set that holds 0 and with every number the next holds all of *)
(* them.                                                                   *)
(***************************************************************************)
EXTENDS IOPump, SessionStream, SequenceTheorems, FiniteSetTheorems, WellFoundedInduction,
        TLAPS

\* seq holds the packets of s that follow number k
Follow(seq, s, k) == \A i \in DOMAIN seq : IsPacket(seq[i], s, k + i)

\* the numbers of the last packet received, cut out and popped
Received(s) == sent[s] - Len(wire[s])
Cut(s) == Received(s) - Len(buffer[s])
Popped(s) == Cut(s) - Len(packageStorage[s])

\* what is left of the packets of s, in line up to the last one sent
InLine(s) ==
  /\ Follow(wire[s], s, Received(s))
  /\ Follow(buffer[s], s, Cut(s)) /\ Cut(s) >= 0
  /\ s \in deleted => packageStorage[s] = <<>>
  /\ s \notin deleted => Follow(packageStorage[s], s, Popped(s)) /\ Popped(s) >= 0

Numbered == \A s \in Session : InLine(s)

Placed ==
  \A s \in Session \ deleted, n \in 1..MaxPackets :
    Given(s, n) \/ InHand(s, n) <=> n <= Popped(s)

\* what the workers and the receives are at
WorkersInv ==
  /\ \A w \in Worker : /\ whand[w] # Null <=> wpc[w] = "putPackage"
                       /\ wpc[w] # "wait" => wsession[w] \in Session
  /\ \A s \in Session : recv[s] = "posted" => buffer[s] = <<>>

PumpInv == TypeOK /\ WorkersInv /\ Numbered /\ NeverTwice /\ Placed

-----------------------------------------------------------------------------
(***************************************************************************)
(* Several workers at one session.                                         *)
(***************************************************************************)
\* at a new completion of s, or at the packages that one has brought
Serves(w, s) == wpc[w] \in {"onRecv", "close"} /\ wsession[w] = s
Drains(w, s) == wpc[w] \notin {"wait", "close"} /\ wsession[w] = s

Tended == \A s \in Session : packageStorage[s] # <<>> => \E w \in Worker : Drains(w, s)

OwnHand == \A w \in Worker : whand[w] # Null => whand[w].session = wsession[w]

Serving ==
  \A w \in Worker, s \in Session : Serves(w, s) =>
    recv[s] = "none" /\ \A v \in Worker : Serves(v, s) => v = w

\* nothing is left to receive on s
Heard(s) == s \in hungUp /\ buffer[s] = <<>> /\ wire[s] = <<>>

Closing ==
  /\ \A w \in Worker, s \in Session : wpc[w] = "close" /\ wsession[w] = s => Heard(s)
  /\ \A s \in Session : recv[s] = "done" /\ buffer[s] = <<>> => Heard(s)

LeftInv == \A s \in left : Heard(s) /\ s \in deleted /\ \A n \in 1..sent[s] : Given(s, n)

\* until a session is crossed one package of it at a time is in hand, the next to be given
OneInHand ==
  \A v, w \in Worker :
    whand[v] # Null /\ whand[w] # Null /\ whand[v].session = whand[w].session =>
      v = w \/ whand[v].session \in crossed

NextInLine ==
  \A w \in Worker : whand[w] # Null /\ whand[w].session \notin crossed =>
    \A n \in 1..MaxPackets : Given(whand[w].session, n) <=> n < whand[w].n

InOrder ==
  \A i \in DOMAIN given, n \in 1..MaxPackets : given[i].session \notin crossed =>
    (n < given[i].n <=> \E j \in 1..(i - 1) : IsPacket(given[j], given[i].session, n))

Alone ==
  /\ \A w \in Worker \ setup.worker : wpc[w] = "wait"
  /\ crossed # {} => \A w \in Worker : setup.worker # {w}

TurnsInv == /\ Tended /\ OwnHand /\ Serving /\ Closing /\ LeftInv
            /\ OneInHand /\ NextInLine /\ InOrder /\ Alone
-----------------------------------------------------------------------------
(***************************************************************************)
(* Lines of packets.                                                       *)
(***************************************************************************)
LEMMA NoneFollow == ASSUME NEW s, NEW k PROVE Follow(<<>>, s, k)
  BY DEF Follow

LEMMA FollowAppend ==
  ASSUME NEW seq \in Seq(Package), NEW p \in Package, NEW s, NEW k \in Int,
         Follow(seq, s, k), IsPacket(p, s, k + (Len(seq) + 1))
  PROVE  Follow(Append(seq, p), s, k)
<1>1. Len(seq) \in Nat /\ DOMAIN seq = 1..Len(seq)
  OBVIOUS
<1>2. Append(seq, p) \in Seq(Package) /\ Len(Append(seq, p)) = Len(seq) + 1
  OBVIOUS
<1>3. ASSUME NEW i \in DOMAIN Append(seq, p) PROVE IsPacket(Append(seq, p)[i], s, k + i)
  <2>1. i \in 1..(Len(seq) + 1)
    BY <1>2
  <2>2. CASE i = Len(seq) + 1
    <3>1. Append(seq, p)[i] = p
      BY <2>2
    <3> QED BY <3>1, <2>2
  <2>3. CASE i # Len(seq) + 1
    <3>1. i \in DOMAIN seq /\ Append(seq, p)[i] = seq[i]
      BY <1>1, <2>1, <2>3
    <3> QED BY <3>1 DEF Follow
  <2> QED BY <2>2, <2>3
<1> QED BY <1>3 DEF Follow

LEMMA FollowTail ==
  ASSUME NEW seq \in Seq(Package), NEW s, NEW k \in Int, Follow(seq, s, k), seq # <<>>
  PROVE  /\ Head(seq) \in Package /\ IsPacket(Head(seq), s, k + 1)
         /\ Tail(seq) \in Seq(Package) /\ Len(Tail(seq)) = Len(seq) - 1
         /\ Follow(Tail(seq), s, k + 1)
<1>1. Len(seq) \in Nat \ {0} /\ DOMAIN seq = 1..Len(seq) /\ 1 \in DOMAIN seq /\ Head(seq) = seq[1]
  OBVIOUS
<1>2. Tail(seq) \in Seq(Package) /\ Len(Tail(seq)) = Len(seq) - 1
  OBVIOUS
<1>3. ASSUME NEW i \in DOMAIN Tail(seq) PROVE IsPacket(Tail(seq)[i], s, k + 1 + i)
  <2>1. i \in 1..(Len(seq) - 1)
    BY <1>2
  <2>2. i + 1 \in DOMAIN seq /\ Tail(seq)[i] = seq[i + 1]
    BY <1>1, <2>1
  <2>3. k + (i + 1) = k + 1 + i
    BY <2>1
  <2> QED BY <2>2, <2>3 DEF Follow
<1>4. Head(seq) \in Package /\ IsPacket(Head(seq), s, k + 1)
  BY <1>1 DEF Follow
<1> QED BY <1>2, <1>3, <1>4 DEF Follow

LEMMA FollowCut ==
  ASSUME NEW seq \in Seq(Package), NEW s, NEW k \in Int, Follow(seq, s, k),
         NEW j \in 0..Len(seq)
  PROVE  /\ SubSeq(seq, 1, j) \in Seq(Package) /\ Len(SubSeq(seq, 1, j)) = j
         /\ Follow(SubSeq(seq, 1, j), s, k)
         /\ SubSeq(seq, j + 1, Len(seq)) \in Seq(Package)
         /\ Len(SubSeq(seq, j + 1, Len(seq))) = Len(seq) - j
         /\ Follow(SubSeq(seq, j + 1, Len(seq)), s, k + j)
<1>1. SubSeq(seq, 1, j) \in Seq(Package) /\ Len(SubSeq(seq, 1, j)) = j
  OBVIOUS
<1>2. SubSeq(seq, j + 1, Len(seq)) \in Seq(Package) /\ Len(SubSeq(seq, j + 1, Len(seq))) = Len(seq) - j
  OBVIOUS
<1>3. ASSUME NEW i \in DOMAIN SubSeq(seq, 1, j) PROVE IsPacket(SubSeq(seq, 1, j)[i], s, k + i)
  <2>1. i \in 1..j
    BY <1>1
  <2>2. i \in DOMAIN seq /\ SubSeq(seq, 1, j)[i] = seq[i]
    BY <2>1
  <2> QED BY <2>2 DEF Follow
<1>4. ASSUME NEW i \in DOMAIN SubSeq(seq, j + 1, Len(seq))
      PROVE  IsPacket(SubSeq(seq, j + 1, Len(seq))[i], s, k + j + i)
  <2>1. i \in 1..(Len(seq) - j)
    BY <1>2
  <2>2. i + j \in DOMAIN seq /\ SubSeq(seq, j + 1, Len(seq))[i] = seq[i + j]
    BY <2>1
  <2>3. k + (i + j) = k + j + i
    BY <2>1
  <2> QED BY <2>2, <2>3 DEF Follow
<1> QED BY <1>1, <1>2, <1>3, <1>4 DEF Follow

LEMMA FollowConcat ==
  ASSUME NEW a \in Seq(Package), NEW b \in Seq(Package), NEW s, NEW k \in Int,
         Follow(a, s, k), Follow(b, s, k + Len(a))
  PROVE  a \o b \in Seq(Package) /\ Len(a \o b) = Len(a) + Len(b) /\ Follow(a \o b, s, k)
<1>1. a \o b \in Seq(Package) /\ Len(a \o b) = Len(a) + Len(b)
  OBVIOUS
<1>2. ASSUME NEW i \in DOMAIN (a \o b) PROVE IsPacket((a \o b)[i], s, k + i)
  <2>1. i \in 1..(Len(a) + Len(b))
    BY <1>1
  <2>2. CASE i <= Len(a)
    <3>1. i \in DOMAIN a /\ (a \o b)[i] = a[i]
      BY <2>1, <2>2
    <3> QED BY <3>1 DEF Follow
  <2>3. CASE i > Len(a)
    <3>1. i - Len(a) \in DOMAIN b /\ (a \o b)[i] = b[i - Len(a)]
      BY <2>1, <2>3
    <3>2. k + Len(a) + (i - Len(a)) = k + i
      BY <2>1
    <3> QED BY <3>1, <3>2 DEF Follow
  <2> QED BY <2>1, <2>2, <2>3
<1> QED BY <1>1, <1>2 DEF Follow

\* one package handed on from the head of b to the end of a
LEMMA PassOn ==
  ASSUME NEW a \in Seq(Package), NEW b \in Seq(Package), b # <<>>
  PROVE  Append(a, Head(b)) \o Tail(b) = a \o b
<1>1. Head(b) \in Package /\ Tail(b) \in Seq(Package)
  OBVIOUS
<1>2. Append(a, Head(b)) = a \o <<Head(b)>>
  BY <1>1, AppendIsConcat
<1>3. <<Head(b)>> \in Seq(Package)
  BY <1>1
<1>4. (a \o <<Head(b)>>) \o Tail(b) = a \o (<<Head(b)>> \o Tail(b))
  BY <1>1, <1>3, ConcatAssociative
<1>5. <<Head(b)>> \o Tail(b) = b
  BY HeadTailProperties
<1> QED BY <1>2, <1>4, <1>5

LEMMA JoinAppend ==
  ASSUME NEW a \in Seq(Package), NEW b \in Seq(Package), NEW p \in Package
  PROVE  a \o Append(b, p) = Append(a \o b, p)
<1>1. a \o b \in Seq(Package) /\ <<p>> \in Seq(Package)
  OBVIOUS
<1>2. Append(b, p) = b \o <<p>> /\ Append(a \o b, p) = (a \o b) \o <<p>>
  BY <1>1, AppendIsConcat
<1> QED BY <1>1, <1>2, ConcatAssociative
-----------------------------------------------------------------------------
(***************************************************************************)
(* What a step leaves alone.                                               *)
(***************************************************************************)
LEMMA SetupTypes ==
  ASSUME TypeOK
  PROVE  /\ setup.session \subseteq Session /\ setup.worker \subseteq Worker
         /\ setup.thread \subseteq Thread /\ setup.kind \subseteq Kind
         /\ setup.packets \in 0..MaxPackets /\ MaxPackets \in Nat
  BY PumpConstants DEF TypeOK

LEMMA LineTypes ==
  ASSUME TypeOK, NEW s \in Session
  PROVE  /\ wire[s] \in Seq(Package) /\ buffer[s] \in Seq(Package)
         /\ packageStorage[s] \in Seq(Package) /\ sent[s] \in 0..MaxPackets
         /\ Len(wire[s]) \in Nat /\ Len(buffer[s]) \in Nat /\ Len(packageStorage[s]) \in Nat
         /\ sent[s] \in Nat /\ Received(s) \in Int /\ Cut(s) \in Int /\ Popped(s) \in Int
<1>1. /\ wire[s] \in Seq(Package) /\ buffer[s] \in Seq(Package)
      /\ packageStorage[s] \in Seq(Package) /\ sent[s] \in 0..MaxPackets
  BY DEF TypeOK
<1>2. Len(wire[s]) \in Nat /\ Len(buffer[s]) \in Nat /\ Len(packageStorage[s]) \in Nat
  BY <1>1
<1>3. sent[s] \in Nat
  BY <1>1, PumpConstants
<1>4. Received(s) \in Int
  BY <1>2, <1>3 DEF Received
<1>5. Cut(s) \in Int
  BY <1>2, <1>4 DEF Cut
<1>6. Popped(s) \in Int
  BY <1>2, <1>5 DEF Popped
<1> QED BY <1>1, <1>2, <1>3, <1>4, <1>5, <1>6

LEMMA LineKept ==
  ASSUME NEW s \in Session, sent'[s] = sent[s], wire'[s] = wire[s], buffer'[s] = buffer[s],
         packageStorage'[s] = packageStorage[s], s \in deleted' <=> s \in deleted
  PROVE  (InLine(s) => InLine(s)') /\ Popped(s)' = Popped(s)
  BY DEF InLine, Received, Cut, Popped

LEMMA PlacesKept ==
  ASSUME NeverTwice, Placed, given' = given, whand' = whand, deleted \subseteq deleted',
         \A s \in Session \ deleted' : Popped(s)' = Popped(s)
  PROVE  NeverTwice' /\ Placed'
<1>1. \A s, n : Given(s, n)' <=> Given(s, n)
  BY DEF Given
<1>2. \A w \in Worker : \A s, n : Holds(w, s, n)' <=> Holds(w, s, n)
  BY DEF Holds
<1>3. \A s, n : InHand(s, n)' <=> InHand(s, n)
  BY <1>2 DEF InHand
<1>4. NeverTwice'
  BY <1>1, <1>2, <1>3 DEF NeverTwice
<1>5. Placed'
  BY <1>1, <1>3 DEF Placed
<1> QED BY <1>4, <1>5

LEMMA GivenKept == ASSUME UNCHANGED <<taken, packageQueue_>> PROVE given' = given
  BY DEF given

-----------------------------------------------------------------------------
(***************************************************************************)
(* One lemma for each action: a packet keeps its place, or goes on to the  *)
(* next one.                                                               *)
(***************************************************************************)
LEMMA SendKeeps ==
  ASSUME PumpInv, UNCHANGED setup, NEW s \in setup.session, NEW kind \in setup.kind,
         ClientSends(s, kind)
  PROVE  PumpInv'
<1> USE DEF clientVars, workerVars, contentsVars, pastVars
<1>1. s \in Session /\ kind \in Kind /\ sent[s] + 1 \in 1..MaxPackets /\ sent[s] \in Nat
  <2>1. s \in Session /\ kind \in Kind /\ setup.packets \in 0..MaxPackets
    BY SetupTypes DEF PumpInv
  <2> QED BY <2>1, LineTypes, PumpConstants DEF PumpInv, ClientSends
<1>2. PICK p \in Package : p = [session |-> s, n |-> sent[s] + 1, kind |-> kind]
  BY <1>1 DEF Package
<1>3. /\ sent' = [sent EXCEPT ![s] = sent[s] + 1] /\ wire' = [wire EXCEPT ![s] = Append(wire[s], p)]
      /\ sent'[s] = sent[s] + 1
  BY <1>1, <1>2 DEF ClientSends, PumpInv, TypeOK
<1>4. wire[s] \in Seq(Package) /\ Received(s) \in Int
  BY <1>1, LineTypes DEF PumpInv
<1>5. Append(wire[s], p) \in Seq(Package) /\ Len(Append(wire[s], p)) = Len(wire[s]) + 1
      /\ Len(wire[s]) \in Nat
  BY <1>4
<1>6. TypeOK'
  BY <1>1, <1>3, <1>5 DEF PumpInv, TypeOK, ClientSends
<1>7. WorkersInv'
  BY DEF PumpInv, WorkersInv, ClientSends
<1>8. InLine(s)' /\ Popped(s)' = Popped(s)
  <2>1. wire'[s] = Append(wire[s], p) /\ buffer' = buffer /\ packageStorage' = packageStorage
        /\ deleted' = deleted
    BY <1>1, <1>3 DEF PumpInv, TypeOK, ClientSends
  <2>2. Received(s)' = Received(s)
    BY <2>1, <1>1, <1>3, <1>5 DEF Received
  <2>3. IsPacket(p, s, Received(s) + (Len(wire[s]) + 1))
    BY <1>1, <1>2, <1>5 DEF IsPacket, Received
  <2>4. Follow(wire[s], s, Received(s))
    BY <1>1 DEF PumpInv, Numbered, InLine
  <2>5. Follow(wire'[s], s, Received(s)')
    BY <2>1, <2>2, <2>3, <2>4, <1>4, FollowAppend
  <2>6. Cut(s)' = Cut(s) /\ Popped(s)' = Popped(s)
    BY <2>1, <2>2 DEF Cut, Popped
  <2> QED BY <2>1, <2>5, <2>6, <1>1 DEF PumpInv, Numbered, InLine
<1>9. \A r \in Session : InLine(r)' /\ Popped(r)' = Popped(r)
  <2> SUFFICES ASSUME NEW r \in Session, r # s PROVE InLine(r)' /\ Popped(r)' = Popped(r)
    BY <1>8
  <2>1. sent'[r] = sent[r] /\ wire'[r] = wire[r]
    BY <1>3 DEF PumpInv, TypeOK
  <2> QED BY <2>1, LineKept DEF PumpInv, Numbered, ClientSends
<1>10. NeverTwice' /\ Placed'
  BY <1>9, GivenKept, PlacesKept DEF PumpInv, ClientSends
<1> QED BY <1>6, <1>7, <1>9, <1>10 DEF PumpInv, Numbered

LEMMA HangUpKeeps ==
  ASSUME PumpInv, UNCHANGED setup, NEW s \in setup.session, ClientHangsUp(s)
  PROVE  PumpInv'
<1> USE DEF clientVars, workerVars, contentsVars, pastVars
<1>1. s \in Session
  BY SetupTypes DEF PumpInv
<1>2. TypeOK'
  BY <1>1 DEF PumpInv, TypeOK, ClientHangsUp
<1>3. WorkersInv'
  BY DEF PumpInv, WorkersInv, ClientHangsUp
<1>4. \A r \in Session : InLine(r)' /\ Popped(r)' = Popped(r)
  BY LineKept DEF PumpInv, Numbered, ClientHangsUp
<1>5. NeverTwice' /\ Placed'
  BY <1>4, GivenKept, PlacesKept DEF PumpInv, ClientHangsUp
<1> QED BY <1>2, <1>3, <1>4, <1>5 DEF PumpInv, Numbered

LEMMA RecvCompletesKeeps ==
  ASSUME PumpInv, UNCHANGED setup, NEW s \in setup.session, NEW k \in 0..MaxPackets,
         RecvCompletes(s, k)
  PROVE  PumpInv'
<1> USE DEF clientVars, workerVars, contentsVars, pastVars
<1>1. s \in Session /\ wire[s] \in Seq(Package) /\ Received(s) \in Int /\ sent[s] \in Nat
  BY SetupTypes, LineTypes DEF PumpInv
<1>2. k \in 0..Len(wire[s]) /\ Len(wire[s]) \in Nat
  BY <1>1 DEF RecvCompletes
<1>3. buffer[s] = <<>> /\ Len(buffer[s]) = 0
  <2>1. buffer[s] = <<>>
    BY <1>1 DEF PumpInv, WorkersInv, RecvCompletes
  <2> QED BY <2>1
<1>4. Follow(wire[s], s, Received(s)) /\ Received(s) = Cut(s)
  <2>1. Received(s) = Received(s) - 0
    BY <1>1
  <2> QED BY <1>1, <1>3, <2>1 DEF PumpInv, Numbered, InLine, Cut
<1>5. PICK seg, rest : /\ seg = SubSeq(wire[s], 1, k) /\ rest = SubSeq(wire[s], k + 1, Len(wire[s]))
  OBVIOUS
<1>6. /\ seg \in Seq(Package) /\ Len(seg) = k /\ Follow(seg, s, Received(s))
      /\ rest \in Seq(Package) /\ Len(rest) = Len(wire[s]) - k /\ Follow(rest, s, Received(s) + k)
  BY <1>1, <1>2, <1>4, <1>5, FollowCut
<1>7. /\ buffer' = [buffer EXCEPT ![s] = seg] /\ wire' = [wire EXCEPT ![s] = rest]
      /\ recv' = [recv EXCEPT ![s] = "done"]
  BY <1>5 DEF RecvCompletes
<1>8. buffer'[s] = seg /\ wire'[s] = rest /\ recv'[s] = "done"
  BY <1>1, <1>7 DEF PumpInv, TypeOK
<1>9. TypeOK'
  BY <1>1, <1>6, <1>7 DEF PumpInv, TypeOK, RecvCompletes
<1>10. WorkersInv'
  <2>1. \A r \in Session : recv'[r] = "posted" => buffer'[r] = <<>>
    BY <1>7, <1>8 DEF PumpInv, WorkersInv, TypeOK
  <2> QED BY <2>1 DEF PumpInv, WorkersInv, RecvCompletes
<1>11. InLine(s)' /\ Popped(s)' = Popped(s)
  <2>1. Received(s)' = Received(s) + k
    BY <1>1, <1>2, <1>6, <1>8 DEF Received, RecvCompletes
  <2>2. Cut(s)' = Cut(s)
    BY <2>1, <1>1, <1>2, <1>4, <1>6, <1>8 DEF Cut
  <2>3. Popped(s)' = Popped(s)
    BY <2>2 DEF Popped, RecvCompletes
  <2>4. Follow(wire'[s], s, Received(s)') /\ Follow(buffer'[s], s, Cut(s)')
    BY <2>1, <2>2, <1>4, <1>6, <1>8
  <2> QED BY <2>2, <2>3, <2>4, <1>1 DEF PumpInv, Numbered, InLine, RecvCompletes
<1>12. \A r \in Session : InLine(r)' /\ Popped(r)' = Popped(r)
  <2> SUFFICES ASSUME NEW r \in Session, r # s PROVE InLine(r)' /\ Popped(r)' = Popped(r)
    BY <1>11
  <2>1. buffer'[r] = buffer[r] /\ wire'[r] = wire[r]
    BY <1>7 DEF PumpInv, TypeOK
  <2> QED BY <2>1, LineKept DEF PumpInv, Numbered, RecvCompletes
<1>13. NeverTwice' /\ Placed'
  BY <1>12, GivenKept, PlacesKept DEF PumpInv, RecvCompletes
<1> QED BY <1>9, <1>10, <1>12, <1>13 DEF PumpInv, Numbered

LEMMA BreaksKeeps ==
  ASSUME PumpInv, UNCHANGED setup, NEW s \in setup.session, ConnectionBreaks(s)
  PROVE  PumpInv'
<1> USE DEF clientVars, workerVars, contentsVars, pastVars
<1>1. /\ s \in Session /\ sent[s] \in 0..MaxPackets /\ Len(wire[s]) \in Nat
      /\ Received(s) \in Int /\ Cut(s) \in Int /\ Len(buffer[s]) \in Nat
  BY SetupTypes, LineTypes DEF PumpInv
<1>2. Cut(s) >= 0
  BY <1>1 DEF PumpInv, Numbered, InLine
<1>3. Received(s) \in 0..MaxPackets
  BY <1>1, <1>2, PumpConstants DEF Cut, Received
<1>4. sent' = [sent EXCEPT ![s] = Received(s)] /\ wire' = [wire EXCEPT ![s] = <<>>]
  BY <1>1 DEF ConnectionBreaks, Received, PumpInv, TypeOK
<1>5. sent'[s] = Received(s) /\ wire'[s] = <<>>
  BY <1>1, <1>4 DEF PumpInv, TypeOK
<1>6. TypeOK'
  <2>1. /\ sent' \in [Session -> 0..MaxPackets] /\ wire' \in [Session -> Seq(Package)]
        /\ broken' \subseteq hungUp' /\ hungUp' \subseteq Session
        /\ recv' \in [Session -> {"posted", "done", "failed", "none"}]
    BY <1>1, <1>3, <1>4 DEF PumpInv, TypeOK, ConnectionBreaks
  <2> QED BY <2>1 DEF PumpInv, TypeOK, ConnectionBreaks
<1>7. WorkersInv'
  BY DEF PumpInv, WorkersInv, TypeOK, ConnectionBreaks
<1>8. InLine(s)' /\ Popped(s)' = Popped(s)
  <2>1. Len(wire'[s]) = 0
    BY <1>5
  <2>2. Received(s)' = Received(s)
    BY <2>1, <1>3, <1>5 DEF Received
  <2>3. Cut(s)' = Cut(s) /\ Popped(s)' = Popped(s)
    BY <2>2 DEF Cut, Popped, ConnectionBreaks
  <2>4. Follow(wire'[s], s, Received(s)')
    BY <1>5, NoneFollow
  <2> QED BY <2>3, <2>4, <1>1 DEF PumpInv, Numbered, InLine, ConnectionBreaks
<1>9. \A r \in Session : InLine(r)' /\ Popped(r)' = Popped(r)
  <2> SUFFICES ASSUME NEW r \in Session, r # s PROVE InLine(r)' /\ Popped(r)' = Popped(r)
    BY <1>8
  <2>1. sent'[r] = sent[r] /\ wire'[r] = wire[r]
    BY <1>4 DEF PumpInv, TypeOK
  <2> QED BY <2>1, LineKept DEF PumpInv, Numbered, ConnectionBreaks
<1>10. NeverTwice' /\ Placed'
  BY <1>9, GivenKept, PlacesKept DEF PumpInv, ConnectionBreaks
<1> QED BY <1>6, <1>7, <1>9, <1>10 DEF PumpInv, Numbered

\* a step that moves no packet and deletes no session
LEMMA StandKeeps ==
  ASSUME PumpInv, TypeOK', WorkersInv',
         UNCHANGED <<clientVars, deleted, buffer, packageStorage, whand, contentsVars>>
  PROVE  PumpInv'
<1> USE DEF clientVars, workerVars, contentsVars, pastVars
<1>1. \A r \in Session : InLine(r)' /\ Popped(r)' = Popped(r)
  BY LineKept DEF PumpInv, Numbered
<1>2. NeverTwice' /\ Placed'
  BY <1>1, GivenKept, PlacesKept DEF PumpInv
<1> QED BY <1>1, <1>2 DEF PumpInv, Numbered

LEMMA CrashKeeps == ASSUME PumpInv, UNCHANGED setup, Crash PROVE PumpInv'
<1> USE DEF clientVars, workerVars, contentsVars, pastVars
<1>1. TypeOK'
  BY DEF PumpInv, TypeOK, Crash
<1>2. WorkersInv'
  BY DEF PumpInv, WorkersInv, Crash
<1> QED BY <1>1, <1>2, StandKeeps DEF Crash

LEMMA UsingType == ASSUME NEW s, Using(s) PROVE running' \in BOOLEAN
  BY DEF Using

LEMMA TakesKeeps ==
  ASSUME PumpInv, UNCHANGED setup, NEW w \in setup.worker, NEW s \in Session,
         GetQueuedCompletionStatus(w, s) \/ IgnoresFailed(w, s)
  PROVE  PumpInv'
<1> USE DEF clientVars, workerVars, contentsVars, pastVars, At, Goto
<1>1. w \in Worker
  BY SetupTypes DEF PumpInv
<1>2. CASE GetQueuedCompletionStatus(w, s)
  <2>1. TypeOK'
    BY <1>1, <1>2 DEF PumpInv, TypeOK, GetQueuedCompletionStatus
  <2>2. WorkersInv'
    BY <1>1, <1>2 DEF PumpInv, WorkersInv, TypeOK, GetQueuedCompletionStatus
  <2> QED BY <1>2, <2>1, <2>2, StandKeeps DEF GetQueuedCompletionStatus
<1>3. CASE IgnoresFailed(w, s)
  <2>1. TypeOK'
    BY <1>3 DEF PumpInv, TypeOK, IgnoresFailed
  <2>2. WorkersInv'
    BY <1>3 DEF PumpInv, WorkersInv, TypeOK, IgnoresFailed
  <2> QED BY <1>3, <2>1, <2>2, StandKeeps DEF IgnoresFailed
<1> QED BY <1>2, <1>3

\* a step that may delete a session, and moves no packet
LEMMA DeleteKeeps ==
  ASSUME PumpInv, TypeOK', WorkersInv', NEW s \in Session, Delete(s),
         UNCHANGED <<clientVars, buffer, whand>>, given' = given
  PROVE  PumpInv'
<1> USE DEF clientVars
<1>1. /\ deleted' = deleted \cup {s}
      /\ packageStorage' = [packageStorage EXCEPT ![s] = <<>>] /\ packageStorage'[s] = <<>>
  BY DEF Delete, PumpInv, TypeOK
<1>2. \A r \in Session : InLine(r)'
  <2> TAKE r \in Session
  <2>1. CASE r = s
    <3>1. Received(s)' = Received(s) /\ Cut(s)' = Cut(s)
      BY DEF Received, Cut
    <3> QED BY <1>1, <2>1, <3>1 DEF PumpInv, Numbered, InLine
  <2>2. CASE r # s
    <3>1. packageStorage'[r] = packageStorage[r] /\ (r \in deleted' <=> r \in deleted)
      BY <1>1, <2>2 DEF PumpInv, TypeOK
    <3> QED BY <3>1, LineKept DEF PumpInv, Numbered
  <2> QED BY <2>1, <2>2
<1>3. \A r \in Session \ deleted' : Popped(r)' = Popped(r)
  <2> TAKE r \in Session \ deleted'
  <2>1. packageStorage'[r] = packageStorage[r] /\ (r \in deleted' <=> r \in deleted)
    BY <1>1 DEF PumpInv, TypeOK
  <2> QED BY <2>1, LineKept DEF PumpInv
<1>4. NeverTwice' /\ Placed'
  BY <1>1, <1>3, PlacesKept DEF PumpInv
<1> QED BY <1>2, <1>4 DEF PumpInv, Numbered

LEMMA CloseKeeps ==
  ASSUME PumpInv, UNCHANGED setup, NEW w \in setup.worker, CloseByClient(w)
  PROVE  PumpInv'
<1> USE DEF clientVars, workerVars, contentsVars, pastVars, At, Goto
<1>1. w \in Worker
  BY SetupTypes DEF PumpInv
<1>2. PICK s : s = wsession[w]
  OBVIOUS
<1>3. s \in Session
  BY <1>1, <1>2 DEF CloseByClient, PumpInv, WorkersInv
<1>4. Delete(s) /\ running' \in BOOLEAN
  BY <1>2, UsingType DEF CloseByClient
<1>5. left' \subseteq Session
  BY <1>2, <1>3 DEF CloseByClient, PumpInv, TypeOK
<1>6. TypeOK'
  <2>1. /\ deleted' \subseteq Session
        /\ recv' \in [Session -> {"posted", "done", "failed", "none"}]
        /\ packageStorage' \in [Session -> Seq(Package)]
    BY <1>3, <1>4 DEF Delete, PumpInv, TypeOK
  <2> QED BY <1>1, <1>4, <1>5, <2>1 DEF PumpInv, TypeOK, CloseByClient
<1>7. WorkersInv'
  <2>1. \A r \in Session : recv'[r] = "posted" => buffer'[r] = <<>>
    BY <1>3, <1>4 DEF PumpInv, WorkersInv, TypeOK, CloseByClient, Delete
  <2> QED BY <1>1, <2>1 DEF PumpInv, WorkersInv, TypeOK, CloseByClient
<1> QED BY <1>3, <1>4, <1>6, <1>7, GivenKept, DeleteKeeps DEF CloseByClient

LEMMA OnRecvKeeps ==
  ASSUME PumpInv, UNCHANGED setup, NEW w \in setup.worker, onRecv(w)
  PROVE  PumpInv'
<1> USE DEF clientVars, workerVars, contentsVars, pastVars, At, Goto
<1>1. w \in Worker
  BY SetupTypes DEF PumpInv
<1>2. PICK s : s = wsession[w]
  OBVIOUS
<1>3. s \in Session /\ buffer[s] # <<>>
  BY <1>1, <1>2 DEF onRecv, PumpInv, WorkersInv
<1>4. CASE Head(buffer[s]).kind = "invalid"
  BY <1>2, <1>4, CrashKeeps DEF onRecv
<1>5. CASE Head(buffer[s]).kind # "invalid"
  <2>1. PICK p, b : p = Head(buffer[s]) /\ b = Tail(buffer[s])
    OBVIOUS
  <2>2. PICK q : q = IF s \in deleted THEN packageStorage[s] ELSE Append(packageStorage[s], p)
    OBVIOUS
  <2>3. /\ running' \in BOOLEAN
        /\ packageStorage' = [packageStorage EXCEPT ![s] = q] /\ buffer' = [buffer EXCEPT ![s] = b]
        /\ UNCHANGED <<clientVars, deleted, recv, workerVars, contentsVars, pastVars>>
    BY <1>2, <1>5, <2>1, <2>2, UsingType DEF onRecv
  <2>4. packageStorage'[s] = q /\ buffer'[s] = b
    BY <1>3, <2>3 DEF PumpInv, TypeOK
  <2>5. /\ buffer[s] \in Seq(Package) /\ packageStorage[s] \in Seq(Package)
        /\ Cut(s) \in Int /\ Popped(s) \in Int /\ Received(s) \in Int
        /\ Len(packageStorage[s]) \in Nat /\ Len(buffer[s]) \in Nat
    BY <1>3, LineTypes DEF PumpInv
  <2>6. Follow(buffer[s], s, Cut(s)) /\ Cut(s) >= 0
    BY <1>3 DEF PumpInv, Numbered, InLine
  <2>7. /\ p \in Package /\ IsPacket(p, s, Cut(s) + 1)
        /\ b \in Seq(Package) /\ Len(b) = Len(buffer[s]) - 1 /\ Follow(b, s, Cut(s) + 1)
    BY <1>3, <2>1, <2>5, <2>6, FollowTail
  <2>8. q \in Seq(Package)
    BY <2>2, <2>5, <2>7
  <2>9. TypeOK'
    BY <1>3, <2>3, <2>7, <2>8 DEF PumpInv, TypeOK
  <2>10. WorkersInv'
    <3>1. recv[s] # "posted"
      BY <1>3 DEF PumpInv, WorkersInv
    <3> QED BY <2>3, <3>1 DEF PumpInv, WorkersInv, TypeOK
  <2>11. Cut(s)' = Cut(s) + 1
    BY <2>3, <2>4, <2>5, <2>7 DEF Cut, Received
  <2>12. s \notin deleted => Popped(s)' = Popped(s) /\ Follow(q, s, Popped(s))
    <3> SUFFICES ASSUME s \notin deleted PROVE Popped(s)' = Popped(s) /\ Follow(q, s, Popped(s))
      OBVIOUS
    <3>1. q = Append(packageStorage[s], p) /\ Len(q) = Len(packageStorage[s]) + 1
      BY <2>2, <2>5, <2>7
    <3>2. Popped(s)' = Popped(s)
      BY <2>3, <2>4, <2>5, <2>11, <3>1 DEF Popped
    <3>3. IsPacket(p, s, Popped(s) + (Len(packageStorage[s]) + 1))
      <4>1. Popped(s) + (Len(packageStorage[s]) + 1) = Cut(s) + 1
        BY <2>5 DEF Popped
      <4> QED BY <2>7, <4>1
    <3>4. Follow(packageStorage[s], s, Popped(s))
      BY <1>3 DEF PumpInv, Numbered, InLine
    <3>5. Follow(q, s, Popped(s))
      BY <2>5, <2>7, <3>1, <3>3, <3>4, FollowAppend
    <3> QED BY <3>2, <3>5
  <2>13. InLine(s)'
    <3>1. Received(s)' = Received(s)
      BY <2>3 DEF Received
    <3>2. Follow(buffer'[s], s, Cut(s)') /\ Cut(s)' >= 0
      BY <2>4, <2>6, <2>7, <2>11, <2>5
    <3>3. s \in deleted => q = <<>>
      BY <1>3, <2>2 DEF PumpInv, Numbered, InLine
    <3> QED BY <1>3, <2>3, <2>4, <2>12, <3>1, <3>2, <3>3 DEF PumpInv, Numbered, InLine
  <2>14. \A r \in Session : InLine(r)' /\ (r \notin deleted => Popped(r)' = Popped(r))
    <3> SUFFICES ASSUME NEW r \in Session, r # s PROVE InLine(r)' /\ Popped(r)' = Popped(r)
      BY <2>12, <2>13
    <3>1. packageStorage'[r] = packageStorage[r] /\ buffer'[r] = buffer[r]
      BY <2>3 DEF PumpInv, TypeOK
    <3> QED BY <2>3, <3>1, LineKept DEF PumpInv, Numbered
  <2>15. NeverTwice' /\ Placed'
    BY <2>3, <2>14, GivenKept, PlacesKept DEF PumpInv
  <2> QED BY <2>9, <2>10, <2>14, <2>15 DEF PumpInv, Numbered
<1> QED BY <1>4, <1>5

LEMMA StandByKeeps ==
  ASSUME PumpInv, UNCHANGED setup, NEW w \in setup.worker, recvStandBy(w) \/ IsEmpty(w)
  PROVE  PumpInv'
<1> USE DEF clientVars, workerVars, contentsVars, pastVars, At, Goto
<1>1. w \in Worker
  BY SetupTypes DEF PumpInv
<1>2. PICK s : s = wsession[w]
  OBVIOUS
<1>3. s \in Session
  BY <1>1, <1>2 DEF recvStandBy, IsEmpty, PumpInv, WorkersInv
<1>4. CASE recvStandBy(w)
  <2>1. running' \in BOOLEAN /\ recv' = [recv EXCEPT ![s] = recv'[s]] /\ buffer[s] = <<>>
        /\ recv'[s] \in {"none", "posted"}
    BY <1>2, <1>3, <1>4, UsingType DEF recvStandBy, PumpInv, TypeOK
  <2>2. TypeOK'
    BY <1>1, <1>3, <1>4, <2>1 DEF PumpInv, TypeOK, recvStandBy
  <2>3. WorkersInv'
    BY <1>1, <1>4, <2>1 DEF PumpInv, WorkersInv, TypeOK, recvStandBy
  <2> QED BY <1>4, <2>2, <2>3, StandKeeps DEF recvStandBy
<1>5. CASE IsEmpty(w)
  <2>1. running' \in BOOLEAN
    BY <1>5, UsingType DEF IsEmpty
  <2>2. TypeOK'
    BY <1>1, <1>5, <2>1 DEF PumpInv, TypeOK, IsEmpty
  <2>3. WorkersInv'
    BY <1>1, <1>5 DEF PumpInv, WorkersInv, TypeOK, IsEmpty
  <2> QED BY <1>5, <2>2, <2>3, StandKeeps DEF IsEmpty
<1> QED BY <1>4, <1>5

LEMMA PopPackageKeeps ==
  ASSUME PumpInv, UNCHANGED setup, NEW w \in setup.worker, PopPackage(w)
  PROVE  PumpInv'
<1> USE DEF clientVars, workerVars, contentsVars, pastVars, At, Goto
<1>1. w \in Worker
  BY SetupTypes DEF PumpInv
<1>2. PICK s : s = wsession[w]
  OBVIOUS
<1>3. s \in Session
  BY <1>1, <1>2 DEF PopPackage, PumpInv, WorkersInv
<1>4. CASE packageStorage[s] = <<>>
  BY <1>2, <1>4, CrashKeeps DEF PopPackage
<1>5. CASE packageStorage[s] # <<>>
  <2>1. PICK p, q : p = Head(packageStorage[s]) /\ q = Tail(packageStorage[s])
    OBVIOUS
  <2>2. /\ whand' = [whand EXCEPT ![w] = p] /\ packageStorage' = [packageStorage EXCEPT ![s] = q]
        /\ wpc' = [wpc EXCEPT ![w] = "putPackage"]
        /\ UNCHANGED <<running, clientVars, deleted, recv, buffer, wsession, contentsVars, left>>
        /\ crossed' \in {crossed, crossed \cup {s}}
    BY <1>2, <1>5, <2>1 DEF PopPackage
  <2>3. packageStorage'[s] = q /\ whand'[w] = p /\ \A v \in Worker \ {w} : whand'[v] = whand[v]
    BY <1>1, <1>3, <2>2 DEF PumpInv, TypeOK
  <2>4. packageStorage[s] \in Seq(Package) /\ Popped(s) \in Int /\ Cut(s) \in Int
        /\ Len(packageStorage[s]) \in Nat
    BY <1>3, LineTypes DEF PumpInv
  <2>5. s \notin deleted /\ Follow(packageStorage[s], s, Popped(s)) /\ Popped(s) >= 0
    BY <1>3, <1>5 DEF PumpInv, Numbered, InLine
  <2>6. /\ p \in Package /\ IsPacket(p, s, Popped(s) + 1)
        /\ q \in Seq(Package) /\ Len(q) = Len(packageStorage[s]) - 1 /\ Follow(q, s, Popped(s) + 1)
    BY <1>5, <2>1, <2>4, <2>5, FollowTail
  <2>7. p # Null /\ Popped(s) + 1 \in 1..MaxPackets
    BY <2>6, PumpConstants DEF Package, IsPacket
  <2>8. TypeOK'
    <3>1. crossed' \subseteq Session
      BY <1>3, <2>2 DEF PumpInv, TypeOK
    <3> QED BY <1>1, <1>3, <2>2, <2>6, <3>1 DEF PumpInv, TypeOK
  <2>9. WorkersInv'
    <3>1. wsession[w] \in Session
      BY <1>2, <1>3
    <3> QED BY <1>1, <2>2, <2>7, <3>1 DEF PumpInv, WorkersInv, TypeOK
  <2>10. Popped(s)' = Popped(s) + 1
    BY <2>2, <2>3, <2>4, <2>6 DEF Popped, Cut, Received
  <2>11. InLine(s)'
    <3>1. Received(s)' = Received(s) /\ Cut(s)' = Cut(s)
      BY <2>2 DEF Cut, Received
    <3>2. Follow(packageStorage'[s], s, Popped(s)') /\ Popped(s)' >= 0
      BY <2>3, <2>4, <2>5, <2>6, <2>10
    <3> QED BY <1>3, <2>2, <2>5, <3>1, <3>2 DEF PumpInv, Numbered, InLine
  <2>12. \A r \in Session \ {s} : InLine(r)' /\ Popped(r)' = Popped(r)
    <3> TAKE r \in Session \ {s}
    <3>1. packageStorage'[r] = packageStorage[r]
      BY <2>2 DEF PumpInv, TypeOK
    <3> QED BY <2>2, <3>1, LineKept DEF PumpInv, Numbered
  <2>13. given' = given /\ \A r, n : Given(r, n)' <=> Given(r, n)
    BY <2>2, GivenKept DEF Given
  <2>14. \A r, n : IsPacket(p, r, n) <=> r = s /\ n = Popped(s) + 1
    BY <2>6 DEF IsPacket
  <2>15. whand[w] = Null
    BY <1>1 DEF PopPackage, PumpInv, WorkersInv
  <2>16. \A r, n : /\ \A v \in Worker \ {w} : Holds(v, r, n)' <=> Holds(v, r, n)
                   /\ Holds(w, r, n)' <=> r = s /\ n = Popped(s) + 1
                   /\ ~Holds(w, r, n)
    BY <2>3, <2>7, <2>14, <2>15 DEF Holds
  <2>17. \A r, n : InHand(r, n)' <=> InHand(r, n) \/ (r = s /\ n = Popped(s) + 1)
    BY <1>1, <2>16 DEF InHand
  <2>18. ~Given(s, Popped(s) + 1) /\ ~InHand(s, Popped(s) + 1)
    <3>1. ~(Popped(s) + 1 <= Popped(s))
      BY <2>4
    <3> QED BY <1>3, <2>5, <2>7, <3>1 DEF PumpInv, Placed
  <2>19. NeverTwice'
    <3>1. ASSUME NEW r \in Session, NEW n \in 1..MaxPackets, Given(r, n)' PROVE ~InHand(r, n)'
      BY <2>13, <2>17, <2>18, <3>1 DEF PumpInv, NeverTwice
    <3>2. ASSUME NEW r \in Session, NEW n \in 1..MaxPackets, NEW u \in Worker, NEW v \in Worker,
                 Holds(u, r, n)', Holds(v, r, n)'
          PROVE  u = v
      <4>1. CASE u = w \/ v = w
        BY <2>16, <2>18, <3>2, <4>1 DEF InHand
      <4>2. CASE u # w /\ v # w
        <5>1. Holds(u, r, n) /\ Holds(v, r, n)
          BY <2>16, <3>2, <4>2
        <5> QED BY <5>1 DEF PumpInv, NeverTwice
      <4> QED BY <4>1, <4>2
    <3> QED BY <2>13, <3>1, <3>2 DEF PumpInv, NeverTwice
  <2>20. Placed'
    <3> SUFFICES ASSUME NEW r \in Session \ deleted, NEW n \in 1..MaxPackets
                 PROVE  Given(r, n)' \/ InHand(r, n)' <=> n <= Popped(r)'
      BY <2>2 DEF Placed
    <3>1. Given(r, n) \/ InHand(r, n) <=> n <= Popped(r)
      BY DEF PumpInv, Placed
    <3>2. CASE r # s
      BY <2>12, <2>13, <2>17, <3>1, <3>2
    <3>3. CASE r = s
      <4>1. n <= Popped(s) \/ n = Popped(s) + 1 <=> n <= Popped(s) + 1
        BY <2>4
      <4> QED BY <2>10, <2>13, <2>17, <3>1, <3>3, <4>1
    <3> QED BY <3>2, <3>3
  <2> QED BY <2>8, <2>9, <2>11, <2>12, <2>19, <2>20 DEF PumpInv, Numbered
<1> QED BY <1>4, <1>5

LEMMA GivenTypes ==
  ASSUME TypeOK
  PROVE  given \in Seq(Package) /\ Len(given) \in Nat /\ DOMAIN given = 1..Len(given)
<1>1. given \in Seq(Package)
  BY DEF TypeOK, given
<1> QED BY <1>1

LEMMA GivenMore ==
  ASSUME TypeOK, NEW p \in Package, packageQueue_' = Append(packageQueue_, p), taken' = taken
  PROVE  /\ given' = Append(given, p) /\ DOMAIN given' = 1..(Len(given) + 1)
         /\ given'[Len(given) + 1] = p
         /\ \A i \in 1..Len(given) : given'[i] = given[i]
         /\ \A s, n : Given(s, n)' <=> Given(s, n) \/ IsPacket(p, s, n)
<1>1. given' = Append(given, p)
  BY JoinAppend DEF given, TypeOK
<1>2. given \in Seq(Package) /\ Len(given) \in Nat /\ DOMAIN given = 1..Len(given)
  BY GivenTypes
<1>3. PICK g \in Seq(Package) : g = given
  BY <1>2
<1>4. /\ DOMAIN Append(g, p) = 1..(Len(g) + 1) /\ Append(g, p)[Len(g) + 1] = p
      /\ \A i \in 1..Len(g) : Append(g, p)[i] = g[i]
  BY <1>3
<1>5. /\ DOMAIN given' = 1..(Len(given) + 1) /\ given'[Len(given) + 1] = p
      /\ \A i \in 1..Len(given) : given'[i] = given[i]
  BY <1>1, <1>3, <1>4
<1>6. ASSUME NEW s, NEW n PROVE Given(s, n)' <=> Given(s, n) \/ IsPacket(p, s, n)
  <2>1. Given(s, n)' <=> \E i \in 1..(Len(given) + 1) : IsPacket(given'[i], s, n)
    BY <1>5 DEF Given
  <2>2. Given(s, n) <=> \E i \in 1..Len(given) : IsPacket(given[i], s, n)
    BY <1>2 DEF Given
  <2>3. 1..(Len(given) + 1) = 1..Len(given) \cup {Len(given) + 1}
    BY <1>2
  <2>4. Given(s, n)' <=> \/ \E i \in 1..Len(given) : IsPacket(given'[i], s, n)
                        \/ IsPacket(given'[Len(given) + 1], s, n)
    BY <2>1, <2>3, Zenon
  <2>5. \A i \in 1..Len(given) : IsPacket(given'[i], s, n) <=> IsPacket(given[i], s, n)
    BY <1>5
  <2> QED BY <1>5, <2>2, <2>4, <2>5
<1> QED BY <1>1, <1>5, <1>6

LEMMA PutPackageKeeps ==
  ASSUME PumpInv, UNCHANGED setup, NEW w \in setup.worker, putPackage(w)
  PROVE  PumpInv'
<1> USE DEF clientVars, workerVars, contentsVars, pastVars, At, Goto
<1>1. w \in Worker
  BY SetupTypes DEF PumpInv
<1>2. PICK p : p = whand[w]
  OBVIOUS
<1>3. p \in Package /\ p # Null
  BY <1>1, <1>2 DEF putPackage, PumpInv, WorkersInv, TypeOK
<1>4. packageQueue_' = Append(packageQueue_, p) /\ whand' = [whand EXCEPT ![w] = Null]
  BY <1>2 DEF putPackage
<1>5. whand'[w] = Null /\ \A v \in Worker \ {w} : whand'[v] = whand[v]
  BY <1>1, <1>4 DEF PumpInv, TypeOK
<1>6. TypeOK'
  <2>1. packageQueue_' \in Seq(Package)
    BY <1>3, <1>4 DEF PumpInv, TypeOK
  <2> QED BY <1>1, <1>4, <2>1 DEF PumpInv, TypeOK, putPackage
<1>7. WorkersInv'
  BY <1>1, <1>4 DEF PumpInv, WorkersInv, TypeOK, putPackage
<1>8. \A r \in Session : InLine(r)' /\ Popped(r)' = Popped(r)
  BY LineKept DEF PumpInv, Numbered, putPackage
<1>9. /\ DOMAIN given' = 1..(Len(given) + 1) /\ given'[Len(given) + 1] = p
      /\ \A i \in 1..Len(given) : given'[i] = given[i]
      /\ \A s, n : Given(s, n)' <=> Given(s, n) \/ IsPacket(p, s, n)
  BY <1>3, <1>4, GivenMore DEF PumpInv, putPackage
<1>10. Len(given) \in Nat /\ DOMAIN given = 1..Len(given)
  BY GivenTypes DEF PumpInv
<1>11. p.session \in Session /\ p.n \in 1..MaxPackets
  BY <1>3 DEF Package
<1>12. \A r, n : /\ Holds(w, r, n) <=> IsPacket(p, r, n)
                 /\ ~Holds(w, r, n)'
                 /\ \A v \in Worker \ {w} : Holds(v, r, n)' <=> Holds(v, r, n)
  BY <1>2, <1>3, <1>5 DEF Holds
<1>13. \A r, n : InHand(r, n) <=> InHand(r, n)' \/ IsPacket(p, r, n)
  BY <1>1, <1>12 DEF InHand
<1>14. \A r, n : IsPacket(p, r, n) => r \in Session /\ n \in 1..MaxPackets
  BY <1>11 DEF IsPacket
<1>15. \A r, n : IsPacket(p, r, n) => ~Given(r, n) /\ ~InHand(r, n)'
  <2> TAKE r, n
  <2> HAVE IsPacket(p, r, n)
  <2>1. ~Given(r, n)
    BY <1>13, <1>14 DEF PumpInv, NeverTwice
  <2>2. \A v \in Worker : Holds(v, r, n) => v = w
    BY <1>1, <1>12, <1>14 DEF PumpInv, NeverTwice
  <2> QED BY <2>1, <2>2, <1>12 DEF InHand
<1>16. NeverTwice'
  <2>1. ASSUME NEW i \in DOMAIN given', NEW j \in DOMAIN given',
               IsPacket(given'[i], given'[j].session, given'[j].n)
        PROVE  i = j
    <3>1. CASE i \in 1..Len(given) /\ j \in 1..Len(given)
      BY <1>9, <1>10, <2>1, <3>1 DEF PumpInv, NeverTwice
    <3>2. CASE i \in 1..Len(given) /\ j = Len(given) + 1
      <4>1. IsPacket(given[i], p.session, p.n)
        BY <1>9, <2>1, <3>2
      <4>2. Given(p.session, p.n)
        BY <1>10, <3>2, <4>1 DEF Given
      <4> QED BY <4>2, <1>15 DEF IsPacket
    <3>3. CASE i = Len(given) + 1 /\ j \in 1..Len(given)
      <4>1. IsPacket(p, given[j].session, given[j].n)
        BY <1>9, <2>1, <3>3
      <4>2. Given(given[j].session, given[j].n)
        BY <1>10, <3>3 DEF Given, IsPacket
      <4> QED BY <4>1, <4>2, <1>15
    <3>4. i \in 1..(Len(given) + 1) /\ j \in 1..(Len(given) + 1)
      BY <1>9
    <3> QED BY <1>10, <3>1, <3>2, <3>3, <3>4
  <2>2. ASSUME NEW r \in Session, NEW n \in 1..MaxPackets, Given(r, n)' PROVE ~InHand(r, n)'
    BY <1>9, <1>13, <1>15, <2>2 DEF PumpInv, NeverTwice
  <2>3. ASSUME NEW r \in Session, NEW n \in 1..MaxPackets, NEW u \in Worker, NEW v \in Worker,
               Holds(u, r, n)', Holds(v, r, n)'
        PROVE  u = v
    <3>1. Holds(u, r, n) /\ Holds(v, r, n)
      BY <1>12, <2>3
    <3> QED BY <3>1 DEF PumpInv, NeverTwice
  <2> QED BY <2>1, <2>2, <2>3 DEF NeverTwice
<1>17. Placed'
  BY <1>8, <1>9, <1>13 DEF PumpInv, Placed, putPackage
<1> QED BY <1>6, <1>7, <1>8, <1>16, <1>17 DEF PumpInv, Numbered

LEMMA GivenPassedOn ==
  ASSUME TypeOK, packageQueue_ # <<>>, packageQueue_' = Tail(packageQueue_),
         taken' = Append(taken, Head(packageQueue_))
  PROVE  given' = given
  BY PassOn DEF given, TypeOK

LEMMA TakenKeeps ==
  ASSUME PumpInv, UNCHANGED setup, NEW t \in setup.thread, pop(t)
  PROVE  PumpInv'
<1> USE DEF clientVars, workerVars, pastVars
<1>1. t \in Thread
  BY SetupTypes DEF PumpInv
<1>2. packageQueue_ \in Seq(Package) /\ packageQueue_ # <<>> /\ taken \in Seq(Package)
  BY DEF PumpInv, TypeOK, pop
<1>3. Head(packageQueue_) \in Package /\ Tail(packageQueue_) \in Seq(Package)
  BY <1>2
<1>4. TypeOK'
  <2>1. taken' \in Seq(Package)
    BY <1>2, <1>3 DEF pop
  <2> QED BY <1>1, <1>3, <2>1 DEF PumpInv, TypeOK, pop
<1>5. WorkersInv'
  BY DEF PumpInv, WorkersInv, pop
<1>6. \A r \in Session : InLine(r)' /\ Popped(r)' = Popped(r)
  BY LineKept DEF PumpInv, Numbered, pop
<1>7. given' = given
  BY GivenPassedOn DEF PumpInv, pop
<1>8. NeverTwice' /\ Placed'
  BY <1>6, <1>7, PlacesKept DEF PumpInv, pop
<1> QED BY <1>4, <1>5, <1>6, <1>8 DEF PumpInv, Numbered

LEMMA RunKeeps ==
  ASSUME PumpInv, UNCHANGED setup, NEW t \in setup.thread, run(t)
  PROVE  PumpInv'
<1> USE DEF clientVars, workerVars, contentsVars, pastVars
<1>1. t \in Thread
  BY SetupTypes DEF PumpInv
<1>2. PICK s : s = tpkg[t].session
  OBVIOUS
<1>3. tpkg[t] \in Package /\ s \in Session
  BY <1>1, <1>2 DEF run, PumpInv, TypeOK, Package
<1>4. running' \in BOOLEAN
  BY UsingType DEF run
<1>5. CASE tpkg[t].kind = "ok"
  <2>1. TypeOK'
    BY <1>1, <1>4, <1>5 DEF PumpInv, TypeOK, run
  <2>2. WorkersInv'
    BY <1>5 DEF PumpInv, WorkersInv, run
  <2>3. \A r \in Session : InLine(r)' /\ Popped(r)' = Popped(r)
    BY <1>5, LineKept DEF PumpInv, Numbered, run
  <2>4. given' = given
    BY GivenKept DEF run
  <2>5. NeverTwice' /\ Placed'
    BY <1>5, <2>3, <2>4, PlacesKept DEF PumpInv, run
  <2> QED BY <2>1, <2>2, <2>3, <2>5 DEF PumpInv, Numbered
<1>6. CASE tpkg[t].kind # "ok"
  <2>1. Delete(s)
    BY <1>2, <1>6 DEF run
  <2>2. /\ deleted' \subseteq Session
        /\ recv' \in [Session -> {"posted", "done", "failed", "none"}]
        /\ packageStorage' \in [Session -> Seq(Package)]
    BY <1>3, <2>1 DEF Delete, PumpInv, TypeOK
  <2>3. TypeOK'
    BY <1>1, <1>4, <2>2 DEF PumpInv, TypeOK, run
  <2>4. WorkersInv'
    <3>1. \A r \in Session : recv'[r] = "posted" => buffer'[r] = <<>>
      BY <1>3, <2>1 DEF PumpInv, WorkersInv, TypeOK, run, Delete
    <3> QED BY <3>1 DEF PumpInv, WorkersInv, run
  <2>5. given' = given
    BY GivenKept DEF run
  <2> QED BY <1>3, <2>1, <2>3, <2>4, <2>5, DeleteKeeps DEF run
<1> QED BY <1>5, <1>6

-----------------------------------------------------------------------------
LEMMA PumpStart == ASSUME PumpInit PROVE PumpInv
<1> USE PumpConstants DEF PumpInit
<1>1. TypeOK
  BY DEF TypeOK
<1>2. WorkersInv
  BY DEF WorkersInv
<1>3. \A s \in Session : Received(s) = 0 /\ Cut(s) = 0 /\ Popped(s) = 0
  BY DEF Received, Cut, Popped
<1>4. Numbered
  BY <1>3, NoneFollow DEF Numbered, InLine
<1>5. given = <<>>
  BY DEF given
<1>6. (\A s, n : ~Given(s, n)) /\ (\A w \in Worker : \A s, n : ~Holds(w, s, n))
  BY <1>5 DEF Given, Holds
<1>7. NeverTwice
  BY <1>5, <1>6 DEF NeverTwice
<1>8. Placed
  <2>1. \A n \in 1..MaxPackets : ~(n <= 0)
    OBVIOUS
  <2> QED BY <1>3, <1>6, <2>1 DEF Placed, InHand
<1> QED BY <1>1, <1>2, <1>4, <1>7, <1>8 DEF PumpInv

LEMMA PumpStutter == ASSUME PumpInv, UNCHANGED vars PROVE PumpInv'
<1> USE DEF vars, pumpVars
<1>1. TypeOK' /\ WorkersInv'
  BY DEF PumpInv, TypeOK, WorkersInv
<1> QED BY <1>1, StandKeeps DEF clientVars, contentsVars

LEMMA PumpStep == ASSUME PumpInv, [Next]_vars PROVE PumpInv'
<1>1. CASE UNCHANGED vars
  BY <1>1, PumpStutter
<1>2. CASE Next
  <2>1. UNCHANGED setup
    BY <1>2 DEF Next
  <2>2. CASE Network
    BY <2>1, <2>2, SendKeeps, HangUpKeeps, BreaksKeeps, RecvCompletesKeeps DEF Network
  <2>3. ASSUME NEW w \in setup.worker, workerThread(w) PROVE PumpInv'
    BY <2>1, <2>3, TakesKeeps, CloseKeeps, OnRecvKeeps, StandByKeeps, PopPackageKeeps,
       PutPackageKeeps DEF workerThread
  <2>4. ASSUME NEW t \in setup.thread, execute(t) PROVE PumpInv'
    BY <2>1, <2>4, TakenKeeps, RunKeeps DEF execute
  <2> QED BY <1>2, <2>2, <2>3, <2>4 DEF Next
<1> QED BY <1>1, <1>2

\* a packet of an open session is in one place between the socket and the handlers,
\* whichever workers are at its session and whatever deletes other sessions meanwhile
LEMMA PumpInvariant == Spec => []PumpInv
<1>1. PumpInit => PumpInv
  BY PumpStart
<1>2. PumpInv /\ [Next]_vars => PumpInv'
  BY PumpStep
<1> QED BY <1>1, <1>2, PTL DEF Spec

\* the numbering says where every packet is
LEMMA NumberedIsKept == ASSUME PumpInv PROVE NothingLost
<1>1. ASSUME NEW s \in Session \ deleted
      PROVE LET rest   == packageStorage[s] \o buffer[s] \o wire[s]
                popped == sent[s] - Len(rest)
            IN  /\ \A i \in DOMAIN rest : IsPacket(rest[i], s, popped + i)
                /\ \A n \in 1..MaxPackets : Given(s, n) \/ InHand(s, n) <=> n <= popped
  <2>1. PICK a, b, c, k : /\ a = packageStorage[s] /\ b = buffer[s] /\ c = wire[s]
                          /\ k = Popped(s)
    OBVIOUS
  <2>2. /\ a \in Seq(Package) /\ b \in Seq(Package) /\ c \in Seq(Package) /\ k \in Int
        /\ sent[s] \in Nat /\ Len(a) \in Nat /\ Len(b) \in Nat /\ Len(c) \in Nat
    BY <2>1, LineTypes DEF PumpInv
  <2>3. Cut(s) = k + Len(a) /\ Received(s) = k + Len(a) + Len(b)
        /\ sent[s] = k + (Len(a) + Len(b) + Len(c))
    <3>1. Received(s) \in Int /\ Cut(s) \in Int
      BY LineTypes DEF PumpInv
    <3>2. k = Cut(s) - Len(a) /\ Cut(s) = Received(s) - Len(b) /\ Received(s) = sent[s] - Len(c)
      BY <2>1 DEF Popped, Cut, Received
    <3>3. Cut(s) = k + Len(a)
      BY <2>2, <3>1, <3>2
    <3>4. Received(s) = Cut(s) + Len(b)
      BY <2>2, <3>1, <3>2
    <3>5. sent[s] = Received(s) + Len(c)
      BY <2>2, <3>1, <3>2
    <3> QED BY <2>2, <3>1, <3>3, <3>4, <3>5
  <2>4. Follow(a, s, k) /\ Follow(b, s, k + Len(a)) /\ Follow(c, s, k + Len(a) + Len(b))
    BY <2>1, <2>3 DEF PumpInv, Numbered, InLine
  <2>5. a \o b \in Seq(Package) /\ Len(a \o b) = Len(a) + Len(b) /\ Follow(a \o b, s, k)
    BY <2>2, <2>4, FollowConcat
  <2>6. k + Len(a \o b) = k + Len(a) + Len(b)
    BY <2>2, <2>5
  <2>7. PICK r : r = (a \o b) \o c
    OBVIOUS
  <2>8. r \in Seq(Package) /\ Len(r) = Len(a) + Len(b) + Len(c) /\ Follow(r, s, k)
    <3>1. Follow(c, s, k + Len(a \o b))
      BY <2>4, <2>6
    <3>2. r \in Seq(Package) /\ Len(r) = Len(a \o b) + Len(c) /\ Follow(r, s, k)
      BY <2>2, <2>5, <2>7, <3>1, FollowConcat
    <3> QED BY <2>5, <3>2
  <2>9. sent[s] - Len(r) = k
    BY <2>2, <2>3, <2>8
  <2>10. \A i \in DOMAIN r : IsPacket(r[i], s, k + i)
    BY <2>8 DEF Follow
  <2>11. \A n \in 1..MaxPackets : Given(s, n) \/ InHand(s, n) <=> n <= k
    BY <2>1 DEF PumpInv, Placed
  <2> QED BY <2>1, <2>7, <2>9, <2>10, <2>11
<1> QED BY <1>1 DEF PumpInv, NothingLost

(***************************************************************************)
(* As long as its session is open, no packet is lost between the socket    *)
(* and the handlers and none is queued twice, for any number of IO         *)
(* workers: two of them may drain one packageStorage.                      *)
(***************************************************************************)
THEOREM EveryPacketKept == Spec => []NothingLost
  BY PumpInvariant, NumberedIsKept, PTL

(***************************************************************************)
(* Every variable keeps its type: what is counted stays within its bound,  *)
(* and a worker past its completion knows its session.                     *)
(***************************************************************************)
THEOREM PumpTypes == Spec => []TypeOK
<1>1. PumpInv => TypeOK
  BY DEF PumpInv
<1> QED BY <1>1, PumpInvariant, PTL

-----------------------------------------------------------------------------
(***************************************************************************)
(* Workers that take turns at a session.                                   *)
(***************************************************************************)
\* what was given stays given
LEMMA GivenStays ==
  ASSUME PumpInv, Next, NEW s, NEW n, Given(s, n)
  PROVE  Given(s, n)'
<1> USE DEF clientVars, workerVars, contentsVars, pastVars
<1>1. CASE given' = given
  BY <1>1 DEF Given
<1>2. CASE Network
  <2>1. UNCHANGED <<taken, packageQueue_>>
    BY <1>2 DEF Network, ClientSends, ClientHangsUp, ConnectionBreaks, RecvCompletes
  <2> QED BY <1>1, <2>1, GivenKept
<1>3. ASSUME NEW w \in setup.worker, workerThread(w) PROVE Given(s, n)'
  <2>1. CASE putPackage(w)
    <3>1. PICK p : p = whand[w]
      OBVIOUS
    <3>2. w \in Worker
      BY SetupTypes DEF PumpInv
    <3>3. p \in Package
      BY <2>1, <3>1, <3>2 DEF putPackage, At, PumpInv, WorkersInv, TypeOK
    <3> QED BY <2>1, <3>1, <3>3, GivenMore DEF PumpInv, putPackage
  <2>2. CASE ~putPackage(w)
    <3>1. UNCHANGED <<taken, packageQueue_>>
      BY <1>3, <2>2 DEF workerThread, GetQueuedCompletionStatus, IgnoresFailed, CloseByClient,
         onRecv, recvStandBy, IsEmpty, PopPackage, Crash
    <3> QED BY <1>1, <3>1, GivenKept
  <2> QED BY <2>1, <2>2
<1>4. ASSUME NEW t \in setup.thread, execute(t) PROVE Given(s, n)'
  <2>1. CASE pop(t)
    BY <1>1, <2>1, GivenPassedOn DEF PumpInv, pop
  <2>2. CASE run(t)
    BY <1>1, <2>2, GivenKept DEF run
  <2> QED BY <1>4, <2>1, <2>2 DEF execute
<1> QED BY <1>2, <1>3, <1>4 DEF Next

\* nothing comes on a session that has been heard to its end
LEMMA HeardStays ==
  ASSUME PumpInv, Next, NEW s \in Session, Heard(s)
  PROVE  Heard(s)' /\ sent'[s] = sent[s]
<1> USE DEF clientVars, workerVars, contentsVars, pastVars
<1>1. s \in hungUp /\ buffer[s] = <<>> /\ wire[s] = <<>>
  BY DEF Heard
<1>2. CASE UNCHANGED <<sent, hungUp, buffer, wire>>
  BY <1>2 DEF Heard
<1>3. ASSUME NEW r \in setup.session, NEW kind \in setup.kind, ClientSends(r, kind)
      PROVE  Heard(s)' /\ sent'[s] = sent[s]
  BY <1>1, <1>3 DEF ClientSends, PumpInv, TypeOK, Heard
<1>4. ASSUME NEW r \in setup.session, ClientHangsUp(r)
      PROVE  Heard(s)' /\ sent'[s] = sent[s]
  BY <1>1, <1>4 DEF ClientHangsUp, Heard
<1>5. ASSUME NEW r \in setup.session, ConnectionBreaks(r)
      PROVE  Heard(s)' /\ sent'[s] = sent[s]
  BY <1>1, <1>5 DEF ConnectionBreaks, PumpInv, TypeOK, Heard
<1>6. ASSUME NEW r \in setup.session, NEW k \in 0..MaxPackets, RecvCompletes(r, k)
      PROVE  Heard(s)' /\ sent'[s] = sent[s]
  <2>1. CASE r # s
    BY <1>1, <1>6, <2>1 DEF RecvCompletes, PumpInv, TypeOK, Heard
  <2>2. CASE r = s
    <3>1. wire[s] \in Seq(Package) /\ Len(wire[s]) = 0
      BY <1>1, LineTypes DEF PumpInv
    <3>2. k = 0
      BY <1>6, <2>2, <3>1 DEF RecvCompletes
    <3>3. SubSeq(wire[s], 1, k) = <<>> /\ SubSeq(wire[s], k + 1, Len(wire[s])) = <<>>
      BY <3>1, <3>2, SubSeqEmpty
    <3> QED BY <1>1, <1>6, <2>2, <3>3 DEF RecvCompletes, PumpInv, TypeOK, Heard
  <2> QED BY <2>1, <2>2
<1>7. CASE Network
  BY <1>3, <1>4, <1>5, <1>6, <1>7 DEF Network
<1>8. ASSUME NEW w \in setup.worker, workerThread(w) PROVE Heard(s)' /\ sent'[s] = sent[s]
  <2>1. CASE onRecv(w)
    <3>1. w \in Worker
      BY SetupTypes DEF PumpInv
    <3>2. wsession[w] # s
      BY <1>1, <2>1 DEF onRecv
    <3>3. buffer'[s] = buffer[s]
      BY <2>1, <3>2 DEF onRecv, Crash, PumpInv, TypeOK
    <3>4. UNCHANGED <<sent, hungUp, wire>>
      BY <2>1 DEF onRecv, Crash
    <3> QED BY <1>1, <3>3, <3>4 DEF Heard
  <2>2. CASE ~onRecv(w)
    <3>1. UNCHANGED <<sent, hungUp, buffer, wire>>
      BY <1>8, <2>2 DEF workerThread, GetQueuedCompletionStatus, IgnoresFailed, CloseByClient,
         recvStandBy, IsEmpty, PopPackage, putPackage, Crash
    <3> QED BY <1>2, <3>1
  <2> QED BY <2>1, <2>2
<1>9. ASSUME NEW t \in setup.thread, execute(t) PROVE Heard(s)' /\ sent'[s] = sent[s]
  <2>1. UNCHANGED <<sent, hungUp, buffer, wire>>
    BY <1>9 DEF execute, pop, run
  <2> QED BY <1>2, <2>1
<1> QED BY <1>7, <1>8, <1>9 DEF Next

\* a worker moves itself alone, and nothing else moves a worker
LEMMA OthersStay ==
  ASSUME PumpInv, NEW w \in Worker, workerThread(w)
  PROVE  \A v \in Worker \ {w} : /\ wpc'[v] = wpc[v] /\ wsession'[v] = wsession[v]
                                 /\ whand'[v] = whand[v]
<1> USE DEF clientVars, workerVars, contentsVars, pastVars, Goto
<1>1. ASSUME NEW s \in Session, GetQueuedCompletionStatus(w, s) \/ IgnoresFailed(w, s)
      PROVE  \A v \in Worker \ {w} : /\ wpc'[v] = wpc[v] /\ wsession'[v] = wsession[v]
                                     /\ whand'[v] = whand[v]
  BY <1>1 DEF GetQueuedCompletionStatus, IgnoresFailed, PumpInv, TypeOK
<1>2. CASE CloseByClient(w) \/ recvStandBy(w) \/ IsEmpty(w) \/ putPackage(w)
  BY <1>2 DEF CloseByClient, recvStandBy, IsEmpty, putPackage, PumpInv, TypeOK
<1>3. CASE onRecv(w) \/ PopPackage(w)
  BY <1>3 DEF onRecv, PopPackage, Crash, PumpInv, TypeOK
<1> QED BY <1>1, <1>2, <1>3 DEF workerThread

LEMMA NoneMoves ==
  ASSUME Network \/ \E t \in setup.thread : execute(t)
  PROVE  UNCHANGED <<wpc, wsession, whand>>
<1>1. CASE Network
  BY <1>1 DEF Network, ClientSends, ClientHangsUp, ConnectionBreaks, RecvCompletes, workerVars
<1>2. ASSUME NEW t \in setup.thread, execute(t) PROVE UNCHANGED <<wpc, wsession, whand>>
  BY <1>2 DEF execute, pop, run, workerVars
<1> QED BY <1>1, <1>2

LEMMA TurnsSteps ==
  ASSUME PumpInv, Next
  PROVE  Network \/ (\E w \in Worker : w \in setup.worker /\ workerThread(w))
                 \/ \E t \in setup.thread : execute(t)
  BY SetupTypes DEF Next, PumpInv

\* a handler deletes the session of its package, or leaves all sessions alone
LEMMA HandlersDelete ==
  ASSUME PumpInv, NEW t \in setup.thread, execute(t)
  PROVE  /\ UNCHANGED <<sent, hungUp, wire, buffer, left, crossed>>
         /\ UNCHANGED <<recv, packageStorage, deleted>> \/ \E s \in Session : Delete(s)
<1> USE DEF clientVars, pastVars
<1>1. t \in Thread
  BY SetupTypes DEF PumpInv
<1>2. CASE pop(t)
  BY <1>2 DEF pop
<1>3. CASE run(t)
  <2>1. tpkg[t].session \in Session
    BY <1>1, <1>3 DEF run, PumpInv, TypeOK, Package
  <2> QED BY <1>3, <2>1 DEF run
<1> QED BY <1>2, <1>3 DEF execute

\* packages in packageStorage have a worker at their session to take them
LEMMA TendedKeeps == ASSUME PumpInv, TurnsInv, Next PROVE Tended'
<1> USE DEF clientVars, workerVars, contentsVars, pastVars, Goto, At
<1>1. \A s \in Session : packageStorage[s] # <<>> => \E v \in Worker : Drains(v, s)
  BY DEF TurnsInv, Tended
<1>2. ASSUME \A s \in Session : packageStorage'[s] # <<>> => packageStorage[s] # <<>>,
             UNCHANGED <<wpc, wsession>>
      PROVE  Tended'
  BY <1>1, <1>2 DEF Tended, Drains
<1>3. CASE Network
  <2>1. packageStorage' = packageStorage
    BY <1>3 DEF Network, ClientSends, ClientHangsUp, ConnectionBreaks, RecvCompletes
  <2> QED BY <1>2, <1>3, <2>1, NoneMoves
<1>4. ASSUME NEW t \in setup.thread, execute(t) PROVE Tended'
  <2>1. \A s \in Session : packageStorage'[s] # <<>> => packageStorage[s] # <<>>
    BY <1>4, HandlersDelete DEF Delete, PumpInv, TypeOK
  <2> QED BY <1>2, <1>4, <2>1, NoneMoves
<1>5. ASSUME NEW w \in Worker, workerThread(w) PROVE Tended'
  <2> SUFFICES ASSUME NEW s \in Session, packageStorage'[s] # <<>>
               PROVE  \E v \in Worker : Drains(v, s)'
    BY DEF Tended
  <2>1. ASSUME NEW v \in Worker \ {w}, Drains(v, s) PROVE \E u \in Worker : Drains(u, s)'
    BY <1>5, <2>1, OthersStay DEF Drains
  <2>2. ASSUME NEW r \in Session, GetQueuedCompletionStatus(w, r) \/ IgnoresFailed(w, r)
        PROVE  \E u \in Worker : Drains(u, s)'
    <3>1. packageStorage' = packageStorage /\ wpc[w] = "wait"
      BY <2>2 DEF GetQueuedCompletionStatus, IgnoresFailed
    <3>2. ~Drains(w, s)
      BY <3>1 DEF Drains
    <3> QED BY <1>1, <2>1, <3>1, <3>2
  <2>3. CASE CloseByClient(w)
    <3>1. packageStorage[s] # <<>>
      BY <2>3 DEF CloseByClient, Delete, PumpInv, TypeOK
    <3>2. ~Drains(w, s)
      BY <2>3 DEF CloseByClient, Drains
    <3> QED BY <1>1, <2>1, <3>1, <3>2
  <2>4. CASE onRecv(w)
    <3>1. wpc[w] = "onRecv" /\ wpc' = wpc /\ wsession' = wsession
      BY <2>4 DEF onRecv, Crash
    <3>2. CASE s = wsession[w]
      BY <3>1, <3>2 DEF Drains
    <3>3. CASE s # wsession[w]
      <4>1. packageStorage'[s] = packageStorage[s]
        BY <2>4, <3>3 DEF onRecv, Crash, PumpInv, TypeOK
      <4> QED BY <1>1, <3>1, <4>1 DEF Drains
    <3> QED BY <3>2, <3>3
  <2>5. CASE recvStandBy(w) \/ putPackage(w)
    <3>1. /\ packageStorage' = packageStorage /\ wsession' = wsession
          /\ wpc[w] \in {"onRecv", "putPackage"} /\ wpc'[w] = "IsEmpty"
      BY <2>5 DEF recvStandBy, putPackage, PumpInv, TypeOK
    <3>2. Drains(w, s) => Drains(w, s)'
      BY <3>1 DEF Drains
    <3> QED BY <1>1, <2>1, <3>1, <3>2
  <2>6. CASE IsEmpty(w)
    <3>1. /\ packageStorage' = packageStorage /\ wsession' = wsession
          /\ packageStorage[wsession[w]] # <<>> => wpc'[w] = "PopPackage"
      BY <2>6 DEF IsEmpty, PumpInv, TypeOK
    <3>2. Drains(w, s) => Drains(w, s)'
      BY <3>1 DEF Drains
    <3> QED BY <1>1, <2>1, <3>1, <3>2
  <2>7. CASE PopPackage(w)
    <3>1. /\ wpc[w] = "PopPackage" /\ wpc'[w] \in {"PopPackage", "putPackage"}
          /\ wsession' = wsession
      BY <2>7 DEF PopPackage, Crash, PumpInv, TypeOK
    <3>2. CASE s = wsession[w]
      BY <3>1, <3>2 DEF Drains
    <3>3. CASE s # wsession[w]
      <4>1. packageStorage'[s] = packageStorage[s]
        BY <2>7, <3>3 DEF PopPackage, Crash, PumpInv, TypeOK
      <4>2. Drains(w, s) => Drains(w, s)'
        BY <3>1 DEF Drains
      <4> QED BY <1>1, <2>1, <4>1, <4>2
    <3> QED BY <3>2, <3>3
  <2> QED BY <1>5, <2>2, <2>3, <2>4, <2>5, <2>6, <2>7 DEF workerThread
<1> QED BY <1>3, <1>4, <1>5, TurnsSteps

\* a worker has a package of the session it is at
LEMMA OwnHandKeeps == ASSUME PumpInv, TurnsInv, Next PROVE OwnHand'
<1> USE DEF clientVars, workerVars, contentsVars, pastVars, Goto, At
<1>1. \A w \in Worker : whand[w] # Null => whand[w].session = wsession[w]
  BY DEF TurnsInv, OwnHand
<1>2. CASE UNCHANGED <<wsession, whand>>
  BY <1>1, <1>2 DEF OwnHand
<1>3. ASSUME NEW w \in Worker, workerThread(w) PROVE OwnHand'
  <2>1. \A v \in Worker \ {w} : wsession'[v] = wsession[v] /\ whand'[v] = whand[v]
    BY <1>3, OthersStay
  <2>2. ASSUME NEW r \in Session, GetQueuedCompletionStatus(w, r) PROVE whand'[w] = Null
    BY <2>2 DEF GetQueuedCompletionStatus, PumpInv, WorkersInv
  <2>3. CASE putPackage(w)
    <3>1. whand'[w] = Null
      BY <2>3 DEF putPackage, PumpInv, TypeOK
    <3> QED BY <1>1, <2>1, <3>1 DEF OwnHand
  <2>4. CASE PopPackage(w)
    <3>1. PICK s : s = wsession[w]
      OBVIOUS
    <3>2. s \in Session /\ wsession' = wsession
      BY <2>4, <3>1 DEF PopPackage, Crash, PumpInv, WorkersInv
    <3>3. CASE packageStorage[s] = <<>>
      BY <1>2, <2>4, <3>1, <3>3 DEF PopPackage, Crash
    <3>4. CASE packageStorage[s] # <<>>
      <4>1. whand'[w] = Head(packageStorage[s])
        BY <2>4, <3>1, <3>4 DEF PopPackage, PumpInv, TypeOK
      <4>2. s \notin deleted /\ Follow(packageStorage[s], s, Popped(s)) /\ Popped(s) \in Int
        BY <3>2, <3>4, LineTypes DEF PumpInv, Numbered, InLine
      <4>3. Head(packageStorage[s]).session = s
        BY <3>2, <3>4, <4>2, LineTypes, FollowTail DEF PumpInv, IsPacket
      <4> QED BY <1>1, <2>1, <3>1, <3>2, <4>1, <4>3 DEF OwnHand
    <3> QED BY <3>3, <3>4
  <2>5. CASE \E r \in Session : GetQueuedCompletionStatus(w, r)
    BY <1>1, <2>1, <2>2, <2>5 DEF OwnHand
  <2>6. CASE ~putPackage(w) /\ ~PopPackage(w) /\ ~\E r \in Session : GetQueuedCompletionStatus(w, r)
    <3>1. UNCHANGED <<wsession, whand>>
      BY <1>3, <2>6 DEF workerThread, IgnoresFailed, CloseByClient, onRecv, recvStandBy, IsEmpty,
         Crash
    <3> QED BY <1>2, <3>1
  <2> QED BY <2>3, <2>4, <2>5, <2>6
<1> QED BY <1>2, <1>3, NoneMoves, TurnsSteps

\* the receive of a session that is being served is not posted again before its time,
\* so that no second worker gets there
LEMMA ServingKeeps == ASSUME PumpInv, TurnsInv, Next PROVE Serving'
<1> USE DEF clientVars, workerVars, contentsVars, pastVars, Goto, At
<1>1. \A w \in Worker, s \in Session : Serves(w, s) =>
        recv[s] = "none" /\ \A v \in Worker : Serves(v, s) => v = w
  BY DEF TurnsInv, Serving
<1>2. ASSUME UNCHANGED <<wpc, wsession>>, \A s \in Session : recv[s] = "none" => recv'[s] = "none"
      PROVE  Serving'
  BY <1>1, <1>2 DEF Serving, Serves
<1>3. CASE Network
  <2>1. \/ recv' = recv
        \/ \E q : recv' = [recv EXCEPT ![q] = IF recv[q] = "posted" THEN "failed" ELSE recv[q]]
        \/ \E q : recv[q] = "posted" /\ recv' = [recv EXCEPT ![q] = "done"]
    BY <1>3, Zenon DEF Network, ClientSends, ClientHangsUp, ConnectionBreaks, RecvCompletes
  <2>2. \A s \in Session : recv[s] = "none" => recv'[s] \in {recv[s], "none"}
    BY <2>1 DEF PumpInv, TypeOK
  <2> QED BY <1>2, <1>3, <2>2, NoneMoves
<1>4. ASSUME NEW t \in setup.thread, execute(t) PROVE Serving'
  <2>1. \A s \in Session : recv[s] = "none" => recv'[s] = "none"
    BY <1>4, HandlersDelete DEF Delete, PumpInv, TypeOK
  <2> QED BY <1>2, <1>4, <2>1, NoneMoves
<1>5. ASSUME NEW w \in Worker, workerThread(w) PROVE Serving'
  <2>1. \A v \in Worker \ {w} : \A s : Serves(v, s)' <=> Serves(v, s)
    BY <1>5, OthersStay DEF Serves
  <2>2. ASSUME \A s \in Session : ~Serves(w, s)',
               \A s \in Session : recv[s] = "none" /\ ~Serves(w, s) => recv'[s] = "none"
        PROVE  Serving'
    BY <1>1, <2>1, <2>2 DEF Serving
  <2>3. ASSUME NEW r \in Session, GetQueuedCompletionStatus(w, r) PROVE Serving'
    <3>1. /\ recv[r] = "done" /\ recv'[r] = "none"
          /\ \A s \in Session \ {r} : recv'[s] = recv[s]
      BY <2>3 DEF GetQueuedCompletionStatus, PumpInv, TypeOK
    <3>2. \A s \in Session : Serves(w, s)' <=> s = r
      BY <2>3 DEF GetQueuedCompletionStatus, Serves, PumpInv, TypeOK
    <3>3. \A v \in Worker : ~Serves(v, r)
      BY <1>1, <3>1
    <3> QED BY <1>1, <2>1, <3>1, <3>2, <3>3 DEF Serving
  <2>4. ASSUME NEW r \in Session, IgnoresFailed(w, r) PROVE Serving'
    <3>1. UNCHANGED <<wpc, wsession>> /\ \A s \in Session : recv[s] = "none" => recv'[s] = "none"
      BY <2>4 DEF IgnoresFailed, PumpInv, TypeOK
    <3> QED BY <1>2, <3>1
  <2>5. CASE CloseByClient(w) \/ IsEmpty(w) \/ putPackage(w)
    <3>1. wpc'[w] \in {"wait", "IsEmpty", "PopPackage"}
      BY <2>5 DEF CloseByClient, IsEmpty, putPackage, PumpInv, TypeOK
    <3>2. \A s \in Session : recv[s] = "none" => recv'[s] = "none"
      BY <2>5 DEF CloseByClient, Delete, IsEmpty, putPackage, PumpInv, TypeOK
    <3> QED BY <2>2, <3>1, <3>2 DEF Serves
  <2>6. CASE recvStandBy(w)
    <3>1. wpc[w] = "onRecv" /\ wpc'[w] = "IsEmpty"
      BY <2>6 DEF recvStandBy, PumpInv, TypeOK
    <3>2. \A s \in Session : s # wsession[w] => recv'[s] = recv[s]
      BY <2>6 DEF recvStandBy, PumpInv, TypeOK
    <3> QED BY <2>2, <3>1, <3>2 DEF Serves
  <2>7. CASE onRecv(w)
    <3>1. UNCHANGED <<wpc, wsession, recv>>
      BY <2>7 DEF onRecv, Crash
    <3> QED BY <1>2, <3>1
  <2>8. CASE PopPackage(w)
    <3>1. wpc'[w] \in {"PopPackage", "putPackage"} /\ recv' = recv
      BY <2>8 DEF PopPackage, Crash, PumpInv, TypeOK
    <3> QED BY <2>2, <3>1 DEF Serves
  <2> QED BY <1>5, <2>3, <2>4, <2>5, <2>6, <2>7, <2>8 DEF workerThread
<1> QED BY <1>3, <1>4, <1>5, TurnsSteps

\* a completion without bytes comes when all has been received
LEMMA EndIsHeard ==
  ASSUME PumpInv, TurnsInv, Next
  PROVE  \A s \in Session : recv'[s] = "done" /\ buffer'[s] = <<>> => Heard(s)'
<1> USE DEF clientVars, workerVars, contentsVars, pastVars, Goto, At
<1> SUFFICES ASSUME NEW s \in Session, recv'[s] = "done", buffer'[s] = <<>> PROVE Heard(s)'
  OBVIOUS
<1>1. recv[s] = "done" /\ buffer[s] = <<>> => Heard(s)'
  BY HeardStays DEF TurnsInv, Closing
<1>2. ASSUME NEW r \in setup.session, NEW k \in 0..MaxPackets, RecvCompletes(r, k) PROVE Heard(s)'
  <2>1. r \in Session
    BY SetupTypes DEF PumpInv
  <2>2. CASE r # s
    BY <1>1, <1>2, <2>1, <2>2 DEF RecvCompletes, PumpInv, TypeOK
  <2>3. CASE r = s
    <3>1. wire[s] \in Seq(Package) /\ k \in 0..Len(wire[s]) /\ Len(wire[s]) \in Nat
      BY <1>2, <2>3, LineTypes DEF RecvCompletes, PumpInv
    <3>2. buffer'[s] = SubSeq(wire[s], 1, k)
      BY <1>2, <2>3 DEF RecvCompletes, PumpInv, TypeOK
    <3>3. Len(SubSeq(wire[s], 1, k)) = k
      BY <3>1
    <3>4. k = 0
      BY <3>2, <3>3
    <3>5. wire[s] = <<>> /\ s \in hungUp
      BY <1>2, <2>3, <3>4 DEF RecvCompletes
    <3>6. Heard(s) \/ buffer[s] # <<>>
      BY <3>5 DEF Heard
    <3>7. buffer[s] = <<>>
      BY <1>2, <2>3 DEF RecvCompletes, PumpInv, WorkersInv
    <3> QED BY <3>6, <3>7, HeardStays
  <2> QED BY <2>2, <2>3
<1>3. CASE Network
  <2>1. ASSUME NEW r \in setup.session, NEW kind \in setup.kind,
               ClientSends(r, kind) \/ ClientHangsUp(r) \/ ConnectionBreaks(r)
        PROVE  Heard(s)'
    <3>1. recv[s] = "done" /\ buffer[s] = <<>>
      BY <2>1 DEF ClientSends, ClientHangsUp, ConnectionBreaks, PumpInv, TypeOK
    <3> QED BY <1>1, <3>1
  <2>2. ASSUME NEW r \in setup.session, ClientHangsUp(r) \/ ConnectionBreaks(r) PROVE Heard(s)'
    <3>1. recv[s] = "done" /\ buffer[s] = <<>>
      BY <2>2 DEF ClientHangsUp, ConnectionBreaks, PumpInv, TypeOK
    <3> QED BY <1>1, <3>1
  <2> QED BY <1>2, <1>3, <2>1, <2>2 DEF Network
<1>4. ASSUME NEW w \in Worker, onRecv(w) PROVE Heard(s)'
  <2>1. recv[s] = "done"
    BY <1>4 DEF onRecv, Crash
  <2>2. wpc[w] = "onRecv" /\ wsession[w] # s
    BY <1>4, <2>1 DEF onRecv, TurnsInv, Serving, Serves
  <2>3. buffer'[s] = buffer[s]
    BY <1>4, <2>2 DEF onRecv, Crash, PumpInv, TypeOK
  <2> QED BY <1>1, <2>1, <2>3
<1>5. ASSUME NEW w \in Worker, workerThread(w), ~onRecv(w) PROVE Heard(s)'
  <2>1. buffer' = buffer
    BY <1>5 DEF workerThread, GetQueuedCompletionStatus, IgnoresFailed, CloseByClient,
       recvStandBy, IsEmpty, PopPackage, putPackage, Crash
  <2>2. recv[s] = "done"
    BY <1>5 DEF workerThread, GetQueuedCompletionStatus, IgnoresFailed, CloseByClient, Delete,
       recvStandBy, IsEmpty, PopPackage, putPackage, Crash, PumpInv, TypeOK
  <2> QED BY <1>1, <2>1, <2>2
<1>6. ASSUME NEW t \in setup.thread, execute(t) PROVE Heard(s)'
  <2>1. recv[s] = "done" /\ buffer[s] = <<>>
    BY <1>6 DEF execute, pop, run, Delete, PumpInv, TypeOK
  <2> QED BY <1>1, <2>1
<1> QED BY <1>3, <1>4, <1>5, <1>6, TurnsSteps

\* the worker that closes a session is there after its end
LEMMA ClosingKeeps == ASSUME PumpInv, TurnsInv, Next PROVE Closing'
<1> USE DEF clientVars, workerVars, contentsVars, pastVars, Goto, At
<1>1. \A r \in Session : Heard(r) => Heard(r)'
  BY HeardStays
<1>2. ASSUME UNCHANGED <<wpc, wsession>>
      PROVE  \A v \in Worker, s \in Session : wpc'[v] = "close" /\ wsession'[v] = s => Heard(s)'
  BY <1>1, <1>2 DEF TurnsInv, Closing
<1>3. ASSUME NEW w \in Worker, workerThread(w)
      PROVE  \A v \in Worker, s \in Session : wpc'[v] = "close" /\ wsession'[v] = s => Heard(s)'
  <2>1. \A v \in Worker \ {w}, s \in Session :
          wpc'[v] = "close" /\ wsession'[v] = s => Heard(s)'
    BY <1>1, <1>3, OthersStay DEF TurnsInv, Closing
  <2>2. ASSUME NEW r \in Session, GetQueuedCompletionStatus(w, r)
        PROVE  \A s \in Session : wpc'[w] = "close" /\ wsession'[w] = s => Heard(s)'
    <3>1. /\ wsession'[w] = r /\ recv[r] = "done"
          /\ wpc'[w] = "close" => buffer[r] = <<>>
      BY <2>2 DEF GetQueuedCompletionStatus, PumpInv, TypeOK
    <3> QED BY <1>1, <3>1 DEF TurnsInv, Closing
  <2>3. CASE \E r \in Session : GetQueuedCompletionStatus(w, r)
    BY <2>1, <2>2, <2>3
  <2>4. ASSUME NEW r \in Session, IgnoresFailed(w, r) PROVE UNCHANGED <<wpc, wsession>>
    BY <2>4 DEF IgnoresFailed
  <2>5. CASE onRecv(w)
    <3>1. UNCHANGED <<wpc, wsession>>
      BY <2>5 DEF onRecv, Crash
    <3> QED BY <1>2, <3>1
  <2>6. CASE CloseByClient(w) \/ recvStandBy(w) \/ IsEmpty(w) \/ PopPackage(w) \/ putPackage(w)
    <3>1. wpc'[w] # "close"
      BY <2>6 DEF CloseByClient, recvStandBy, IsEmpty, PopPackage, putPackage, Crash,
         PumpInv, TypeOK
    <3> QED BY <2>1, <3>1
  <2> QED BY <1>2, <1>3, <2>3, <2>4, <2>5, <2>6 DEF workerThread
<1>4. \A v \in Worker, s \in Session : wpc'[v] = "close" /\ wsession'[v] = s => Heard(s)'
  BY <1>2, <1>3, NoneMoves, TurnsSteps
<1>5. \A s \in Session : (recv[s] = "done" /\ buffer[s] = <<>> => Heard(s))'
  BY EndIsHeard DEF Heard
<1> QED BY <1>4, <1>5 DEF Closing

\* who is deleted because he hung up, with nobody else at his session, has been heard
LEMMA LeftIsHeard == ASSUME PumpInv, TurnsInv, Next PROVE LeftInv'
<1> USE DEF clientVars, workerVars, contentsVars, pastVars, Goto, At
<1>1. deleted \subseteq deleted' /\ left \subseteq Session
  <2>1. CASE Network
    BY <2>1 DEF Network, ClientSends, ClientHangsUp, ConnectionBreaks, RecvCompletes, PumpInv, TypeOK
  <2>2. ASSUME NEW w \in Worker, workerThread(w) PROVE deleted \subseteq deleted'
    BY <2>2 DEF workerThread, GetQueuedCompletionStatus, IgnoresFailed, CloseByClient, Delete,
       onRecv, recvStandBy, IsEmpty, PopPackage, putPackage, Crash
  <2>3. ASSUME NEW t \in setup.thread, execute(t) PROVE deleted \subseteq deleted'
    BY <2>3, HandlersDelete DEF Delete
  <2> QED BY <2>1, <2>2, <2>3, TurnsSteps DEF PumpInv, TypeOK
<1>2. ASSUME NEW s \in Session, Heard(s), s \in deleted', \A n \in 1..sent[s] : Given(s, n)
      PROVE  Heard(s)' /\ s \in deleted' /\ \A n \in 1..sent'[s] : Given(s, n)'
  BY <1>2, HeardStays, GivenStays
<1>3. \A s \in left : Heard(s)' /\ s \in deleted' /\ \A n \in 1..sent'[s] : Given(s, n)'
  BY <1>1, <1>2 DEF TurnsInv, LeftInv
<1>4. ASSUME NEW w \in Worker, CloseByClient(w) PROVE LeftInv'
  <2>1. PICK s : s = wsession[w]
    OBVIOUS
  <2>2. s \in Session /\ wpc[w] = "close"
    BY <1>4, <2>1 DEF CloseByClient, PumpInv, WorkersInv
  <2>3. /\ left' \subseteq left \cup {s} /\ s \in deleted'
        /\ s \in deleted \/ AnotherAt(w, s) => left' = left
    BY <1>4, <2>1 DEF CloseByClient, Delete
  <2>4. CASE s \in deleted \/ AnotherAt(w, s)
    BY <1>3, <2>3, <2>4 DEF LeftInv, Heard, Given
  <2>5. CASE s \notin deleted /\ ~AnotherAt(w, s)
    <3>1. packageStorage[s] = <<>>
      <4>1. \A v \in Worker : ~Drains(v, s)
        BY <2>2, <2>5 DEF AnotherAt, Drains
      <4> QED BY <2>2, <4>1 DEF TurnsInv, Tended
    <3>2. \A n : ~InHand(s, n)
      <4>1. \A v \in Worker : \A n : Holds(v, s, n) => wsession[v] = s /\ wpc[v] = "putPackage"
        BY DEF Holds, IsPacket, TurnsInv, OwnHand, PumpInv, WorkersInv
      <4> QED BY <2>2, <2>5, <4>1 DEF InHand, AnotherAt
    <3>3. Heard(s)
      BY <2>1, <2>2 DEF TurnsInv, Closing
    <3>4. Popped(s) = sent[s]
      <4>1. Len(packageStorage[s]) = 0 /\ Len(buffer[s]) = 0 /\ Len(wire[s]) = 0
        BY <3>1, <3>3 DEF Heard
      <4>2. sent[s] \in Nat
        BY <2>2, LineTypes DEF PumpInv
      <4> QED BY <4>1, <4>2 DEF Popped, Cut, Received
    <3>5. \A n \in 1..MaxPackets : Given(s, n) <=> n <= sent[s]
      BY <2>2, <2>5, <3>2, <3>4 DEF PumpInv, Placed
    <3>6. \A n \in 1..sent[s] : n \in 1..MaxPackets /\ n <= sent[s]
      BY <2>2, LineTypes, PumpConstants DEF PumpInv
    <3>7. \A n \in 1..sent[s] : Given(s, n)
      BY <3>5, <3>6
    <3>8. Heard(s)' /\ \A n \in 1..sent'[s] : Given(s, n)'
      BY <1>2, <2>2, <2>3, <3>3, <3>7
    <3>9. \A r \in left' : Heard(r)' /\ r \in deleted' /\ \A n \in 1..sent'[r] : Given(r, n)'
      BY <1>3, <2>3, <3>8
    <3> QED BY <3>9 DEF LeftInv, Heard, Given
  <2> QED BY <2>4, <2>5
<1>5. CASE left' = left
  BY <1>3, <1>5 DEF LeftInv, Heard, Given
<1>6. CASE Network
  BY <1>5, <1>6 DEF Network, ClientSends, ClientHangsUp, ConnectionBreaks, RecvCompletes
<1>7. ASSUME NEW w \in Worker, workerThread(w), ~CloseByClient(w) PROVE left' = left
  BY <1>7 DEF workerThread, GetQueuedCompletionStatus, IgnoresFailed, onRecv,
     recvStandBy, IsEmpty, PopPackage, putPackage, Crash
<1>8. ASSUME NEW t \in setup.thread, execute(t) PROVE left' = left
  BY <1>8, HandlersDelete
<1> QED BY <1>4, <1>5, <1>6, <1>7, <1>8, TurnsSteps

\* a package popped while nobody else holds one of its session is the next to be given
LEMMA PoppedInOrder ==
  ASSUME PumpInv, TurnsInv, NEW w \in Worker, PopPackage(w)
  PROVE  InOrder' /\ OneInHand' /\ NextInLine'
<1> USE DEF clientVars, workerVars, contentsVars, pastVars, Goto, At
<1>1. PICK s : s = wsession[w]
  OBVIOUS
<1>2. s \in Session /\ wpc[w] = "PopPackage" /\ whand[w] = Null
  BY <1>1 DEF PopPackage, PumpInv, WorkersInv
<1>3. given' = given /\ \A r, n : Given(r, n)' <=> Given(r, n)
  <2>1. UNCHANGED <<taken, packageQueue_>>
    BY DEF PopPackage, Crash
  <2> QED BY <2>1, GivenKept DEF Given
<1>4. CASE packageStorage[s] = <<>>
  <2>1. whand' = whand /\ crossed' = crossed
    BY <1>1, <1>4 DEF PopPackage, Crash, pastVars
  <2> QED BY <1>3, <2>1 DEF TurnsInv, InOrder, OneInHand, NextInLine
<1>5. CASE packageStorage[s] # <<>>
  <2>1. PICK p : p = Head(packageStorage[s])
    OBVIOUS
  <2>2. /\ whand'[w] = p /\ crossed \subseteq crossed'
        /\ AnotherHolds(w, s) => s \in crossed'
        /\ \A v \in Worker \ {w} : whand'[v] = whand[v]
    BY <1>1, <1>5, <2>1 DEF PopPackage, PumpInv, TypeOK
  <2>3. s \notin deleted /\ Follow(packageStorage[s], s, Popped(s))
    BY <1>2, <1>5 DEF PumpInv, Numbered, InLine
  <2>4. p \in Package /\ p.session = s /\ p.n = Popped(s) + 1 /\ Popped(s) \in Int
    BY <1>2, <1>5, <2>1, <2>3, LineTypes, FollowTail DEF PumpInv, IsPacket
  <2>5. OneInHand'
    <3> SUFFICES ASSUME NEW v \in Worker, NEW u \in Worker, v # u, whand'[v] # Null,
                        whand'[u] # Null, whand'[v].session = whand'[u].session
                 PROVE  whand'[v].session \in crossed'
      BY DEF OneInHand
    <3>1. CASE v # w /\ u # w
      BY <2>2, <3>1 DEF TurnsInv, OneInHand
    <3>2. CASE v = w
      BY <2>2, <2>4, <3>2 DEF AnotherHolds
    <3>3. CASE u = w
      BY <2>2, <2>4, <3>3 DEF AnotherHolds
    <3> QED BY <3>1, <3>2, <3>3
  <2>6. ASSUME s \notin crossed', NEW n \in 1..MaxPackets PROVE Given(s, n) <=> n < p.n
    <3>1. \A m : ~InHand(s, m)
      BY <1>2, <2>2, <2>6 DEF InHand, Holds, IsPacket, AnotherHolds
    <3>2. Given(s, n) <=> n <= Popped(s)
      BY <1>2, <2>3, <3>1 DEF PumpInv, Placed
    <3> QED BY <2>4, <3>2
  <2>7. NextInLine'
    <3>1. ASSUME NEW v \in Worker, NEW q, q = whand'[v], q # Null, q.session \notin crossed',
                 NEW n \in 1..MaxPackets
          PROVE  Given(q.session, n) <=> n < q.n
      <4>1. CASE v = w
        BY <2>2, <2>4, <2>6, <3>1, <4>1
      <4>2. CASE v # w
        BY <2>2, <3>1, <4>2 DEF TurnsInv, NextInLine
      <4> QED BY <4>1, <4>2
    <3>2. ASSUME NEW v \in Worker, NEW n \in 1..MaxPackets
          PROVE  (whand[v] # Null /\ whand[v].session \notin crossed =>
                    (Given(whand[v].session, n) <=> n < whand[v].n))'
      <4>1. PICK q : q = whand'[v]
        OBVIOUS
      <4>2. q # Null /\ q.session \notin crossed' => (Given(q.session, n)' <=> n < q.n)
        BY <1>3, <3>1, <4>1
      <4> QED BY <4>1, <4>2
    <3> QED BY <3>2 DEF NextInLine
  <2>8. InOrder'
    BY <1>3, <2>2 DEF TurnsInv, InOrder
  <2> QED BY <2>5, <2>7, <2>8
<1> QED BY <1>4, <1>5

LEMMA PutInOrder ==
  ASSUME PumpInv, TurnsInv, NEW w \in Worker, putPackage(w)
  PROVE  InOrder' /\ OneInHand' /\ NextInLine'
<1> USE DEF clientVars, workerVars, contentsVars, pastVars, Goto, At
<1>1. PICK p : p = whand[w]
  OBVIOUS
<1>2. p \in Package /\ p # Null
  BY <1>1 DEF putPackage, PumpInv, WorkersInv, TypeOK
<1>3. /\ whand'[w] = Null /\ packageQueue_' = Append(packageQueue_, p) /\ taken' = taken
      /\ crossed' = crossed /\ \A v \in Worker \ {w} : whand'[v] = whand[v]
  BY <1>1 DEF putPackage, PumpInv, TypeOK
<1>4. /\ DOMAIN given' = 1..(Len(given) + 1) /\ given'[Len(given) + 1] = p
      /\ \A i \in 1..Len(given) : given'[i] = given[i]
      /\ \A s, n : Given(s, n)' <=> Given(s, n) \/ IsPacket(p, s, n)
  BY <1>2, <1>3, GivenMore DEF PumpInv
<1>5. Len(given) \in Nat /\ DOMAIN given = 1..Len(given)
  BY GivenTypes DEF PumpInv
<1>6. ASSUME NEW i \in 1..(Len(given) + 1), NEW n \in 1..MaxPackets,
             given'[i].session \notin crossed
      PROVE  n < given'[i].n <=> \E j \in 1..(i - 1) : IsPacket(given'[j], given'[i].session, n)
  <2>1. CASE i \in 1..Len(given)
    <3>1. \A j \in 1..(i - 1) : given'[j] = given[j]
      BY <1>4, <1>5, <2>1
    <3>2. given'[i] = given[i]
      BY <1>4, <2>1
    <3>3. n < given[i].n <=> \E j \in 1..(i - 1) : IsPacket(given[j], given[i].session, n)
      BY <1>5, <1>6, <2>1, <3>2 DEF TurnsInv, InOrder
    <3> QED BY <3>1, <3>2, <3>3
  <2>2. CASE i = Len(given) + 1
    <3>1. i - 1 = Len(given) /\ given'[i] = p
      BY <1>4, <1>5, <2>2
    <3>2. n < p.n <=> Given(p.session, n)
      BY <1>1, <1>2, <1>6, <3>1 DEF TurnsInv, NextInLine
    <3>3. Given(p.session, n) <=> \E j \in 1..Len(given) : IsPacket(given'[j], p.session, n)
      BY <1>4, <1>5 DEF Given
    <3> QED BY <3>1, <3>2, <3>3
  <2> QED BY <1>5, <2>1, <2>2
<1>7. InOrder'
  BY <1>3, <1>4, <1>6 DEF InOrder
<1>8. OneInHand'
  BY <1>3 DEF TurnsInv, OneInHand
<1>9. NextInLine'
  <2>1. ASSUME NEW v \in Worker, NEW q, q = whand'[v], q # Null, q.session \notin crossed,
               NEW n \in 1..MaxPackets
        PROVE  Given(q.session, n)' <=> n < q.n
    <3>1. v # w /\ q = whand[v]
      BY <1>3, <2>1
    <3>2. q.session # p.session
      BY <1>1, <1>2, <2>1, <3>1 DEF TurnsInv, OneInHand
    <3>3. Given(q.session, n)' <=> Given(q.session, n)
      BY <1>4, <3>2 DEF IsPacket
    <3>4. Given(q.session, n) <=> n < q.n
      BY <2>1, <3>1 DEF TurnsInv, NextInLine
    <3> QED BY <3>3, <3>4
  <2>2. ASSUME NEW v \in Worker, NEW n \in 1..MaxPackets
        PROVE  (whand[v] # Null /\ whand[v].session \notin crossed =>
                  (Given(whand[v].session, n) <=> n < whand[v].n))'
    <3>1. PICK q : q = whand'[v]
      OBVIOUS
    <3>2. q # Null /\ q.session \notin crossed' => (Given(q.session, n)' <=> n < q.n)
      BY <1>3, <2>1, <3>1
    <3> QED BY <3>1, <3>2
  <2> QED BY <2>2 DEF NextInLine
<1> QED BY <1>7, <1>8, <1>9

LEMMA InOrderKeeps ==
  ASSUME PumpInv, TurnsInv, Next
  PROVE  InOrder' /\ OneInHand' /\ NextInLine'
<1> USE DEF clientVars, workerVars, contentsVars, pastVars
<1>1. ASSUME given' = given, whand' = whand, crossed' = crossed
      PROVE  InOrder' /\ OneInHand' /\ NextInLine'
  <2>1. \A s, n : Given(s, n)' <=> Given(s, n)
    BY <1>1 DEF Given
  <2> QED BY <1>1, <2>1 DEF TurnsInv, InOrder, OneInHand, NextInLine
<1>2. CASE Network
  <2>1. UNCHANGED <<taken, packageQueue_, whand, crossed>>
    BY <1>2 DEF Network, ClientSends, ClientHangsUp, ConnectionBreaks, RecvCompletes
  <2> QED BY <1>1, <2>1, GivenKept
<1>3. ASSUME NEW w \in Worker, workerThread(w) PROVE InOrder' /\ OneInHand' /\ NextInLine'
  <2>1. CASE ~PopPackage(w) /\ ~putPackage(w)
    <3>1. UNCHANGED <<taken, packageQueue_, whand, crossed>>
      BY <1>3, <2>1 DEF workerThread, GetQueuedCompletionStatus, IgnoresFailed, CloseByClient,
         onRecv, recvStandBy, IsEmpty, Crash
    <3> QED BY <1>1, <3>1, GivenKept
  <2> QED BY <2>1, PoppedInOrder, PutInOrder
<1>4. ASSUME NEW t \in setup.thread, execute(t) PROVE InOrder' /\ OneInHand' /\ NextInLine'
  <2>1. crossed' = crossed /\ whand' = whand
    BY <1>4, HandlersDelete, NoneMoves
  <2>2. given' = given
    BY <1>4, GivenPassedOn, GivenKept DEF execute, pop, run, PumpInv
  <2> QED BY <1>1, <2>1, <2>2
<1> QED BY <1>2, <1>3, <1>4, TurnsSteps

\* a single worker never meets another
LEMMA AloneKeeps == ASSUME PumpInv, TurnsInv, Next PROVE Alone'
<1> USE DEF clientVars, workerVars, contentsVars, pastVars
<1>1. /\ \A v \in Worker \ setup.worker : wpc[v] = "wait"
      /\ crossed # {} => \A v \in Worker : setup.worker # {v}
  BY DEF TurnsInv, Alone
<1>2. setup' = setup
  BY DEF Next
<1>3. CASE UNCHANGED <<wpc, crossed>>
  BY <1>1, <1>2, <1>3 DEF Alone
<1>4. ASSUME NEW w \in Worker, w \in setup.worker, workerThread(w) PROVE Alone'
  <2>1. \A v \in Worker \ setup.worker : wpc'[v] = "wait"
    BY <1>1, <1>4, OthersStay
  <2>2. CASE PopPackage(w)
    <3>1. PICK s : s = wsession[w]
      OBVIOUS
    <3>2. crossed' = crossed \/ AnotherHolds(w, s)
      BY <2>2, <3>1 DEF PopPackage, Crash
    <3>3. AnotherHolds(w, s) => \E v \in Worker \ {w} : wpc[v] # "wait"
      BY DEF AnotherHolds, PumpInv, WorkersInv
    <3>4. AnotherHolds(w, s) => \A v \in Worker : setup.worker # {v}
      BY <1>1, <1>4, <3>3
    <3> QED BY <1>1, <1>2, <2>1, <3>2, <3>4 DEF Alone
  <2>3. CASE ~PopPackage(w)
    <3>1. crossed' = crossed
      BY <1>4, <2>3 DEF workerThread, GetQueuedCompletionStatus, IgnoresFailed, CloseByClient,
         onRecv, recvStandBy, IsEmpty, putPackage, Crash
    <3> QED BY <1>1, <1>2, <2>1, <3>1 DEF Alone
  <2> QED BY <2>2, <2>3
<1>5. CASE Network
  <2>1. crossed' = crossed
    BY <1>5 DEF Network, ClientSends, ClientHangsUp, ConnectionBreaks, RecvCompletes
  <2> QED BY <1>3, <1>5, <2>1, NoneMoves
<1>6. ASSUME NEW t \in setup.thread, execute(t) PROVE Alone'
  BY <1>3, <1>6, HandlersDelete, NoneMoves
<1> QED BY <1>4, <1>5, <1>6, TurnsSteps

-----------------------------------------------------------------------------
LEMMA TurnsStart == ASSUME PumpInit PROVE TurnsInv
<1> USE DEF PumpInit
<1>1. given = <<>> /\ \A s, n : ~Given(s, n)
  BY DEF given, Given
<1>2. Tended /\ OwnHand /\ Serving /\ Closing /\ LeftInv /\ Alone
  BY DEF Tended, OwnHand, Serving, Serves, Closing, LeftInv, Alone
<1>3. InOrder /\ OneInHand /\ NextInLine
  BY <1>1 DEF InOrder, OneInHand, NextInLine
<1> QED BY <1>2, <1>3 DEF TurnsInv

LEMMA TurnsStep == ASSUME PumpInv, TurnsInv, [Next]_vars PROVE TurnsInv'
<1>1. CASE Next
  BY <1>1, TendedKeeps, OwnHandKeeps, ServingKeeps, ClosingKeeps, LeftIsHeard, InOrderKeeps,
     AloneKeeps DEF TurnsInv
<1>2. CASE UNCHANGED vars
  <2> USE DEF vars, pumpVars
  <2>1. given' = given /\ \A s, n : Given(s, n)' <=> Given(s, n)
    BY <1>2, GivenKept DEF Given
  <2>2. InOrder' /\ OneInHand' /\ NextInLine'
    BY <1>2, <2>1 DEF TurnsInv, InOrder, OneInHand, NextInLine
  <2>3. Tended' /\ OwnHand' /\ Serving' /\ Alone'
    BY <1>2 DEF TurnsInv, Tended, Drains, OwnHand, Serving, Serves, Alone
  <2>4. Closing' /\ LeftInv'
    BY <1>2, <2>1 DEF TurnsInv, Closing, LeftInv, Heard
  <2> QED BY <2>2, <2>3, <2>4 DEF TurnsInv
<1> QED BY <1>1, <1>2

LEMMA TurnsInvariant == Spec => []TurnsInv
<1>1. PumpInit => TurnsInv
  BY TurnsStart
<1>2. PumpInv /\ TurnsInv /\ [Next]_vars => TurnsInv'
  BY TurnsStep
<1> QED BY <1>1, <1>2, PumpInvariant, PTL DEF Spec

(***************************************************************************)
(* However many IO workers there are, the packages of a session are given  *)
(* to the contents threads in the order its client sent them, until two    *)
(* workers have had packages of this session in hand at once: a package    *)
(* popped while nobody else holds one is the next to be given.  With one   *)
(* worker that never happens.                                              *)
(***************************************************************************)
THEOREM PackagesKeepOrder == Spec => []OrderKept
<1>1. TurnsInv => OrderKept
  BY DEF TurnsInv, InOrder, Alone, OrderKept
<1> QED BY <1>1, TurnsInvariant, PTL

(***************************************************************************)
(* However many IO workers there are, a client that sends and hangs up is  *)
(* heard, unless another worker is still at its session when the           *)
(* completion without bytes is handled: that completion comes after the    *)
(* last packet, and whoever leaves a session leaves it drained or to       *)
(* another worker that is there.                                           *)
(***************************************************************************)
THEOREM HangUpIsHeard == Spec => []HangUpLosesNothing
<1>1. TurnsInv => HangUpLosesNothing
  BY DEF TurnsInv, LeftInv, HangUpLosesNothing
<1> QED BY <1>1, TurnsInvariant, PTL
-----------------------------------------------------------------------------
(***************************************************************************)
(* Induction over the natural numbers, for the set of those that have the  *)
(* property: a set that is not empty has a least number.                   *)
(***************************************************************************)
LEMMA LeastNumber ==
  ASSUME NEW T, T \subseteq Nat, T # {}
  PROVE  \E x \in T : \A y \in T : x <= y
<1> DEFINE R == OpToRel(<, Nat)
<1>1. IsWellFoundedOn(R, Nat)
  BY NatLessThanWellFounded
<1>2. \A x, y \in Nat : x < y => <<x, y>> \in R
  BY DEF OpToRel
<1> HIDE DEF R
<1>3. PICK x \in T : \A y \in T : ~(<<y, x>> \in R)
  BY <1>1, WFMin
<1>4. \A y \in T : ~(y < x)
  BY <1>2, <1>3
<1> QED BY <1>4

LEMMA Induction ==
  ASSUME NEW S, 0 \in S, \A n \in Nat : n \in S => n + 1 \in S
  PROVE  Nat \subseteq S
<1> SUFFICES ASSUME ~(Nat \subseteq S) PROVE FALSE
  OBVIOUS
<1> DEFINE T == {n \in Nat : n \notin S}
<1>1. T \subseteq Nat /\ T # {} /\ \A n \in Nat : n \in T <=> n \notin S
  OBVIOUS
<1> HIDE DEF T
<1>2. PICK x \in T : \A y \in T : x <= y
  BY <1>1, LeastNumber
<1>3. x - 1 \in Nat
  BY <1>1
<1>4. x - 1 \in S
  BY <1>1, <1>2, <1>3
<1> QED BY <1>1, <1>3, <1>4

(***************************************************************************)
(* A function on 0..n may be defined by its first value and its steps.     *)
(***************************************************************************)
Steps(next, n, A) == \A i \in 1..n : next[i] \in [A -> A]

Follows(f, a, next, n, A) ==
  /\ f \in [0..n -> A] /\ f[0] = a
  /\ \A i \in 1..n : f[i] = next[i][f[i - 1]]

LEMMA Recursion ==
  ASSUME NEW n \in Nat, NEW A, NEW a \in A, NEW next, Steps(next, n, A)
  PROVE  \E f : Follows(f, a, next, n, A)
<1> USE DEF Steps, Follows
<1> DEFINE Upto(k) == \E f \in [0..k -> A] : f[0] = a /\ \A i \in 1..k : f[i] = next[i][f[i - 1]]
           S == {k \in Nat : k <= n => Upto(k)}
<1>1. 0 \in S
  <2>1. Upto(0)
    <3> DEFINE f == [i \in 0..0 |-> a]
    <3>1. f \in [0..0 -> A] /\ f[0] = a /\ 1..0 = {}
      OBVIOUS
    <3> HIDE DEF f
    <3> QED BY <3>1
  <2> QED BY <2>1
<1>2. ASSUME NEW k \in Nat, k \in S PROVE k + 1 \in S
  <2> SUFFICES ASSUME k + 1 <= n PROVE Upto(k + 1)
    OBVIOUS
  <2>1. PICK f \in [0..k -> A] : f[0] = a /\ \A i \in 1..k : f[i] = next[i][f[i - 1]]
    BY <1>2
  <2> DEFINE g == [i \in 0..(k + 1) |-> IF i <= k THEN f[i] ELSE next[k + 1][f[k]]]
  <2>2. next[k + 1][f[k]] \in A
    BY <2>1
  <2>3. g \in [0..(k + 1) -> A] /\ g[k + 1] = next[k + 1][f[k]] /\ \A i \in 0..k : g[i] = f[i]
    BY <2>2
  <2> HIDE DEF g
  <2>4. \A i \in 1..(k + 1) : g[i] = next[i][g[i - 1]]
    <3> SUFFICES ASSUME NEW i \in 1..(k + 1) PROVE g[i] = next[i][g[i - 1]]
      OBVIOUS
    <3>1. CASE i = k + 1
      BY <2>3, <3>1
    <3>2. CASE i \in 1..k
      BY <2>1, <2>3, <3>2
    <3> QED BY <3>1, <3>2
  <2>5. g[0] = a
    BY <2>1, <2>3
  <2> QED BY <2>3, <2>4, <2>5
<1> HIDE DEF S
<1>3. Nat \subseteq S
  BY <1>1, <1>2, Induction
<1>4. n \in S
  BY <1>3
<1> QED BY <1>4 DEF S
-----------------------------------------------------------------------------
(***************************************************************************)
(* Bytes: the widths of the cells added up.                                *)
(***************************************************************************)
Sized(C) == \A c \in C : c.width \in Nat \ {0}

Adds(f, cells) ==
  /\ f \in [0..Len(cells) -> Nat] /\ f[0] = 0
  /\ \A i \in 1..Len(cells) : f[i] = f[i - 1] + cells[i].width

LEMMA SomeAdds ==
  ASSUME NEW C, Sized(C), NEW cells \in Seq(C)
  PROVE  \E f : Adds(f, cells)
<1> DEFINE next == [i \in 1..Len(cells) |-> [x \in Nat |-> x + cells[i].width]]
<1>1. \A i \in 1..Len(cells) : cells[i].width \in Nat
  BY DEF Sized
<1>2. \A i \in 1..Len(cells) : /\ next[i] \in [Nat -> Nat]
                               /\ \A x \in Nat : next[i][x] = x + cells[i].width
  BY <1>1
<1> HIDE DEF next
<1>3. PICK f : Follows(f, 0, next, Len(cells), Nat)
  <2>1. Len(cells) \in Nat /\ 0 \in Nat /\ Steps(next, Len(cells), Nat)
    BY <1>2 DEF Steps
  <2> QED BY <2>1, Recursion
<1>4. ASSUME NEW i \in 1..Len(cells) PROVE f[i] = f[i - 1] + cells[i].width
  <2>1. f[i - 1] \in Nat
    BY <1>3 DEF Follows
  <2> QED BY <1>2, <1>3, <2>1 DEF Follows
<1> QED BY <1>3, <1>4 DEF Adds, Follows

LEMMA BytesAre ==
  ASSUME NEW C, Sized(C), NEW cells \in Seq(C), NEW f, Adds(f, cells)
  PROVE  Bytes(cells) = f[Len(cells)]
<1> DEFINE n == Len(cells)
           Defines(h) == h = [i \in 0..n |-> IF i = 0 THEN 0 ELSE h[i - 1] + cells[i].width]
           g == CHOOSE h : Defines(h)
<1>1. Defines(f)
  BY DEF Adds
<1>2. Defines(g)
  BY <1>1
<1>3. Bytes(cells) = g[n]
  BY DEF Bytes
<1> HIDE DEF g
<1>4. n \in Nat /\ g[0] = 0 /\ \A i \in 1..n : g[i] = g[i - 1] + cells[i].width
  <2>1. g = [i \in 0..n |-> IF i = 0 THEN 0 ELSE g[i - 1] + cells[i].width]
    BY <1>2
  <2>2. n \in Nat
    OBVIOUS
  <2> HIDE DEF n, Defines
  <2>3. ASSUME NEW i \in 0..n PROVE g[i] = IF i = 0 THEN 0 ELSE g[i - 1] + cells[i].width
    BY <2>1, Zenon
  <2> QED BY <2>2, <2>3
<1> DEFINE S == {k \in Nat : k <= n => g[k] = f[k]}
<1>5. 0 \in S
  BY <1>4 DEF Adds
<1>6. ASSUME NEW k \in Nat, k \in S PROVE k + 1 \in S
  BY <1>4, <1>6 DEF Adds
<1> HIDE DEF S
<1>7. n \in S
  BY <1>4, <1>5, <1>6, Induction
<1> QED BY <1>3, <1>4, <1>7 DEF S

LEMMA BytesEmpty == Bytes(<<>>) = 0
<1> DEFINE f == [i \in 0..0 |-> 0]
<1>1. Adds(f, <<>>) /\ f[0] = 0
  BY DEF Adds
<1>2. Sized({}) /\ <<>> \in Seq({}) /\ Len(<<>>) = 0
  BY DEF Sized
<1> HIDE DEF f
<1> QED BY <1>1, <1>2, BytesAre

LEMMA BytesNat ==
  ASSUME NEW C, Sized(C), NEW cells \in Seq(C)
  PROVE  Bytes(cells) \in Nat
<1>1. PICK f : Adds(f, cells)
  BY SomeAdds
<1> QED BY <1>1, BytesAre DEF Adds

LEMMA BytesAppend ==
  ASSUME NEW C, Sized(C), NEW cells \in Seq(C), NEW c \in C
  PROVE  Bytes(Append(cells, c)) = Bytes(cells) + c.width
<1>1. PICK f : Adds(f, cells)
  BY SomeAdds
<1> DEFINE n == Len(cells)
           g == [i \in 0..(n + 1) |-> IF i <= n THEN f[i] ELSE f[n] + c.width]
<1>2. n \in Nat /\ c.width \in Nat /\ f[n] \in Nat /\ f[0] = 0
  BY <1>1 DEF Sized, Adds
<1>3. g \in [0..(n + 1) -> Nat] /\ g[n + 1] = f[n] + c.width /\ \A i \in 0..n : g[i] = f[i]
  BY <1>1, <1>2 DEF Adds
<1>4. Append(cells, c) \in Seq(C) /\ Len(Append(cells, c)) = n + 1
      /\ Append(cells, c)[n + 1] = c /\ \A i \in 1..n : Append(cells, c)[i] = cells[i]
  OBVIOUS
<1> HIDE DEF g
<1>5. Adds(g, Append(cells, c))
  <2>1. \A i \in 1..(n + 1) : g[i] = g[i - 1] + Append(cells, c)[i].width
    <3> SUFFICES ASSUME NEW i \in 1..(n + 1)
                 PROVE  g[i] = g[i - 1] + Append(cells, c)[i].width
      OBVIOUS
    <3>1. CASE i = n + 1
      <4> i - 1 = n /\ n \in 0..n
        BY <1>2, <3>1
      <4> QED BY <1>2, <1>3, <1>4, <3>1
    <3>2. CASE i \in 1..n
      <4>1. i \in 0..n /\ i - 1 \in 0..n
        BY <1>2, <3>2
      <4>2. f[i] = f[i - 1] + cells[i].width
        BY <1>1, <3>2 DEF Adds
      <4> QED BY <1>3, <1>4, <3>2, <4>1, <4>2
    <3> QED BY <1>2, <3>1, <3>2
  <2> QED BY <1>2, <1>3, <1>4, <2>1 DEF Adds
<1>6. Bytes(Append(cells, c)) = g[n + 1] /\ Bytes(cells) = f[n]
  BY <1>1, <1>4, <1>5, BytesAre
<1> QED BY <1>3, <1>6

LEMMA BytesConcat ==
  ASSUME NEW C, Sized(C), NEW a \in Seq(C), NEW b \in Seq(C)
  PROVE  Bytes(a \o b) = Bytes(a) + Bytes(b)
<1> DEFINE S == {n \in Nat : \A t \in Seq(C) : Len(t) = n => Bytes(a \o t) = Bytes(a) + Bytes(t)}
<1>1. 0 \in S
  <2> SUFFICES ASSUME NEW t \in Seq(C), Len(t) = 0 PROVE Bytes(a \o t) = Bytes(a) + Bytes(t)
    OBVIOUS
  <2>1. t = <<>> /\ a \o t = a
    BY EmptySeq, ConcatEmptySeq
  <2> QED BY <2>1, BytesEmpty, BytesNat
<1>2. ASSUME NEW n \in Nat, n \in S PROVE n + 1 \in S
  <2> SUFFICES ASSUME NEW t \in Seq(C), Len(t) = n + 1
               PROVE  Bytes(a \o t) = Bytes(a) + Bytes(t)
    OBVIOUS
  <2>1. t # <<>>
    OBVIOUS
  <2>2. PICK s \in Seq(C), c \in C : t = Append(s, c)
    BY <2>1, SequenceEmptyOrAppend
  <2>3. Len(s) = n
    BY <2>2
  <2>4. Bytes(a \o s) = Bytes(a) + Bytes(s)
    BY <1>2, <2>3
  <2>5. a \o t = Append(a \o s, c) /\ a \o s \in Seq(C)
    BY <2>2
  <2>6. Bytes(a \o t) = Bytes(a \o s) + c.width /\ Bytes(t) = Bytes(s) + c.width
    BY <2>2, <2>5, BytesAppend
  <2>7. Bytes(a) \in Nat /\ Bytes(s) \in Nat /\ c.width \in Nat
    BY BytesNat DEF Sized
  <2> QED BY <2>4, <2>6, <2>7
<1> HIDE DEF S
<1>3. Len(b) \in S
  BY <1>1, <1>2, Induction
<1> QED BY <1>3 DEF S

LEMMA BytesPositive ==
  ASSUME NEW C, Sized(C), NEW a \in Seq(C), a # <<>>
  PROVE  Bytes(a) > 0
<1>1. PICK s \in Seq(C), c \in C : a = Append(s, c)
  BY SequenceEmptyOrAppend
<1>2. Bytes(s) \in Nat /\ c.width \in Nat \ {0} /\ Bytes(a) = Bytes(s) + c.width
  BY <1>1, BytesNat, BytesAppend DEF Sized
<1> QED BY <1>2

(***************************************************************************)
(* Two ways to divide one sequence: the longer first part begins with the  *)
(* shorter.                                                                *)
(***************************************************************************)
LEMMA SplitAt ==
  ASSUME NEW C, NEW s \in Seq(C), NEW k \in 0..Len(s)
  PROVE  /\ SubSeq(s, 1, k) \in Seq(C) /\ SubSeq(s, k + 1, Len(s)) \in Seq(C)
         /\ Len(SubSeq(s, 1, k)) = k /\ Len(SubSeq(s, k + 1, Len(s))) = Len(s) - k
         /\ s = SubSeq(s, 1, k) \o SubSeq(s, k + 1, Len(s))
<1>1. Len(s) \in Nat /\ k \in Nat /\ k <= Len(s) /\ \A i \in 1..Len(s) : s[i] \in C
  OBVIOUS
<1>2. SubSeq(s, 1, k) \in Seq(C) /\ Len(SubSeq(s, 1, k)) = k
      /\ \A i \in 1..k : SubSeq(s, 1, k)[i] = s[i]
  BY <1>1
<1>3. SubSeq(s, k + 1, Len(s)) \in Seq(C) /\ Len(SubSeq(s, k + 1, Len(s))) = Len(s) - k
      /\ \A i \in 1..(Len(s) - k) : SubSeq(s, k + 1, Len(s))[i] = s[k + i]
  BY <1>1
<1>4. s = SubSeq(s, 1, k) \o SubSeq(s, k + 1, Len(s))
  <2> DEFINE p == SubSeq(s, 1, k)
             r == SubSeq(s, k + 1, Len(s))
             t == p \o r
  <2> HIDE DEF p, r
  <2>1. t \in Seq(C) /\ Len(t) = Len(s)
        /\ \A i \in 1..Len(s) : t[i] = IF i <= k THEN p[i] ELSE r[i - k]
    <3>1. p \in Seq(C) /\ r \in Seq(C) /\ Len(p) = k /\ Len(r) = Len(s) - k
      BY <1>2, <1>3 DEF p, r
    <3> QED BY <1>1, <3>1, ConcatProperties
  <2> HIDE DEF t
  <2>2. ASSUME NEW i \in 1..Len(s) PROVE t[i] = s[i]
    <3>1. CASE i <= k
      BY <1>1, <1>2, <2>1, <3>1 DEF p
    <3>2. CASE ~(i <= k)
      <4>1. i - k \in 1..(Len(s) - k) /\ k + (i - k) = i
        BY <1>1, <3>2
      <4> QED BY <1>3, <2>1, <3>2, <4>1 DEF r
    <3> QED BY <3>1, <3>2
  <2>3. t = s
    BY <2>1, <2>2, SeqEqual
  <2> QED BY <2>3 DEF t, p, r
<1> QED BY <1>2, <1>3, <1>4

TwoWays(C, a, b, c, d) == /\ a \in Seq(C) /\ b \in Seq(C) /\ c \in Seq(C) /\ d \in Seq(C)
                          /\ a \o b = c \o d

Rest(a, c) == SubSeq(a, Len(c) + 1, Len(a))

LEMMA Overlap ==
  ASSUME NEW C, NEW a, NEW b, NEW c, NEW d, TwoWays(C, a, b, c, d), Len(c) <= Len(a)
  PROVE  Rest(a, c) \in Seq(C) /\ a = c \o Rest(a, c) /\ d = Rest(a, c) \o b
<1> USE DEF TwoWays, Rest
<1> DEFINE v == Rest(a, c)
<1>1. Len(c) \in 0..Len(a)
  OBVIOUS
<1>2. v \in Seq(C) /\ a = SubSeq(a, 1, Len(c)) \o v /\ SubSeq(a, 1, Len(c)) \in Seq(C)
      /\ Len(SubSeq(a, 1, Len(c))) = Len(c)
  BY <1>1, SplitAt
<1>3. SubSeq(a, 1, Len(c)) = c
  <2>1. ASSUME NEW i \in 1..Len(c) PROVE SubSeq(a, 1, Len(c))[i] = c[i]
    <3>1. SubSeq(a, 1, Len(c))[i] = a[i]
      BY <1>1
    <3>2. a[i] = (a \o b)[i] /\ c[i] = (c \o d)[i]
      BY <1>1
    <3> QED BY <3>1, <3>2
  <2> QED BY <1>2, <2>1, SeqEqual
<1> HIDE DEF v
<1>4. a = c \o v
  BY <1>2, <1>3
<1>5. c \o (v \o b) = c \o d
  <2>1. (c \o v) \o b = c \o (v \o b)
    <3>1. c \in Seq(C) /\ v \in Seq(C) /\ b \in Seq(C)
      BY <1>2
    <3> HIDE DEF TwoWays, Rest
    <3> QED BY <3>1
  <2> QED BY <1>4, <2>1
<1>6. d = v \o b
  <2>1. v \o b \in Seq(C)
    BY <1>2
  <2> QED BY <1>5, <2>1, ConcatSimplifications
<1> QED BY <1>2, <1>4, <1>6 DEF v, Rest

\* what has as many bytes holds as many cells
LEMMA LongEnough ==
  ASSUME NEW C, Sized(C), NEW a, NEW b, NEW c, NEW d, TwoWays(C, a, b, c, d),
         Bytes(c) <= Bytes(a)
  PROVE  Rest(a, c) \in Seq(C) /\ a = c \o Rest(a, c) /\ d = Rest(a, c) \o b
<1>1. CASE Len(c) <= Len(a)
  BY <1>1, Overlap
<1>2. CASE ~(Len(c) <= Len(a))
  <2>1. Len(a) <= Len(c) /\ TwoWays(C, c, d, a, b)
    BY <1>2 DEF TwoWays
  <2> DEFINE v == Rest(c, a)
  <2>2. v \in Seq(C) /\ c = a \o v
    BY <2>1, Overlap
  <2> HIDE DEF v
  <2>3. v # <<>>
    BY <1>2, <2>2, ConcatEmptySeq DEF TwoWays
  <2>4. Bytes(c) = Bytes(a) + Bytes(v) /\ Bytes(v) > 0 /\ Bytes(a) \in Nat /\ Bytes(v) \in Nat
    <3> a \in Seq(C)
      BY DEF TwoWays
    <3> QED BY <2>2, <2>3, BytesConcat, BytesPositive, BytesNat
  <2> QED BY <2>4
<1> QED BY <1>1, <1>2
-----------------------------------------------------------------------------
(***************************************************************************)
(* Taking and dropping as many bytes as the first part has.                *)
(***************************************************************************)
LEMMA TakeExactly ==
  ASSUME NEW C, Sized(C), NEW a \in Seq(C), NEW b \in Seq(C)
  PROVE  TakeBytes(Bytes(a), a \o b) = a /\ DropBytes(Bytes(a), a \o b) = b
<1> DEFINE s == a \o b
           within == {i \in DOMAIN s : Bytes(SubSeq(s, 1, i)) <= Bytes(a)}
<1>1. s \in Seq(C) /\ Len(s) = Len(a) + Len(b) /\ DOMAIN s = 1..(Len(a) + Len(b))
  BY ConcatProperties
<1>2. ASSUME NEW i \in 1..(Len(a) + Len(b))
      PROVE  Bytes(SubSeq(s, 1, i)) <= Bytes(a) <=> i <= Len(a)
  <2> DEFINE p == SubSeq(s, 1, i)
             r == SubSeq(s, i + 1, Len(s))
  <2>1. p \in Seq(C) /\ r \in Seq(C) /\ Len(p) = i /\ a \o b = p \o r
    BY <1>1, SplitAt
  <2> HIDE DEF p, r, s
  <2>2. Bytes(p) \in Nat /\ Bytes(a) \in Nat
    BY <2>1, BytesNat
  <2>3. CASE i <= Len(a)
    <3> TwoWays(C, a, b, p, r) /\ Len(p) <= Len(a)
      BY <2>1, <2>3 DEF TwoWays
    <3> DEFINE v == Rest(a, p)
    <3>1. v \in Seq(C) /\ a = p \o v
      BY Overlap
    <3> HIDE DEF v
    <3>2. Bytes(a) = Bytes(p) + Bytes(v) /\ Bytes(v) \in Nat
      BY <2>1, <3>1, BytesConcat, BytesNat
    <3> QED BY <2>2, <2>3, <3>2 DEF p
  <2>4. CASE ~(i <= Len(a))
    <3>1. Len(a) <= Len(p) /\ Len(p) # Len(a)
      BY <2>1, <2>4
    <3> TwoWays(C, p, r, a, b)
      BY <2>1 DEF TwoWays
    <3> DEFINE v == Rest(p, a)
    <3>2. v \in Seq(C) /\ p = a \o v
      BY <3>1, Overlap
    <3> HIDE DEF v
    <3>3. v # <<>>
      BY <3>1, <3>2, ConcatEmptySeq
    <3>4. Bytes(p) = Bytes(a) + Bytes(v) /\ Bytes(v) > 0 /\ Bytes(v) \in Nat
      BY <3>2, <3>3, BytesConcat, BytesPositive, BytesNat
    <3> QED BY <2>2, <2>4, <3>4 DEF p
  <2> QED BY <2>3, <2>4
<1>0. s = a \o b
  OBVIOUS
<1> HIDE DEF s
<1>3. within = 1..Len(a)
  BY <1>1, <1>2
<1>4. Cardinality(within) = Len(a)
  <2>1. Len(a) \in Nat
    OBVIOUS
  <2>2. \A n \in Nat : Cardinality(1..n) = n
    BY FS_Interval
  <2>3. Cardinality(1..Len(a)) = Len(a)
    BY <2>1, <2>2
  <2> QED BY <1>3, <2>3
<1>5. TakeBytes(Bytes(a), s) = SubSeq(s, 1, Len(a))
  BY <1>4 DEF TakeBytes
<1>6. Len(a) \in 0..Len(s)
  BY <1>1
<1>7. SubSeq(s, 1, Len(a)) \in Seq(C) /\ Len(SubSeq(s, 1, Len(a))) = Len(a)
      /\ SubSeq(s, Len(a) + 1, Len(s)) \in Seq(C)
      /\ s = SubSeq(s, 1, Len(a)) \o SubSeq(s, Len(a) + 1, Len(s))
  BY <1>1, <1>6, SplitAt
<1>8. SubSeq(s, 1, Len(a)) = a /\ SubSeq(s, Len(a) + 1, Len(s)) = b
  <2> DEFINE p == SubSeq(s, 1, Len(a))
             r == SubSeq(s, Len(a) + 1, Len(s))
  <2>3. Len(p) = Len(a) /\ p \in Seq(C) /\ r \in Seq(C) /\ s = p \o r
    BY <1>7
  <2> HIDE DEF p, r
  <2>1. p \in Seq(C) /\ r \in Seq(C) /\ Len(a) <= Len(p) /\ Len(p) = Len(a) /\ p \o r = a \o b
    BY <1>0, <2>3
  <2> TwoWays(C, p, r, a, b)
    BY <2>1 DEF TwoWays
  <2> DEFINE v == Rest(p, a)
  <2>2. v \in Seq(C) /\ p = a \o v /\ b = v \o r
    BY <2>1, Overlap, SMTT(30)
  <2> HIDE DEF v
  <2>4. v = <<>>
    BY <2>1, <2>2
  <2>5. p = a /\ r = b
    BY <2>1, <2>2, <2>4, ConcatEmptySeq
  <2> QED BY <2>5 DEF p, r
<1> QED BY <1>5, <1>8 DEF s, DropBytes
-----------------------------------------------------------------------------
(***************************************************************************)
(* The packet classes: encode and decode name the same members.            *)
(***************************************************************************)
MemberNames == {"id_", "password_", "ip_", "port_", "name_", "clientId_", "oidAccountId_",
                "result_", "text_", "member_count", "Room_num", "x", "y", "room_Num",
                "User1_ID", "User2_ID", "room_num", "enemycount"}

Agrees(order) == order.encode \in Seq(MemberNames) /\ order.decode = order.encode

LEMMA ShortOrders ==
  /\ Agrees(Order(<<>>, <<>>))
  /\ \A a \in MemberNames : Agrees(Order(<<a>>, <<a>>))
  /\ \A a, b \in MemberNames : Agrees(Order(<<a, b>>, <<a, b>>))
  /\ \A a, b, c \in MemberNames : Agrees(Order(<<a, b, c>>, <<a, b, c>>))
<1>1. Agrees(Order(<<>>, <<>>))
  BY DEF Agrees, Order
<1>2. ASSUME NEW S, NEW a \in S, NEW b \in S, NEW c \in S
      PROVE  <<a>> \in Seq(S) /\ <<a, b>> \in Seq(S) /\ <<a, b, c>> \in Seq(S)
  OBVIOUS
<1> HIDE DEF MemberNames
<1> QED BY <1>1, <1>2 DEF Agrees, Order

LEMMA LoginAgrees == \A t \in DOMAIN LoginPackets : Agrees(LoginPackets[t])
<1>1. {"id_", "password_", "ip_", "port_", "name_", "clientId_",
        "oidAccountId_", "result_"} \subseteq MemberNames
  BY DEF MemberNames
<1>2. /\ Agrees(Order(<<>>, <<>>))
      /\ Agrees(Order(<<"id_", "password_">>, <<"id_", "password_">>))
      /\ Agrees(Order(<<"ip_", "port_", "name_">>, <<"ip_", "port_", "name_">>))
      /\ Agrees(Order(<<"clientId_", "id_", "password_">>, <<"clientId_", "id_", "password_">>))
      /\ Agrees(Order(<<"clientId_", "oidAccountId_", "result_">>,
                      <<"clientId_", "oidAccountId_", "result_">>))
  BY <1>1, ShortOrders
<1> QED BY <1>2 DEF LoginPackets

LEMMA ChattingAgrees == \A t \in DOMAIN ChattingPackets : Agrees(ChattingPackets[t])
<1>1. {"clientId_", "oidAccountId_", "name_", "result_", "text_"} \subseteq MemberNames
  BY DEF MemberNames
<1>2. /\ Agrees(Order(<<"clientId_", "oidAccountId_">>, <<"clientId_", "oidAccountId_">>))
      /\ Agrees(Order(<<"clientId_", "name_", "result_">>, <<"clientId_", "name_", "result_">>))
      /\ Agrees(Order(<<"name_">>, <<"name_">>))
      /\ Agrees(Order(<<"text_">>, <<"text_">>))
      /\ Agrees(Order(<<"name_", "text_">>, <<"name_", "text_">>))
  BY <1>1, ShortOrders
<1> QED BY <1>2 DEF ChattingPackets

LEMMA LobbyAgrees == \A t \in DOMAIN LobbyPackets : Agrees(LobbyPackets[t])
<1>1. {"member_count", "Room_num", "ip_", "port_", "x", "y", "room_Num",
        "User1_ID", "User2_ID"} \subseteq MemberNames
  BY DEF MemberNames
<1>2. /\ Agrees(Order(<<"member_count", "Room_num">>, <<"member_count", "Room_num">>))
      /\ Agrees(Order(<<"ip_", "port_">>, <<"ip_", "port_">>))
      /\ Agrees(Order(<<"Room_num", "x", "y">>, <<"Room_num", "x", "y">>))
      /\ Agrees(Order(<<"room_Num", "User1_ID", "User2_ID">>,
                      <<"room_Num", "User1_ID", "User2_ID">>))
  BY <1>1, ShortOrders
<1> QED BY <1>2 DEF LobbyPackets

LEMMA PlayAgrees == \A t \in DOMAIN PlayPackets : Agrees(PlayPackets[t])
<1>1. {"room_num", "x", "y", "enemycount"} \subseteq MemberNames
  BY DEF MemberNames
<1>2. /\ Agrees(Order(<<"room_num", "x", "y">>, <<"room_num", "x", "y">>))
      /\ Agrees(Order(<<"room_num", "x">>, <<"room_num", "x">>))
      /\ Agrees(Order(<<"x">>, <<"x">>))
      /\ Agrees(Order(<<"room_num", "enemycount">>, <<"room_num", "enemycount">>))
  BY <1>1, ShortOrders
<1> QED BY <1>2 DEF PlayPackets

LEMMA BossAgrees == \A t \in DOMAIN BossPackets : Agrees(BossPackets[t])
<1>1. {"room_num", "ip_", "port_", "member_count"} \subseteq MemberNames
  BY DEF MemberNames
<1>2. /\ Agrees(Order(<<"room_num">>, <<"room_num">>))
      /\ Agrees(Order(<<"room_num", "ip_", "port_">>, <<"room_num", "ip_", "port_">>))
      /\ Agrees(Order(<<"room_num", "member_count">>, <<"room_num", "member_count">>))
  BY <1>1, ShortOrders
<1> QED BY <1>2 DEF BossPackets

LEMMA EveryType ==
  ToSet(PacketTypes) \subseteq DOMAIN LoginPackets \cup DOMAIN ChattingPackets
                                 \cup DOMAIN LobbyPackets \cup DOMAIN PlayPackets
                                 \cup DOMAIN BossPackets
<1>1. DOMAIN PacketTypes = 1..37
  BY DEF PacketTypes
<1>2. ASSUME NEW i \in 1..37
      PROVE  PacketTypes[i] \in DOMAIN LoginPackets \cup DOMAIN ChattingPackets
                                 \cup DOMAIN LobbyPackets \cup DOMAIN PlayPackets
                                 \cup DOMAIN BossPackets
  BY DEF PacketTypes, LoginPackets, ChattingPackets, LobbyPackets, PlayPackets, BossPackets
<1> QED BY <1>1, <1>2 DEF ToSet

LEMMA MembersAgree ==
  ASSUME NEW t \in ToSet(PacketTypes)
  PROVE  Agrees(Members(t))
  BY EveryType, LoginAgrees, ChattingAgrees, LobbyAgrees, PlayAgrees, BossAgrees
     DEF Members, AllPackets

\* TypeId counts the enumeration, and getPacket undoes it
LEMMA TypeIdIs ==
  ASSUME NEW t \in ToSet(PacketTypes)
  PROVE  /\ TypeId(t) \in Nat
         /\ t # "S_NOTIFY_SERVER_IP" => getPacket(TypeId(t)) = t
         /\ t = "S_NOTIFY_SERVER_IP" => getPacket(TypeId(t)) = NoPacketType
<1>1. DOMAIN PacketTypes = 1..37
  BY DEF PacketTypes
<1>2. PICK i \in DOMAIN PacketTypes : PacketTypes[i] = t
  BY DEF ToSet
<1> DEFINE k == CHOOSE j \in DOMAIN PacketTypes : PacketTypes[j] = t
<1>3. k \in 1..37 /\ PacketTypes[k] = t
  BY <1>1, <1>2
<1>4. TypeId(t) = 127 + k
  BY DEF TypeId
<1> HIDE DEF k
<1>5. TypeId(t) \in Nat /\ TypeId(t) - 127 = k
  BY <1>3, <1>4
<1> QED BY <1>1, <1>3, <1>5 DEF getPacket

LEMMA TypesKnown == NoPacketType \notin ToSet(PacketTypes)
<1>1. DOMAIN PacketTypes = 1..37
  BY DEF PacketTypes
<1>2. ASSUME NEW i \in 1..37 PROVE PacketTypes[i] # NoPacketType
  BY DEF PacketTypes, NoPacketType
<1> QED BY <1>1, <1>2 DEF ToSet
-----------------------------------------------------------------------------
(***************************************************************************)
(* What encode() writes: the type, then the cells of each member.  Nothing *)
(* written can be taken for the length of a packet.                        *)
(***************************************************************************)
OrderOf(p) == Members(p.type).encode

TypeCell(p) == Cell("int", 8, TypeId(p.type))

CellsIn(p) == {TypeCell(p)} \cup UNION {ToSet(CellsOf(m, p.body[m])) : m \in ToSet(OrderOf(p))}

\* what operator << writes of one member
LEMMA CellsOfAre ==
  ASSUME NEW m, NEW v
  PROVE  /\ m \in Strings /\ v.len = 0 => CellsOf(m, v) = <<Cell("int", 4, v.len)>>
         /\ m \in Strings /\ v.len # 0 =>
              CellsOf(m, v) = <<Cell("int", 4, v.len), Cell("chars", v.len, v)>>
         /\ m \in {"x", "y"} => CellsOf(m, v) = <<Cell("float", 4, v)>>
         /\ m \notin Strings \cup {"x", "y"} => CellsOf(m, v) = <<Cell("int", Width(m), v)>>
<1>1. ASSUME NEW a, NEW b PROVE <<a>> \o <<b>> = <<a, b>> /\ <<a>> \o <<>> = <<a>>
  <2> DEFINE S == {a, b}
  <2>1. <<a>> \in Seq(S) /\ <<b>> \in Seq(S) /\ <<a, b>> \in Seq(S)
    OBVIOUS
  <2>2. <<a>> \o <<>> = <<a>>
    BY <2>1, ConcatEmptySeq
  <2>3. /\ <<a>> \o <<b>> \in Seq(S) /\ Len(<<a>> \o <<b>>) = 2
        /\ (<<a>> \o <<b>>)[1] = a /\ (<<a>> \o <<b>>)[2] = b
    BY <2>1
  <2>4. \A i \in 1..2 : (<<a>> \o <<b>>)[i] = <<a, b>>[i]
    BY <2>3
  <2>5. Len(<<a, b>>) = 2
    OBVIOUS
  <2> HIDE DEF S
  <2>6. <<a>> \o <<b>> = <<a, b>>
    BY <2>1, <2>3, <2>4, <2>5, SeqEqual
  <2> QED BY <2>2, <2>6
<1>2. m \in Strings => m \notin {"x", "y"}
  BY DEF Strings
<1> QED BY <1>1, <1>2 DEF CellsOf

LEMMA WidthIs ==
  ASSUME NEW m
  PROVE  (Width(m) \in {1, 4, 8} \/ m \in Strings) /\ (m \in {"x", "y"} => Width(m) = 4)
<1>1. CASE m = "result_"
  BY <1>1 DEF Width, Strings
<1>2. CASE m \in {"port_", "x", "y"}
  BY <1>2 DEF Width, Strings
<1>3. CASE m \notin Strings \cup {"result_", "port_", "x", "y"}
  BY <1>3 DEF Width
<1>4. CASE m \in Strings
  BY <1>4 DEF Strings
<1> QED BY <1>1, <1>2, <1>3, <1>4

\* every cell has bytes, and none is taken for the length of a packet
Plain(c) == c.width \in Nat \ {0} /\ c.kind # "length"

LEMMA PlainCells ==
  /\ \A k, v : \A w \in Nat \ {0} : k # "length" => Plain(Cell(k, w, v))
  /\ \A k, w, v : Cell(k, w, v).kind = k /\ Cell(k, w, v).width = w /\ Cell(k, w, v).value = v
  BY DEF Plain, Cell

LEMMA MemberCells ==
  ASSUME NEW m, NEW v, m \in Strings => Text(v)
  PROVE  /\ CellsOf(m, v) \in Seq(ToSet(CellsOf(m, v)))
         /\ \A c \in ToSet(CellsOf(m, v)) : Plain(c)
<1>1. ASSUME NEW a, Plain(a)
      PROVE  <<a>> \in Seq(ToSet(<<a>>)) /\ \A c \in ToSet(<<a>>) : Plain(c)
  BY <1>1 DEF ToSet
<1>2. ASSUME NEW a, Plain(a), NEW b, Plain(b)
      PROVE  <<a, b>> \in Seq(ToSet(<<a, b>>)) /\ \A c \in ToSet(<<a, b>>) : Plain(c)
  BY <1>2 DEF ToSet
<1>3. CASE m \in Strings /\ v.len = 0
  <2>1. Plain(Cell("int", 4, v.len))
    BY PlainCells
  <2> QED BY <1>1, <1>3, <2>1, CellsOfAre
<1>4. CASE m \in Strings /\ v.len # 0
  <2>1. v.len \in Nat \ {0}
    BY <1>4 DEF Text
  <2>2. Plain(Cell("int", 4, v.len)) /\ Plain(Cell("chars", v.len, v))
    BY <2>1, PlainCells
  <2> QED BY <1>2, <1>4, <2>2, CellsOfAre
<1>5. CASE m \in {"x", "y"}
  <2>1. Plain(Cell("float", 4, v))
    BY PlainCells
  <2> QED BY <1>1, <1>5, <2>1, CellsOfAre
<1>6. CASE m \notin Strings \cup {"x", "y"}
  <2>1. Width(m) \in Nat \ {0}
    BY <1>6, WidthIs
  <2>2. Plain(Cell("int", Width(m), v))
    BY <2>1, PlainCells
  <2> QED BY <1>1, <1>6, <2>2, CellsOfAre
<1> QED BY <1>3, <1>4, <1>5, <1>6

LEMMA OrderIs ==
  ASSUME NEW p, WellFormed(p)
  PROVE  /\ OrderOf(p) \in Seq(MemberNames) /\ Members(p.type).decode = OrderOf(p)
         /\ ToSet(OrderOf(p)) = {OrderOf(p)[i] : i \in 1..Len(OrderOf(p))}
         /\ \A m \in ToSet(OrderOf(p)) : m \in Strings => Text(p.body[m])
<1>1. p.type \in ToSet(PacketTypes)
  BY DEF WellFormed
<1>2. Agrees(Members(p.type))
  BY <1>1, MembersAgree
<1>3. OrderOf(p) \in Seq(MemberNames) /\ Members(p.type).decode = OrderOf(p)
  BY <1>2 DEF Agrees, OrderOf
<1>4. ToSet(OrderOf(p)) = {OrderOf(p)[i] : i \in 1..Len(OrderOf(p))}
  BY <1>3 DEF ToSet
<1>5. \A m \in ToSet(OrderOf(p)) : m \in Strings => Text(p.body[m])
  BY DEF WellFormed, OrderOf
<1> QED BY <1>3, <1>4, <1>5

LEMMA CellsInPlain ==
  ASSUME NEW p, WellFormed(p)
  PROVE  Sized(CellsIn(p)) /\ \A c \in CellsIn(p) : c.kind # "length"
<1>1. Plain(TypeCell(p))
  BY PlainCells DEF TypeCell
<1>2. ASSUME NEW m \in ToSet(OrderOf(p)) PROVE \A c \in ToSet(CellsOf(m, p.body[m])) : Plain(c)
  BY OrderIs, MemberCells
<1>3. \A c \in CellsIn(p) : Plain(c)
  BY <1>1, <1>2 DEF CellsIn
<1> QED BY <1>3 DEF Sized, Plain

Writes(g, p) ==
  /\ g \in [0..Len(OrderOf(p)) -> Seq(CellsIn(p))] /\ g[0] = <<TypeCell(p)>>
  /\ \A i \in 1..Len(OrderOf(p)) : g[i] = g[i - 1] \o CellsOf(OrderOf(p)[i], p.body[OrderOf(p)[i]])

\* Written member by member
LEMMA WrittenIs ==
  ASSUME NEW p, WellFormed(p)
  PROVE  \E g : Writes(g, p) /\ Written(p) = g[Len(OrderOf(p))]
<1> DEFINE order == OrderOf(p)
           n == Len(order)
           C == CellsIn(p)
           cells(i) == CellsOf(order[i], p.body[order[i]])
           next == [i \in 1..n |-> [s \in Seq(C) |-> s \o cells(i)]]
           Defines(h) ==
             h = [i \in 0..n |-> IF i = 0 THEN <<TypeCell(p)>> ELSE h[i - 1] \o cells(i)]
           g == CHOOSE h : Defines(h)
<1>1. n \in Nat
  BY OrderIs
<1>2. <<TypeCell(p)>> \in Seq(C)
  BY DEF CellsIn
<1>3. ASSUME NEW i \in 1..n PROVE cells(i) \in Seq(C)
  <2>1. order[i] \in ToSet(order) /\ (order[i] \in Strings => Text(p.body[order[i]]))
    BY OrderIs
  <2>2. cells(i) \in Seq(ToSet(cells(i))) /\ ToSet(cells(i)) \subseteq C
    BY <2>1, MemberCells DEF CellsIn
  <2> HIDE DEF cells, C
  <2> QED BY <2>2, SeqMonotonic
<1> HIDE DEF cells, C, n
<1>4. /\ Steps(next, n, Seq(C))
      /\ \A i \in 1..n : \A s \in Seq(C) : next[i][s] = s \o cells(i)
  BY <1>3 DEF Steps
<1> HIDE DEF next
<1>5. PICK f : Follows(f, <<TypeCell(p)>>, next, n, Seq(C))
  BY <1>1, <1>2, <1>4, Recursion
<1>6. Defines(f)
  <2>1. f = [i \in 0..n |-> f[i]] /\ f[0] = <<TypeCell(p)>>
    BY <1>5 DEF Follows
  <2>2. ASSUME NEW i \in 1..n PROVE f[i] = f[i - 1] \o cells(i)
    <3>1. i \in Nat /\ i - 1 \in 0..n
      BY <1>1
    <3>2. f[i - 1] \in Seq(C) /\ f[i] = next[i][f[i - 1]]
      BY <1>5, <3>1 DEF Follows
    <3> QED BY <1>4, <3>2
  <2>3. \A i \in 0..n : f[i] = IF i = 0 THEN <<TypeCell(p)>> ELSE f[i - 1] \o cells(i)
    <3>1. \A i \in 0..n : i = 0 \/ i \in 1..n
      BY <1>1
    <3> HIDE DEF cells
    <3> QED BY <2>1, <2>2, <3>1, Zenon
  <2> QED BY <2>1, <2>3
<1>7. Defines(g)
  BY <1>6
<1>8. Written(p) = g[n]
  BY DEF Written, cells, n, OrderOf, TypeCell
<1> HIDE DEF g
<1>9. /\ g = [i \in 0..n |-> g[i]] /\ g[0] = <<TypeCell(p)>>
      /\ \A i \in 1..n : g[i] = g[i - 1] \o cells(i)
  <2>1. g = [i \in 0..n |-> IF i = 0 THEN <<TypeCell(p)>> ELSE g[i - 1] \o cells(i)]
    BY <1>7
  <2> HIDE DEF Defines
  <2>2. ASSUME NEW i \in 0..n
        PROVE  g[i] = IF i = 0 THEN <<TypeCell(p)>> ELSE g[i - 1] \o cells(i)
    BY <2>1, Zenon
  <2>3. g = [i \in 0..n |-> g[i]]
    BY <2>1, <2>2
  <2>4. 0 \in 0..n /\ \A i \in 1..n : i \in 0..n /\ i # 0
    BY <1>1
  <2> QED BY <2>2, <2>3, <2>4, Zenon
<1> DEFINE S == {k \in Nat : k <= n => g[k] \in Seq(C)}
<1>10. 0 \in S
  BY <1>2, <1>9
<1>11. ASSUME NEW k \in Nat, k \in S PROVE k + 1 \in S
  <2> SUFFICES ASSUME k + 1 <= n PROVE g[k + 1] \in Seq(C)
    OBVIOUS
  <2>1. k + 1 \in 1..n /\ (k + 1) - 1 = k /\ k <= n
    BY <1>1
  <2>2. g[k] \in Seq(C) /\ cells(k + 1) \in Seq(C) /\ g[k + 1] = g[k] \o cells(k + 1)
    BY <1>3, <1>9, <1>11, <2>1
  <2> QED BY <2>2, ConcatProperties
<1> HIDE DEF S
<1>12. \A k \in 0..n : g[k] \in Seq(C)
  <2>1. Nat \subseteq S
    BY <1>10, <1>11, Induction
  <2> QED BY <1>1, <2>1 DEF S
<1>13. Writes(g, p)
  BY <1>9, <1>12 DEF Writes, n, C, cells
<1> QED BY <1>8, <1>13 DEF n

\* what has been written so far begins what is written in the end
Begins(a, c) == Len(c) <= Len(a) /\ \A j \in 1..Len(c) : a[j] = c[j]

LEMMA BeginsConcat ==
  ASSUME NEW C, NEW a \in Seq(C), NEW b \in Seq(C), NEW c \in Seq(C), Begins(a, c)
  PROVE  Begins(a \o b, c)
<1>1. /\ a \o b \in Seq(C) /\ Len(a \o b) = Len(a) + Len(b)
      /\ Len(a) \in Nat /\ Len(b) \in Nat /\ Len(c) \in Nat
      /\ \A j \in 1..Len(a) : (a \o b)[j] = a[j]
  BY ConcatProperties
<1> HIDE DEF Begins
<1>2. Len(c) <= Len(a) /\ \A j \in 1..Len(c) : a[j] = c[j]
  BY DEF Begins
<1>3. \A j \in 1..Len(c) : j \in 1..Len(a)
  BY <1>1, <1>2
<1>4. \A j \in 1..Len(c) : (a \o b)[j] = c[j]
  BY <1>1, <1>2, <1>3, Zenon
<1>5. Len(c) <= Len(a \o b)
  BY <1>1, <1>2
<1> QED BY <1>4, <1>5 DEF Begins

LEMMA CellsSeq ==
  ASSUME NEW p, WellFormed(p), NEW i \in 1..Len(OrderOf(p))
  PROVE  CellsOf(OrderOf(p)[i], p.body[OrderOf(p)[i]]) \in Seq(CellsIn(p))
<1> DEFINE order == OrderOf(p)
           cells == CellsOf(order[i], p.body[order[i]])
<1>1. order[i] \in ToSet(order) /\ (order[i] \in Strings => Text(p.body[order[i]]))
  BY OrderIs
<1>2. cells \in Seq(ToSet(cells)) /\ ToSet(cells) \subseteq CellsIn(p)
  BY <1>1, MemberCells DEF CellsIn
<1> HIDE DEF cells
<1> QED BY <1>2, SeqMonotonic DEF cells

LEMMA Begun ==
  ASSUME NEW p, WellFormed(p), NEW g, Writes(g, p), NEW i \in 0..Len(OrderOf(p))
  PROVE  /\ Begins(g[Len(OrderOf(p))], g[i])
         /\ g[i] \in Seq(CellsIn(p)) /\ Len(g[i]) \in Nat \ {0} /\ g[i][1] = TypeCell(p)
<1> DEFINE order == OrderOf(p)
           n == Len(order)
           C == CellsIn(p)
           cells(k) == CellsOf(order[k], p.body[order[k]])
           S(b) == {k \in Nat : b + k <= n => Begins(g[b + k], g[b])}
<1>1. /\ n \in Nat /\ g[0] = <<TypeCell(p)>>
      /\ \A k \in 0..n : g[k] \in Seq(C)
      /\ \A k \in 1..n : g[k] = g[k - 1] \o cells(k)
  <2>1. n \in Nat
    BY OrderIs
  <2>2. g \in [0..n -> Seq(C)]
    BY DEF Writes
  <2>3. g[0] = <<TypeCell(p)>> /\ \A k \in 1..n : g[k] = g[k - 1] \o cells(k)
    BY DEF Writes
  <2> HIDE DEF n, C, cells
  <2> QED BY <2>1, <2>2, <2>3
<1>2. \A k \in 1..n : cells(k) \in Seq(C)
  BY CellsSeq
<1> HIDE DEF n, C, cells
<1>3. ASSUME NEW b \in 0..n PROVE Nat \subseteq S(b)
  <2>1. 0 \in S(b)
    <3>1. b + 0 = b /\ Len(g[b]) \in Nat
      BY <1>1
    <3> QED BY <3>1 DEF Begins
  <2>2. ASSUME NEW k \in Nat, k \in S(b) PROVE k + 1 \in S(b)
    <3> SUFFICES ASSUME b + (k + 1) <= n PROVE Begins(g[b + (k + 1)], g[b])
      OBVIOUS
    <3>1. b + (k + 1) \in 1..n /\ (b + (k + 1)) - 1 = b + k /\ b + k \in 0..n
      BY <1>1
    <3>2. /\ g[b + (k + 1)] = g[b + k] \o cells(b + (k + 1)) /\ Begins(g[b + k], g[b])
          /\ g[b + k] \in Seq(C) /\ cells(b + (k + 1)) \in Seq(C) /\ g[b] \in Seq(C)
      <4>1. b + k <= n
        BY <1>1
      <4>2. Begins(g[b + k], g[b])
        BY <2>2, <4>1
      <4> HIDE DEF S
      <4> QED BY <1>1, <1>2, <3>1, <4>2
    <3> QED BY <3>2, BeginsConcat
  <2> HIDE DEF S
  <2> QED BY <2>1, <2>2, Induction
<1>4. ASSUME NEW b \in 0..n, NEW c \in 0..n, b <= c PROVE Begins(g[c], g[b])
  <2>1. c - b \in Nat /\ b + (c - b) = c
    BY <1>1, <1>4
  <2>2. c - b \in S(b)
    BY <1>3, <2>1
  <2> QED BY <1>1, <2>1, <2>2
<1> HIDE DEF S
<1>5. Begins(g[n], g[i]) /\ Begins(g[i], <<TypeCell(p)>>) /\ i \in 0..n
  <2>1. i \in 0..n /\ 0 \in 0..n /\ n \in 0..n /\ 0 <= i /\ i <= n
    BY <1>1 DEF n
  <2> QED BY <1>1, <1>4, <2>1
<1>6. g[i] \in Seq(C) /\ Len(g[i]) \in Nat
  BY <1>1, <1>5
<1>7. Len(g[i]) \in Nat \ {0} /\ g[i][1] = TypeCell(p)
  BY <1>5, <1>6 DEF Begins
<1> QED BY <1>5, <1>6, <1>7 DEF n, C

\* first the type, in a cell of its own
LEMMA WrittenSound ==
  ASSUME NEW p, WellFormed(p)
  PROVE  /\ Written(p) \in Seq(CellsIn(p)) /\ Len(Written(p)) \in Nat \ {0}
         /\ Written(p)[1] = TypeCell(p) /\ Bytes(Written(p)) \in Nat
<1>1. PICK g : Writes(g, p) /\ Written(p) = g[Len(OrderOf(p))]
  BY WrittenIs
<1>2. Len(OrderOf(p)) \in 0..Len(OrderOf(p))
  BY OrderIs
<1>3. /\ Written(p) \in Seq(CellsIn(p)) /\ Len(Written(p)) \in Nat \ {0}
      /\ Written(p)[1] = TypeCell(p)
  BY <1>1, <1>2, Begun
<1> QED BY <1>3, CellsInPlain, BytesNat

\* one cell more
LEMMA FirstCells ==
  ASSUME NEW C, Sized(C), NEW s \in Seq(C), NEW i \in 1..Len(s)
  PROVE  /\ SubSeq(s, 1, i) = Append(SubSeq(s, 1, i - 1), s[i])
         /\ SubSeq(s, 1, i - 1) \in Seq(C) /\ s[i] \in C
         /\ Bytes(SubSeq(s, 1, i)) = Bytes(SubSeq(s, 1, i - 1)) + s[i].width
         /\ Bytes(SubSeq(s, 1, i)) <= Bytes(s)
<1>1. i \in Nat /\ i \in 0..Len(s) /\ i - 1 \in 0..Len(s) /\ Len(s) \in Nat /\ s[i] \in C
  OBVIOUS
<1> DEFINE a == SubSeq(s, 1, i - 1)
           b == SubSeq(s, 1, i)
           r == SubSeq(s, i + 1, Len(s))
<1>2. a \in Seq(C) /\ b \in Seq(C) /\ r \in Seq(C) /\ s = b \o r /\ Len(a) = i - 1 /\ Len(b) = i
  <2>1. b \in Seq(C) /\ r \in Seq(C) /\ s = b \o r /\ Len(b) = i
    BY <1>1, SplitAt
  <2>2. a \in Seq(C) /\ Len(a) = i - 1
    BY <1>1, SplitAt
  <2> QED BY <2>1, <2>2
<1>3. \A j \in 1..i : b[j] = s[j] /\ (j <= i - 1 => a[j] = s[j])
  BY <1>1
<1> HIDE DEF a, b, r
<1>4. b = Append(a, s[i])
  <2>1. Append(a, s[i]) \in Seq(C) /\ Len(Append(a, s[i])) = i
    BY <1>1, <1>2
  <2>2. ASSUME NEW j \in 1..i PROVE Append(a, s[i])[j] = b[j]
    <3>1. CASE j = i
      <4>1. Len(a) + 1 = i /\ Append(a, s[i])[Len(a) + 1] = s[i]
        BY <1>1, <1>2
      <4>2. b[i] = s[i]
        BY <1>3
      <4> QED BY <3>1, <4>1, <4>2
    <3>2. CASE j \in 1..(i - 1)
      <4>1. Append(a, s[i])[j] = a[j] /\ a[j] = s[j] /\ b[j] = s[j]
        BY <1>1, <1>2, <1>3, <3>2
      <4> QED BY <4>1
    <3>3. j = i \/ j \in 1..(i - 1)
      BY <1>1
    <3> QED BY <3>1, <3>2, <3>3, Zenon
  <2> QED BY <1>2, <2>1, <2>2, SeqEqual
<1>5. Bytes(b) = Bytes(a) + s[i].width
  BY <1>1, <1>2, <1>4, BytesAppend
<1>6. Bytes(s) = Bytes(b) + Bytes(r) /\ Bytes(b) \in Nat /\ Bytes(r) \in Nat
  BY <1>2, BytesConcat, BytesNat
<1>7. Bytes(b) <= Bytes(s)
  BY <1>6
<1> QED BY <1>1, <1>2, <1>4, <1>5, <1>7 DEF a, b

\* checkWriteBound skips nothing of a packet that fits a Stream
LEMMA EncodeIs ==
  ASSUME NEW p, WellFormed(p)
  PROVE  Encode(p) = Written(p)
<1> DEFINE cells == Written(p)
           n == Len(cells)
           C == CellsIn(p)
           Defines(h) == h = [i \in 0..n |-> IF i = 0 THEN <<>> ELSE Write(h[i - 1], cells[i])]
           g == CHOOSE h : Defines(h)
           f == [i \in 0..n |-> SubSeq(cells, 1, i)]
<1>1. cells \in Seq(C) /\ n \in Nat /\ Sized(C) /\ Bytes(cells) <= SocketBufSize
  BY WrittenSound, CellsInPlain DEF WellFormed
<1>2. Encode(p) = g[n]
  BY DEF Encode
<1> HIDE DEF cells, C
<1>3. SubSeq(cells, 1, 0) = <<>> /\ SubSeq(cells, 1, n) = cells
  BY <1>1
<1>4. ASSUME NEW i \in 1..n PROVE Write(SubSeq(cells, 1, i - 1), cells[i]) = SubSeq(cells, 1, i)
  <2> DEFINE a == SubSeq(cells, 1, i - 1)
             b == SubSeq(cells, 1, i)
  <2>1. /\ b = Append(a, cells[i]) /\ a \in Seq(C) /\ cells[i] \in C
        /\ Bytes(b) = Bytes(a) + cells[i].width /\ Bytes(b) <= Bytes(cells)
    BY <1>1, FirstCells
  <2>2. Bytes(a) \in Nat /\ cells[i].width \in Nat /\ Bytes(cells) \in Nat /\ SocketBufSize \in Nat
    BY <1>1, <2>1, BytesNat, CodecConstants DEF Sized
  <2> HIDE DEF a, b
  <2>3. cells[i].width <= SocketBufSize - Bytes(a)
    BY <1>1, <2>1, <2>2
  <2>4. Write(a, cells[i]) = b
    BY <2>1, <2>3 DEF Write
  <2> QED BY <2>4 DEF a, b
<1>5. Defines(f)
  <2>1. f[0] = <<>> /\ \A i \in 0..n : f[i] = SubSeq(cells, 1, i)
    BY <1>1, <1>3
  <2>2. \A i \in 1..n : i - 1 \in 0..n /\ i \in 0..n /\ i # 0
    BY <1>1
  <2>3. \A i \in 1..n : f[i] = Write(f[i - 1], cells[i])
    BY <1>4, <2>1, <2>2, Zenon
  <2>4. \A i \in 0..n : i = 0 \/ i \in 1..n
    BY <1>1
  <2>5. f = [i \in 0..n |-> f[i]]
    OBVIOUS
  <2> HIDE DEF f
  <2>6. \A i \in 0..n : f[i] = IF i = 0 THEN <<>> ELSE Write(f[i - 1], cells[i])
    BY <2>1, <2>2, <2>3, <2>4, Zenon
  <2> QED BY <2>5, <2>6, Zenon
<1>6. Defines(g)
  BY <1>5
<1> HIDE DEF g, f
<1>7. g[0] = <<>> /\ \A i \in 1..n : g[i] = Write(g[i - 1], cells[i])
  <2>1. g = [i \in 0..n |-> IF i = 0 THEN <<>> ELSE Write(g[i - 1], cells[i])]
    BY <1>6
  <2> HIDE DEF Defines
  <2>2. ASSUME NEW i \in 0..n
        PROVE  g[i] = IF i = 0 THEN <<>> ELSE Write(g[i - 1], cells[i])
    BY <2>1, Zenon
  <2>3. 0 \in 0..n /\ \A i \in 1..n : i \in 0..n /\ i # 0
    BY <1>1
  <2> QED BY <2>2, <2>3, Zenon
<1> DEFINE S == {k \in Nat : k <= n => g[k] = SubSeq(cells, 1, k)}
<1> HIDE DEF n
<1>8. 0 \in S
  BY <1>3, <1>7
<1>9. ASSUME NEW k \in Nat, k \in S PROVE k + 1 \in S
  <2> SUFFICES ASSUME k + 1 <= n PROVE g[k + 1] = SubSeq(cells, 1, k + 1)
    OBVIOUS
  <2>1. k + 1 \in 1..n /\ (k + 1) - 1 = k /\ k <= n
    BY <1>1
  <2>2. g[k] = SubSeq(cells, 1, k) /\ g[k + 1] = Write(g[k], cells[k + 1])
    BY <1>7, <1>9, <2>1
  <2>3. Write(SubSeq(cells, 1, k), cells[k + 1]) = SubSeq(cells, 1, k + 1)
    BY <1>4, <2>1
  <2> QED BY <2>2, <2>3
<1> HIDE DEF S
<1>10. Nat \subseteq S
  BY <1>8, <1>9, Induction
<1>11. g[n] = SubSeq(cells, 1, n)
  BY <1>1, <1>10 DEF S
<1> QED BY <1>2, <1>3, <1>11 DEF cells, n
-----------------------------------------------------------------------------
(***************************************************************************)
(* decode() reads back what encode() has written: before each member it    *)
(* stands where that member was written, and reads over its cells.         *)
(***************************************************************************)
LEMMA OneFunction ==
  ASSUME NEW n \in Nat, NEW f, NEW h, f[0] = h[0],
         \A i \in 1..n : f[i - 1] = h[i - 1] => f[i] = h[i]
  PROVE  \A k \in 0..n : f[k] = h[k]
<1> DEFINE S == {k \in Nat : k <= n => f[k] = h[k]}
<1>1. 0 \in S
  OBVIOUS
<1>2. ASSUME NEW k \in Nat, k \in S PROVE k + 1 \in S
  <2> SUFFICES ASSUME k + 1 <= n PROVE f[k + 1] = h[k + 1]
    OBVIOUS
  <2>1. k + 1 \in 1..n /\ (k + 1) - 1 = k /\ f[k] = h[k]
    BY <1>2
  <2> QED BY <2>1
<1> HIDE DEF S
<1>3. Nat \subseteq S
  BY <1>1, <1>2, Induction
<1> QED BY <1>3 DEF S

LEMMA CellsLength ==
  ASSUME NEW m, NEW v, m \in Strings => Text(v)
  PROVE  Len(CellsOf(m, v)) \in {1, 2}
<1>1. ASSUME NEW a, NEW b PROVE Len(<<a>>) = 1 /\ Len(<<a, b>>) = 2
  OBVIOUS
<1>2. (m \in Strings /\ v.len = 0) \/ (m \in Strings /\ v.len # 0) \/ m \in {"x", "y"}
      \/ m \notin Strings \cup {"x", "y"}
  OBVIOUS
<1> QED BY <1>1, <1>2, CellsOfAre

\* operator >> returns what operator << has written, and stops behind it
LEMMA ReadBack ==
  ASSUME NEW m, NEW v, m \in Strings => Text(v), NEW s, Len(s) \in Nat, NEW at \in Nat \ {0},
         at + Len(CellsOf(m, v)) <= Len(s) + 1,
         \A j \in 1..Len(CellsOf(m, v)) : s[(at - 1) + j] = CellsOf(m, v)[j]
  PROVE  Read(at, m, s) = [next |-> at + Len(CellsOf(m, v)), value |-> v]
<1>1. ASSUME NEW a, CellsOf(m, v) = <<a>>
      PROVE  Len(CellsOf(m, v)) = 1 /\ s[at] = a /\ at <= Len(s)
  <2>1. Len(CellsOf(m, v)) = 1 /\ CellsOf(m, v)[1] = a
    BY <1>1
  <2>2. 1 \in 1..1 /\ (at - 1) + 1 = at /\ (at + 1 <= Len(s) + 1 => at <= Len(s))
    OBVIOUS
  <2> QED BY <2>1, <2>2
<1>2. ASSUME NEW a, NEW b, CellsOf(m, v) = <<a, b>>
      PROVE  /\ Len(CellsOf(m, v)) = 2 /\ s[at] = a /\ s[at + 1] = b
             /\ at <= Len(s) /\ at + 1 <= Len(s)
  <2>1. Len(CellsOf(m, v)) = 2 /\ CellsOf(m, v)[1] = a /\ CellsOf(m, v)[2] = b
    BY <1>2
  <2>2. /\ 1 \in 1..2 /\ 2 \in 1..2 /\ (at - 1) + 1 = at /\ (at - 1) + 2 = at + 1
        /\ at + 2 <= Len(s) + 1 => at <= Len(s) /\ at + 1 <= Len(s)
    OBVIOUS
  <2> QED BY <2>1, <2>2
<1>3. at <= Len(s) => ~(at > Len(s))
  OBVIOUS
<1>4. CASE m \in Strings /\ v.len = 0
  <2>1. /\ s[at].value = 0 /\ s[at].width = 4 /\ at <= Len(s) /\ Len(CellsOf(m, v)) = 1
    BY <1>1, <1>4, CellsOfAre, PlainCells
  <2>2. v = [len |-> 0, of |-> ""]
    BY <1>4 DEF Text
  <2> QED BY <1>3, <1>4, <2>1, <2>2 DEF Read
<1>5. CASE m \in Strings /\ v.len # 0
  <2>1. /\ s[at].value = v.len /\ s[at].width = 4 /\ at <= Len(s) /\ Len(CellsOf(m, v)) = 2
        /\ s[at + 1].value = v /\ s[at + 1].width = v.len /\ at + 1 <= Len(s)
    BY <1>2, <1>5, CellsOfAre, PlainCells
  <2> QED BY <1>3, <1>5, <2>1 DEF Read
<1>6. CASE m \in {"x", "y"}
  <2>1. /\ s[at].value = v /\ s[at].width = 4 /\ at <= Len(s) /\ Len(CellsOf(m, v)) = 1
    BY <1>1, <1>6, CellsOfAre, PlainCells
  <2>2. Width(m) = 4 /\ m \notin Strings
    BY <1>6, WidthIs DEF Strings
  <2> QED BY <1>3, <2>1, <2>2 DEF Read
<1>7. CASE m \notin Strings \cup {"x", "y"}
  <2>1. /\ s[at].value = v /\ s[at].width = Width(m) /\ at <= Len(s) /\ Len(CellsOf(m, v)) = 1
    BY <1>1, <1>7, CellsOfAre, PlainCells
  <2> QED BY <1>3, <1>7, <2>1 DEF Read
<1> QED BY <1>4, <1>5, <1>6, <1>7

\* where each member stands in what was written
LEMMA Stands ==
  ASSUME NEW p, WellFormed(p), NEW g, Writes(g, p), NEW i \in 1..Len(OrderOf(p)), NEW s,
         s = g[Len(OrderOf(p))]
  PROVE  Read(Len(g[i - 1]) + 1, OrderOf(p)[i], s)
           = [next |-> Len(g[i]) + 1, value |-> p.body[OrderOf(p)[i]]]
<1> DEFINE n == Len(OrderOf(p))
           m == OrderOf(p)[i]
           v == p.body[m]
           cells == CellsOf(m, v)
           C == CellsIn(p)
<1>1. n \in Nat /\ i \in 0..n /\ i - 1 \in 0..n /\ n \in 0..n
  BY OrderIs
<1>2. /\ Begins(s, g[i]) /\ g[i] \in Seq(C) /\ g[i - 1] \in Seq(C) /\ s \in Seq(C)
      /\ Len(g[i - 1]) \in Nat
  BY <1>1, Begun
<1>3. g[i] = g[i - 1] \o cells /\ cells \in Seq(C)
  BY CellsSeq DEF Writes
<1>4. m \in Strings => Text(v)
  BY OrderIs
<1> HIDE DEF cells, v, m, n, C
<1>5. /\ Len(g[i]) = Len(g[i - 1]) + Len(cells) /\ Len(cells) \in Nat /\ Len(s) \in Nat
      /\ \A j \in 1..Len(cells) : g[i][Len(g[i - 1]) + j] = cells[j]
  BY <1>2, <1>3
<1>6. \A j \in 1..Len(cells) : s[Len(g[i - 1]) + j] = cells[j]
  <2>1. \A j \in 1..Len(cells) : Len(g[i - 1]) + j \in 1..Len(g[i])
    BY <1>2, <1>5
  <2>2. \A k \in 1..Len(g[i]) : s[k] = g[i][k]
    BY <1>2 DEF Begins
  <2> QED BY <1>5, <2>1, <2>2, Zenon
<1>7. Len(g[i]) <= Len(s)
  BY <1>2 DEF Begins
<1> DEFINE at == Len(g[i - 1]) + 1
<1>8. /\ at \in Nat \ {0} /\ at - 1 = Len(g[i - 1]) /\ at + Len(cells) = Len(g[i]) + 1
      /\ at + Len(cells) <= Len(s) + 1
  BY <1>2, <1>5, <1>7
<1>9. \A j \in 1..Len(cells) : s[(at - 1) + j] = cells[j]
  BY <1>6, <1>8, Zenon
<1> HIDE DEF at
<1>10. Read(at, m, s) = [next |-> at + Len(cells), value |-> v]
  BY <1>4, <1>5, <1>8, <1>9, ReadBack DEF cells
<1> QED BY <1>8, <1>10 DEF at, m, v

\* the members read so far
Seen(order, i) == {order[j] : j \in 1..i}

LEMMA SeenNext ==
  ASSUME NEW order, NEW i \in Nat \ {0}
  PROVE  Seen(order, i) = Seen(order, i - 1) \cup {order[i]}
<1>1. \A j : j \in 1..i <=> j \in 1..(i - 1) \/ j = i
  OBVIOUS
<1> QED BY <1>1, Zenon DEF Seen

LEMMA SeenNone == ASSUME NEW order PROVE Seen(order, 0) = {}
<1>1. 1..0 = {}
  OBVIOUS
<1> QED BY <1>1 DEF Seen

LEMMA DecodeIs ==
  ASSUME NEW p, WellFormed(p)
  PROVE  Decode(OrderOf(p), Written(p)) = p.body
<1> DEFINE order == OrderOf(p)
           n == Len(order)
           s == Written(p)
           next(last, i) ==
             LET r == Read(last.at, order[i], s)
             IN  [at |-> r.next,
                  body |-> [m \in DOMAIN last.body \cup {order[i]} |->
                              IF m = order[i] THEN r.value ELSE last.body[m]]]
           first == [at |-> 2, body |-> [m \in {} |-> Unset]]
           Defines(h) == h = [i \in 0..n |-> IF i = 0 THEN first ELSE next(h[i - 1], i)]
           d == CHOOSE h : Defines(h)
<1>1. PICK g : Writes(g, p) /\ s = g[n]
  BY WrittenIs
<1>2. n \in Nat
  BY OrderIs
<1> DEFINE f == [i \in 0..n |-> [at   |-> Len(g[i]) + 1,
                                 body |-> [m \in Seen(order, i) |-> p.body[m]]]]
<1>3. Decode(order, s) = d[n].body
  BY DEF Decode
<1> HIDE DEF n, s
<1>4. ASSUME NEW i \in 1..n PROVE next(f[i - 1], i) = f[i]
  <2>1. i \in Nat \ {0} /\ i \in 0..n /\ i - 1 \in 0..n
    BY <1>2
  <2>2. /\ f[i - 1] = [at |-> Len(g[i - 1]) + 1, body |-> [m \in Seen(order, i - 1) |-> p.body[m]]]
        /\ f[i] = [at |-> Len(g[i]) + 1, body |-> [m \in Seen(order, i) |-> p.body[m]]]
    BY <2>1
  <2>3. Read(f[i - 1].at, order[i], s) = [next |-> Len(g[i]) + 1, value |-> p.body[order[i]]]
    BY <1>1, <2>2, Stands DEF n
  <2>4. /\ DOMAIN f[i - 1].body = Seen(order, i - 1)
        /\ \A m \in Seen(order, i - 1) : f[i - 1].body[m] = p.body[m]
    <3>1. f[i - 1].body = [m \in Seen(order, i - 1) |-> p.body[m]]
      BY <2>2
    <3> HIDE DEF f
    <3> QED BY <3>1
  <2>5. Seen(order, i) = Seen(order, i - 1) \cup {order[i]}
    BY <2>1, SeenNext
  <2> DEFINE last == f[i - 1]
  <2> HIDE DEF f, order
  <2>6. [m \in DOMAIN last.body \cup {order[i]} |->
           IF m = order[i] THEN p.body[order[i]] ELSE last.body[m]]
          = [m \in Seen(order, i) |-> p.body[m]]
    BY <2>4, <2>5
  <2>7. next(last, i) = [at |-> Len(g[i]) + 1, body |-> [m \in Seen(order, i) |-> p.body[m]]]
    BY <2>3, <2>6
  <2> QED BY <2>2, <2>7
<1>5. f[0] = first
  <2>1. g[0] = <<TypeCell(p)>> /\ Len(<<TypeCell(p)>>) + 1 = 2
    BY <1>1 DEF Writes
  <2>2. [m \in Seen(order, 0) |-> p.body[m]] = [m \in {} |-> Unset]
    BY SeenNone
  <2>3. 0 \in 0..n
    BY <1>2
  <2> QED BY <2>1, <2>2, <2>3
<1>6. f = [i \in 0..n |-> f[i]]
  OBVIOUS
<1>7. \A i \in 1..n : i # 0 /\ i \in 0..n /\ i - 1 \in 0..n
  BY <1>2
<1>8. \A i \in 0..n : i = 0 \/ i \in 1..n
  BY <1>2
<1>9. f[n].body = [m \in Seen(order, n) |-> p.body[m]]
  BY <1>2
<1> HIDE DEF f, next, first
<1>10. \A i \in 0..n : f[i] = IF i = 0 THEN first ELSE next(f[i - 1], i)
  BY <1>4, <1>5, <1>7, <1>8, Zenon
<1>11. Defines(f)
  BY <1>6, <1>10, Zenon
<1>12. Defines(d)
  BY <1>11
<1> HIDE DEF d
<1>13. d = [i \in 0..n |-> IF i = 0 THEN first ELSE next(d[i - 1], i)]
  BY <1>12
<1> HIDE DEF Defines
<1>14. \A i \in 0..n : d[i] = IF i = 0 THEN first ELSE next(d[i - 1], i)
  BY <1>13, Zenon
<1>15. 0 \in 0..n /\ n \in 0..n
  BY <1>2
<1>16. d[0] = f[0] /\ \A i \in 1..n : d[i - 1] = f[i - 1] => d[i] = f[i]
  BY <1>4, <1>5, <1>7, <1>14, <1>15, Zenon
<1>17. d[n] = f[n]
  BY <1>2, <1>15, <1>16, OneFunction
<1>18. Seen(order, n) = ToSet(order)
  BY OrderIs DEF Seen, n
<1>19. p.body = [m \in ToSet(order) |-> p.body[m]]
  BY DEF WellFormed, OrderOf
<1> QED BY <1>3, <1>9, <1>17, <1>18, <1>19 DEF s

\* analyzer() makes the packet of its bytes, except where the factory has no class
LEMMA AnalyzeInverts ==
  ASSUME NEW p, WellFormed(p)
  PROVE  /\ p.type # "S_NOTIFY_SERVER_IP" => Analyze(Encode(p)) = p
         /\ p.type = "S_NOTIFY_SERVER_IP" => Analyze(Encode(p)).type = NoPacketType
<1>1. /\ Encode(p) = Written(p) /\ Written(p) # <<>> /\ Written(p)[1].width = 8
      /\ Written(p)[1].value = TypeId(p.type)
  BY EncodeIs, WrittenSound, PlainCells DEF TypeCell
<1>2. p.type \in ToSet(PacketTypes) /\ p = [type |-> p.type, body |-> p.body]
  BY DEF WellFormed
<1>3. Analyze(Encode(p)) =
        LET type == getPacket(TypeId(p.type))
        IN  [type |-> type,
             body |-> IF type = NoPacketType THEN <<>>
                      ELSE Decode(Members(type).decode, Written(p))]
  BY <1>1, <1>2, TypeIdIs DEF Analyze
<1>4. ASSUME p.type # "S_NOTIFY_SERVER_IP" PROVE Analyze(Encode(p)) = p
  <2>1. getPacket(TypeId(p.type)) = p.type /\ p.type # NoPacketType
    BY <1>2, <1>4, TypeIdIs, TypesKnown
  <2>2. Decode(Members(p.type).decode, Written(p)) = p.body
    BY OrderIs, DecodeIs
  <2> QED BY <1>2, <1>3, <2>1, <2>2
<1>5. ASSUME p.type = "S_NOTIFY_SERVER_IP" PROVE Analyze(Encode(p)).type = NoPacketType
  <2>1. getPacket(TypeId(p.type)) = NoPacketType
    BY <1>2, <1>5, TypeIdIs
  <2> QED BY <1>3, <2>1
<1> QED BY <1>4, <1>5
-----------------------------------------------------------------------------
(***************************************************************************)
(* The packets P on a socket: each preceded by its length.                 *)
(***************************************************************************)
Packets(P) == \A p \in P : WellFormed(p)

Header(p) == Cell("length", HeaderSize, HeaderSize + Bytes(Encode(p)))

CellsFor(P) == (UNION {CellsIn(p) : p \in P}) \cup {Header(p) : p \in P}

LEMMA HeaderIs ==
  ASSUME NEW p
  PROVE  /\ Header(p).kind = "length" /\ Header(p).width = HeaderSize
         /\ Header(p).value = HeaderSize + Bytes(Encode(p))
  BY PlainCells DEF Header

LEMMA CellsForSized ==
  ASSUME NEW P, Packets(P)
  PROVE  Sized(CellsFor(P))
<1>1. ASSUME NEW p \in P, NEW c \in CellsIn(p) PROVE c.width \in Nat \ {0}
  BY CellsInPlain DEF Packets, Sized
<1>2. ASSUME NEW p \in P PROVE Header(p).width \in Nat \ {0}
  BY HeaderIs DEF HeaderSize
<1> QED BY <1>1, <1>2 DEF CellsFor, Sized

\* the header is a cell of its own, and the only one of its kind in a packet
LEMMA FramedIs ==
  ASSUME NEW P, Packets(P), NEW p \in P
  PROVE  /\ Framed(p) \in Seq(CellsFor(P)) /\ Encode(p) \in Seq(CellsFor(P))
         /\ Framed(p) = <<Header(p)>> \o Encode(p) /\ <<Header(p)>> \in Seq(CellsFor(P))
         /\ Bytes(<<Header(p)>>) = HeaderSize
         /\ Len(Encode(p)) \in Nat \ {0} /\ Len(Framed(p)) = 1 + Len(Encode(p))
         /\ Bytes(Encode(p)) \in Nat \ {0}
         /\ Bytes(Framed(p)) = HeaderSize + Bytes(Encode(p))
         /\ Framed(p)[1] = Header(p)
         /\ \A i \in 2..Len(Framed(p)) : Framed(p)[i].kind # "length"
<1> DEFINE C == CellsFor(P)
           h == Header(p)
           e == Encode(p)
<1>1. WellFormed(p) /\ Sized(C)
  BY CellsForSized DEF Packets
<1>2. e \in Seq(CellsIn(p)) /\ Len(e) \in Nat \ {0} /\ CellsIn(p) \subseteq C /\ h \in C
  BY <1>1, EncodeIs, WrittenSound DEF CellsFor
<1>3. Framed(p) = <<h>> \o e
  BY DEF Framed, Header
<1>4. \A i \in 1..Len(e) : e[i].kind # "length"
  BY <1>1, <1>2, CellsInPlain
<1>5. h.width = HeaderSize
  BY HeaderIs
<1> HIDE DEF C, h, e
<1>6. e \in Seq(C) /\ <<h>> \in Seq(C) /\ Len(<<h>>) = 1 /\ <<h>>[1] = h /\ e # <<>>
  <2>1. e \in Seq(C)
    BY <1>2, SeqMonotonic
  <2> QED BY <1>2, <2>1
<1>7. /\ Framed(p) \in Seq(C) /\ Len(Framed(p)) = 1 + Len(e) /\ Framed(p)[1] = h
      /\ \A i \in 1..Len(e) : Framed(p)[1 + i] = e[i]
  BY <1>2, <1>3, <1>6, ConcatProperties
<1>8. ASSUME NEW i \in 2..Len(Framed(p)) PROVE Framed(p)[i].kind # "length"
  <2>1. i - 1 \in 1..Len(e) /\ 1 + (i - 1) = i
    BY <1>2, <1>7
  <2> QED BY <1>4, <1>7, <2>1
<1>9. Bytes(e) \in Nat \ {0}
  <2>1. Bytes(e) \in Nat /\ Bytes(e) > 0
    BY <1>1, <1>6, BytesNat, BytesPositive
  <2> QED BY <2>1
<1>10. Bytes(<<h>>) = HeaderSize
  <2>1. <<>> \in Seq(C) /\ <<h>> = Append(<<>>, h)
    OBVIOUS
  <2>2. Bytes(<<h>>) = 0 + h.width
    BY <1>1, <1>2, <2>1, BytesAppend, BytesEmpty
  <2> QED BY <1>5, <2>2 DEF HeaderSize
<1>11. Bytes(Framed(p)) = HeaderSize + Bytes(e)
  BY <1>1, <1>3, <1>6, <1>10, BytesConcat
<1> QED BY <1>2, <1>3, <1>6, <1>7, <1>8, <1>9, <1>10, <1>11 DEF C, h, e

\* the bytes of one packet after another
Frames(ps) ==
  LET upTo[i \in 0..Len(ps)] == IF i = 0 THEN <<>> ELSE upTo[i - 1] \o Framed(ps[i])
  IN  upTo[Len(ps)]

Frame(f, ps) ==
  /\ f[0] = <<>>
  /\ \A i \in 1..Len(ps) : f[i] = f[i - 1] \o Framed(ps[i])

\* the bytes after each of the packets
LEMMA FramesAre ==
  ASSUME NEW P, Packets(P), NEW ps \in Seq(P)
  PROVE  \E f : Frame(f, ps) /\ f[Len(ps)] \in Seq(CellsFor(P)) /\ Frames(ps) = f[Len(ps)]
<1> DEFINE n == Len(ps)
           C == CellsFor(P)
           next == [i \in 1..n |-> [s \in Seq(C) |-> s \o Framed(ps[i])]]
           Defines(h) == h = [i \in 0..n |-> IF i = 0 THEN <<>> ELSE h[i - 1] \o Framed(ps[i])]
           g == CHOOSE h : Defines(h)
<1>1. n \in Nat /\ \A i \in 1..n : i # 0 /\ i \in 0..n /\ i - 1 \in 0..n
  OBVIOUS
<1>2. \A i \in 0..n : i = 0 \/ i \in 1..n
  BY <1>1
<1>3. \A i \in 1..n : Framed(ps[i]) \in Seq(C)
  <2>1. \A i \in 1..n : ps[i] \in P
    OBVIOUS
  <2> HIDE DEF n, C
  <2> QED BY <2>1, FramedIs DEF C
<1>4. Frames(ps) = g[n]
  BY DEF Frames
<1> HIDE DEF C, n
<1>5. /\ Steps(next, n, Seq(C))
      /\ \A i \in 1..n : \A s \in Seq(C) : next[i][s] = s \o Framed(ps[i])
  BY <1>3 DEF Steps
<1>6. <<>> \in Seq(C)
  OBVIOUS
<1> HIDE DEF next
<1>7. PICK f : Follows(f, <<>>, next, n, Seq(C))
  BY <1>1, <1>5, <1>6, Recursion
<1>8. f = [i \in 0..n |-> f[i]] /\ f[0] = <<>>
  BY <1>7 DEF Follows
<1>9. ASSUME NEW i \in 1..n PROVE f[i] = f[i - 1] \o Framed(ps[i])
  <2>1. f[i - 1] \in Seq(C) /\ f[i] = next[i][f[i - 1]]
    BY <1>1, <1>7 DEF Follows
  <2> QED BY <1>5, <2>1
<1>10. \A i \in 0..n : f[i] = IF i = 0 THEN <<>> ELSE f[i - 1] \o Framed(ps[i])
  BY <1>1, <1>2, <1>8, <1>9, Zenon
<1>11. Defines(f)
  BY <1>8, <1>10, Zenon
<1>12. Defines(g)
  BY <1>11
<1> HIDE DEF g
<1>13. g = [i \in 0..n |-> IF i = 0 THEN <<>> ELSE g[i - 1] \o Framed(ps[i])]
  BY <1>12
<1> HIDE DEF Defines
<1>14. \A i \in 0..n : g[i] = IF i = 0 THEN <<>> ELSE g[i - 1] \o Framed(ps[i])
  BY <1>13, Zenon
<1>15. 0 \in 0..n /\ n \in 0..n
  BY <1>1
<1>16. g[0] = f[0] /\ \A i \in 1..n : g[i] = g[i - 1] \o Framed(ps[i])
  BY <1>1, <1>8, <1>14, <1>15, Zenon
<1>17. \A i \in 1..n : g[i - 1] = f[i - 1] => g[i] = f[i]
  BY <1>9, <1>16, Zenon
<1>18. g[n] = f[n]
  <2>1. g[0] = f[0] /\ \A i \in 1..n : g[i - 1] = f[i - 1] => g[i] = f[i]
    BY <1>16, <1>17
  <2>2. n \in Nat
    BY <1>1
  <2>3. \A k \in 0..n : g[k] = f[k]
    BY <2>1, <2>2, OneFunction, ZenonT(30)
  <2> QED BY <1>15, <2>3
<1>19. f[n] \in Seq(C)
  BY <1>7, <1>15 DEF Follows
<1>20. Frame(f, ps)
  BY <1>8, <1>9 DEF Frame, n
<1> QED BY <1>4, <1>18, <1>19, <1>20 DEF n, C

LEMMA FramesSeq ==
  ASSUME NEW P, Packets(P), NEW ps \in Seq(P)
  PROVE  Frames(ps) \in Seq(CellsFor(P))
  BY FramesAre

LEMMA FramesEmpty == Frames(<<>>) = <<>>
<1>1. Packets({}) /\ <<>> \in Seq({}) /\ Len(<<>>) = 0
  BY DEF Packets
<1>2. PICK f : Frame(f, <<>>) /\ Frames(<<>>) = f[Len(<<>>)]
  BY <1>1, FramesAre
<1> QED BY <1>1, <1>2 DEF Frame

LEMMA FramesAppend ==
  ASSUME NEW P, Packets(P), NEW ps \in Seq(P), NEW p \in P
  PROVE  Frames(Append(ps, p)) = Frames(ps) \o Framed(p)
<1> DEFINE n == Len(ps)
           qs == Append(ps, p)
<1>1. /\ n \in Nat /\ qs \in Seq(P) /\ Len(qs) = n + 1 /\ qs[n + 1] = p
      /\ \A i \in 1..n : qs[i] = ps[i]
  BY AppendProperties
<1>2. PICK f : Frame(f, ps) /\ Frames(ps) = f[n]
  BY FramesAre
<1>3. PICK h : Frame(h, qs) /\ Frames(qs) = h[Len(qs)]
  BY <1>1, FramesAre
<1> HIDE DEF n, qs
<1>4. /\ f[0] = <<>> /\ h[0] = <<>>
      /\ \A i \in 1..n : f[i] = f[i - 1] \o Framed(ps[i])
      /\ \A i \in 1..(n + 1) : h[i] = h[i - 1] \o Framed(qs[i])
  BY <1>1, <1>2, <1>3 DEF Frame, n
<1>5. \A i \in 1..n : i \in 1..(n + 1)
  BY <1>1
<1>6. \A i \in 1..n : f[i - 1] = h[i - 1] => f[i] = h[i]
  BY <1>1, <1>4, <1>5, Zenon
<1>7. n \in 0..n /\ n + 1 \in 1..(n + 1) /\ (n + 1) - 1 = n
  BY <1>1
<1>8. f[n] = h[n]
  <2>1. f[0] = h[0] /\ \A i \in 1..n : f[i - 1] = h[i - 1] => f[i] = h[i]
    BY <1>4, <1>6
  <2>2. n \in Nat
    BY <1>1
  <2>3. \A k \in 0..n : f[k] = h[k]
    BY <2>1, <2>2, OneFunction, ZenonT(30)
  <2> QED BY <1>7, <2>3
<1>9. h[n + 1] = h[n] \o Framed(p)
  BY <1>1, <1>4, <1>7
<1> QED BY <1>1, <1>2, <1>3, <1>8, <1>9 DEF qs

LEMMA FrameCells ==
  ASSUME NEW P, Packets(P), NEW p \in P
  PROVE  /\ Framed(p) \in Seq(CellsFor(P)) /\ Len(Framed(p)) \in Nat \ {0}
         /\ Framed(p)[1] = Header(p)
         /\ \A i \in 2..Len(Framed(p)) : Framed(p)[i].kind # "length"
<1>1. Len(Encode(p)) \in Nat \ {0} /\ Len(Framed(p)) = 1 + Len(Encode(p))
  BY FramedIs
<1>2. Len(Framed(p)) \in Nat \ {0}
  BY <1>1
<1> QED BY <1>2, FramedIs

LEMMA AppendToConcat ==
  ASSUME NEW C, NEW a \in Seq(C), NEW b \in Seq(C), NEW c \in C
  PROVE  Append(a \o b, c) = a \o Append(b, c)
<1>1. <<c>> \in Seq(C) /\ a \o b \in Seq(C)
  OBVIOUS
<1>2. Append(a \o b, c) = (a \o b) \o <<c>> /\ Append(b, c) = b \o <<c>>
  BY <1>1, AppendIsConcat
<1>3. (a \o b) \o <<c>> = a \o (b \o <<c>>)
  BY <1>1, ConcatAssociative
<1> QED BY <1>2, <1>3

\* Frames taken from the front
LEMMA FramesFirst ==
  ASSUME NEW P, Packets(P), NEW p \in P, NEW ps \in Seq(P)
  PROVE  Frames(<<p>> \o ps) = Framed(p) \o Frames(ps)
<1> DEFINE C == CellsFor(P)
           S == {k \in Nat : \A qs \in Seq(P) :
                   Len(qs) = k => Frames(<<p>> \o qs) = Framed(p) \o Frames(qs)}
<1>1. Framed(p) \in Seq(C) /\ <<p>> \in Seq(P)
  <2>1. <<p>> \in Seq(P)
    OBVIOUS
  <2> QED BY <2>1, FrameCells
<1>2. 0 \in S
  <2> SUFFICES ASSUME NEW qs \in Seq(P), Len(qs) = 0
               PROVE  Frames(<<p>> \o qs) = Framed(p) \o Frames(qs)
    OBVIOUS
  <2>1. qs = <<>> /\ <<>> \in Seq(P) /\ <<p>> = Append(<<>>, p) /\ <<p>> \o <<>> = <<p>>
    BY <1>1, EmptySeq, ConcatEmptySeq
  <2>2. Frames(<<p>>) = <<>> \o Framed(p)
    BY <2>1, FramesAppend, FramesEmpty
  <2>3. <<>> \o Framed(p) = Framed(p) /\ Framed(p) \o <<>> = Framed(p)
    BY <1>1, ConcatEmptySeq
  <2> QED BY <2>1, <2>2, <2>3, FramesEmpty
<1>3. ASSUME NEW k \in Nat, k \in S PROVE k + 1 \in S
  <2> SUFFICES ASSUME NEW qs \in Seq(P), Len(qs) = k + 1
               PROVE  Frames(<<p>> \o qs) = Framed(p) \o Frames(qs)
    OBVIOUS
  <2>1. PICK rs \in Seq(P), x \in P : qs = Append(rs, x)
    <3>1. qs # <<>>
      OBVIOUS
    <3> QED BY <3>1, SequenceEmptyOrAppend
  <2>2. Len(rs) = k
    BY <2>1
  <2>3. Frames(<<p>> \o rs) = Framed(p) \o Frames(rs)
    BY <1>3, <2>2
  <2> HIDE DEF S, C
  <2>4. <<p>> \o qs = Append(<<p>> \o rs, x) /\ <<p>> \o rs \in Seq(P)
    BY <1>1, <2>1, AppendToConcat, ConcatProperties
  <2>5. Frames(<<p>> \o qs) = (Framed(p) \o Frames(rs)) \o Framed(x)
    BY <2>3, <2>4, FramesAppend
  <2>6. Frames(qs) = Frames(rs) \o Framed(x)
    BY <2>1, FramesAppend
  <2>7. Frames(rs) \in Seq(C) /\ Framed(x) \in Seq(C)
    BY FramesSeq, FramedIs DEF C
  <2>8. (Framed(p) \o Frames(rs)) \o Framed(x) = Framed(p) \o (Frames(rs) \o Framed(x))
    BY <1>1, <2>7, ConcatAssociative
  <2> QED BY <2>5, <2>6, <2>8
<1> HIDE DEF S
<1>4. Nat \subseteq S
  BY <1>2, <1>3, Induction
<1>5. Len(ps) \in Nat
  OBVIOUS
<1>6. Len(ps) \in S
  BY <1>4, <1>5
<1> QED BY <1>6 DEF S

\* as many headers as packets
LEMMA HeadersFramed ==
  ASSUME NEW P, Packets(P), NEW s \in Seq(CellsFor(P)), NEW p \in P
  PROVE  Headers(s) \in Nat /\ Headers(s \o Framed(p)) = Headers(s) + 1
<1> DEFINE C == CellsFor(P)
           t == Framed(p)
           n == Len(s)
           H(x) == {i \in DOMAIN x : x[i].kind = "length"}
<1>1. /\ t \in Seq(C) /\ Len(t) \in Nat \ {0} /\ t[1].kind = "length"
      /\ \A i \in 2..Len(t) : t[i].kind # "length"
  BY FrameCells, HeaderIs
<1> HIDE DEF C, t
<1>2. s \in Seq(C)
  BY DEF C
<1>3. /\ s \o t \in Seq(C) /\ Len(s \o t) = n + Len(t) /\ n \in Nat
      /\ DOMAIN (s \o t) = 1..(n + Len(t)) /\ DOMAIN s = 1..n
      /\ \A i \in 1..n : (s \o t)[i] = s[i]
      /\ \A i \in 1..Len(t) : (s \o t)[n + i] = t[i]
  BY <1>1, <1>2, ConcatProperties
<1> HIDE DEF n
<1>4. H(s \o t) = H(s) \cup {n + 1}
  <2>1. \A i \in 1..n : i \in H(s \o t) <=> i \in H(s)
    BY <1>1, <1>3
  <2>2. n + 1 \in H(s \o t)
    BY <1>1, <1>3
  <2>3. ASSUME NEW i \in (n + 2)..(n + Len(t)) PROVE i \notin H(s \o t)
    <3>1. i - n \in 2..Len(t) /\ i - n \in 1..Len(t) /\ n + (i - n) = i
      BY <1>1, <1>3
    <3>2. (s \o t)[i] = t[i - n]
      BY <1>3, <3>1
    <3> QED BY <1>1, <3>1, <3>2
  <2>4. H(s) \subseteq 1..n /\ H(s \o t) \subseteq 1..(n + Len(t))
    BY <1>3
  <2>5. \A i \in 1..(n + Len(t)) : i \in 1..n \/ i = n + 1 \/ i \in (n + 2)..(n + Len(t))
    BY <1>1, <1>3
  <2> HIDE DEF H
  <2> QED BY <2>1, <2>2, <2>3, <2>4, <2>5
<1>5. IsFiniteSet(H(s)) /\ n + 1 \notin H(s)
  <2>1. H(s) \subseteq 1..n /\ IsFiniteSet(1..n)
    BY <1>3, FS_Interval
  <2>2. IsFiniteSet(H(s))
    BY <2>1, FS_Subset
  <2>3. n + 1 \notin 1..n
    BY <1>3
  <2> QED BY <2>1, <2>2, <2>3
<1>6. Headers(s) = Cardinality(H(s)) /\ Headers(s \o t) = Cardinality(H(s \o t))
  BY DEF Headers
<1> HIDE DEF H
<1>7. Cardinality(H(s)) \in Nat /\ Cardinality(H(s) \cup {n + 1}) = Cardinality(H(s)) + 1
  BY <1>5, FS_CardinalityType, FS_AddElement
<1> QED BY <1>4, <1>6, <1>7 DEF t

LEMMA HeadersFrames ==
  ASSUME NEW P, Packets(P), NEW ps \in Seq(P)
  PROVE  Headers(Frames(ps)) = Len(ps)
<1> DEFINE S == {k \in Nat : \A qs \in Seq(P) : Len(qs) = k => Headers(Frames(qs)) = Len(qs)}
<1>1. 0 \in S
  <2> SUFFICES ASSUME NEW qs \in Seq(P), Len(qs) = 0 PROVE Headers(Frames(qs)) = 0
    OBVIOUS
  <2>1. Frames(qs) = <<>>
    BY EmptySeq, FramesEmpty
  <2>2. {i \in DOMAIN <<>> : <<>>[i].kind = "length"} = {}
    OBVIOUS
  <2> QED BY <2>1, <2>2, FS_EmptySet DEF Headers
<1>2. ASSUME NEW k \in Nat, k \in S PROVE k + 1 \in S
  <2> SUFFICES ASSUME NEW qs \in Seq(P), Len(qs) = k + 1
               PROVE  Headers(Frames(qs)) = k + 1
    OBVIOUS
  <2>1. PICK rs \in Seq(P), x \in P : qs = Append(rs, x)
    <3>1. qs # <<>>
      OBVIOUS
    <3> QED BY <3>1, SequenceEmptyOrAppend
  <2>2. Len(rs) = k
    BY <2>1
  <2>3. Headers(Frames(rs)) = k
    BY <1>2, <2>2
  <2> HIDE DEF S
  <2>4. Frames(qs) = Frames(rs) \o Framed(x) /\ Frames(rs) \in Seq(CellsFor(P))
    BY <2>1, FramesAppend, FramesSeq
  <2>5. Headers(Frames(qs)) = Headers(Frames(rs)) + 1
    BY <2>4, HeadersFramed
  <2> QED BY <2>3, <2>5
<1> HIDE DEF S
<1>3. Nat \subseteq S
  BY <1>1, <1>2, Induction
<1>4. Len(ps) \in Nat
  OBVIOUS
<1>5. Len(ps) \in S
  BY <1>3, <1>4
<1> QED BY <1>5 DEF S

\* the bytes in two parts of the packets ps
Divided(P, ps, a, b) ==
  /\ ps \in Seq(P) /\ a \in Seq(CellsFor(P)) /\ b \in Seq(CellsFor(P))
  /\ a \o b = Frames(ps)

\* what begins the packets begins with the length of the first
LEMMA FirstFrame ==
  ASSUME NEW P, Packets(P), NEW ps, NEW a, NEW b, Divided(P, ps, a, b), a # <<>>
  PROVE  /\ ps = <<Head(ps)>> \o Tail(ps) /\ Head(ps) \in P /\ Tail(ps) \in Seq(P)
         /\ Frames(ps) = Framed(Head(ps)) \o Frames(Tail(ps))
         /\ a[1] = Header(Head(ps)) /\ PacketLen(a) = Bytes(Framed(Head(ps)))
<1> DEFINE C == CellsFor(P)
           p == Head(ps)
<1>1. /\ ps \in Seq(P) /\ a \in Seq(C) /\ b \in Seq(C) /\ a \o b = Frames(ps)
      /\ Len(a) \in Nat \ {0}
  BY DEF Divided
<1>2. ps # <<>>
  <2>1. SUFFICES ASSUME ps = <<>> PROVE FALSE
    OBVIOUS
  <2>2. Len(a \o b) = Len(a) + Len(b) /\ Len(b) \in Nat /\ a \o b = <<>>
    BY <1>1, <2>1, FramesEmpty, ConcatProperties
  <2>3. Len(<<>>) = 0
    OBVIOUS
  <2> QED BY <1>1, <2>2, <2>3
<1>3. p \in P /\ Tail(ps) \in Seq(P) /\ ps = <<p>> \o Tail(ps)
  <2>1. p \in P /\ Tail(ps) \in Seq(P)
    BY <1>1, <1>2
  <2>2. ps = <<p>> \o Tail(ps)
    BY <1>1, <1>2, HeadTailProperties
  <2> QED BY <2>1, <2>2
<1> HIDE DEF p, C
<1>4. Frames(ps) = Framed(p) \o Frames(Tail(ps))
  BY <1>3, FramesFirst
<1>5. Framed(p) \in Seq(C) /\ Frames(Tail(ps)) \in Seq(C) /\ Len(Framed(p)) \in Nat \ {0}
  BY <1>3, FrameCells, FramesSeq DEF C
<1>6. a[1] = Framed(p)[1]
  <2>1. 1 \in 1..Len(a) /\ 1 \in 1..Len(Framed(p))
    BY <1>1, <1>5
  <2>2. (a \o b)[1] = a[1]
    BY <1>1, <2>1, ConcatProperties
  <2>3. (Framed(p) \o Frames(Tail(ps)))[1] = Framed(p)[1]
    BY <1>5, <2>1, ConcatProperties
  <2> QED BY <1>1, <1>4, <2>2, <2>3
<1>7. a[1] = Header(p) /\ Bytes(Framed(p)) = HeaderSize + Bytes(Encode(p))
  BY <1>3, <1>6, FramedIs
<1>8. PacketLen(a) = Bytes(Framed(p))
  BY <1>7, HeaderIs DEF PacketLen, HeaderSize
<1> QED BY <1>3, <1>4, <1>7, <1>8 DEF p

\* what ends where a packet ends, or has the bytes of the first, begins with all of it
LEMMA WholeFrame ==
  ASSUME NEW P, Packets(P), NEW ps, NEW a, NEW b, Divided(P, ps, a, b), a # <<>>,
         AtBoundary(b) \/ Bytes(Framed(Head(ps))) <= Bytes(a)
  PROVE  LET p == Head(ps)
             r == Rest(a, Framed(p))
         IN  a = Framed(p) \o r /\ Divided(P, Tail(ps), r, b)
<1> DEFINE C == CellsFor(P)
           p == Head(ps)
           f == Framed(p)
           t == Frames(Tail(ps))
           r == Rest(a, f)
<1>1. a \in Seq(C) /\ b \in Seq(C) /\ a \o b = Frames(ps) /\ Len(a) \in Nat \ {0}
  BY DEF Divided
<1>2. p \in P /\ Tail(ps) \in Seq(P) /\ Frames(ps) = f \o t
  BY FirstFrame
<1>3. f \in Seq(C) /\ t \in Seq(C) /\ Sized(C) /\ Len(f) \in Nat
  BY <1>2, FrameCells, FramesSeq, CellsForSized
<1>4. \A i \in 2..Len(f) : f[i].kind # "length"
  BY <1>2, FrameCells
<1> HIDE DEF C, f, t
<1>5. TwoWays(C, a, b, f, t)
  BY <1>1, <1>2, <1>3 DEF TwoWays
<1>6. r \in Seq(C) /\ a = f \o r /\ t = r \o b
  <2>1. CASE Bytes(f) <= Bytes(a)
    BY <1>3, <1>5, <2>1, LongEnough
  <2>2. CASE AtBoundary(b)
    <3>1. Len(f) <= Len(a)
      <4> SUFFICES ASSUME Len(a) < Len(f) PROVE FALSE
        BY <1>1, <1>3
      <4>1. /\ Len(a \o b) = Len(a) + Len(b) /\ Len(f \o t) = Len(f) + Len(t)
            /\ Len(b) \in Nat /\ Len(t) \in Nat
        BY <1>1, <1>3
      <4>2. 1 \in 1..Len(b) /\ Len(a) + 1 \in 1..Len(f) /\ Len(a) + 1 \in 2..Len(f)
        BY <1>1, <1>2, <1>3, <4>1
      <4>3. (a \o b)[Len(a) + 1] = b[1] /\ (f \o t)[Len(a) + 1] = f[Len(a) + 1]
        BY <1>1, <1>3, <4>2, ConcatProperties
      <4>4. b[1].kind # "length" /\ b # <<>>
        BY <1>1, <1>2, <1>4, <4>2, <4>3
      <4> QED BY <2>2, <4>4 DEF AtBoundary
    <3> QED BY <1>5, <3>1, Overlap
  <2> QED BY <2>1, <2>2 DEF f
<1>7. Divided(P, Tail(ps), r, b)
  BY <1>1, <1>2, <1>6 DEF Divided, C, t
<1> QED BY <1>6, <1>7 DEF f

\* a packet's own bytes out of those of a frame, and all of what is less than asked for
LEMMA TakeAll ==
  ASSUME NEW C, Sized(C), NEW a \in Seq(C), NEW n, n \in Nat, Bytes(a) <= n
  PROVE  TakeBytes(n, a) = a
<1> DEFINE within == {i \in DOMAIN a : Bytes(SubSeq(a, 1, i)) <= n}
<1>1. DOMAIN a = 1..Len(a) /\ Len(a) \in Nat
  OBVIOUS
<1>2. ASSUME NEW i \in 1..Len(a) PROVE Bytes(SubSeq(a, 1, i)) <= n
  <2>1. i \in 0..Len(a)
    BY <1>1
  <2>2. SubSeq(a, 1, i) \in Seq(C)
    BY <2>1, SplitAt
  <2>3. Bytes(SubSeq(a, 1, i)) \in Nat /\ Bytes(a) \in Nat
    BY <2>2, BytesNat
  <2>4. Bytes(SubSeq(a, 1, i)) <= Bytes(a)
    BY FirstCells
  <2> QED BY <2>3, <2>4
<1>3. within = 1..Len(a)
  BY <1>1, <1>2
<1>4. Cardinality(within) = Len(a)
  <2>1. \A k \in Nat : Cardinality(1..k) = k
    BY FS_Interval
  <2>2. Cardinality(1..Len(a)) = Len(a)
    BY <1>1, <2>1
  <2> QED BY <1>3, <2>2
<1>5. SubSeq(a, 1, Len(a)) = a
  OBVIOUS
<1> QED BY <1>4, <1>5 DEF TakeBytes

LEMMA TakeBegins ==
  ASSUME NEW C, NEW a \in Seq(C), NEW n
  PROVE  TakeBytes(n, a) = <<>> \/ (a # <<>> /\ TakeBytes(n, a) # <<>> /\ TakeBytes(n, a)[1] = a[1])
<1> DEFINE within == {i \in DOMAIN a : Bytes(SubSeq(a, 1, i)) <= n}
           k == Cardinality(within)
<1>1. within \subseteq 1..Len(a) /\ Len(a) \in Nat
  OBVIOUS
<1>2. IsFiniteSet(1..Len(a)) /\ Cardinality(1..Len(a)) = Len(a)
  BY <1>1, FS_Interval
<1> HIDE DEF within
<1>3. k \in Nat /\ k <= Len(a)
  BY <1>1, <1>2, FS_Subset, FS_CardinalityType
<1>4. TakeBytes(n, a) = SubSeq(a, 1, k)
  BY DEF TakeBytes, within
<1> HIDE DEF k
<1>5. CASE k = 0
  <2>1. SubSeq(a, 1, 0) = <<>>
    OBVIOUS
  <2> QED BY <1>4, <1>5, <2>1
<1>6. CASE k # 0
  <2>1. Len(SubSeq(a, 1, k)) = k /\ SubSeq(a, 1, k)[1] = a[1] /\ Len(a) # 0
    BY <1>3, <1>6
  <2>2. SubSeq(a, 1, k) # <<>> /\ a # <<>>
    <3>1. Len(<<>>) = 0
      OBVIOUS
    <3> QED BY <1>6, <2>1, <3>1
  <2> QED BY <1>4, <2>1, <2>2
<1> QED BY <1>5, <1>6
-----------------------------------------------------------------------------
(***************************************************************************)
(* How a receive changes what is divided: a packet sent is added at the    *)
(* end, a segment received moves the division, a packet cut out is taken   *)
(* from the front.                                                         *)
(***************************************************************************)
LEMMA RestIs ==
  ASSUME NEW C, NEW c \in Seq(C), NEW r \in Seq(C)
  PROVE  Rest(c \o r, c) = r
<1>1. Len(c \o r) = Len(c) + Len(r)
  BY ConcatProperties
<1> QED BY <1>1, SubSeqOfConcat2 DEF Rest

LEMMA PrefixIs ==
  ASSUME NEW C, NEW c \in Seq(C), NEW r \in Seq(C)
  PROVE  IsPrefix(c, c \o r) /\ Len(c \o r) = Len(c) + Len(r)
<1>1. Len(c \o r) = Len(c) + Len(r) /\ Len(c) \in Nat /\ Len(r) \in Nat
  BY ConcatProperties
<1>2. SubSeq(c \o r, 1, Len(c)) = c
  BY SubSeqOfConcat1
<1>3. SubSeq(c, 1, Len(c)) = c
  OBVIOUS
<1> QED BY <1>1, <1>2, <1>3 DEF IsPrefix

LEMMA DividedAppend ==
  ASSUME NEW P, Packets(P), NEW ps, NEW a, NEW b, Divided(P, ps, a, b), NEW p \in P
  PROVE  /\ Divided(P, Append(ps, p), a, b \o Framed(p))
         /\ AtBoundary(b) => AtBoundary(b \o Framed(p))
<1> DEFINE C == CellsFor(P)
           f == Framed(p)
<1>1. ps \in Seq(P) /\ a \in Seq(C) /\ b \in Seq(C) /\ a \o b = Frames(ps)
  BY DEF Divided
<1>2. f \in Seq(C) /\ Len(f) \in Nat \ {0} /\ f[1].kind = "length"
  BY FrameCells, HeaderIs
<1>3. Frames(Append(ps, p)) = Frames(ps) \o f /\ Append(ps, p) \in Seq(P)
  BY <1>1, FramesAppend, AppendProperties
<1> HIDE DEF C, f
<1>4. (a \o b) \o f = a \o (b \o f) /\ b \o f \in Seq(C)
  <2>1. a \in Seq(C) /\ b \in Seq(C) /\ f \in Seq(C)
    BY <1>1, <1>2
  <2>2. (a \o b) \o f = a \o (b \o f)
    BY <2>1, ConcatAssociative
  <2>3. b \o f \in Seq(C)
    BY <2>1
  <2> QED BY <2>2, <2>3
<1>5. Divided(P, Append(ps, p), a, b \o f)
  BY <1>1, <1>3, <1>4 DEF Divided, C
<1>6. ASSUME AtBoundary(b) PROVE AtBoundary(b \o f)
  <2>1. CASE b = <<>>
    <3>1. b \o f = f
      BY <1>2, <2>1, ConcatEmptySeq
    <3> QED BY <1>2, <3>1 DEF AtBoundary
  <2>2. CASE b # <<>>
    <3>1. 1 \in 1..Len(b)
      BY <1>1, <2>2
    <3>2. (b \o f)[1] = b[1]
      BY <1>1, <1>2, <3>1, ConcatProperties
    <3> QED BY <1>6, <2>2, <3>2 DEF AtBoundary
  <2> QED BY <2>1, <2>2
<1> QED BY <1>5, <1>6 DEF f

LEMMA DividedMove ==
  ASSUME NEW P, NEW ps, NEW a, NEW b, Divided(P, ps, a, b), NEW k \in 1..Len(b)
  PROVE  /\ Divided(P, ps, a \o SubSeq(b, 1, k), SubSeq(b, k + 1, Len(b)))
         /\ SubSeq(b, 1, k) # <<>> /\ a \o SubSeq(b, 1, k) # <<>>
         /\ SubSeq(b, 1, k) \in Seq(CellsFor(P))
<1> DEFINE C == CellsFor(P)
           s == SubSeq(b, 1, k)
           r == SubSeq(b, k + 1, Len(b))
<1>1. ps \in Seq(P) /\ a \in Seq(C) /\ b \in Seq(C) /\ a \o b = Frames(ps)
  BY DEF Divided
<1> HIDE DEF C
<1>2. k \in 0..Len(b) /\ k \in Nat /\ k # 0
  BY <1>1
<1>3. s \in Seq(C) /\ r \in Seq(C) /\ b = s \o r /\ Len(s) = k
  BY <1>1, <1>2, SplitAt
<1> HIDE DEF s, r
<1>4. /\ a \o (s \o r) = (a \o s) \o r
      /\ a \o s \in Seq(C) /\ Len(a \o s) = Len(a) + k /\ Len(a) \in Nat
  <2>1. a \in Seq(C) /\ s \in Seq(C) /\ r \in Seq(C)
    BY <1>1, <1>3
  <2>2. a \o (s \o r) = (a \o s) \o r
    BY <2>1, ConcatAssociative
  <2>3. a \o s \in Seq(C) /\ Len(a \o s) = Len(a) + Len(s) /\ Len(a) \in Nat
    BY <2>1
  <2> QED BY <1>3, <2>2, <2>3
<1>5. s # <<>> /\ a \o s # <<>>
  <2>1. Len(<<>>) = 0
    OBVIOUS
  <2> QED BY <1>2, <1>3, <1>4, <2>1
<1>6. Divided(P, ps, a \o s, r)
  BY <1>1, <1>3, <1>4 DEF Divided, C
<1> QED BY <1>3, <1>5, <1>6 DEF s, r, C

LEMMA NotAPacket ==
  ASSUME NEW s, s = <<>> \/ s[1].width # 8
  PROVE  Analyze(s).type = NoPacketType
  BY DEF Analyze

\* the packet is made of its own bytes and no others
LEMMA OwnBytes ==
  ASSUME NEW P, Packets(P), NEW p \in P, NEW r \in Seq(CellsFor(P)), NEW n, n = Bytes(Framed(p))
  PROVE  LET a == Framed(p) \o r
         IN  /\ DropBytes(n, a) = r /\ Bytes(a) = n + Bytes(r)
             /\ n - HeaderSize = Bytes(Encode(p))
             /\ n \in Nat /\ Bytes(r) \in Nat /\ n > HeaderSize
             /\ TakeBytes(n - HeaderSize, DropBytes(HeaderSize, a)) = Encode(p)
             /\ Analyze(TakeBytes(n - HeaderSize, DropBytes(0, a))).type = NoPacketType
             /\ Tail(Framed(p)) = Encode(p)
<1> DEFINE C == CellsFor(P)
           f == Framed(p)
           e == Encode(p)
           h == <<Header(p)>>
           a == f \o r
<1>1. Sized(C) /\ r \in Seq(C)
  BY CellsForSized
<1>2. f \in Seq(C) /\ e \in Seq(C) /\ f = h \o e /\ h \in Seq(C) /\ Len(e) \in Nat \ {0}
  BY FramedIs
<1>3. Bytes(e) \in Nat \ {0} /\ Bytes(f) = HeaderSize + Bytes(e) /\ Bytes(h) = HeaderSize
  BY FramedIs
<1>4. f[1] = Header(p) /\ Len(f) \in Nat \ {0}
  BY FrameCells
<1>5. Tail(f) = e
  <2>1. ASSUME NEW x \in C, NEW s \in Seq(C) PROVE Tail(<<x>> \o s) = s
    OBVIOUS
  <2>2. Header(p) \in C
    BY DEF CellsFor
  <2> QED BY <1>2, <2>1, <2>2
<1> HIDE DEF C, f, e, h
<1>6. a \in Seq(C) /\ e \o r \in Seq(C) /\ a = h \o (e \o r)
  <2>1. h \in Seq(C) /\ e \in Seq(C) /\ r \in Seq(C)
    BY <1>1, <1>2
  <2>2. (h \o e) \o r = h \o (e \o r)
    BY <2>1, ConcatAssociative
  <2>3. f \o r \in Seq(C) /\ e \o r \in Seq(C)
    BY <1>1, <1>2
  <2> QED BY <1>2, <2>2, <2>3
<1>7. Bytes(a) = Bytes(f) + Bytes(r) /\ Bytes(r) \in Nat
  BY <1>1, <1>2, BytesConcat, BytesNat
<1>8. DropBytes(Bytes(f), a) = r
  BY <1>1, <1>2, TakeExactly
<1>9. DropBytes(HeaderSize, a) = e \o r
  <2>1. h \in Seq(C) /\ e \o r \in Seq(C)
    BY <1>2, <1>6
  <2>2. DropBytes(Bytes(h), h \o (e \o r)) = e \o r
    BY <1>1, <2>1, TakeExactly
  <2> QED BY <1>3, <1>6, <2>2
<1>10. TakeBytes(Bytes(e), e \o r) = e
  BY <1>1, <1>2, TakeExactly
<1>11. /\ n - HeaderSize = Bytes(e) /\ n \in Nat /\ n > HeaderSize
  BY <1>3 DEF HeaderSize, f
<1>12. DropBytes(0, a) = a
  <2>1. <<>> \in Seq(C) /\ <<>> \o a = a /\ Bytes(<<>>) = 0
    BY <1>6, ConcatEmptySeq, BytesEmpty
  <2> HIDE DEF a
  <2>2. a \in Seq(C)
    BY <1>6
  <2>3. DropBytes(Bytes(<<>>), <<>> \o a) = a
    BY <1>1, <2>1, <2>2, TakeExactly
  <2> QED BY <2>1, <2>3
<1>13. Analyze(TakeBytes(Bytes(e), a)).type = NoPacketType
  <2> DEFINE d == TakeBytes(Bytes(e), a)
  <2>1. d = <<>> \/ d[1] = a[1]
    <3> HIDE DEF a
    <3>1. a \in Seq(C)
      BY <1>6
    <3> QED BY <3>1, TakeBegins
  <2>2. a[1] = Header(p)
    <3>1. 1 \in 1..Len(f)
      BY <1>4
    <3> QED BY <1>1, <1>2, <1>4, <3>1, ConcatProperties
  <2>3. Header(p).width # 8
    BY HeaderIs DEF HeaderSize
  <2> HIDE DEF d
  <2>4. d = <<>> \/ d[1].width # 8
    BY <2>1, <2>2, <2>3
  <2>5. Analyze(d).type = NoPacketType
    BY <2>4, NotAPacket
  <2> QED BY <2>5 DEF d
<1> QED BY <1>5, <1>7, <1>8, <1>9, <1>10, <1>11, <1>12, <1>13 DEF f, e, C
-----------------------------------------------------------------------------
(***************************************************************************)
(* onRecv.  What the sender has sent is what has been cut out, followed by *)
(* what lies in main_buffer_ and in the receive's own buffer, followed by  *)
(* what is on the way: no byte is lost or read twice, wherever the         *)
(* segments end.  main_buffer_offset is the number of bytes in             *)
(* main_buffer_, or was never set; and as long as segments end where       *)
(* packets end, both buffers are empty when a receive is posted.           *)
(***************************************************************************)
ReceivedPacket == ClientPacket \cup TerminalPacket

\* the packets of the sender that are still to be cut out, and the bytes of them received
ToCut == Rest(requests, storage)
Held == IF cutting THEN main_buffer_ ELSE buffer_

CutSoFar == /\ requests \in Seq(ReceivedPacket) /\ storage \in Seq(ReceivedPacket)
            /\ ToCut \in Seq(ReceivedPacket)
            /\ requests = storage \o ToCut

\* nothing is left over in main_buffer_, or nothing has come yet
Followed == main_buffer_offset = 0 \/ cutting \/ aligned

Buffers ==
  /\ Divided(ReceivedPacket, ToCut, Held, toRecv)
  /\ buffer_ \in Seq(CellsFor(ReceivedPacket))
  /\ cutting => main_buffer_offset = Bytes(main_buffer_) + ahead
  /\ ahead \in 0..3 /\ (ahead # 0 => AtBoundary(toRecv))
  /\ offset \in {0, HeaderSize}

Aligned ==
  aligned => /\ AtBoundary(toRecv) /\ ahead = 0
             /\ ~cutting => buffer_ = <<>> /\ totalBytes_ = 0

CutInv ==
  ~strayed => CutSoFar /\ (receiving => (Followed => Buffers) /\ Aligned)

LEMMA ReceivedSound == Packets(ReceivedPacket) /\ Sized(CellsFor(ReceivedPacket))
<1>1. Packets(ReceivedPacket)
  BY ReceivedPackets DEF Packets, ReceivedPacket
<1> QED BY <1>1, CellsForSized

LEMMA NothingHeld ==
  ASSUME NEW C, Sized(C), NEW s \in Seq(C), Bytes(s) = 0
  PROVE  s = <<>>
<1>1. s # <<>> => Bytes(s) > 0
  BY BytesPositive
<1> QED BY <1>1

LEMMA sentKeeps ==
  ASSUME CutInv, NEW p \in ReceivedPacket, OnTheWay(p) PROVE CutInv'
<1> SUFFICES ASSUME ~strayed PROVE CutInv'
  BY DEF CutInv, OnTheWay
<1> DEFINE P == ReceivedPacket
<1>1. /\ receiving /\ CutSoFar /\ (Followed => Buffers) /\ Aligned
      /\ requests' = Append(requests, p) /\ toRecv' = toRecv \o Framed(p)
      /\ UNCHANGED <<ahead, buffer_, totalBytes_, main_buffer_, main_buffer_offset, offset,
                     cutting, storage, receiving, aligned>>
  BY DEF OnTheWay, CutInv
<1>2. CutSoFar' /\ ToCut' = Append(ToCut, p)
  <2>1. /\ storage \in Seq(P) /\ ToCut \in Seq(P) /\ requests = storage \o ToCut
        /\ storage' = storage /\ requests' = Append(requests, p)
    BY <1>1 DEF CutSoFar
  <2>2. requests' = storage \o Append(ToCut, p) /\ Append(ToCut, p) \in Seq(P)
    BY <2>1, AppendToConcat, AppendProperties
  <2>3. Rest(requests', storage') = Append(ToCut, p)
    BY <2>1, <2>2, RestIs
  <2>4. ToCut' = Append(ToCut, p)
    BY <2>3 DEF ToCut
  <2>5. requests' \in Seq(P)
    BY <1>1 DEF CutSoFar
  <2> QED BY <2>1, <2>2, <2>4, <2>5 DEF CutSoFar
<1>3. CASE Followed
  <2>1. Divided(P, ToCut, Held, toRecv) /\ Held' = Held
    BY <1>1, <1>3 DEF Buffers, Held
  <2>2. /\ Divided(P, ToCut', Held', toRecv')
        /\ AtBoundary(toRecv) => AtBoundary(toRecv')
    BY <1>1, <1>2, <2>1, ReceivedSound, DividedAppend
  <2>3. Buffers'
    BY <1>1, <1>3, <2>2 DEF Buffers
  <2>4. Aligned'
    BY <1>1, <2>2 DEF Aligned
  <2> QED BY <1>2, <2>3, <2>4 DEF CutInv
<1>4. CASE ~Followed
  <2>1. ~Followed' /\ Aligned'
    BY <1>1, <1>4 DEF Followed, Aligned
  <2> QED BY <1>2, <2>1 DEF CutInv
<1> QED BY <1>3, <1>4

LEMMA receiveKeeps ==
  ASSUME CutInv, NEW k \in 0..Len(toRecv), NEW h \in 0..(HeaderSize - 1), Receive(k, h)
  PROVE  CutInv'
<1> SUFFICES ASSUME ~strayed' PROVE CutInv'
  BY DEF CutInv
<1> DEFINE P == ReceivedPacket
           C == CellsFor(P)
           segment == SubSeq(toRecv, 1, k)
           rest == SubSeq(toRecv, k + 1, Len(toRecv))
           cells == buffer_ \o segment
           held == Bytes(cells) + h
           len == LengthSoFar(cells, rest, h)
           found == setupTotalBytes(totalBytes_, len)
           more == needMoreIO(held, found.total)
<1>1. /\ receiving /\ ~cutting
      /\ h > 0 => AtBoundary(rest)
      /\ Bytes(segment) + h - ahead \in 1..posted
      /\ toRecv' = rest /\ ahead' = h
      /\ aligned' = (aligned /\ h = 0 /\ AtBoundary(rest))
      /\ UNCHANGED <<requests, storage>>
  BY Zenon DEF Receive
<1>2. \/ Stops
      \/ more /\ RecvMore(cells, held, found.total, len)
      \/ ~more /\ main_buffer_offset = 0 /\ main_buffer_' = cells /\ ToLoop(cells, held, found.offset)
  BY Zenon DEF Receive, ToMainBuffer, PastBuffer
<1>3. ~strayed
  BY Zenon DEF Receive, ToMainBuffer, PastBuffer, Stops
<1>4. CutSoFar /\ (Followed => Buffers) /\ Aligned
  BY <1>1, <1>3 DEF CutInv
<1>5. CutSoFar' /\ ToCut' = ToCut
  BY <1>1, <1>4 DEF CutSoFar, ToCut
<1>6. CASE Stops
  <2>1. receiving' = FALSE
    BY <1>6 DEF Stops
  <2> QED BY <1>5, <2>1 DEF CutInv
<1>7. CASE ~Followed /\ more /\ RecvMore(cells, held, found.total, len)
  <2>1. ~aligned' /\ ~cutting' /\ main_buffer_offset' # 0
    BY <1>1, <1>7 DEF RecvMore, Followed
  <2> QED BY <1>5, <2>1 DEF CutInv, Followed, Aligned
<1>8. CASE Followed /\ ~Stops
  <2>1. /\ Divided(P, ToCut, buffer_, toRecv) /\ buffer_ \in Seq(C)
        /\ ahead \in 0..3 /\ offset \in {0, HeaderSize}
    BY <1>1, <1>4, <1>8 DEF Buffers, Held
  <2>2. Divided(P, ToCut, cells, rest) /\ cells \in Seq(C) /\ segment \in Seq(C)
    <3>1. CASE k # 0
      <4>1. k \in 1..Len(toRecv)
        BY <3>1
      <4>2. Divided(P, ToCut, cells, rest) /\ segment \in Seq(C)
        BY <2>1, <4>1, DividedMove
      <4> QED BY <4>2 DEF Divided
    <3>2. CASE k = 0
      <4>1. toRecv \in Seq(C)
        BY <2>1 DEF Divided
      <4>2. segment = <<>> /\ rest = toRecv /\ segment \in Seq(C)
        BY <3>2, <4>1
      <4>3. cells = buffer_
        BY <2>1, <4>2, ConcatEmptySeq
      <4> QED BY <2>1, <4>2, <4>3
    <3> QED BY <3>1, <3>2
  <2> HIDE DEF C, segment, rest
  <2>3. found.offset \in {0, HeaderSize} /\ found.total = totalBytes_ + len
    BY DEF setupTotalBytes
  <2>4. Bytes(cells) \in Nat /\ Bytes(segment) \in Nat
    BY <2>2, ReceivedSound, BytesNat DEF C
  <2>5. ASSUME aligned' PROVE ~more
    <3>1. /\ h = 0 /\ AtBoundary(rest) /\ buffer_ = <<>> /\ totalBytes_ = 0 /\ ahead = 0
      BY <1>1, <1>4, <2>5 DEF Aligned
    <3>2. cells = segment
      BY <2>2, <3>1, ConcatEmptySeq
    <3>3. segment # <<>>
      <4>1. Bytes(segment) >= 1
        BY <1>1, <2>4, <3>1
      <4> QED BY <4>1, BytesEmpty
    <3> DEFINE g == Head(ToCut)
               r == Rest(segment, Framed(g))
    <3>4. Divided(P, ToCut, segment, rest)
      BY <2>2, <3>2
    <3>5. PacketLen(segment) = Bytes(Framed(g)) /\ g \in P
      BY <3>3, <3>4, ReceivedSound, FirstFrame
    <3>6. segment = Framed(g) \o r /\ Divided(P, Tail(ToCut), r, rest)
      BY <3>1, <3>3, <3>4, ReceivedSound, WholeFrame
    <3> HIDE DEF g, r
    <3>7. r \in Seq(C)
      BY <3>6 DEF Divided, C
    <3>8. /\ Bytes(segment) = Bytes(Framed(g)) + Bytes(r)
          /\ Bytes(Framed(g)) \in Nat /\ Bytes(r) \in Nat
      BY <3>5, <3>6, <3>7, ReceivedSound, OwnBytes DEF C
    <3>9. len = PacketLen(segment)
      BY <3>1, <3>2 DEF LengthSoFar
    <3>10. found.total = Bytes(Framed(g))
      BY <2>3, <3>1, <3>5, <3>8, <3>9
    <3>11. held = Bytes(segment)
      BY <2>4, <3>1, <3>2
    <3> HIDE DEF found, cells, held
    <3> QED BY <3>8, <3>10, <3>11 DEF needMoreIO
  <2> HIDE DEF cells, len, found, more
  <2>6. CASE more /\ RecvMore(cells, held, found.total, len)
    <3>1. /\ buffer_' = cells
          /\ UNCHANGED <<main_buffer_, main_buffer_offset, offset, cutting, receiving>>
      BY <2>6 DEF RecvMore
    <3>2. Held' = cells
      BY <1>1, <3>1 DEF Held
    <3>3. h \in 0..3
      BY DEF HeaderSize
    <3>4. Buffers'
      BY <1>1, <1>5, <2>1, <2>2, <3>1, <3>2, <3>3 DEF Buffers, C
    <3>5. Aligned'
      BY <2>5, <2>6 DEF Aligned
    <3> QED BY <1>5, <3>4, <3>5 DEF CutInv
  <2>7. CASE /\ ~more /\ main_buffer_offset = 0 /\ main_buffer_' = cells
             /\ ToLoop(cells, held, found.offset)
    <3>1. /\ main_buffer_offset' = IF main_buffer_offset = Stale THEN Stale
                                   ELSE main_buffer_offset + held
          /\ offset' = found.offset /\ cutting' = TRUE /\ buffer_' = cells
      BY <2>7 DEF ToLoop
    <3>2. main_buffer_offset' = Bytes(cells) + h
      <4>1. 0 # Stale
        BY DEF Stale
      <4>2. h \in Nat
        BY DEF HeaderSize
      <4> QED BY <2>4, <2>7, <3>1, <4>1, <4>2
    <3>3. Held' = cells
      BY <2>7, <3>1 DEF Held
    <3>4. h \in 0..3
      BY DEF HeaderSize
    <3>5. Buffers'
      BY <1>1, <1>5, <2>2, <2>3, <2>7, <3>1, <3>2, <3>3, <3>4 DEF Buffers, C
    <3>6. Aligned'
      BY <1>1, <1>4, <3>1 DEF Aligned
    <3> QED BY <1>5, <3>5, <3>6 DEF CutInv
  <2> QED BY <1>2, <1>8, <2>6, <2>7
<1> QED BY <1>2, <1>6, <1>7, <1>8 DEF Followed

LEMMA cutKeeps ==
  ASSUME CutInv, CutPacket PROVE CutInv'
<1> SUFFICES ASSUME ~strayed PROVE CutInv'
  BY DEF CutPacket
<1> DEFINE P == ReceivedPacket
           C == CellsFor(P)
           n == PacketLen(main_buffer_)
           data == TakeBytes(n - HeaderSize, DropBytes(offset, main_buffer_))
           q == Analyze(data)
           h == Head(ToCut)
           r == Rest(main_buffer_, Framed(h))
<1>1. /\ receiving /\ cutting /\ CutSoFar /\ Buffers /\ Aligned
      /\ HeaderSize < main_buffer_offset /\ n <= main_buffer_offset
      /\ UNCHANGED <<toRecv, ahead, requests, buffer_, offset, cutting, aligned>>
  BY DEF CutPacket, Whole, CutInv, Followed
<1>2. \/ receiving' = FALSE /\ UNCHANGED storage
      \/ /\ q.type # NoPacketType /\ storage' = Append(storage, q)
         /\ main_buffer_' = DropBytes(n, main_buffer_)
         /\ main_buffer_offset' = main_buffer_offset - n
         /\ UNCHANGED receiving
  BY DEF CutPacket
<1>3. CASE receiving' = FALSE /\ UNCHANGED storage
  <2>1. CutSoFar'
    BY <1>1, <1>3 DEF CutSoFar, ToCut
  <2> QED BY <1>3, <2>1 DEF CutInv
<1>4. CASE /\ q.type # NoPacketType /\ storage' = Append(storage, q)
           /\ main_buffer_' = DropBytes(n, main_buffer_)
           /\ main_buffer_offset' = main_buffer_offset - n
           /\ UNCHANGED receiving
  <2>1. /\ Divided(P, ToCut, main_buffer_, toRecv) /\ main_buffer_ \in Seq(C)
        /\ main_buffer_offset = Bytes(main_buffer_) + ahead /\ buffer_ \in Seq(C)
        /\ ahead \in 0..3 /\ (ahead # 0 => AtBoundary(toRecv))
        /\ offset \in {0, HeaderSize}
    BY <1>1 DEF Buffers, Held, Divided
  <2>2. main_buffer_ # <<>>
    BY <1>1, <2>1, BytesEmpty DEF HeaderSize
  <2>3. n = Bytes(Framed(h)) /\ h \in P /\ ToCut = <<h>> \o Tail(ToCut) /\ Tail(ToCut) \in Seq(P)
    BY <2>1, <2>2, ReceivedSound, FirstFrame
  <2>4. main_buffer_ = Framed(h) \o r /\ Divided(P, Tail(ToCut), r, toRecv)
    <3>1. Bytes(main_buffer_) \in Nat
      BY <2>1, ReceivedSound, BytesNat DEF C
    <3>2. AtBoundary(toRecv) \/ Bytes(Framed(h)) <= Bytes(main_buffer_)
      BY <1>1, <2>1, <2>3, <3>1
    <3> QED BY <2>1, <2>2, <3>2, ReceivedSound, WholeFrame
  <2> HIDE DEF C, n, h, r
  <2>5. r \in Seq(C)
    BY <2>4 DEF Divided, C
  <2>6. /\ DropBytes(n, main_buffer_) = r /\ Bytes(main_buffer_) = n + Bytes(r)
        /\ n \in Nat /\ Bytes(r) \in Nat
        /\ TakeBytes(n - HeaderSize, DropBytes(HeaderSize, main_buffer_)) = Encode(h)
        /\ Analyze(TakeBytes(n - HeaderSize, DropBytes(0, main_buffer_))).type = NoPacketType
    BY <2>3, <2>4, <2>5, ReceivedSound, OwnBytes DEF C
  <2>7. offset = HeaderSize /\ q = Analyze(Encode(h))
    BY <1>4, <2>1, <2>6
  <2>8. q = h
    <3>1. WellFormed(h)
      BY <2>3, ReceivedSound DEF Packets
    <3> HIDE DEF q
    <3> QED BY <1>4, <2>7, <3>1, AnalyzeInverts
  <2> HIDE DEF q
  <2>9. CutSoFar' /\ ToCut' = Tail(ToCut)
    <3> DEFINE t == Tail(ToCut)
    <3>1. /\ storage \in Seq(P) /\ t \in Seq(P) /\ h \in P /\ requests = storage \o (<<h>> \o t)
          /\ requests \in Seq(P)
      BY <1>1, <2>3 DEF CutSoFar
    <3> HIDE DEF t
    <3>2. storage \o <<h>> = Append(storage, h) /\ <<h>> \in Seq(P) /\ Append(storage, h) \in Seq(P)
      BY <3>1, AppendIsConcat
    <3>3. (storage \o <<h>>) \o t = storage \o (<<h>> \o t)
      BY <3>1, <3>2, ConcatAssociative
    <3>4. requests' = storage' \o t /\ storage' \in Seq(P) /\ requests' \in Seq(P)
      BY <1>1, <1>4, <2>8, <3>1, <3>2, <3>3
    <3>5. Rest(requests', storage') = t
      BY <3>1, <3>4, RestIs
    <3>6. ToCut' = t
      BY <3>5 DEF ToCut
    <3> QED BY <3>1, <3>4, <3>6 DEF CutSoFar, t
  <2>10. main_buffer_' = r /\ main_buffer_offset' = Bytes(r) + ahead'
    BY <1>1, <1>4, <2>1, <2>6
  <2>11. Held' = r
    BY <1>1, <2>10 DEF Held
  <2>12. Buffers'
    BY <1>1, <2>1, <2>4, <2>5, <2>9, <2>10, <2>11 DEF Buffers, C
  <2>13. Aligned'
    BY <1>1 DEF Aligned
  <2> QED BY <2>9, <2>12, <2>13 DEF CutInv
<1> QED BY <1>2, <1>3, <1>4

LEMMA standByKeeps ==
  ASSUME CutInv, StandBy PROVE CutInv'
<1> SUFFICES ASSUME ~strayed PROVE CutInv'
  BY DEF StandBy, PostReceive, CutInv
<1> DEFINE P == ReceivedPacket
           C == CellsFor(P)
<1>1. /\ receiving /\ cutting /\ CutSoFar /\ Buffers /\ Aligned /\ ~Whole
      /\ cutting' = FALSE /\ buffer_' = <<>> /\ totalBytes_' = 0 /\ ahead' = 0
      /\ ahead = 0 => toRecv' = toRecv
      /\ UNCHANGED <<requests, main_buffer_, main_buffer_offset, offset, storage, aligned>>
  BY DEF StandBy, PostReceive, CutInv, Followed
<1>2. CutSoFar' /\ ToCut' = ToCut
  BY <1>1 DEF CutSoFar, ToCut
<1>3. /\ Divided(P, ToCut, main_buffer_, toRecv) /\ main_buffer_ \in Seq(C)
      /\ main_buffer_offset = Bytes(main_buffer_) + ahead
      /\ ahead \in 0..3 /\ Bytes(main_buffer_) \in Nat
  <2>1. Divided(P, ToCut, main_buffer_, toRecv) /\ main_buffer_ \in Seq(C)
    BY <1>1 DEF Buffers, Held, Divided
  <2>2. Bytes(main_buffer_) \in Nat
    BY <2>1, ReceivedSound, BytesNat DEF C
  <2> QED BY <1>1, <2>1, <2>2 DEF Buffers
<1>4. ASSUME aligned, main_buffer_ # <<>> PROVE FALSE
  <2> DEFINE h == Head(ToCut)
             r == Rest(main_buffer_, Framed(h))
  <2>1. PacketLen(main_buffer_) = Bytes(Framed(h)) /\ h \in P
    BY <1>3, <1>4, ReceivedSound, FirstFrame
  <2>2. AtBoundary(toRecv) /\ ahead = 0
    BY <1>1, <1>4 DEF Aligned
  <2>3. main_buffer_ = Framed(h) \o r /\ Divided(P, Tail(ToCut), r, toRecv)
    BY <1>3, <1>4, <2>2, ReceivedSound, WholeFrame
  <2> HIDE DEF h, r, C
  <2>4. r \in Seq(C)
    BY <2>3 DEF Divided, C
  <2>5. /\ Bytes(main_buffer_) = Bytes(Framed(h)) + Bytes(r)
        /\ Bytes(Framed(h)) \in Nat /\ Bytes(r) \in Nat /\ Bytes(Framed(h)) > HeaderSize
    BY <2>1, <2>3, <2>4, ReceivedSound, OwnBytes DEF C
  <2> QED BY <1>1, <1>3, <2>1, <2>2, <2>5 DEF Whole, HeaderSize
<1>5. Aligned'
  <2>1. aligned => ahead = 0 /\ AtBoundary(toRecv)
    BY <1>1 DEF Aligned
  <2> QED BY <1>1, <2>1 DEF Aligned
<1>6. ASSUME Followed' PROVE main_buffer_ = <<>> /\ ahead = 0
  <2>1. CASE main_buffer_offset = 0
    <3>1. Bytes(main_buffer_) = 0 /\ ahead = 0
      BY <1>3, <2>1
    <3> QED BY <1>3, <3>1, ReceivedSound, NothingHeld
  <2>2. CASE aligned
    BY <1>1, <1>4, <2>2 DEF Aligned
  <2> QED BY <1>1, <1>6, <2>1, <2>2 DEF Followed
<1>7. Followed' => Buffers'
  <2> SUFFICES ASSUME Followed' PROVE Buffers'
    OBVIOUS
  <2>1. Held' = main_buffer_ /\ toRecv' = toRecv /\ <<>> \in Seq(C)
    BY <1>1, <1>6 DEF Held
  <2> QED BY <1>1, <1>2, <1>3, <2>1 DEF Buffers
<1> QED BY <1>2, <1>5, <1>7 DEF CutInv

LEMMA CutInvariant == StreamSpec => []CutInv
<1>1. StreamInit => CutInv
  <2> SUFFICES ASSUME StreamInit PROVE CutInv
    OBVIOUS
  <2> DEFINE P == ReceivedPacket
             C == CellsFor(P)
  <2>1. /\ requests = <<>> /\ storage = <<>> /\ toRecv = <<>> /\ buffer_ = <<>>
        /\ main_buffer_ = <<>> /\ main_buffer_offset \in {0, Stale} /\ offset = 0
        /\ cutting = FALSE /\ totalBytes_ = 0 /\ ahead = 0
    BY DEF StreamInit, RecvInit
  <2>2. <<>> \in Seq(P) /\ <<>> \in Seq(C) /\ <<>> \o <<>> = <<>>
    <3>1. ASSUME NEW S PROVE <<>> \in Seq(S)
      OBVIOUS
    <3>2. <<>> \o <<>> = <<>>
      BY <3>1, ConcatEmptySeq
    <3> QED BY <3>1, <3>2
  <2>3. Rest(<<>> \o <<>>, <<>>) = <<>>
    BY <2>2, RestIs
  <2>4. ToCut = <<>> /\ Held = <<>>
    BY <2>1, <2>2, <2>3 DEF ToCut, Held
  <2>5. Divided(P, ToCut, Held, toRecv)
    BY <2>1, <2>2, <2>4, FramesEmpty DEF Divided
  <2>6. Buffers
    BY <2>1, <2>2, <2>5, BytesEmpty DEF Buffers
  <2>7. Aligned
    BY <2>1 DEF Aligned, AtBoundary
  <2>8. CutSoFar
    BY <2>1, <2>2, <2>4 DEF CutSoFar
  <2> QED BY <2>6, <2>7, <2>8 DEF CutInv
<1>2. CutInv /\ [StreamNext]_streamVars => CutInv'
  <2> SUFFICES ASSUME CutInv, RecvNext \/ UNCHANGED recvVars PROVE CutInv'
    BY DEF StreamNext, streamVars
  <2>1. CASE UNCHANGED recvVars
    BY <2>1 DEF recvVars, CutInv, CutSoFar, Followed, Buffers, Aligned, ToCut, Held
  <2>2. CASE \E p \in ClientPacket : SendsFramed(p)
    BY <2>2, sentKeeps DEF SendsFramed, ReceivedPacket
  <2>3. CASE \E p \in TerminalPacket : TerminalSends(p)
    BY <2>3, sentKeeps DEF TerminalSends, ReceivedPacket
  <2>4. CASE \E k \in 0..Len(toRecv), h \in 0..(HeaderSize - 1) : Receive(k, h)
    BY <2>4, receiveKeeps
  <2>5. CASE CutAstray
    BY <2>5 DEF CutAstray, CutInv
  <2> QED BY <2>1, <2>2, <2>3, <2>4, <2>5, cutKeeps, standByKeeps DEF RecvNext
<1> QED BY <1>1, <1>2, PTL DEF StreamSpec

(***************************************************************************)
(* onRecv, setupTotalBytes, needMoreIO, analyzer: however the stream is    *)
(* split and coalesced, in the middle of a header too, and whatever the    *)
(* packets are, those handed on are those the sender has sent, in its      *)
(* order, member by member - until bytes are written past an array.        *)
(***************************************************************************)
THEOREM CutsWhatWasSent == StreamSpec => []CutInOrder
<1>1. CutInv => CutInOrder
  BY PrefixIs DEF CutInv, CutSoFar, CutInOrder
<1> QED BY <1>1, CutInvariant, PTL

(***************************************************************************)
(* As long as each segment ends where a packet ends, one packet or         *)
(* several, everything received has been cut out when onRecv posts the     *)
(* next receive.                                                           *)
(***************************************************************************)
THEOREM NothingIsLeftOver == StreamSpec => []WholeSegmentsAreCut
<1>1. CutInv => WholeSegmentsAreCut
  <2> SUFFICES ASSUME CutInv, receiving, aligned, ~strayed, ~cutting
               PROVE  Len(storage) + Headers(toRecv) = Len(requests)
    BY DEF WholeSegmentsAreCut
  <2> DEFINE P == ReceivedPacket
             C == CellsFor(P)
  <2>1. CutSoFar /\ Buffers /\ Aligned
    BY DEF CutInv, Followed
  <2>2. Held = <<>>
    BY <2>1 DEF Aligned, Held
  <2>3. toRecv = Frames(ToCut)
    <3>1. toRecv \in Seq(C) /\ <<>> \o toRecv = Frames(ToCut)
      BY <2>1, <2>2 DEF Buffers, Divided
    <3> QED BY <3>1, ConcatEmptySeq
  <2>4. Headers(toRecv) = Len(ToCut)
    BY <2>1, <2>3, ReceivedSound, HeadersFrames DEF CutSoFar
  <2>5. Len(requests) = Len(storage) + Len(ToCut)
    BY <2>1, PrefixIs DEF CutSoFar
  <2> QED BY <2>4, <2>5
<1> QED BY <1>1, CutInvariant, PTL
-----------------------------------------------------------------------------
(***************************************************************************)
(* TerminalSession::onRecv, whose array is thrown away with the call: what *)
(* another server has answered is what has been handed on, followed by     *)
(* what this call has read, followed by what is on the way - unless a call *)
(* has read beyond its packet.                                             *)
(***************************************************************************)
\* the answers that are still to be handed on, to a terminal that never read beyond one
ToHand == Rest(answers, handed)

HandedSoFar == /\ answers \in Seq(PeerPacket) /\ handed \in Seq(PeerPacket)
               /\ ToHand \in Seq(PeerPacket)
               /\ answers = handed \o ToHand

\* in its loop it goes by the length of the packet it has begun
Reads ==
  /\ begun = 0 /\ reading \in {"start", "more", "stuck"}
  /\ reading = "start" => rowData = <<>>
  /\ reading = "more" => packetLen = Bytes(Framed(Head(ToHand))) /\ rowData # <<>>
                         /\ Bytes(rowData) < packetLen

HandInv ==
  alone /\ ~split => /\ HandedSoFar
                     /\ Divided(PeerPacket, ToHand, rowData, toTerminal)
                     /\ Reads

LEMMA PeerSound == Packets(PeerPacket) /\ Sized(CellsFor(PeerPacket))
<1>1. Packets(PeerPacket)
  BY PeerPackets DEF Packets
<1> QED BY <1>1, CellsForSized

LEMMA answerKeeps ==
  ASSUME HandInv, NEW p \in PeerPacket, PeerSends(p) PROVE HandInv'
<1> SUFFICES ASSUME alone', ~split' PROVE HandInv'
  BY DEF HandInv
<1> DEFINE P == PeerPacket
<1>1. /\ HandedSoFar /\ Divided(P, ToHand, rowData, toTerminal) /\ Reads
      /\ answers' = Append(answers, p) /\ toTerminal' = toTerminal \o Framed(p)
      /\ UNCHANGED <<begun, rowData, packetLen, reading, handed, alone, split>>
  BY DEF PeerSends, HandInv
<1>2. HandedSoFar' /\ ToHand' = Append(ToHand, p)
  <2>1. /\ handed \in Seq(P) /\ ToHand \in Seq(P) /\ answers = handed \o ToHand
        /\ handed' = handed /\ answers \in Seq(P)
    BY <1>1 DEF HandedSoFar
  <2>2. answers' = handed \o Append(ToHand, p) /\ Append(ToHand, p) \in Seq(P)
    <3>1. Append(handed \o ToHand, p) = handed \o Append(ToHand, p)
      <4>1. handed \in Seq(P) /\ ToHand \in Seq(P) /\ <<p>> \in Seq(P)
        BY <2>1
      <4>2. (handed \o ToHand) \o <<p>> = handed \o (ToHand \o <<p>>)
        BY <4>1, ConcatAssociative
      <4>3. Append(ToHand, p) = ToHand \o <<p>>
        BY <4>1, AppendIsConcat
      <4>4. handed \o ToHand \in Seq(P)
        BY <4>1
      <4>5. Append(handed \o ToHand, p) = (handed \o ToHand) \o <<p>>
        BY <4>4, AppendIsConcat
      <4> QED BY <4>2, <4>3, <4>5
    <3>2. Append(ToHand, p) \in Seq(P)
      BY <2>1
    <3> QED BY <1>1, <2>1, <3>1, <3>2
  <2>3. Rest(answers', handed') = Append(ToHand, p)
    BY <2>1, <2>2, RestIs
  <2>4. ToHand' = Append(ToHand, p)
    BY <2>3 DEF ToHand
  <2>5. answers' \in Seq(P)
    BY <1>1, <2>1
  <2> QED BY <2>1, <2>2, <2>4, <2>5 DEF HandedSoFar
<1>3. Divided(P, ToHand', rowData', toTerminal')
  BY <1>1, <1>2, PeerSound, DividedAppend
<1>4. Reads'
  <2>1. rowData # <<>> => Head(ToHand') = Head(ToHand)
    <3>1. rowData # <<>> => ToHand = <<Head(ToHand)>> \o Tail(ToHand) /\ Head(ToHand) \in P
                           /\ Tail(ToHand) \in Seq(P)
      BY <1>1, PeerSound, FirstFrame
    <3>2. ToHand \in Seq(P)
      BY <1>1 DEF HandedSoFar
    <3>3. ToHand # <<>> => Head(Append(ToHand, p)) = Head(ToHand)
      BY <3>2
    <3>4. rowData # <<>> => ToHand # <<>>
      <4>1. ASSUME NEW x \in P, NEW t \in Seq(P) PROVE <<x>> \o t # <<>>
        OBVIOUS
      <4> QED BY <3>1, <4>1
    <3> QED BY <1>2, <3>3, <3>4
  <2> QED BY <1>1, <2>1 DEF Reads
<1> QED BY <1>2, <1>3, <1>4 DEF HandInv

LEMMA NotBeyond ==
  ASSUME NEW P, Packets(P), NEW ps, NEW a, NEW b, Divided(P, ps, a, b), a # <<>>,
         AtBoundary(b)
  PROVE  /\ Bytes(Framed(Head(ps))) <= Bytes(a)
         /\ Bytes(Framed(Head(ps))) \in Nat /\ Bytes(a) \in Nat
<1> DEFINE C == CellsFor(P)
           h == Head(ps)
           r == Rest(a, Framed(h))
<1>1. h \in P
  BY FirstFrame
<1>2. a = Framed(h) \o r /\ Divided(P, Tail(ps), r, b)
  BY WholeFrame
<1> HIDE DEF h, r
<1>3. r \in Seq(C)
  BY <1>2 DEF Divided
<1>4. /\ Bytes(a) = Bytes(Framed(h)) + Bytes(r)
      /\ Bytes(Framed(h)) \in Nat /\ Bytes(r) \in Nat
  BY <1>1, <1>2, <1>3, OwnBytes
<1> QED BY <1>4 DEF h

LEMMA onRecvKeeps ==
  ASSUME HandInv, NEW k \in 0..Len(toTerminal), NEW b \in 0..(HeaderSize - 1), onRecvRow(k, b)
  PROVE  HandInv'
<1> SUFFICES ASSUME alone', ~split' PROVE HandInv'
  BY DEF HandInv
<1> DEFINE P == PeerPacket
           C == CellsFor(P)
           row == Row(k)
           held == Bytes(row) + b
           h == Head(ToHand)
           r == Rest(row, Framed(h))
<1>1. PICK len \in Lengths(k, b) :
        /\ \/ held < len /\ LoopsOn(k, b, len)
           \/ /\ held >= len /\ held >= HeaderSize
              /\ Hands(Analyze(TakeBytes(len, Tail(row))), k, b)
           \/ held >= len /\ held < HeaderSize /\ HandsGarbled(k, b)
        /\ alone' = (alone /\ held <= len)
  BY DEF onRecvRow
<1>2. recvSome(k, b) /\ split' = (split \/ held < HeaderSize) /\ UNCHANGED answers
  BY Zenon DEF onRecvRow
<1> DEFINE q == Analyze(TakeBytes(len, Tail(row)))
<1>3. /\ HandedSoFar /\ Divided(P, ToHand, rowData, toTerminal) /\ Reads
      /\ alone /\ ~split /\ held <= len /\ ~(held < HeaderSize)
  BY <1>1, <1>2 DEF HandInv
<1>4. k \in 1..Len(toTerminal)
  <2> SUFFICES ASSUME k = 0 PROVE FALSE
    OBVIOUS
  <2>1. Bytes(SubSeq(toTerminal, 1, k)) + b > begun /\ reading # "stuck"
    BY <1>2 DEF recvSome
  <2>2. toTerminal \in Seq(C) /\ rowData \in Seq(C)
    BY <1>3 DEF Divided
  <2>3. SubSeq(toTerminal, 1, 0) = <<>> /\ Unread(0) = toTerminal
    BY <2>2 DEF Unread
  <2>4. b # 0 /\ AtBoundary(toTerminal)
    <3>1. 0 + b > 0
      BY <1>3, <2>1, <2>3, BytesEmpty DEF Reads
    <3>2. b > 0
      BY <3>1 DEF HeaderSize
    <3> QED BY <1>2, <2>3, <3>2 DEF recvSome
  <2>5. row = rowData
    <3>1. rowData \o <<>> = rowData
      BY <2>2, ConcatEmptySeq
    <3> QED BY <2>3, <3>1 DEF Row
  <2>6. rowData # <<>>
    <3>1. rowData = <<>> => held = b
      BY <2>5, BytesEmpty DEF HeaderSize
    <3> QED BY <1>3, <3>1 DEF HeaderSize
  <2>7. reading = "more"
    BY <1>3, <2>1, <2>6 DEF Reads
  <2>8. Bytes(Framed(h)) <= Bytes(rowData) /\ Bytes(Framed(h)) \in Nat /\ Bytes(rowData) \in Nat
    BY <1>3, <2>4, <2>6, PeerSound, NotBeyond
  <2> QED BY <1>3, <2>7, <2>8 DEF Reads
<1>5. Divided(P, ToHand, row, Unread(k)) /\ row # <<>>
  BY <1>3, <1>4, DividedMove DEF Unread, Row
<1>6. PacketLen(row) = Bytes(Framed(h)) /\ h \in P /\ ToHand = <<h>> \o Tail(ToHand)
      /\ Tail(ToHand) \in Seq(P)
  BY <1>5, PeerSound, FirstFrame
<1>7. Bytes(row) \in Nat /\ Bytes(Framed(h)) \in Nat /\ row \in Seq(C)
  <2>1. row \in Seq(C)
    BY <1>5 DEF Divided, C
  <2>2. Framed(h) \in Seq(C)
    BY <1>6, PeerSound, FrameCells DEF C
  <2> QED BY <2>1, <2>2, PeerSound, BytesNat DEF C
<1>8. len = Bytes(Framed(h))
  <2>1. reading = "more" => len = Bytes(Framed(h))
    BY <1>1, <1>3 DEF Lengths, Reads
  <2>2. reading # "more" => len = PacketLen(row)
    <3>1. Bytes(Row(k)) + b >= HeaderSize
      BY <1>3, <1>7 DEF HeaderSize
    <3> QED BY <1>1, <3>1 DEF Lengths
  <2> QED BY <1>6, <2>1, <2>2
<1>9. b = 0
  <2> SUFFICES ASSUME b # 0 PROVE FALSE
    OBVIOUS
  <2>1. AtBoundary(Unread(k))
    BY <1>2 DEF recvSome, HeaderSize
  <2>2. Bytes(Framed(h)) <= Bytes(row)
    BY <1>5, <2>1, PeerSound, NotBeyond
  <2> HIDE DEF row, h
  <2> QED BY <1>3, <1>7, <1>8, <2>2 DEF HeaderSize
<1>10. held = Bytes(row)
  BY <1>7, <1>9
<1> HIDE DEF C, row, h, held
<1>11. CASE held < len /\ LoopsOn(k, b, len)
  <2>1. /\ rowData' = row /\ reading' = "more" /\ toTerminal' = Unread(k) /\ UNCHANGED handed
        /\ begun' = 0 /\ packetLen' = len
    BY <1>9, <1>11 DEF LoopsOn, row
  <2>2. HandedSoFar' /\ ToHand' = ToHand
    BY <1>2, <1>3, <2>1 DEF HandedSoFar, ToHand
  <2>3. Reads'
    BY <1>5, <1>8, <1>10, <1>11, <2>1, <2>2 DEF Reads, h
  <2> QED BY <1>5, <2>1, <2>2, <2>3 DEF HandInv
<1>12. CASE held >= len /\ Hands(q, k, b)
  <2>1. Bytes(row) = Bytes(Framed(h))
    BY <1>3, <1>7, <1>8, <1>10, <1>12
  <2>2. row = Framed(h) \o r /\ Divided(P, Tail(ToHand), r, Unread(k))
    <3>1. Bytes(Framed(h)) <= Bytes(row)
      BY <1>7, <2>1
    <3> QED BY <1>5, <3>1, PeerSound, WholeFrame DEF h
  <2> HIDE DEF r
  <2>3. r \in Seq(C)
    BY <2>2 DEF Divided, C
  <2>4. /\ Bytes(row) = Bytes(Framed(h)) + Bytes(r) /\ Bytes(r) \in Nat
        /\ Bytes(Framed(h)) - HeaderSize = Bytes(Encode(h)) /\ Bytes(Framed(h)) \in Nat
        /\ Tail(Framed(h)) = Encode(h)
    BY <1>6, <2>2, <2>3, PeerSound, OwnBytes DEF C
  <2>5. r = <<>> /\ row = Framed(h)
    <3>1. Bytes(r) = 0
      BY <2>1, <2>4
    <3>2. r = <<>>
      BY <2>3, <3>1, PeerSound, NothingHeld DEF C
    <3>3. Framed(h) \in Seq(C)
      BY <1>6, PeerSound, FrameCells DEF C
    <3> QED BY <2>2, <3>2, <3>3, ConcatEmptySeq
  <2>6. TakeBytes(len, Tail(row)) = Encode(h)
    <3>1. Encode(h) \in Seq(C)
      BY <1>6, PeerSound, FramedIs DEF C
    <3>2. Bytes(Encode(h)) <= Bytes(Framed(h))
      BY <2>4 DEF HeaderSize
    <3> QED BY <1>8, <2>4, <2>5, <3>1, <3>2, PeerSound, TakeAll DEF C
  <2>7. q = h /\ q.type # NoPacketType
    <3>1. WellFormed(h) /\ h.type # "S_NOTIFY_SERVER_IP"
      BY <1>6, PeerPackets
    <3>2. h.type # NoPacketType
      BY <3>1, TypesKnown DEF WellFormed
    <3> QED BY <2>6, <3>1, <3>2, AnalyzeInverts
  <2> HIDE DEF q
  <2>8. /\ rowData' = <<>> /\ handed' = Append(handed, h) /\ toTerminal' = Unread(k)
        /\ begun' = 0 /\ reading' = "start"
    BY <1>9, <1>12, <2>7 DEF Hands, CallEnds
  <2>9. HandedSoFar' /\ ToHand' = Tail(ToHand)
    <3> DEFINE t == Tail(ToHand)
    <3>1. /\ handed \in Seq(P) /\ t \in Seq(P) /\ h \in P /\ answers = handed \o (<<h>> \o t)
          /\ answers \in Seq(P)
      BY <1>3, <1>6 DEF HandedSoFar
    <3> HIDE DEF t
    <3>2. handed \o <<h>> = Append(handed, h) /\ <<h>> \in Seq(P) /\ Append(handed, h) \in Seq(P)
      BY <3>1, AppendIsConcat
    <3>3. (handed \o <<h>>) \o t = handed \o (<<h>> \o t)
      BY <3>1, <3>2, ConcatAssociative
    <3>4. answers' = handed' \o t /\ handed' \in Seq(P) /\ answers' \in Seq(P)
      BY <1>2, <2>8, <3>1, <3>2, <3>3
    <3>5. Rest(answers', handed') = t
      BY <3>1, <3>4, RestIs
    <3>6. ToHand' = t
      BY <3>5 DEF ToHand
    <3> QED BY <3>1, <3>4, <3>6 DEF HandedSoFar, t
  <2>10. Reads'
    BY <2>8 DEF Reads
  <2> QED BY <2>2, <2>5, <2>8, <2>9, <2>10 DEF HandInv
<1> QED BY <1>1, <1>3, <1>11, <1>12

LEMMA HandInvariant == StreamSpec => []HandInv
<1>1. StreamInit => HandInv
  <2> SUFFICES ASSUME StreamInit PROVE HandInv
    OBVIOUS
  <2> DEFINE P == PeerPacket
             C == CellsFor(P)
  <2>1. /\ answers = <<>> /\ handed = <<>> /\ rowData = <<>> /\ toTerminal = <<>>
        /\ begun = 0 /\ reading = "start"
    BY DEF StreamInit, TerminalInit
  <2>2. <<>> \in Seq(P) /\ <<>> \in Seq(C) /\ <<>> \o <<>> = <<>>
    <3>1. ASSUME NEW S PROVE <<>> \in Seq(S)
      OBVIOUS
    <3>2. <<>> \o <<>> = <<>>
      BY <3>1, ConcatEmptySeq
    <3> QED BY <3>1, <3>2
  <2>3. Rest(<<>> \o <<>>, <<>>) = <<>>
    BY <2>2, RestIs
  <2>4. ToHand = <<>>
    BY <2>1, <2>2, <2>3 DEF ToHand
  <2>5. Divided(P, ToHand, rowData, toTerminal)
    BY <2>1, <2>2, <2>4, FramesEmpty DEF Divided
  <2>6. HandedSoFar
    BY <2>1, <2>2, <2>4 DEF HandedSoFar
  <2> QED BY <2>1, <2>5, <2>6 DEF HandInv, Reads
<1>2. HandInv /\ [StreamNext]_streamVars => HandInv'
  <2> SUFFICES ASSUME HandInv, TerminalNext \/ UNCHANGED terminalVars PROVE HandInv'
    BY DEF StreamNext, streamVars
  <2>1. CASE UNCHANGED terminalVars
    BY <2>1 DEF terminalVars, HandInv, HandedSoFar, ToHand, Reads
  <2>2. CASE PeerGoes
    BY <2>2 DEF PeerGoes, HandInv, HandedSoFar, ToHand, Reads
  <2>3. CASE onRecvFails
    BY <2>3 DEF onRecvFails, HandInv, HandedSoFar, ToHand, Reads
  <2>4. CASE \E k \in 0..Len(toTerminal), b \in 0..(HeaderSize - 1) : onRecvRow(k, b)
    BY <2>4, onRecvKeeps
  <2> QED BY <2>1, <2>2, <2>3, <2>4, answerKeeps DEF TerminalNext
<1> QED BY <1>1, <1>2, PTL DEF StreamSpec

(***************************************************************************)
(* A terminal whose calls never read beyond their packet, and whose first  *)
(* recv brings a whole header, hands on the answers in order, without a    *)
(* gap, however each is split behind its header; between two calls nothing *)
(* of them is held back.                                                   *)
(***************************************************************************)
THEOREM AnswersReachTheirTerminal == StreamSpec => []AnswersAreHanded
<1>1. HandInv => AnswersAreHanded
  <2> SUFFICES ASSUME HandInv, alone, ~split
               PROVE  /\ IsPrefix(handed, answers)
                      /\ reading = "start" =>
                           Len(handed) + Headers(toTerminal) = Len(answers)
    BY DEF AnswersAreHanded
  <2>1. HandedSoFar /\ Divided(PeerPacket, ToHand, rowData, toTerminal)
    BY DEF HandInv
  <2>2. IsPrefix(handed, answers) /\ Len(answers) = Len(handed) + Len(ToHand)
    BY <2>1, PrefixIs DEF HandedSoFar
  <2>3. ASSUME reading = "start" PROVE Headers(toTerminal) = Len(ToHand)
    <3>1. rowData = <<>>
      BY <2>3 DEF HandInv, Reads
    <3>2. toTerminal \in Seq(CellsFor(PeerPacket)) /\ <<>> \o toTerminal = Frames(ToHand)
      BY <2>1, <3>1 DEF Divided
    <3>3. toTerminal = Frames(ToHand)
      BY <3>2, ConcatEmptySeq
    <3> QED BY <2>1, <3>3, PeerSound, HeadersFrames DEF HandedSoFar
  <2> QED BY <2>2, <2>3
<1> QED BY <1>1, HandInvariant, PTL
-----------------------------------------------------------------------------
(***************************************************************************)
(* Sending.  As long as no packet has been sent before the last one was    *)
(* done with, at most one send is pending, and it ends where the last      *)
(* piece on the wire ends.                                                 *)
(***************************************************************************)
Size(p) == Bytes(Encode(p))

\* the packets sent and the pieces of them on the wire
SentTypes == /\ sends \in Seq(ServerPacket)
             /\ onWire \in Seq(Nat \X Nat \X Nat)
             /\ wcur \in Nat /\ wtotal \in Nat

InOneGo == \A i \in 1..(Len(onWire) - 1) : Continues(onWire[i], onWire[i + 1])

Within == \A i \in DOMAIN onWire : /\ onWire[i][1] \in DOMAIN sends
                                   /\ onWire[i][3] <= Framing(onWire[i][1])

\* the piece sent last: completed, with nothing left, or on its way
Piece == onWire[Len(onWire)]

LastPiece ==
  IF sends = <<>> THEN onWire = <<>> /\ pending = <<>>
  ELSE /\ onWire # <<>>
       /\ Piece[1] = Len(sends)
       /\ \/ pending = <<>> /\ Piece[3] = Framing(Len(sends))
          \/ /\ wtotal = Framing(Len(sends))
             /\ \E k \in Nat : pending = <<k>> /\ wcur + k = Piece[3]

SendInv == ~overlapped => SentTypes /\ InOneGo /\ Within /\ LastPiece

LEMMA OnePending ==
  ASSUME NEW k, NEW i \in DOMAIN <<k>>
  PROVE  <<k>>[i] = k /\ RemoveAt(<<k>>, i) = <<>>
<1>1. i = 1
  OBVIOUS
<1>2. SubSeq(<<k>>, 1, 0) = <<>> /\ SubSeq(<<k>>, 2, 1) = <<>>
  OBVIOUS
<1>3. Len(<<k>>) = 1
  OBVIOUS
<1> QED BY <1>1, <1>2, <1>3 DEF RemoveAt

LEMMA refusedKeeps ==
  ASSUME SendInv, NEW p \in ServerPacket, sendPacket(p), ~Fits(Bytes(Encode(p))) PROVE SendInv'
<1> SUFFICES ASSUME ~overlapped'
             PROVE  SentTypes' /\ InOneGo' /\ Within' /\ LastPiece'
  BY DEF SendInv
<1>1. ~overlapped /\ pending = <<>> /\ UNCHANGED <<sends, pending, onWire>>
      /\ wcur' = 0 /\ wtotal' = 0
  BY DEF sendPacket
<1>2. SentTypes /\ InOneGo /\ Within /\ LastPiece
  BY <1>1 DEF SendInv
<1>3. SentTypes'
  BY <1>1, <1>2 DEF SentTypes
<1>4. InOneGo' /\ Within'
  BY <1>1, <1>2 DEF InOneGo, Within, Continues, Framing
<1>5. LastPiece'
  BY <1>1, <1>2 DEF LastPiece, Piece, Framing
<1> QED BY <1>3, <1>4, <1>5

LEMMA sendKeeps ==
  ASSUME SendInv, NEW p \in ServerPacket, sendPacket(p), Fits(Bytes(Encode(p))) PROVE SendInv'
<1> SUFFICES ASSUME ~overlapped'
             PROVE  SentTypes' /\ InOneGo' /\ Within' /\ LastPiece'
  BY DEF SendInv
<1>0. /\ sends' = Append(sends, p) /\ wcur' = 0 /\ wtotal' = HeaderSize + Size(p)
      /\ pending' = Append(pending, Size(p))
      /\ onWire' = Append(onWire, <<Len(sends'), 0, Size(p)>>)
  BY DEF sendPacket, FirstSend, Size
<1>1. /\ ~overlapped /\ pending = <<>>
      /\ SentTypes /\ InOneGo /\ Within /\ LastPiece
  BY DEF sendPacket, SendInv
<1>2. PICK m \in Nat, w \in Nat, b \in Nat : m = Len(sends) /\ w = Len(onWire) /\ b = Size(p)
  <2>1. Size(p) \in Nat
    BY ServerPackets, EncodeIs, WrittenSound DEF Size
  <2> QED BY <1>1, <2>1 DEF SentTypes
<1>3. /\ sends' = Append(sends, p)
      /\ wtotal' = HeaderSize + b /\ wcur' = 0 /\ pending' = <<b>>
  <2>1. Append(<<>>, b) = <<b>>
    OBVIOUS
  <2> QED BY <1>0, <1>1, <1>2, <2>1
<1>4. Len(sends') = m + 1 /\ sends'[m + 1] = p /\ \A i \in 1..m : sends'[i] = sends[i]
  BY <1>1, <1>2, <1>3 DEF SentTypes
<1>5. onWire' = Append(onWire, <<m + 1, 0, b>>)
  BY <1>0, <1>2, <1>4
<1>6. /\ Len(onWire') = w + 1 /\ onWire'[w + 1] = <<m + 1, 0, b>>
      /\ \A i \in 1..w : onWire'[i] = onWire[i]
  BY <1>1, <1>2, <1>5 DEF SentTypes
<1>7. SentTypes'
  BY <1>1, <1>2, <1>3, <1>5 DEF SentTypes, HeaderSize
<1>8. /\ DOMAIN onWire = 1..w /\ DOMAIN onWire' = 1..(w + 1)
      /\ DOMAIN sends = 1..m /\ DOMAIN sends' = 1..(m + 1)
  BY <1>1, <1>2, <1>4, <1>6, <1>7 DEF SentTypes
<1>9. /\ \A i \in 1..m : Framing(i)' = Framing(i)
      /\ Framing(m + 1)' = HeaderSize + b
  BY <1>2, <1>4 DEF Framing, Size
<1>10. w > 0 => m > 0 /\ onWire[w][1] = m /\ onWire[w][3] = Framing(m)
  BY <1>1, <1>2 DEF LastPiece, Piece, SentTypes
<1>11. ASSUME NEW i \in 1..w
       PROVE  onWire[i][1] \in 1..m /\ onWire[i][3] <= Framing(onWire[i][1])
  BY <1>1, <1>8, <1>11, Zenon DEF Within
<1>12. Within'
  <2> SUFFICES ASSUME NEW i \in 1..(w + 1), NEW e, e = onWire'[i]
               PROVE  e[1] \in 1..(m + 1) /\ e[3] <= Framing(e[1])'
    BY <1>8 DEF Within
  <2>1. CASE i = w + 1
    <3>1. e[1] = m + 1 /\ e[3] = b
      BY <1>6, <2>1
    <3>2. Framing(e[1])' = HeaderSize + b
      BY <1>9, <3>1
    <3> QED BY <1>2, <3>1, <3>2 DEF HeaderSize
  <2>2. CASE i \in 1..w
    <3>1. e = onWire[i]
      BY <1>6, <2>2
    <3>2. e[1] \in 1..m /\ e[3] <= Framing(e[1])
      BY <1>11, <2>2, <3>1
    <3>3. Framing(e[1])' = Framing(e[1])
      BY <1>9, <3>2
    <3> QED BY <1>2, <3>2, <3>3
  <2> QED BY <1>2, <2>1, <2>2
<1>13. InOneGo'
  <2> SUFFICES ASSUME NEW i \in 1..w, NEW e, NEW f, e = onWire'[i], f = onWire'[i + 1]
               PROVE  Continues(e, f)'
    BY <1>2, <1>6 DEF InOneGo
  <2>1. e = onWire[i] /\ e[1] \in 1..m
    BY <1>6, <1>11
  <2>2. Framing(e[1])' = Framing(e[1])
    BY <1>9, <2>1
  <2>3. CASE i < w
    <3>1. f = onWire[i + 1]
      BY <1>2, <1>6, <2>3
    <3>2. Continues(e, f)
      BY <1>1, <1>2, <2>1, <2>3, <3>1 DEF InOneGo
    <3> QED BY <2>2, <3>2 DEF Continues
  <2>4. CASE i = w
    <3>1. f = <<m + 1, 0, b>>
      BY <1>6, <2>4
    <3>2. e[1] = m /\ e[3] = Framing(m)
      BY <1>10, <2>1, <2>4
    <3> QED BY <2>2, <3>1, <3>2 DEF Continues
  <2> QED BY <1>2, <2>3, <2>4
<1>14. LastPiece'
  <2>1. sends' # <<>> /\ onWire' # <<>>
    BY <1>2, <1>3, <1>5
  <2>2. Piece' = <<m + 1, 0, b>>
    BY <1>6 DEF Piece
  <2>3. wtotal' = Framing(m + 1)'
    BY <1>3, <1>9
  <2>4. wcur' + b = b
    BY <1>2, <1>3
  <2> QED BY <1>2, <1>3, <1>4, <2>1, <2>2, <2>3, <2>4 DEF LastPiece
<1> QED BY <1>7, <1>12, <1>13, <1>14

LEMMA againKeeps ==
  ASSUME SendInv, onSend PROVE SendInv'
<1> SUFFICES ASSUME ~overlapped'
             PROVE  SentTypes' /\ InOneGo' /\ Within' /\ LastPiece'
  BY DEF SendInv
<1>1. /\ SentTypes /\ InOneGo /\ Within /\ LastPiece
      /\ UNCHANGED <<sends, wtotal>>
  BY DEF onSend, SendInv
<1>2. PICK i \in DOMAIN pending :
        LET cur  == wcur + pending[i]
            rest == RemoveAt(pending, i)
            more == wsabuf(cur, wtotal)
        IN /\ wcur' = cur
           /\ IF needMoreIO(cur, wtotal)
                THEN /\ pending' = Append(rest, more.len)
                     /\ onWire' = Append(onWire, <<Len(sends), more.first, more.end>>)
                ELSE pending' = rest /\ UNCHANGED onWire
  BY DEF onSend
<1>3. /\ sends # <<>> /\ onWire # <<>> /\ Piece[1] = Len(sends)
      /\ wtotal = Framing(Len(sends))
      /\ \E k \in Nat : pending = <<k>> /\ wcur + k = Piece[3]
  BY <1>1, <1>2 DEF LastPiece
<1>4. PICK k \in Nat : pending = <<k>> /\ wcur + k = Piece[3]
  BY <1>3
<1>5. pending[i] = k /\ RemoveAt(pending, i) = <<>>
  BY <1>2, <1>4, OnePending
<1>6. PICK m \in Nat, w \in Nat, c \in Nat, t \in Nat :
        m = Len(sends) /\ w = Len(onWire) /\ c = wcur + k /\ t = wtotal
  BY <1>1, <1>4 DEF SentTypes
<1>7. /\ wcur' = c
      /\ c < t => pending' = <<t - c>> /\ onWire' = Append(onWire, <<m, c, t>>)
      /\ ~(c < t) => pending' = <<>> /\ UNCHANGED onWire
  <2>1. Append(<<>>, t - c) = <<t - c>>
    OBVIOUS
  <2> QED BY <1>2, <1>5, <1>6, <2>1 DEF needMoreIO, wsabuf
<1>8. m > 0 /\ w > 0 /\ onWire[w][1] = m /\ onWire[w][3] = c /\ t = Framing(m)
  BY <1>1, <1>3, <1>4, <1>6 DEF Piece, SentTypes
<1>9. DOMAIN onWire = 1..w /\ DOMAIN sends = 1..m /\ DOMAIN sends' = 1..m
  BY <1>1, <1>6 DEF SentTypes
<1>10. \A n \in 1..m : Framing(n)' = Framing(n)
  BY <1>1 DEF Framing
<1>11. ASSUME NEW j \in 1..w
       PROVE  onWire[j][1] \in 1..m /\ onWire[j][3] <= Framing(onWire[j][1])
  BY <1>1, <1>9, <1>11, Zenon DEF Within
<1>12. c <= t
  BY <1>8, <1>11
<1>13. CASE c < t
  <2>0. /\ onWire' = Append(onWire, <<m, c, t>>)
        /\ <<m, c, t>> \in Nat \X Nat \X Nat
    BY <1>6, <1>7, <1>13
  <2>1. SentTypes'
    BY <1>1, <1>6, <1>7, <2>0 DEF SentTypes
  <2>2. /\ Len(onWire') = w + 1 /\ onWire'[w + 1] = <<m, c, t>>
        /\ \A j \in 1..w : onWire'[j] = onWire[j]
    BY <1>1, <1>6, <2>0 DEF SentTypes
  <2>3. DOMAIN onWire' = 1..(w + 1)
    BY <1>6, <2>1, <2>2 DEF SentTypes
  <2>4. Within'
    <3> SUFFICES ASSUME NEW j \in 1..(w + 1), NEW e, e = onWire'[j]
                 PROVE  e[1] \in 1..m /\ e[3] <= Framing(e[1])'
      BY <1>9, <2>3 DEF Within
    <3>1. CASE j = w + 1
      <4>1. e[1] = m /\ e[3] = t
        BY <2>2, <3>1
      <4> QED BY <1>6, <1>8, <1>10, <4>1
    <3>2. CASE j \in 1..w
      <4>1. e = onWire[j]
        BY <2>2, <3>2
      <4>2. e[1] \in 1..m /\ e[3] <= Framing(e[1])
        BY <1>11, <3>2, <4>1
      <4> QED BY <1>10, <4>2
    <3> QED BY <1>6, <3>1, <3>2
  <2>5. InOneGo'
    <3> SUFFICES ASSUME NEW j \in 1..w, NEW e, NEW f, e = onWire'[j], f = onWire'[j + 1]
                 PROVE  Continues(e, f)'
      BY <1>6, <2>2 DEF InOneGo
    <3>1. e = onWire[j] /\ e[1] \in 1..m
      BY <2>2, <1>11
    <3>2. CASE j < w
      <4>1. f = onWire[j + 1]
        BY <1>6, <2>2, <3>2
      <4>2. Continues(e, f)
        BY <1>1, <1>6, <3>1, <3>2, <4>1 DEF InOneGo
      <4> QED BY <1>10, <3>1, <4>2 DEF Continues
    <3>3. CASE j = w
      <4>1. f = <<m, c, t>>
        BY <2>2, <3>3
      <4> QED BY <1>8, <3>1, <3>3, <4>1 DEF Continues
    <3> QED BY <1>6, <3>2, <3>3
  <2>6. LastPiece'
    <3>1. onWire' # <<>> /\ Piece' = <<m, c, t>>
      BY <1>6, <2>2 DEF Piece
    <3>2. t - c \in Nat /\ c + (t - c) = t
      BY <1>6, <1>13
    <3>3. wtotal' = Framing(m)' /\ Len(sends') = m /\ sends' # <<>>
      BY <1>1, <1>3, <1>6, <1>8, <1>10
    <3> QED BY <1>7, <1>13, <3>1, <3>2, <3>3 DEF LastPiece
  <2> QED BY <2>1, <2>4, <2>5, <2>6
<1>14. CASE ~(c < t)
  <2>1. UNCHANGED <<sends, onWire, wtotal>> /\ wcur' = c /\ pending' = <<>> /\ c = t
    BY <1>1, <1>6, <1>7, <1>12, <1>14
  <2>2. SentTypes'
    BY <1>1, <1>6, <2>1 DEF SentTypes
  <2>3. InOneGo' /\ Within'
    BY <1>1, <2>1 DEF InOneGo, Within, Continues, Framing
  <2>4. LastPiece'
    BY <1>3, <1>4, <1>6, <2>1 DEF LastPiece, Piece, Framing
  <2> QED BY <2>2, <2>3, <2>4
<1> QED BY <1>13, <1>14

LEMMA SendInvariant == StreamSpec => []SendInv
<1>1. StreamInit => SendInv
  BY DEF StreamInit, SendInit, SendInv, SentTypes, InOneGo, Within, LastPiece
<1>2. SendInv /\ [StreamNext]_streamVars => SendInv'
  <2> SUFFICES ASSUME SendInv, SendNext \/ UNCHANGED sendVars PROVE SendInv'
    BY DEF StreamNext, streamVars
  <2>1. CASE UNCHANGED sendVars
    BY <2>1 DEF sendVars, SendInv, SentTypes, InOneGo, Within, LastPiece, Piece, Continues,
       Framing
  <2> QED BY <2>1, refusedKeeps, sendKeeps, againKeeps DEF SendNext
<1> QED BY <1>1, <1>2, PTL DEF StreamSpec

(***************************************************************************)
(* sendPacket, onSend and needMoreIO: as long as each packet is sent after *)
(* the last one is done with, packets leave once, whole and in order,      *)
(* whatever their sizes.                                                   *)
(***************************************************************************)
THEOREM PacketsLeaveWhole == StreamSpec => []SendsAreWhole
<1>1. SendInv => SendsAreWhole
  <2> SUFFICES ASSUME SendInv, ~overlapped PROVE SendsAreWhole
    BY DEF SendsAreWhole
  <2>1. InOneGo /\ Within /\ LastPiece
    BY DEF SendInv
  <2>2. ASSUME pending = <<>>, sends # <<>>
        PROVE  Last(onWire)[1] = Len(sends) /\ Last(onWire)[3] = Framing(Len(sends))
    BY <2>1, <2>2 DEF LastPiece, Piece, Last
  <2> QED BY <2>1, <2>2 DEF SendsAreWhole, InOneGo, Within
<1> QED BY <1>1, SendInvariant, PTL

(***************************************************************************)
(* What the handlers have sent are packets of theirs.                      *)
(***************************************************************************)
SendsKnown == sends \in Seq(ServerPacket)

(***************************************************************************)
(* encode() and decode() of every packet class, Stream's operators and     *)
(* PacketAnalyzer: whatever members a handler gives a packet, what         *)
(* analyzer() makes of its bytes is that packet.                           *)
(***************************************************************************)
THEOREM DecodesEverySent == StreamSpec => []DecodesAsSent
<1>1. StreamInit => SendsKnown
  BY DEF StreamInit, SendInit, SendsKnown
<1>2. SendsKnown /\ [StreamNext]_streamVars => SendsKnown'
  <2> SUFFICES ASSUME SendsKnown, SendNext \/ UNCHANGED sendVars PROVE SendsKnown'
    BY DEF StreamNext, streamVars
  <2>1. CASE UNCHANGED sendVars
    BY <2>1 DEF sendVars, SendsKnown
  <2>2. ASSUME NEW p \in ServerPacket, sendPacket(p) PROVE SendsKnown'
    <3>1. sends' = Append(sends, p) \/ sends' = sends
      BY <2>2 DEF sendPacket
    <3> QED BY <3>1 DEF SendsKnown
  <2>3. CASE onSend
    BY <2>3 DEF onSend, SendsKnown
  <2> QED BY <2>1, <2>2, <2>3 DEF SendNext
<1>3. SendsKnown => DecodesAsSent
  <2> SUFFICES ASSUME SendsKnown, NEW i \in DOMAIN sends, sends[i].type # "S_NOTIFY_SERVER_IP"
               PROVE  Analyze(Encode(sends[i])) = sends[i]
    BY DEF DecodesAsSent
  <2>1. WellFormed(sends[i])
    BY ServerPackets DEF SendsKnown
  <2> QED BY <2>1, AnalyzeInverts
<1> QED BY <1>1, <1>2, <1>3, PTL DEF StreamSpec
=============================================================================
