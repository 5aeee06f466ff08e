------------------------------ MODULE MCLobby ------------------------------
(***************************************************************************)
(* Instances of Lobby: one or two rooms and three clients, one of them too *)
(* many for a room, whose sessions share three addresses, with four        *)
(* requests to enter between them, so that rooms, players and addresses    *)
(* are used again.                                                         *)
(***************************************************************************)
EXTENDS Lobby

Symmetry == {p @@ q @@ a @@ t : p \in Permutations(Client), q \in Permutations(Room),
                                a \in Permutations(Address), t \in Permutations(Thread)}

(* Two threads that have met at one room: what happens then is counted, but *)
(* nothing is claimed of it, so that its successors need not be visited.   *)
Apart == ~met
=============================================================================
