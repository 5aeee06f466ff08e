----------------------------- MODULE MCGameRoom -----------------------------
(***************************************************************************)
(* Instances of GameRoom: one room used twice, by two or three players,    *)
(* served by one contents thread, or by two whose handlers overlap.        *)
(***************************************************************************)
EXTENDS GameRoom

CONSTANTS i1, i2, i3, t1, t2

ThreePlayers == [id |-> {i1, i2, i3}, thread |-> {t1}, sends |-> 1]

LongGame == [id |-> {i1, i2}, thread |-> {t1}, sends |-> 2]

TwoThreads == [id |-> {i1, i2}, thread |-> {t1, t2}, sends |-> 1]

SetupsChecked == {ThreePlayers, LongGame, TwoThreads}
=============================================================================
