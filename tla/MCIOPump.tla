------------------------------ MODULE MCIOPump ------------------------------
(***************************************************************************)
(* Instances of IOPump: two sessions served by one IO worker, one session  *)
(* that sends packets of every kind and may lose its connection, and one   *)
(* served by two IO workers.                                               *)
(***************************************************************************)
EXTENDS IOPump

CONSTANTS s1, s2, w1, w2, t1, t2

Serial == [session |-> {s1, s2}, worker |-> {w1}, thread |-> {t1},
           kind |-> {"ok", "exit"}, packets |-> 2, breaks |-> FALSE]

EveryKind == [session |-> {s1}, worker |-> {w1}, thread |-> {t1},
              kind |-> {"ok", "nofunc", "invalid"}, packets |-> 2, breaks |-> TRUE]

Workers == [session |-> {s1}, worker |-> {w1, w2}, thread |-> {t1, t2},
            kind |-> {"ok"}, packets |-> 3, breaks |-> FALSE]

SetupsChecked == {Serial, EveryKind, Workers}
=============================================================================
