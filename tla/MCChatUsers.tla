---------------------------- MODULE MCChatUsers -----------------------------
(***************************************************************************)
(* Three addresses and a capacity of one: the second session is admitted,  *)
(* the third refused, and every address can be used again.  Two contents   *)
(* threads run the packets of up to three clients.                         *)
(***************************************************************************)
EXTENDS ChatUsers, TLC

ChatSymmetry == Permutations(Addr) \cup Permutations(Thread)
=============================================================================
