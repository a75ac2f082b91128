---------------------------- MODULE MCMsgQueue ----------------------------
(* Instances of MsgQueue for TLC.  Producers are interchangeable; workers are *)
(* not, since they are advised in table order.                                *)
EXTENDS MsgQueue, TLC

ProducerSymmetry == Permutations(Producers)
=============================================================================
