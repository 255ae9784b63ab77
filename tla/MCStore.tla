------------------------------ MODULE MCStore ------------------------------
(* Instances of Store for TLC.                                              *)
EXTENDS StorePromise

MCNBlk == [p \in Payloads |-> CASE p = "empty" -> 0 [] p = "small" -> 1 [] p = "big" -> 2]
=============================================================================
