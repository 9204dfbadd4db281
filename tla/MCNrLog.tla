------------------------------ MODULE MCNrLog ------------------------------
(* Instances of the log for TLC: one operation per replica. *)
EXTENDS NrLogProperties

MCOp == [r \in Replica |-> {r}]
=============================================================================
