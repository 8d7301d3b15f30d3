--------------------------- MODULE MCTransaction ---------------------------
(* Instances of the transaction model for TLC.                              *)
EXTENDS Transaction, TLC

ClientSymmetry == Permutations(Client)
=============================================================================
