----------------------------- MODULE MCMonitor -----------------------------
(* Instances of the interface monitor for TLC.                              *)
EXTENDS Monitor, TLC

(* The monitor treats the networks alike: none is named in it.              *)
Networks == Permutations(Ssid)
=============================================================================
