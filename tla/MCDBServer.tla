----------------------------- MODULE MCDBServer -----------------------------
(* Instances of DBServer for TLC.                                          *)
EXTENDS DBServer, TLC

Symmetric == Permutations(Workers) \cup Permutations(Channels)
=============================================================================
