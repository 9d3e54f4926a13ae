------------------------------ MODULE MCGameServer ------------------------------
(* Instances of GameServer for TLC.                                        *)
EXTENDS GameServer, TLC

Symmetric == Permutations(Batches)
=============================================================================
