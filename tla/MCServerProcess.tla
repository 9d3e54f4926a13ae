----------------------------- MODULE MCServerProcess -----------------------------
(* Instances of ServerProcess for TLC.                                     *)
EXTENDS ServerProcess, TLC

Symmetric == Permutations(Workers)
=============================================================================
