--------------------------- MODULE MCMultiLanClient ---------------------------
(* Instances of MultiLanClient for TLC.                                    *)
EXTENDS MultiLanClient, TLC

Symmetric == Permutations(Workers) \cup Permutations(Apps)
=============================================================================
