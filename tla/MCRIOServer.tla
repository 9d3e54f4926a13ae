---------------------------- MODULE MCRIOServer ----------------------------
(* Instances of RIOServer for TLC.                                         *)
EXTENDS RIOServerProperties, TLC

(* The packets' sizes.  With MaxSendBufferSize 6, packets 1 and 2 go into  *)
(* one stream, 2 and 3 fill it, all three are too long for it.  memcpy_s   *)
(* refuses packet 1, copies packet 2, and gets a negative bound for 3.     *)
Sizes == [i \in Packets |-> <<3, 2, 4>>[i]]

AppSymmetry == Permutations(Apps)
=============================================================================
