------------------------------ MODULE MCAuthServer ------------------------------
(* Instances of AuthServer for TLC.                                        *)
EXTENDS AuthServer
=============================================================================
