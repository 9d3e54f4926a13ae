----------------------------- MODULE MCODBCConnector -----------------------------
(* Instances of ODBCConnector for TLC.                                     *)
EXTENDS ODBCConnector, TLC

(* The second procedure has a parameter of a type without a default, which *)
(* the first one, bound before, may have left bound or not.                *)
MCParameters == 1 :> <<TRUE>> @@ 2 :> <<FALSE>> @@ 3 :> <<TRUE, FALSE>>
MCHasResult == {1, 3}

Symmetric == Permutations(Handlers)
=============================================================================
