---------------------------- MODULE MCConexiones ----------------------------
(* Instances of Conexiones for TLC. *)
EXTENDS Conexiones

CONSTANTS w1, q1, q2

UnWorker == {w1}
UnQueryControl == {q1}
DosQueryControls == {q1, q2}

\* The right ports everywhere, or one mistaken: each server gets a client of the other.
AlgunError == {{}, {<<q1, "master">>}, {<<w1, "storage">>}}
SinErrores == {{}}
=============================================================================
