------------------------------ MODULE MCStorage ------------------------------
(***************************************************************************)
(* Small instances of Storage for TLC.                                     *)
(***************************************************************************)
EXTENDS Storage, TLC

CONSTANTS h1, h2, f, g, inicial

DosHilos == {h1, h2}
Simetria == Permutations(DosHilos)
LosArchivos == {f, g, inicial}
Base == <<inicial, "BASE">>
LosPedibles == {<<f, "t1">>, <<f, "t2">>, <<g, "t1">>}
UnoPorArchivo == {<<f, "t1">>, <<g, "t1">>}
LasEtiquetas == LosPedibles \cup {Base}
TresBloques == 0..2
CuatroBloques == 0..3
Binarios == 0..1
=============================================================================
