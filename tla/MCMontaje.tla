------------------------------ MODULE MCMontaje ------------------------------
(***************************************************************************)
(* Small instances of Montaje for TLC.                                     *)
(***************************************************************************)
EXTENDS Montaje, TLC

CONSTANTS h1, h2, f, g, inicial

DosHilos == {h1, h2}
UnHilo == {h1}
Simetria == Permutations(DosHilos)
LosArchivos == {f, g, inicial}
Base == <<inicial, "BASE">>
LosPedibles == {<<f, "t1">>, <<g, "t1">>}
LasEtiquetas == LosPedibles \cup {Base}
LosTopes == (<<f, "t1">> :> 2) @@ (<<g, "t1">> :> 1)
DosYDos == [e \in LosPedibles |-> 2]
Bits == 0..3
SinBloque == {3}
Binarios == 0..1

\* Nothing is promised past rota: the states after it are not explored.
HastaRota == ~rota
=============================================================================
