------------------------------ MODULE MCMemoria ------------------------------
(***************************************************************************)
(* Small instances of MemoriaInterna for TLC.                              *)
(***************************************************************************)
EXTENDS MemoriaInterna, TLC

CONSTANTS a, b

UnArchivo == {a}
DosArchivos == {a, b}
DosBloques == [x \in {a} |-> 2]
DosYUno == (a :> 2) @@ (b :> 1)
Binarios == 0..1
LosDos == {"LRU", "CLOCK-M"}
=============================================================================
