------------------------------ MODULE MCListas ------------------------------
(***************************************************************************)
(* Small instances of ListasQueries for TLC.                               *)
(***************************************************************************)
EXTENDS ListasQueries

DosQueries == 1..2
Una == {1}
Ambos == {"FIFO", "PRIORIDADES"}
SoloPrioridades == {"PRIORIDADES"}
=============================================================================
