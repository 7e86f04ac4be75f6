---------------------------- MODULE MCWorkerHilos ----------------------------
(***************************************************************************)
(* A small instance of WorkerHilos for TLC.                                *)
(***************************************************************************)
EXTENDS WorkerHilos

DosQueries == 1..2
LaSegunda == {2}
=============================================================================
