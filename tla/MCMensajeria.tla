---------------------------- MODULE MCMensajeria ----------------------------
(***************************************************************************)
(* A small instance of Mensajeria for TLC: bytes of four values, a number  *)
(* whose four bytes differ, strings of one and two bytes, blocks with a    *)
(* zero inside and at the end.                                             *)
(***************************************************************************)
EXTENDS Mensajeria

UnEntero == {57}
OkYError == {0, -2}
DosTextos == {<<1>>, <<2, 3>>}
DosBloques == {<<1, 0>>, <<2, 0, 3>>}
=============================================================================
