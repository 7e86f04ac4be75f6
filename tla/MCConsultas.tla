------------------------------ MODULE MCConsultas ------------------------------
(***************************************************************************)
(* Small instances of Consultas: two queries, two Workers, and the files   *)
(* A:1, A:2 and B:1.                                                       *)
(***************************************************************************)
EXTENDS ConsultaDirecta

a1 == <<"A", "1">>
a2 == <<"A", "2">>
b1 == <<"B", "1">>
MCArchivos == {a1, a2, b1}
MCTamInicial == [a \in MCArchivos |-> IF a = a2 THEN -1 ELSE IF a = a1 THEN 1 ELSE 2]

I(op, a, n, m, v) == [op |-> op, a |-> a, b |-> a, n |-> n, m |-> m, v |-> v]
End == I("END", a1, 0, 0, 0)
Tag(a, b) == [I("TAG", a, 0, 0, 0) EXCEPT !.b = b]

\* Each query on its own files: growth, accesses that cross pages, rewriting, TAG, COMMIT.
Separadas ==
    << << I("TRUNCATE", a1, 2, 0, 0), I("WRITE", a1, 0, 2, 1), I("FLUSH", a1, 0, 0, 0),
          Tag(a1, a2), I("WRITE", a1, 1, 1, 2), I("READ", a1, 0, 2, 0),
          I("COMMIT", a1, 0, 0, 0), End >>,
       << I("WRITE", b1, 0, 1, 3), I("READ", b1, 0, 2, 0), I("WRITE", b1, 0, 1, 4), End >> >>

\* Both on A:1, which one of them commits while the other writes.
Juntas ==
    << << I("WRITE", a1, 0, 1, 1), I("COMMIT", a1, 0, 0, 0), I("READ", b1, 1, 1, 0), End >>,
       << I("WRITE", b1, 0, 1, 3), I("READ", b1, 0, 2, 0), I("WRITE", a1, 0, 1, 2), End >> >>

\* One creates, cuts and deletes what the other uses; the other has no END.
Borra ==
    << << I("CREATE", a2, 0, 0, 0), I("TRUNCATE", b1, 1, 0, 0), I("READ", b1, 0, 1, 0),
          I("DELETE", a1, 0, 0, 0), End >>,
       << I("WRITE", b1, 1, 1, 3), I("WRITE", a1, 0, 1, 2), I("READ", b1, 0, 2, 0) >> >>

\* Instructions that are errors by themselves.
Invalidas ==
    << << I("WRITE", a1, 0, 1, 1), I("READ", a1, 0, 0, 0), End >>,
       << I("WRITE", b1, 0, 1, 3), I("UNKNOWN", b1, 0, 0, 0) >> >>

MCProgramas == {Separadas, Juntas, Borra, Invalidas}
=============================================================================
