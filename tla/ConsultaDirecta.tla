----------------------------- MODULE ConsultaDirecta -----------------------------
(***************************************************************************)
(* What a query is expected to do whatever Workers it runs on: its         *)
(* instructions one after the other, on the Storage itself.  Consultas is  *)
(* compared with it every time a query is out of the Workers.              *)
(***************************************************************************)
EXTENDS Consultas, SequencesExt

\* The query as if the Storage had been written and read directly, without memories,
\* preemptions or other queries: the first k instructions of q.
Directa(s, i) ==
    LET P == {<<i.a, i.n + k>> : k \in 0..(i.m - 1)} IN
    CASE i.op = "WRITE" ->
           [s EXCEPT !.alm.bloque = [p \in Paginas |-> IF p \in P THEN i.v ELSE @[p]]]
      [] i.op = "READ" ->
           [s EXCEPT !.leido = Append(@, [k \in 1..i.m |-> s.alm.bloque[<<i.a, i.n + k - 1>>]])]
      [] i.op \in {"CREATE", "TRUNCATE", "TAG", "COMMIT", "DELETE"} ->
           [s EXCEPT !.alm = Efecto(s.alm, i)]
      [] OTHER -> s

AlmInicial == [tam |-> TamInicial, bloque |-> [p \in Paginas |-> 0], com |-> {}]
Ejecutada(q, k) ==
    FoldLeft(Directa, [alm |-> AlmInicial, leido |-> << >>], SubSeq(programa[q], 1, k))

\* Nobody else uses the files of q.
Aislada(q) == \A r \in Queries \ {q} : ArchivosDe(q) \cap ArchivosDe(r) = {}

\* Pages of a file that was cut or deleted stay in the memories, and TAG copies what the
\* Storage has: a program is plain when it does neither before writing its pages down.
Llana(q) ==
    LET prog == programa[q] IN
    /\ \A k \in 1..Largo(q) :
          /\ prog[k].op # "DELETE"
          /\ prog[k].op = "TRUNCATE" => TamInicial[prog[k].a] <= prog[k].n
          /\ prog[k].op = "TAG" => k > 1 /\ prog[k-1].op = "FLUSH" /\ prog[k-1].a = prog[k].a
    /\ \A j, k \in 1..Largo(q) :
          j < k /\ prog[j].op = "TRUNCATE" /\ prog[k].op = "TRUNCATE" /\ prog[j].a = prog[k].a
             => prog[j].n <= prog[k].n

\* Preemption cannot be told: a plain query alone on its files that has not come back to a
\* Worker that still had pages of theirs leaves in the Storage, and has sent to its Query
\* Control, what it would have run directly on the Storage, up to the PC it is at
\* ("program counter para reanudar query desalojada", m_funciones.h:67).
DesalojoInvisible ==
    \A q \in Queries :
       /\ estado[q] = "READY" \/ resultado[q] = "FIN"
       /\ Aislada(q) /\ Llana(q) /\ q \notin conRestos
       => LET s == Ejecutada(q, pc[q]) IN
          /\ leido[q] = s.leido
          /\ \A a \in ArchivosDe(q) :
                /\ alm.tam[a] = s.alm.tam[a] /\ (a \in alm.com <=> a \in s.alm.com)
                /\ \A p \in DeArchivo({a}) : alm.bloque[p] = s.alm.bloque[p]
=============================================================================
