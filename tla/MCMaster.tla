------------------------------ MODULE MCMaster ------------------------------
(***************************************************************************)
(* Small instances of Master for TLC.                                      *)
(***************************************************************************)
EXTENDS Master

DosQueries == 1..2
TresQueries == 1..3
UnWorker == {11}
ElSegundo == {12}
DosWorkers == 11..12
Ninguno == {}
Ambos == {"FIFO", "PRIORIDADES"}
SoloFifo == {"FIFO"}
SoloPrioridades == {"PRIORIDADES"}
ConCeros == {NULL}
ConBasura == {NULL, BASURA}

\* Bound for three queries: one post of the semaphore pending, the thread of a
\* Query Control lives on, a Worker has an assignment and a cut to read at
\* most, and no READ nor failure is on its way (neither frees a Worker sooner
\* than END does).
PocosAvisos ==
    /\ sem <= 1
    /\ \A q \in Queries : hiloQC[q] \in {"nuevo", "escucha"}
    /\ \A w \in Workers : Len(worker[w].entrada) <= 2
    /\ \A w \in Workers : \A i \in DOMAIN worker[w].salida :
          worker[w].salida[i].op \notin {"READ", "EXEC_ERROR"}

\* Bound for two Workers and departures, under both algorithms: two posts pending, one
\* departure at most (a Query Control before its result, or a Worker), and a Query
\* Control that has its result takes its time to close.
Salidas ==
    {q \in Queries : hiloQC[q] \notin {"nuevo", "escucha"} /\ ~avisado[q]}
        \cup {w \in Workers : hiloWorker[w] \in {"termina", "quita", "fin"}}
UnaSalida ==
    /\ sem <= 2
    /\ Cardinality(Salidas) <= 1
    /\ \A q \in Queries : avisado[q] => hiloQC[q] = "escucha"
=============================================================================
