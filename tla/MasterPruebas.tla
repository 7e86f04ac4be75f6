-------------------------- MODULE MasterPruebas ---------------------------
(***************************************************************************)
(* Proofs about Master, for any number of queries and Workers.  First: its *)
(* variables keep their types, the lists of queries agree with the state   *)
(* of each query, and no wake-up of the scheduler is lost, whoever leaves  *)
(* and whatever malloc leaves in a pointer.  Then who runs what: what the  *)
(* Master and one Worker know of each other; that a query has at most one  *)
(* owner; that the pointers of the Master agree with its Workers, and what *)
(* follows of it; when descriptors stay apart; the life cycle of a query;  *)
(* the delivery of packets; and the evictions.                             *)
(***************************************************************************)
EXTENDS Master, SecuenciasPruebas

-----------------------------------------------------------------------------
(***************************************************************************)
(* The Workers.                                                            *)
(***************************************************************************)

\* The packets are of their types.
LEMMA PaquetesTipo ==
    ASSUME NEW q \in Queries, NEW c \in ProgramCounter
    PROVE  /\ \A op \in {"ASIGNAR", "DESALOJO", "FIN"} : Paquete(op, q, c) \in Pedidos
           /\ \A op \in {"READ"} \cup Resultados : Paquete(op, q, c) \in Respuestas
BY DEF Paquete, Pedidos, Respuestas, Resultados

\* A step of a Worker gives a Worker.
LEMMA PasosWorkerTipo ==
    ASSUME NEW r \in WorkerTipo, NEW s \in PasosWorker(r)
    PROVE  s \in WorkerTipo
<1>1. CASE s \in TomaAsignacion(r)
  <2>1. /\ r.entrada # << >> /\ Head(r.entrada) \in Pedidos /\ Tail(r.entrada) \in Seq(Pedidos)
        /\ s = [r EXCEPT !.entrada = Tail(@), !.query = Head(r.entrada).query,
                         !.pc = Head(r.entrada).pc, !.corte = FALSE]
    BY <1>1, HeadTailProperties DEF TomaAsignacion, WorkerTipo
  <2> QED BY <2>1 DEF WorkerTipo, Pedidos
<1>2. CASE s \in TomaCorte(r)
  <2>1. /\ Tail(r.entrada) \in Seq(Pedidos)
        /\ s = [r EXCEPT !.entrada = Tail(@), !.corte = (r.query # NULL)]
    BY <1>2, HeadTailProperties DEF TomaCorte, WorkerTipo
  <2> QED BY <2>1 DEF WorkerTipo
<1>3. CASE s \in EjecutaInstruccion(r)
  <2>1. r.query \in Queries /\ r.pc \in Nat /\ r.pc <= MaxPc
    BY <1>3, ContratoSupuesto DEF EjecutaInstruccion, WorkerTipo, ProgramCounter
  <2>2. r.pc \in ProgramCounter /\ r.pc + 1 \in ProgramCounter
    BY <2>1, ContratoSupuesto DEF ProgramCounter
  <2>3. Append(r.salida, Paquete("READ", r.query, r.pc)) \in Seq(Respuestas)
    BY <2>1, <2>2, PaquetesTipo, AppendProperties DEF WorkerTipo
  <2>4. \/ s = [r EXCEPT !.pc = @ + 1]
        \/ s = [r EXCEPT !.pc = @ + 1, !.salida = Append(@, Paquete("READ", r.query, r.pc))]
    BY <1>3 DEF EjecutaInstruccion
  <2> QED BY <2>2, <2>3, <2>4 DEF WorkerTipo
<1>4. CASE s \in Responde(r)
  <2>1. PICK m \in ResultadosPosibles(r) :
           /\ r.query # NULL
           /\ s = [r EXCEPT !.salida = Append(@, m), !.query = NULL, !.corte = FALSE, !.pc = 0]
    BY <1>4 DEF Responde
  <2>2. m \in Respuestas
    BY <2>1, PaquetesTipo DEF ResultadosPosibles, Resultados, WorkerTipo
  <2>3. Append(r.salida, m) \in Seq(Respuestas)
    BY <2>2, AppendProperties DEF WorkerTipo
  <2>4. 0 \in ProgramCounter
    BY ContratoSupuesto DEF ProgramCounter
  <2> QED BY <2>1, <2>3, <2>4 DEF WorkerTipo
<1> QED BY <1>1, <1>2, <1>3, <1>4 DEF PasosWorker

-----------------------------------------------------------------------------
(***************************************************************************)
(* Descriptors: accept always finds one, and it is nobody else's.          *)
(***************************************************************************)

\* FdNuevo is the number of a free descriptor: no open connection has it.
LEMMA FdNuevoLibre ==
    ASSUME fd \in [Conexiones -> Nat]
    PROVE  FdNuevo \in Nat /\ \A c \in Abiertas : fd[c] # FdNuevo
<1> DEFINE N == Cardinality(Abiertas) + 1
           Tomados == {fd[c] : c \in Abiertas}
           L == (1..N) \ Tomados
<1>1. IsFiniteSet(Abiertas) /\ Cardinality(Abiertas) \in Nat
  <2>1. IsFiniteSet(Queries \cup Workers)
    BY MasterSupuesto, FS_Union
  <2> QED BY <2>1, FS_Subset, FS_CardinalityType DEF Abiertas
<1>2. IsFiniteSet(Tomados) /\ Cardinality(Tomados) <= Cardinality(Abiertas)
  <2> DEFINE f == [c \in Abiertas |-> fd[c]]
  <2>1. f \in Surjection(Abiertas, Tomados)
    BY DEF Surjection
  <2> HIDE DEF f, Tomados
  <2> QED BY <1>1, <2>1, FS_Surjection
<1>3. IsFiniteSet(1..N) /\ Cardinality(1..N) = N
  BY <1>1, FS_Interval
<1>4. L # {}
  <2> SUFFICES ASSUME 1..N \subseteq Tomados PROVE FALSE
    OBVIOUS
  <2>1. Cardinality(1..N) <= Cardinality(Tomados)
    BY <1>2, FS_Subset
  <2>2. Cardinality(Tomados) \in Nat
    BY <1>2, FS_CardinalityType
  <2> QED BY <1>1, <1>2, <1>3, <2>1, <2>2
<1>5. IsFiniteSet(L) /\ L \subseteq Nat
  <2>1. L \in SUBSET (1..N) /\ 1..N \subseteq Nat
    BY <1>1
  <2> HIDE DEF L, N
  <2> QED BY <1>3, <2>1, FS_Subset
<1>6. PICK n \in L : \A m \in L : n <= m
  BY <1>4, <1>5, MinimoExiste
<1>7. /\ n \in 1..N /\ \A c \in Abiertas : fd[c] # n
      /\ \A m \in 1..(n - 1) : \E c \in Abiertas : fd[c] = m
  <2>1. ASSUME NEW m \in 1..(n - 1) PROVE \E c \in Abiertas : fd[c] = m
    <3>1. m \in 1..N /\ ~(n <= m)
      BY <1>1, <1>6
    <3> QED BY <3>1, <1>6
  <2> QED BY <1>6, <2>1
<1> QED BY <1>7 DEF FdNuevo

-----------------------------------------------------------------------------
(***************************************************************************)
(* The inductive invariant.  The types alone are not preserved: a step     *)
(* uses the pointers a thread took some steps before, so they must be      *)
(* known to be a query or a Worker at each place where they are used.      *)
(***************************************************************************)

PlanValido(r) ==
    /\ r \in PlanTipo
    /\ r.pc \in {"exec", "asigna", "envia", "victima", "pReady", "compara", "busca",
                "desaloja"} => r.q \in Queries
    /\ r.pc \in {"pReady", "compara", "busca", "desaloja"} => r.v \in Queries
    /\ r.pc \in {"elige", "exec", "asigna", "envia", "desaloja"} => r.w \in Workers

PunterosValidos ==
    /\ PlanValido(plan)
    /\ \A w \in Workers : hiloWorker[w] \in {"aReady", "aExit", "termina"} => query[w] \in Queries

\* A query has no state before its Query Control connects.
SinConectar == \A q \in Queries : hiloQC[q] = "nuevo" => estado[q] = "NUEVA"

IInv == TypeOK /\ PunterosValidos /\ SinConectar /\ ListasConsistentes

-----------------------------------------------------------------------------
(***************************************************************************)
(* The operators of the scheduler.                                         *)
(***************************************************************************)

\* What is chosen from a list is one of its members.
LEMMA PrimeroDeTipo ==
    ASSUME NEW s, NEW S
    PROVE  PrimeroDe(s, S) \subseteq S
BY DEF PrimeroDe

\* The query comparar_prioridades keeps is one of the list.
LEMMA SegunComparadorTipo ==
    ASSUME NEW s \in Seq(Queries)
    PROVE  SegunComparador(s) \subseteq Queries
<1>1. ToSet(s) \subseteq Queries
  BY LenProperties DEF ToSet
<1> QED BY <1>1, PrimeroDeTipo DEF SegunComparador

\* Whatever the scheduler chooses is a query or a Worker.
LEMMA ElegidasTipo ==
    ASSUME TypeOK
    PROVE  /\ obtener_siguiente_query \subseteq Queries
           /\ obtener_query_menos_prioritaria_ejecutandose \subseteq Queries
           /\ obtener_worker_libre \subseteq Workers
           /\ \A q : WorkerDe(q) \subseteq Workers
<1>1. \A e \in Estados : listas[e] \in Seq(Queries)
  BY DEF TypeOK
<1>2. {"READY", "EXEC"} \subseteq Estados
  BY DEF Estados
<1> QED BY <1>1, <1>2, PrimeroDeTipo, SegunComparadorTipo
        DEF obtener_siguiente_query, obtener_query_menos_prioritaria_ejecutandose,
            obtener_worker_libre, WorkerDe

\* actualizarEstadoQuery keeps the lists and the states in agreement.
LEMMA actualizarEstadoQueryCorrecta ==
    ASSUME TypeOK, ListasConsistentes, NEW q \in Queries, NEW n \in Estados,
           actualizarEstadoQuery(q, n)
    PROVE  /\ listas' \in [Estados -> Seq(Queries)]
           /\ estado' \in [Queries -> Estados \cup {"NUEVA"}]
           /\ \A p \in Queries : estado[p] = "NUEVA" => estado'[p] = "NUEVA"
           /\ ListasConsistentes'
<1>1. CASE UNCHANGED <<listas, estado>>
  BY <1>1 DEF TypeOK, ListasConsistentes
<1>2. CASE /\ estado[q] \in Estados
           /\ listas' = Mover(listas, estado[q], n, q)
           /\ estado' = [estado EXCEPT ![q] = n]
  <2> DEFINE v == estado[q]
             sin == [listas EXCEPT ![v] = RemoveFirst(@, q)]
  <2>1. /\ \A e \in Estados : listas[e] \in Seq(Queries) /\ SinRepetidos(listas[e])
        /\ \A e \in Estados, p \in Queries : Contains(listas[e], p) <=> estado[p] = e
        /\ v \in Estados /\ listas \in [Estados -> Seq(Queries)]
        /\ estado \in [Queries -> Estados \cup {"NUEVA"}]
    BY <1>2 DEF TypeOK, ListasConsistentes, SinRepetidos
  <2>2. /\ RemoveFirst(listas[v], q) \in Seq(Queries)
        /\ SinRepetidos(RemoveFirst(listas[v], q))
        /\ \A p \in Queries : Contains(RemoveFirst(listas[v], q), p) <=> estado[p] = v /\ p # q
    BY <2>1, RemoveFirstTipo, RemoveFirstQuita
  <2>3. /\ sin \in [Estados -> Seq(Queries)]
        /\ \A e \in Estados : SinRepetidos(sin[e])
        /\ \A e \in Estados, p \in Queries : Contains(sin[e], p) <=> estado[p] = e /\ p # q
    BY <2>1, <2>2
  <2>4. listas' = [sin EXCEPT ![n] = Append(sin[n], q)]
    BY <1>2 DEF Mover
  <2> HIDE DEF sin
  <2>5. /\ Append(sin[n], q) \in Seq(Queries) /\ SinRepetidos(Append(sin[n], q))
        /\ \A p \in Queries : Contains(Append(sin[n], q), p) <=> Contains(sin[n], p) \/ p = q
    BY <2>3, AppendAgrega
  <2>6. /\ listas' \in [Estados -> Seq(Queries)]
        /\ \A e \in Estados : SinRepetidos(listas'[e])
        /\ \A e \in Estados, p \in Queries :
              Contains(listas'[e], p) <=> (estado[p] = e /\ p # q) \/ (e = n /\ p = q)
    BY <2>3, <2>4, <2>5
  <2>7. \A p \in Queries : estado'[p] = IF p = q THEN n ELSE estado[p]
    BY <1>2, <2>1
  <2>8. ListasConsistentes'
    BY <2>6, <2>7 DEF ListasConsistentes, SinRepetidos
  <2> QED BY <1>2, <2>1, <2>6, <2>7, <2>8 DEF Estados
<1> QED BY <1>1, <1>2 DEF actualizarEstadoQuery

\* A packet sent to a Worker leaves Workers.
LEMMA EnviaAWorkerTipo ==
    ASSUME TypeOK, NEW w, NEW p \in Pedidos, EnviaAWorker(w, p)
    PROVE  worker' \in [Workers -> WorkerTipo] /\ ajenas' \subseteq Conexiones
<1>1. \A c \in Workers : worker[c] \in WorkerTipo
  BY DEF TypeOK
<1>2. \A c \in Workers : [worker[c] EXCEPT !.entrada = Append(@, p)] \in WorkerTipo
  BY <1>1, AppendProperties DEF WorkerTipo
<1>3. Destinatarios(w) \subseteq Conexiones
  BY DEF Destinatarios, Abiertas, Conexiones
<1> QED BY <1>1, <1>2, <1>3 DEF EnviaAWorker, Reenvia, TypeOK

\* OP_RESULTADO_QUERY to a Query Control keeps the history of deliveries well typed.
LEMMA NotificaResultadoTipo ==
    ASSUME TypeOK, NEW id, NEW q, NotificaResultado(id, q)
    PROVE  avisado' \in [Queries -> BOOLEAN] /\ ajenas' \subseteq Conexiones
<1>1. Destinatarios(q) \subseteq Conexiones
  BY DEF Destinatarios, Abiertas, Conexiones
<1> QED BY <1>1 DEF NotificaResultado, Reenvia, TypeOK

-----------------------------------------------------------------------------
(***************************************************************************)
(* The invariant holds at the start and every step preserves it.           *)
(***************************************************************************)

\* The scheduler that waits holds no query and no Worker.
LEMMA EnEsperaValido == PlanValido(EnEspera)
BY MasterSupuesto DEF PlanValido, EnEspera, PlanTipo

\* IInv holds once main has made its lists and threads.
LEMMA InitIInv == Init => IInv
<1> SUFFICES ASSUME Init PROVE IInv
  OBVIOUS
<1>1. TypeOK
  <2>1. WorkerInicial \in WorkerTipo
    BY ContratoSupuesto DEF WorkerInicial, WorkerTipo, ProgramCounter
  <2>2. EnEspera \in PlanTipo
    BY MasterSupuesto DEF EnEspera, PlanTipo
  <2>3. 0 \in ProgramCounter
    BY ContratoSupuesto DEF ProgramCounter
  <2>4. prioridad \in [Queries -> 0..PrioridadMaxima]
    BY MasterSupuesto DEF Init
  <2> QED BY <2>1, <2>2, <2>3, <2>4 DEF Init, TypeOK
<1>2. PunterosValidos /\ SinConectar
  BY EnEsperaValido DEF Init, PunterosValidos, SinConectar
<1>3. ListasConsistentes
  BY DEF Init, ListasConsistentes, Contains, Estados
<1> QED BY <1>1, <1>2, <1>3 DEF IInv

\* Most steps of the scheduler change its own variables only.
LEMMA SoloElPlan ==
    ASSUME IInv, UNCHANGED <<algoritmo, varsQuery, varsQC, varsWorker>>,
           sem' \in Nat, PlanValido(plan')
    PROVE  IInv'
<1>1. TypeOK' /\ PunterosValidos'
  BY DEF IInv, TypeOK, PunterosValidos, PlanValido, varsQuery, varsQC, varsWorker
<1>2. SinConectar' /\ ListasConsistentes'
  BY DEF IInv, SinConectar, ListasConsistentes, varsQuery, varsQC
<1> QED BY <1>1, <1>2 DEF IInv

\* Most steps of any thread leave the lists and the states as they are.
LEMMA SinMover ==
    ASSUME IInv, UNCHANGED <<estado, listas>>, TypeOK', PunterosValidos',
           \A q \in Queries : hiloQC'[q] = "nuevo" => hiloQC[q] = "nuevo"
    PROVE  IInv'
BY DEF IInv, SinConectar, ListasConsistentes

\* A step of the scheduler.
LEMMA PlanificadorIInv ==
    ASSUME IInv, Planificador
    PROVE  IInv'
<1>0. /\ TypeOK /\ PunterosValidos /\ SinConectar /\ ListasConsistentes
      /\ PlanValido(plan) /\ PlanValido(EnEspera) /\ sem \in Nat
  BY EnEsperaValido DEF IInv, TypeOK, PunterosValidos
<1>e. /\ obtener_siguiente_query \subseteq Queries
      /\ obtener_query_menos_prioritaria_ejecutandose \subseteq Queries
      /\ obtener_worker_libre \subseteq Workers
      /\ \A q : WorkerDe(q) \subseteq Workers
  BY <1>0, ElegidasTipo
<1>1. CASE PlanDespierta
  <2>1. PlanValido(plan') /\ sem' \in Nat
    BY <1>0, <1>e, <1>1 DEF PlanValido, PlanTipo, PlanDespierta
  <2> QED BY <2>1, <1>1, SoloElPlan DEF PlanDespierta
<1>2. CASE PlanBuscaWorker
  <2>1. PlanValido(plan') /\ sem' \in Nat
    BY <1>0, <1>e, <1>2 DEF PlanValido, PlanTipo, PlanBuscaWorker
  <2> QED BY <2>1, <1>2, SoloElPlan DEF PlanBuscaWorker
<1>3. CASE PlanElige
  <2>1. PlanValido(plan') /\ sem' \in Nat
    BY <1>0, <1>e, <1>3 DEF PlanValido, PlanTipo, PlanElige
  <2> QED BY <2>1, <1>3, SoloElPlan DEF PlanElige
<1>4. CASE PlanMide
  <2>1. PlanValido(plan') /\ sem' \in Nat
    BY <1>0, <1>e, <1>4 DEF PlanValido, PlanTipo, PlanMide
  <2> QED BY <2>1, <1>4, SoloElPlan DEF PlanMide
<1>5. CASE PlanEligeVictima
  <2>1. PlanValido(plan') /\ sem' \in Nat
    BY <1>0, <1>e, <1>5 DEF PlanValido, PlanTipo, PlanEligeVictima
  <2> QED BY <2>1, <1>5, SoloElPlan DEF PlanEligeVictima
<1>6. CASE PlanLeeReady
  <2>1. PlanValido(plan') /\ sem' \in Nat
    BY <1>0, <1>e, <1>6 DEF PlanValido, PlanTipo, PlanLeeReady, TypeOK
  <2> QED BY <2>1, <1>6, SoloElPlan DEF PlanLeeReady
<1>7. CASE PlanCompara
  <2>1. PlanValido(plan') /\ sem' \in Nat
    BY <1>0, <1>e, <1>7 DEF PlanValido, PlanTipo, PlanCompara
  <2> QED BY <2>1, <1>7, SoloElPlan DEF PlanCompara
<1>8. CASE PlanBuscaVictima
  <2>1. PlanValido(plan') /\ sem' \in Nat
    BY <1>0, <1>e, <1>8 DEF PlanValido, PlanTipo, PlanBuscaVictima
  <2> QED BY <2>1, <1>8, SoloElPlan DEF PlanBuscaVictima
<1>9. CASE PlanPasaAExec
  <2>1. plan.q \in Queries /\ actualizarEstadoQuery(plan.q, "EXEC")
    BY <1>0, <1>9 DEF PlanPasaAExec, PlanValido
  <2>2. "EXEC" \in Estados
    BY DEF Estados
  <2>3. /\ listas' \in [Estados -> Seq(Queries)] /\ estado' \in [Queries -> Estados \cup {"NUEVA"}]
        /\ \A p \in Queries : estado[p] = "NUEVA" => estado'[p] = "NUEVA"
        /\ ListasConsistentes'
    BY <1>0, <2>1, <2>2, actualizarEstadoQueryCorrecta
  <2>4. PlanValido(plan')
    BY <1>0, <1>9 DEF PlanValido, PlanTipo, PlanPasaAExec
  <2>5. TypeOK' /\ PunterosValidos'
    BY <1>0, <2>3, <2>4, <1>9 DEF TypeOK, PunterosValidos, PlanValido, PlanPasaAExec, varsQC, varsWorker
  <2>6. SinConectar'
    BY <1>0, <2>3, <1>9 DEF SinConectar, PlanPasaAExec, varsQC
  <2> QED BY <2>3, <2>5, <2>6 DEF IInv
<1>10. CASE PlanOcupaWorker
  <2>1. PlanValido(plan') /\ plan.q \in Queries /\ plan.w \in Workers
    BY <1>0, <1>10 DEF PlanValido, PlanTipo, PlanOcupaWorker
  <2>2. TypeOK' /\ PunterosValidos'
    BY <1>0, <2>1, <1>10 DEF TypeOK, PunterosValidos, PlanValido, PlanOcupaWorker, varsQuery, varsQC
  <2> QED BY <2>2, <1>10, SinMover DEF PlanOcupaWorker, varsQuery, varsQC
<1>11. CASE PlanEnviaAsignacion
  <2>1. Paquete("ASIGNAR", plan.q, pc[plan.q]) \in Pedidos
    BY <1>0, <1>11, PaquetesTipo, ContratoSupuesto
       DEF PlanEnviaAsignacion, PlanValido, TypeOK, ProgramCounter
  <2>2. worker' \in [Workers -> WorkerTipo] /\ ajenas' \subseteq Conexiones
    BY <1>0, <2>1, <1>11, EnviaAWorkerTipo DEF PlanEnviaAsignacion
  <2>3. TypeOK' /\ PunterosValidos'
    BY <1>0, <2>2, <1>11 DEF TypeOK, PunterosValidos, PlanValido, PlanEnviaAsignacion, varsQuery
  <2> QED BY <2>3, <1>11, SinMover DEF PlanEnviaAsignacion, varsQuery
<1>12. CASE PlanDesaloja
  <2>1. Paquete("DESALOJO", plan.v, 0) \in Pedidos
    BY <1>0, <1>12, PaquetesTipo, ContratoSupuesto
       DEF PlanDesaloja, PlanValido, TypeOK, ProgramCounter
  <2>2. worker' \in [Workers -> WorkerTipo] /\ ajenas' \subseteq Conexiones
    BY <1>0, <2>1, <1>12, EnviaAWorkerTipo DEF PlanDesaloja
  <2>3. TypeOK' /\ PunterosValidos'
    BY <1>0, <2>2, <1>12 DEF TypeOK, PunterosValidos, PlanValido, PlanDesaloja, varsQuery
  <2> QED BY <2>3, <1>12, SinMover DEF PlanDesaloja, varsQuery
<1> QED BY <1>1, <1>2, <1>3, <1>4, <1>5, <1>6, <1>7, <1>8, <1>9, <1>10, <1>11, <1>12 DEF Planificador

\* A step of the thread of a Query Control, of its aging thread or of accept.
LEMMA QueryControlIInv ==
    ASSUME IInv, NEW q \in Queries, ConectaQC(q) \/ HiloQC(q) \/ Envejece(q)
    PROVE  IInv'
<1>0. TypeOK /\ PunterosValidos /\ SinConectar /\ ListasConsistentes
  BY DEF IInv
<1>1. CASE ConectaQC(q)
  <2>1. FdNuevo \in Nat
    BY <1>0, FdNuevoLibre DEF TypeOK
  <2>2. estado[q] = "NUEVA" /\ hiloQC[q] = "nuevo"
    BY <1>0, <1>1 DEF ConectaQC, SiguienteDe, SinConectar
  <2>3. "READY" \in Estados /\ "NUEVA" \notin Estados
    BY DEF Estados
  <2> DEFINE ready == Append(listas["READY"], q)
  <2>4. /\ \A e \in Estados : listas[e] \in Seq(Queries) /\ SinRepetidos(listas[e])
        /\ \A e \in Estados, p \in Queries : Contains(listas[e], p) <=> estado[p] = e
    BY <1>0 DEF TypeOK, ListasConsistentes, SinRepetidos
  <2>5. /\ ready \in Seq(Queries) /\ SinRepetidos(ready)
        /\ \A p \in Queries : Contains(ready, p) <=> estado[p] = "READY" \/ p = q
    BY <2>2, <2>3, <2>4, AppendAgrega
  <2> HIDE DEF ready
  <2>6. listas' = [listas EXCEPT !["READY"] = ready]
    BY <1>1 DEF ConectaQC, ready
  <2>7. /\ listas' \in [Estados -> Seq(Queries)]
        /\ \A e \in Estados : SinRepetidos(listas'[e])
        /\ \A e \in Estados, p \in Queries :
              Contains(listas'[e], p) <=> (estado[p] = e /\ p # q) \/ (e = "READY" /\ p = q)
    BY <1>0, <2>2, <2>3, <2>4, <2>5, <2>6 DEF TypeOK
  <2>8. \A p \in Queries : estado'[p] = IF p = q THEN "READY" ELSE estado[p]
    BY <1>0, <1>1 DEF ConectaQC, TypeOK
  <2>9. ListasConsistentes'
    BY <2>7, <2>8 DEF ListasConsistentes, SinRepetidos
  <2>10. TypeOK'
    <3>1. estado' \in [Queries -> Estados \cup {"NUEVA"}]
      BY <1>0, <1>1, <2>3 DEF TypeOK, ConectaQC
    <3>2. fd' \in [Conexiones -> Nat]
      BY <1>0, <1>1, <2>1 DEF TypeOK, ConectaQC, Conexiones
    <3>3. hiloQC' \in [Queries -> {"nuevo", "escucha", "retira", "mira", "marca",
                                   "cancela", "cierra", "fin"}]
      BY <1>0, <1>1 DEF TypeOK, ConectaQC
    <3>4. listas' \in [Estados -> Seq(Queries)] /\ sem' \in Nat
      BY <1>0, <1>1, <2>7 DEF TypeOK, ConectaQC
    <3> QED BY <1>0, <1>1, <3>1, <3>2, <3>3, <3>4 DEF TypeOK, ConectaQC, varsWorker
  <2>12. PunterosValidos'
    BY <1>0, <1>1 DEF TypeOK, PunterosValidos, ConectaQC, varsWorker
  <2>11. SinConectar'
    BY <1>0, <1>1 DEF SinConectar, ConectaQC, TypeOK
  <2> QED BY <2>9, <2>10, <2>11, <2>12 DEF IInv
<1>2. CASE RetiraDeReady(q)
  <2>1. actualizarEstadoQuery(q, "EXIT")
    BY <1>2 DEF RetiraDeReady
  <2>2. "EXIT" \in Estados
    BY DEF Estados
  <2>3. /\ listas' \in [Estados -> Seq(Queries)] /\ estado' \in [Queries -> Estados \cup {"NUEVA"}]
        /\ \A p \in Queries : estado[p] = "NUEVA" => estado'[p] = "NUEVA"
        /\ ListasConsistentes'
    BY <1>0, <2>1, <2>2, actualizarEstadoQueryCorrecta
  <2>5. TypeOK' /\ PunterosValidos'
    BY <1>0, <2>3, <1>2 DEF TypeOK, PunterosValidos, RetiraDeReady, varsQC, varsWorker
  <2>6. SinConectar'
    BY <1>0, <2>3, <1>2 DEF SinConectar, RetiraDeReady, varsQC
  <2> QED BY <2>3, <2>5, <2>6 DEF IInv
<1>3. CASE DesconectaQC(q)
  <2>1. TypeOK' /\ PunterosValidos'
    BY <1>0, <1>3 DEF TypeOK, PunterosValidos, DesconectaQC, varsQuery, varsWorker
  <2> QED BY <1>0, <1>3, <2>1, SinMover DEF DesconectaQC, TypeOK, varsQuery
<1>4. CASE MiraSiEnExec(q)
  <2>1. TypeOK' /\ PunterosValidos'
    BY <1>0, <1>4 DEF TypeOK, PunterosValidos, MiraSiEnExec, varsQuery, varsWorker
  <2> QED BY <1>0, <1>4, <2>1, SinMover DEF MiraSiEnExec, TypeOK, varsQuery
<1>5. CASE CierraQC(q)
  <2>1. TypeOK' /\ PunterosValidos'
    BY <1>0, <1>5 DEF TypeOK, PunterosValidos, CierraQC, varsQuery, varsWorker
  <2> QED BY <1>0, <1>5, <2>1, SinMover DEF CierraQC, TypeOK, varsQuery
<1>6. CASE MarcaDesconexion(q)
  <2>1. TypeOK' /\ PunterosValidos'
    BY <1>0, <1>6 DEF TypeOK, PunterosValidos, MarcaDesconexion, varsWorker
  <2> QED BY <1>0, <1>6, <2>1, SinMover DEF MarcaDesconexion, TypeOK
<1>7. CASE CancelaEnWorker(q)
  <2>1. Paquete("FIN", q, 0) \in Pedidos
    BY PaquetesTipo, ContratoSupuesto DEF ProgramCounter
  <2>2. worker' \in [Workers -> WorkerTipo] /\ ajenas' \subseteq Conexiones
    BY <1>0, <1>7, <2>1, EnviaAWorkerTipo DEF CancelaEnWorker, TypeOK
  <2>3. TypeOK' /\ PunterosValidos'
    BY <1>0, <1>7, <2>2 DEF TypeOK, PunterosValidos, CancelaEnWorker, varsQuery
  <2> QED BY <1>0, <1>7, <2>3, SinMover DEF CancelaEnWorker, TypeOK, varsQuery
<1>8. CASE Envejece(q)
  <2>1. prioridad' \in [Queries -> 0..PrioridadMaxima] /\ sem' \in Nat
    BY <1>0, <1>8, MasterSupuesto DEF Envejece, PuedeEnvejecer, AvisoDeAging, TypeOK
  <2>2. TypeOK' /\ PunterosValidos'
    BY <1>0, <1>8, <2>1 DEF TypeOK, PunterosValidos, Envejece, varsQC, varsWorker
  <2> QED BY <1>0, <1>8, <2>2, SinMover DEF Envejece, TypeOK, varsQC
<1> QED BY <1>1, <1>2, <1>3, <1>4, <1>5, <1>6, <1>7, <1>8 DEF HiloQC

\* A step of the thread of a Worker, of the Worker itself or of accept.
LEMMA WorkerIInv ==
    ASSUME IInv, NEW w \in Workers,
           ConectaWorker(w) \/ HiloWorker(w) \/ DesconectaWorker(w) \/ ProcesoWorker(w)
    PROVE  IInv'
<1>0. TypeOK /\ PunterosValidos /\ SinConectar /\ ListasConsistentes
  BY DEF IInv
<1>1. CASE ConectaWorker(w)
  <2>1. FdNuevo \in Nat
    BY <1>0, FdNuevoLibre DEF TypeOK
  <2>2. Append(listaWorkers, w) \in Seq(Workers)
    BY <1>0, AppendProperties DEF TypeOK
  <2>3. query' \in [Workers -> Queries \cup {NULL, BASURA}] /\ sem' \in Nat
    BY <1>0, <1>1, MasterSupuesto DEF ConectaWorker, TypeOK
  <2>4. TypeOK' /\ PunterosValidos'
    BY <1>0, <1>1, <2>1, <2>2, <2>3 DEF TypeOK, PunterosValidos, ConectaWorker, Conexiones, varsQuery
  <2> QED BY <1>1, <2>4, SinMover DEF ConectaWorker, varsQuery
<1>a. ASSUME worker[w].salida # << >>
      PROVE  Recibido(w) \in Respuestas /\ SinRecibido(w) \in [Workers -> WorkerTipo]
  <2>1. worker[w] \in WorkerTipo
    BY <1>0 DEF TypeOK
  <2>2. Recibido(w) \in Respuestas /\ Tail(worker[w].salida) \in Seq(Respuestas)
    BY <1>a, <2>1, HeadTailProperties DEF Recibido, WorkerTipo
  <2>3. [worker[w] EXCEPT !.salida = Tail(@)] \in WorkerTipo
    BY <2>1, <2>2 DEF WorkerTipo
  <2> QED BY <1>0, <2>2, <2>3 DEF SinRecibido, TypeOK
<1>2. CASE RecibeRead(w)
  <2>1. worker' \in [Workers -> WorkerTipo]
    BY <1>2, <1>a DEF RecibeRead
  <2>2. ajenas' \subseteq Conexiones
    BY <1>0, <1>2 DEF RecibeRead, Reenvia, Destinatarios, Abiertas, Conexiones, TypeOK
  <2>3. TypeOK' /\ PunterosValidos'
    BY <1>0, <1>2, <2>1, <2>2 DEF TypeOK, PunterosValidos, RecibeRead, varsQuery
  <2> QED BY <1>2, <2>3, SinMover DEF RecibeRead, varsQuery
<1>3. CASE RecibeResultado(w)
  <2>1. worker' \in [Workers -> WorkerTipo] /\ Recibido(w).pc \in ProgramCounter
    BY <1>3, <1>a DEF RecibeResultado, Respuestas
  <2>2. CASE query[w] \in Queries
    <3>1. avisado' \in [Queries -> BOOLEAN] /\ ajenas' \subseteq Conexiones
      BY <1>0, <1>3, <2>2, NotificaResultadoTipo DEF RecibeResultado, TypeOK
    <3>2. /\ pc' \in [Queries -> ProgramCounter]
          /\ \E h \in {"aReady", "aExit"} : hiloWorker' = [hiloWorker EXCEPT ![w] = h]
      BY <1>0, <1>3, <2>1, <2>2 DEF RecibeResultado, Destino, TypeOK
    <3>3. TypeOK' /\ PunterosValidos'
      BY <1>0, <1>3, <2>1, <2>2, <3>1, <3>2 DEF TypeOK, PunterosValidos, RecibeResultado
    <3> QED BY <1>3, <3>3, SinMover DEF RecibeResultado
  <2>3. CASE query[w] \notin Queries
    <3>1. TypeOK' /\ PunterosValidos'
      BY <1>0, <1>3, <2>1, <2>3 DEF TypeOK, PunterosValidos, RecibeResultado
    <3> QED BY <1>3, <3>1, SinMover DEF RecibeResultado
  <2> QED BY <2>2, <2>3
<1>4. CASE VuelveAReady(w)
  <2>1. query[w] \in Queries /\ actualizarEstadoQuery(query[w], "READY")
    BY <1>0, <1>4 DEF VuelveAReady, PunterosValidos
  <2>2. "READY" \in Estados
    BY DEF Estados
  <2>3. /\ listas' \in [Estados -> Seq(Queries)] /\ estado' \in [Queries -> Estados \cup {"NUEVA"}]
        /\ \A p \in Queries : estado[p] = "NUEVA" => estado'[p] = "NUEVA"
        /\ ListasConsistentes'
    BY <1>0, <2>1, <2>2, actualizarEstadoQueryCorrecta
  <2>5. TypeOK' /\ PunterosValidos'
    BY <1>0, <2>3, <1>4 DEF TypeOK, PunterosValidos, VuelveAReady, varsQC, varsWorker
  <2>6. SinConectar'
    BY <1>0, <2>3, <1>4 DEF SinConectar, VuelveAReady, varsQC
  <2> QED BY <2>3, <2>5, <2>6 DEF IInv
<1>5. CASE PasaAExit(w)
  <2>1. query[w] \in Queries /\ actualizarEstadoQuery(query[w], "EXIT")
    BY <1>0, <1>5 DEF PasaAExit, PunterosValidos
  <2>2. "EXIT" \in Estados
    BY DEF Estados
  <2>3. /\ listas' \in [Estados -> Seq(Queries)] /\ estado' \in [Queries -> Estados \cup {"NUEVA"}]
        /\ \A p \in Queries : estado[p] = "NUEVA" => estado'[p] = "NUEVA"
        /\ ListasConsistentes'
    BY <1>0, <2>1, <2>2, actualizarEstadoQueryCorrecta
  <2>5. TypeOK' /\ PunterosValidos'
    BY <1>0, <2>3, <1>5 DEF TypeOK, PunterosValidos, PasaAExit, varsQC, varsWorker
  <2>6. SinConectar'
    BY <1>0, <2>3, <1>5 DEF SinConectar, PasaAExit, varsQC
  <2> QED BY <2>3, <2>5, <2>6 DEF IInv
<1>6. CASE TerminaPorCaida(w)
  <2>1. query[w] \in Queries /\ actualizarEstadoQuery(query[w], "EXIT")
    BY <1>0, <1>6 DEF TerminaPorCaida, PunterosValidos
  <2>2. "EXIT" \in Estados
    BY DEF Estados
  <2>3. /\ listas' \in [Estados -> Seq(Queries)] /\ estado' \in [Queries -> Estados \cup {"NUEVA"}]
        /\ \A p \in Queries : estado[p] = "NUEVA" => estado'[p] = "NUEVA"
        /\ ListasConsistentes'
    BY <1>0, <2>1, <2>2, actualizarEstadoQueryCorrecta
  <2>5. TypeOK' /\ PunterosValidos'
    BY <1>0, <2>3, <1>6 DEF TypeOK, PunterosValidos, TerminaPorCaida, varsQC, varsWorker
  <2>6. SinConectar'
    BY <1>0, <2>3, <1>6 DEF SinConectar, TerminaPorCaida, varsQC
  <2> QED BY <2>3, <2>5, <2>6 DEF IInv
<1>7. CASE LiberaWorker(w)
  <2>1. TypeOK' /\ PunterosValidos'
    BY <1>0, <1>7 DEF TypeOK, PunterosValidos, LiberaWorker, SinQuery, AvisoDeWorkerLibre,
       varsQuery, varsQC
  <2> QED BY <1>7, <2>1, SinMover DEF LiberaWorker, varsQuery, varsQC
<1>8. CASE DesconectaWorker(w)
  <2>1. worker' \in [Workers -> WorkerTipo]
    <3>1. WorkerInicial \in WorkerTipo
      BY ContratoSupuesto DEF WorkerInicial, WorkerTipo, ProgramCounter
    <3> QED BY <1>0, <1>8, <3>1 DEF DesconectaWorker, TypeOK
  <2>2. avisado' \in [Queries -> BOOLEAN] /\ ajenas' \subseteq Conexiones
    BY <1>0, <1>8, NotificaResultadoTipo DEF DesconectaWorker, TypeOK
  <2>3. \/ query[w] \in Queries /\ hiloWorker' = [hiloWorker EXCEPT ![w] = "termina"]
        \/ hiloWorker' = [hiloWorker EXCEPT ![w] = "quita"]
    BY <1>8 DEF DesconectaWorker
  <2>4. TypeOK' /\ PunterosValidos'
    BY <1>0, <1>8, <2>1, <2>2, <2>3 DEF TypeOK, PunterosValidos, DesconectaWorker, varsQuery
  <2> QED BY <1>8, <2>4, SinMover DEF DesconectaWorker, varsQuery
<1>9. CASE QuitaWorker(w)
  <2>1. listaWorkers' \in Seq(Workers)
    BY <1>0, <1>9, RemoveFirstTipo DEF QuitaWorker, TypeOK
  <2>2. TypeOK' /\ PunterosValidos'
    BY <1>0, <1>9, <2>1 DEF TypeOK, PunterosValidos, QuitaWorker, varsQuery, varsQC
  <2> QED BY <1>9, <2>2, SinMover DEF QuitaWorker, varsQuery, varsQC
<1>10. CASE ProcesoWorker(w)
  <2>1. worker' \in [Workers -> WorkerTipo]
    BY <1>0, <1>10, PasosWorkerTipo DEF ProcesoWorker, TypeOK
  <2>2. TypeOK' /\ PunterosValidos'
    BY <1>0, <1>10, <2>1 DEF TypeOK, PunterosValidos, ProcesoWorker, varsQuery, varsQC
  <2> QED BY <1>10, <2>2, SinMover DEF ProcesoWorker, varsQuery, varsQC
<1> QED BY <1>1, <1>2, <1>3, <1>4, <1>5, <1>6, <1>7, <1>8, <1>9, <1>10 DEF HiloWorker

\* IInv is inductive: one lemma above per thread.
LEMMA NextIInv == IInv /\ [Next]_vars => IInv'
<1> SUFFICES ASSUME IInv, [Next]_vars PROVE IInv'
  OBVIOUS
<1>1. CASE Planificador
  BY <1>1, PlanificadorIInv
<1>2. CASE \E q \in Queries : ConectaQC(q) \/ HiloQC(q) \/ Envejece(q)
  BY <1>2, QueryControlIInv
<1>3. CASE \E w \in Workers : ConectaWorker(w) \/ HiloWorker(w) \/ DesconectaWorker(w)
                               \/ ProcesoWorker(w)
  BY <1>3, WorkerIInv
<1>4. CASE UNCHANGED vars
  <2>1. TypeOK' /\ PunterosValidos'
    BY <1>4 DEF IInv, TypeOK, PunterosValidos, vars, varsQuery, varsQC, varsWorker
  <2> QED BY <1>4, <2>1, SinMover DEF vars, varsQuery, varsQC
<1> QED BY <1>1, <1>2, <1>3, <1>4 DEF Next, EnReposo

\* Master keeps IInv, whatever the order of its threads.
THEOREM Invariante == Spec => []IInv
BY InitIInv, NextIInv, PTL DEF Spec

\* The variables of the Master keep their C types: no pointer that a thread keeps across a
\* mutex is used once it is not a query or a Worker, the priority never wraps below 0 and
\* the program counter never passes the END of its query.
THEOREM TiposCorrectos == Spec => []TypeOK
<1>1. IInv => TypeOK
  BY DEF IInv
<1> QED BY <1>1, Invariante, PTL

\* READY, EXEC and EXIT always agree with the state of each query (actualizarEstadoQuery is
\* called by the scheduler, by Query Control threads and by Worker threads).
THEOREM ListasSiempreConsistentes == Spec => []ListasConsistentes
<1>1. IInv => ListasConsistentes
  BY DEF IInv
<1> QED BY <1>1, Invariante, PTL

-----------------------------------------------------------------------------
(***************************************************************************)
(* The invariant counts.  Every query of READY and every free Worker was   *)
(* announced by a sem_post; the scheduler spends one token per assignment, *)
(* and may waste one only when one of the two sets is empty.  So one of    *)
(* the two sets has at most as many members as there are tokens, where the *)
(* token in the hand of the scheduler counts until it has chosen a query,  *)
(* and what it has chosen no longer waits.                                 *)
(***************************************************************************)

EnReady == {q \in Queries : estado[q] = "READY"}
Libres == {w \in Workers : query[w] = NULL /\ Contains(listaWorkers, w)}

Fichas == IF plan.pc \in {"libre", "elige"} THEN sem + 1 ELSE sem
Pendientes == IF plan.pc = "exec" THEN EnReady \ {plan.q} ELSE EnReady
Disponibles == IF plan.pc = "elige" THEN Libres \cup {plan.w}
               ELSE IF plan.pc \in {"exec", "asigna"} THEN Libres \ {plan.w} ELSE Libres

Cubierto == Cardinality(Pendientes) <= Fichas \/ Cardinality(Disponibles) <= Fichas

\* The sets of the invariant are finite.
LEMMA ConjuntosFinitos ==
    /\ IsFiniteSet(EnReady) /\ IsFiniteSet(Libres)
    /\ IsFiniteSet(Pendientes) /\ IsFiniteSet(Disponibles)
<1>1. IsFiniteSet(EnReady) /\ IsFiniteSet(Libres)
  BY MasterSupuesto, FS_Subset DEF EnReady, Libres
<1>2. IsFiniteSet(Libres \cup {plan.w}) /\ IsFiniteSet(Libres \ {plan.w})
  BY <1>1, FS_AddElement, FS_RemoveElement
<1>3. IsFiniteSet(EnReady \ {plan.q})
  BY <1>1, FS_RemoveElement
<1> QED BY <1>1, <1>2, <1>3 DEF Pendientes, Disponibles

\* What list_add leaves in a list, and what list_remove_element can leave.
LEMMA AppendContiene ==
    ASSUME NEW S, NEW s \in Seq(S), NEW e \in S, NEW x, Contains(Append(s, e), x)
    PROVE  Contains(s, x) \/ x = e
<1>1. /\ Len(Append(s, e)) = Len(s) + 1 /\ Append(s, e)[Len(s) + 1] = e
      /\ \A j \in 1..Len(s) : Append(s, e)[j] = s[j]
  BY AppendProperties
<1> QED BY <1>1, LenProperties DEF Contains

\* Nothing comes into a list by list_remove_element.
LEMMA RemoveFirstContiene ==
    ASSUME NEW S, NEW s \in Seq(S), NEW e, NEW x, Contains(RemoveFirst(s, e), x)
    PROVE  Contains(s, x)
<1>1. CASE RemoveFirst(s, e) = s
  BY <1>1
<1>2. CASE \E k \in 1..Len(s) : RemoveFirst(s, e) = RemoveAt(s, k)
  <2>1. PICK k \in 1..Len(s) : RemoveFirst(s, e) = RemoveAt(s, k)
    BY <1>2
  <2>2. /\ Len(RemoveAt(s, k)) = Len(s) - 1 /\ Len(s) \in Nat
        /\ \A j \in 1..(Len(s) - 1) : RemoveAt(s, k)[j] = IF j < k THEN s[j] ELSE s[j + 1]
    BY RemoveAtElementos, LenProperties
  <2>3. PICK j \in 1..(Len(s) - 1) : RemoveAt(s, k)[j] = x
    BY <2>1, <2>2 DEF Contains
  <2> QED BY <2>2, <2>3 DEF Contains
<1> QED BY <1>1, <1>2, RemoveFirstPosicion

\* list_find finds something when the list holds something of S.
LEMMA PrimeroDeExiste ==
    ASSUME NEW T, NEW s \in Seq(T), NEW S, NEW x \in S, Contains(s, x)
    PROVE  PrimeroDe(s, S) # {}
<1> DEFINE I == {i \in 1..Len(s) : s[i] \in S}
<1>1. Len(s) \in Nat /\ DOMAIN s = 1..Len(s)
  BY LenProperties
<1>2. I \subseteq Nat /\ I # {}
  BY <1>1 DEF Contains
<1>3. IsFiniteSet(I)
  <2>1. IsFiniteSet(1..Len(s))
    BY <1>1, FS_Interval
  <2> QED BY <2>1, FS_Subset
<1>4. PICK k \in I : \A j \in I : k <= j
  BY <1>2, <1>3, MinimoExiste
<1>5. \A j \in 1..(k - 1) : s[j] \notin S
  <2> SUFFICES ASSUME NEW j \in 1..(k - 1), s[j] \in S PROVE FALSE
    OBVIOUS
  <2>1. j \in I /\ ~(k <= j)
    BY <1>1
  <2> QED BY <2>1, <1>4
<1>6. s[k] \in PrimeroDe(s, S)
  BY <1>1, <1>5 DEF PrimeroDe
<1> QED BY <1>6

\* comparar_prioridades keeps some query of a list that is not empty.
LEMMA SegunComparadorExiste ==
    ASSUME TypeOK, NEW s \in Seq(Queries), NEW x \in Queries, Contains(s, x)
    PROVE  SegunComparador(s) # {}
<1> DEFINE P == {prioridad[q] : q \in ToSet(s)}
           M == {q \in ToSet(s) : \A r \in ToSet(s) : prioridad[q] <= prioridad[r]}
<1>1. ToSet(s) \subseteq Queries /\ x \in ToSet(s)
  BY LenProperties DEF ToSet, Contains
<1>2. P \subseteq 0..PrioridadMaxima /\ PrioridadMaxima \in Nat
  BY <1>1, MasterSupuesto DEF TypeOK
<1>3. P \subseteq Nat /\ P # {}
  BY <1>1, <1>2
<1>4. IsFiniteSet(P)
  <2> HIDE DEF P
  <2>1. IsFiniteSet(0..PrioridadMaxima)
    BY <1>2, FS_Interval
  <2> QED BY <1>2, <2>1, FS_Subset
<1>5. PICK n \in P : \A m \in P : n <= m
  <2> HIDE DEF P
  <2> QED BY <1>3, <1>4, MinimoExiste
<1>6. PICK q \in ToSet(s) : n = prioridad[q]
  OBVIOUS
<1>7. q \in M
  BY <1>5, <1>6
<1>8. Contains(s, q)
  BY <1>6 DEF ToSet, Contains
<1> HIDE DEF M
<1>9. PrimeroDe(s, M) # {}
  BY <1>7, <1>8, PrimeroDeExiste
<1> QED BY <1>9 DEF SegunComparador, M

\* READY is the list of the queries in that state, and obtener_siguiente_query finds one
\* of them whenever there is any.
LEMMA SiguienteQuery ==
    ASSUME IInv
    PROVE  /\ listas["READY"] = << >> <=> EnReady = {}
           /\ obtener_siguiente_query \subseteq EnReady
           /\ obtener_siguiente_query = {} => EnReady = {}
<1> DEFINE s == listas["READY"]
<1>1. TypeOK /\ s \in Seq(Queries) /\ \A q \in Queries : Contains(s, q) <=> q \in EnReady
  BY DEF IInv, TypeOK, ListasConsistentes, EnReady, Estados
<1>2. s = << >> <=> EnReady = {}
  <2>1. s = << >> => \A q : ~Contains(s, q)
    BY DEF Contains
  <2>2. s # << >> => s[1] \in Queries /\ Contains(s, s[1])
    BY <1>1, LenProperties, EmptySeq DEF Contains
  <2> QED BY <1>1, <2>1, <2>2 DEF EnReady
<1>3. \A S : PrimeroDe(s, S) \subseteq {q \in S : Contains(s, q)}
  BY DEF PrimeroDe, Contains
<1>4. SegunComparador(s) \subseteq {q \in Queries : Contains(s, q)}
  BY <1>1, <1>3, SegunComparadorTipo DEF SegunComparador
<1>5. obtener_siguiente_query \subseteq EnReady
  BY <1>1, <1>3, <1>4 DEF obtener_siguiente_query
<1>6. EnReady # {} => obtener_siguiente_query # {}
  <2> SUFFICES ASSUME NEW q \in EnReady PROVE obtener_siguiente_query # {}
    OBVIOUS
  <2>1. q \in Queries /\ Contains(s, q)
    BY <1>1 DEF EnReady
  <2>2. PrimeroDe(s, Queries) # {} /\ SegunComparador(s) # {}
    BY <1>1, <2>1, PrimeroDeExiste, SegunComparadorExiste
  <2> QED BY <2>2 DEF obtener_siguiente_query
<1> QED BY <1>2, <1>5, <1>6

\* obtener_worker_libre finds a free Worker whenever there is any.
LEMMA WorkerLibre ==
    ASSUME IInv
    PROVE  /\ obtener_worker_libre \subseteq Libres
           /\ obtener_worker_libre = {} => Libres = {}
<1> DEFINE S == {w \in Workers : query[w] = NULL}
<1>1. listaWorkers \in Seq(Workers)
  BY DEF IInv, TypeOK
<1>2. obtener_worker_libre \subseteq Libres
  BY DEF obtener_worker_libre, PrimeroDe, Contains, Libres
<1>3. ASSUME NEW w \in Libres PROVE PrimeroDe(listaWorkers, S) # {}
  <2>1. w \in S /\ Contains(listaWorkers, w)
    BY DEF Libres
  <2> HIDE DEF S
  <2> QED BY <1>1, <2>1, PrimeroDeExiste
<1> QED BY <1>2, <1>3 DEF obtener_worker_libre

\* What actualizarEstadoQuery does to the states.
LEMMA actualizarEstadoQueryEfecto ==
    ASSUME TypeOK, ListasConsistentes, NEW q \in Queries, NEW n,
           actualizarEstadoQuery(q, n)
    PROVE  \A p \in Queries :
              estado'[p] = IF p = q /\ estado[q] # "NUEVA" THEN n ELSE estado[p]
<1>1. estado[q] = "NUEVA" \/ (estado[q] \in Estados /\ Contains(listas[estado[q]], q))
  BY DEF TypeOK, ListasConsistentes
<1>2. "NUEVA" \notin Estados
  BY DEF Estados
<1> QED BY <1>1, <1>2 DEF actualizarEstadoQuery, TypeOK

-----------------------------------------------------------------------------
(***************************************************************************)
(* The invariant holds at the start and every step preserves it.           *)
(***************************************************************************)

\* Nothing waits at the start.
LEMMA InitCubierto == Init => Cubierto
<1> SUFFICES ASSUME Init PROVE Cubierto
  OBVIOUS
<1>1. EnReady = {} /\ plan.pc = "espera" /\ sem = 0
  BY DEF Init, EnReady, EnEspera
<1>2. Pendientes = {}
  BY <1>1 DEF Pendientes
<1>3. Cardinality(Pendientes) <= 0
  BY <1>2, FS_EmptySet
<1> QED BY <1>1, <1>3 DEF Cubierto, Fichas

\* A thread that is not the scheduler adds at most one query to READY and frees at most one
\* Worker in a step, and then it posts the semaphore.
Anuncia ==
    /\ plan' = plan
    /\ \/ sem' = sem /\ EnReady' \subseteq EnReady /\ Libres' \subseteq Libres
       \/ /\ sem' = sem + 1
          /\ \E q : EnReady' \subseteq EnReady \cup {q}
          /\ \E w : Libres' \subseteq Libres \cup {w}

\* Such a step keeps the invariant.
LEMMA AnunciaCubierto ==
    ASSUME IInv, Cubierto, Anuncia
    PROVE  Cubierto'
<1> DEFINE P == Pendientes  D == Disponibles
<1>0. /\ IsFiniteSet(P) /\ IsFiniteSet(D) /\ sem \in Nat
      /\ Cardinality(P) \in Nat /\ Cardinality(D) \in Nat
  BY ConjuntosFinitos, FS_CardinalityType DEF IInv, TypeOK
<1>1. CASE sem' = sem /\ EnReady' \subseteq EnReady /\ Libres' \subseteq Libres
  <2>1. Pendientes' \subseteq P /\ Disponibles' \subseteq D /\ Fichas' = Fichas
    BY <1>1 DEF Anuncia, Pendientes, Disponibles, Fichas
  <2>2. /\ Cardinality(Pendientes') <= Cardinality(P) /\ Cardinality(Pendientes') \in Nat
        /\ Cardinality(Disponibles') <= Cardinality(D) /\ Cardinality(Disponibles') \in Nat
    BY <1>0, <2>1, FS_Subset, FS_CardinalityType
  <2>3. Fichas \in Nat
    BY <1>0 DEF Fichas
  <2> HIDE DEF P, D
  <2> QED BY <1>0, <2>1, <2>2, <2>3 DEF Cubierto, P, D
<1>2. CASE /\ sem' = sem + 1
           /\ \E q : EnReady' \subseteq EnReady \cup {q}
           /\ \E w : Libres' \subseteq Libres \cup {w}
  <2>1. PICK q, w : EnReady' \subseteq EnReady \cup {q} /\ Libres' \subseteq Libres \cup {w}
    BY <1>2
  <2>2. /\ Pendientes' \subseteq P \cup {q} /\ Disponibles' \subseteq D \cup {w}
        /\ Fichas' = Fichas + 1 /\ Fichas \in Nat
    BY <1>0, <1>2, <2>1 DEF Anuncia, Pendientes, Disponibles, Fichas
  <2>3. /\ IsFiniteSet(P \cup {q}) /\ Cardinality(P \cup {q}) <= Cardinality(P) + 1
        /\ IsFiniteSet(D \cup {w}) /\ Cardinality(D \cup {w}) <= Cardinality(D) + 1
        /\ Cardinality(P \cup {q}) \in Nat /\ Cardinality(D \cup {w}) \in Nat
    <3> HIDE DEF P, D
    <3>1. /\ IsFiniteSet(P \cup {q})
          /\ Cardinality(P \cup {q}) = IF q \in P THEN Cardinality(P) ELSE Cardinality(P) + 1
      BY <1>0, FS_AddElement
    <3>2. /\ IsFiniteSet(D \cup {w})
          /\ Cardinality(D \cup {w}) = IF w \in D THEN Cardinality(D) ELSE Cardinality(D) + 1
      BY <1>0, FS_AddElement
    <3> QED BY <1>0, <3>1, <3>2
  <2>4. /\ Cardinality(Pendientes') <= Cardinality(P \cup {q})
        /\ Cardinality(Disponibles') <= Cardinality(D \cup {w})
        /\ Cardinality(Pendientes') \in Nat /\ Cardinality(Disponibles') \in Nat
    BY <2>2, <2>3, FS_Subset, FS_CardinalityType
  <2>5. CASE Cardinality(P) <= Fichas
    <3>1. Cardinality(Pendientes') <= Fichas'
      <4> HIDE DEF P, D
      <4> QED BY <1>0, <2>2, <2>3, <2>4, <2>5
    <3> QED BY <3>1 DEF Cubierto
  <2>6. CASE Cardinality(D) <= Fichas
    <3>1. Cardinality(Disponibles') <= Fichas'
      <4> HIDE DEF P, D
      <4> QED BY <1>0, <2>2, <2>3, <2>4, <2>6
    <3> QED BY <3>1 DEF Cubierto
  <2> QED BY <2>5, <2>6 DEF Cubierto
<1> QED BY <1>1, <1>2 DEF Anuncia

\* A step of the thread of a Query Control, of its aging thread or of accept.
LEMMA QueryControlAnuncia ==
    ASSUME IInv, NEW q \in Queries, ConectaQC(q) \/ HiloQC(q) \/ Envejece(q)
    PROVE  Anuncia
<1>0. TypeOK /\ ListasConsistentes
  BY DEF IInv
<1>1. CASE ConectaQC(q)
  <2>1. EnReady' \subseteq EnReady \cup {q} /\ Libres' = Libres
    BY <1>0, <1>1 DEF ConectaQC, EnReady, Libres, TypeOK, varsWorker
  <2> QED BY <1>1, <2>1 DEF Anuncia, ConectaQC
<1>2. CASE Envejece(q)
  <2>1. EnReady' = EnReady /\ Libres' = Libres
    BY <1>2 DEF Envejece, EnReady, Libres, varsWorker
  <2> QED BY <1>2, <2>1 DEF Anuncia, Envejece, AvisoDeAging
<1>3. CASE RetiraDeReady(q)
  <2>1. \A p \in Queries : estado'[p] = "READY" => estado[p] = "READY"
    BY <1>0, <1>3, actualizarEstadoQueryEfecto DEF RetiraDeReady
  <2>2. EnReady' \subseteq EnReady /\ Libres' = Libres
    BY <1>3, <2>1 DEF RetiraDeReady, EnReady, Libres, varsWorker
  <2> QED BY <1>3, <2>2 DEF Anuncia, RetiraDeReady
<1>4. CASE UNCHANGED <<estado, varsWorker, sem, plan>>
  BY <1>4 DEF Anuncia, EnReady, Libres, varsWorker
<1>5. CASE CancelaEnWorker(q)
  BY <1>5 DEF CancelaEnWorker, Anuncia, EnReady, Libres, varsQuery
<1>6. CASE \/ DesconectaQC(q) \/ MiraSiEnExec(q) \/ MarcaDesconexion(q) \/ CierraQC(q)
  BY <1>4, <1>6 DEF DesconectaQC, MiraSiEnExec, MarcaDesconexion, CierraQC, varsQuery
<1> QED BY <1>1, <1>2, <1>3, <1>5, <1>6 DEF HiloQC

\* A step of the thread of a Worker, of the Worker itself or of accept.
LEMMA WorkerAnuncia ==
    ASSUME IInv, NEW w \in Workers,
           ConectaWorker(w) \/ HiloWorker(w) \/ DesconectaWorker(w) \/ ProcesoWorker(w)
    PROVE  Anuncia
<1>0. TypeOK /\ ListasConsistentes /\ PunterosValidos
  BY DEF IInv
<1>1. CASE ConectaWorker(w)
  <2>1. \A v : Contains(listaWorkers', v) => Contains(listaWorkers, v) \/ v = w
    BY <1>0, <1>1, AppendContiene DEF ConectaWorker, TypeOK
  <2>2. EnReady' = EnReady /\ Libres' \subseteq Libres \cup {w}
    BY <1>0, <1>1, <2>1 DEF ConectaWorker, EnReady, Libres, TypeOK, varsQuery
  <2> QED BY <1>1, <2>2 DEF Anuncia, ConectaWorker
<1>2. CASE VuelveAReady(w)
  <2>1. query[w] \in Queries
    BY <1>0, <1>2 DEF VuelveAReady, PunterosValidos
  <2>2. \A p \in Queries : estado'[p] = "READY" => estado[p] = "READY" \/ p = query[w]
    BY <1>0, <1>2, <2>1, actualizarEstadoQueryEfecto DEF VuelveAReady
  <2>3. EnReady' \subseteq EnReady \cup {query[w]} /\ Libres' = Libres
    BY <1>2, <2>2 DEF VuelveAReady, EnReady, Libres
  <2> QED BY <1>2, <2>3 DEF Anuncia, VuelveAReady
<1>3. CASE PasaAExit(w) \/ TerminaPorCaida(w)
  <2>1. query[w] \in Queries
    BY <1>0, <1>3 DEF PasaAExit, TerminaPorCaida, PunterosValidos
  <2>2. \A p \in Queries : estado'[p] = "READY" => estado[p] = "READY"
    BY <1>0, <1>3, <2>1, actualizarEstadoQueryEfecto DEF PasaAExit, TerminaPorCaida
  <2>3. EnReady' \subseteq EnReady /\ Libres' = Libres
    BY <1>3, <2>2 DEF PasaAExit, TerminaPorCaida, EnReady, Libres
  <2> QED BY <1>3, <2>3 DEF Anuncia, PasaAExit, TerminaPorCaida
<1>4. CASE LiberaWorker(w)
  <2>1. EnReady' = EnReady /\ Libres' \subseteq Libres \cup {w}
    BY <1>0, <1>4 DEF LiberaWorker, SinQuery, EnReady, Libres, TypeOK, varsQuery
  <2> QED BY <1>4, <2>1 DEF Anuncia, LiberaWorker, AvisoDeWorkerLibre
<1>5. CASE QuitaWorker(w)
  <2>1. \A v : Contains(listaWorkers', v) => Contains(listaWorkers, v)
    BY <1>0, <1>5, RemoveFirstContiene DEF QuitaWorker, TypeOK
  <2>2. EnReady' = EnReady /\ Libres' \subseteq Libres
    BY <1>5, <2>1 DEF QuitaWorker, EnReady, Libres, varsQuery
  <2> QED BY <1>5, <2>2 DEF Anuncia, QuitaWorker
<1>6. CASE RecibeRead(w) \/ RecibeResultado(w) \/ DesconectaWorker(w) \/ ProcesoWorker(w)
  <2>1. UNCHANGED <<estado, listaWorkers, query, sem, plan>>
    BY <1>6 DEF RecibeRead, RecibeResultado, DesconectaWorker, ProcesoWorker, varsQuery
  <2> QED BY <2>1 DEF Anuncia, EnReady, Libres
<1> QED BY <1>1, <1>2, <1>3, <1>4, <1>5, <1>6 DEF HiloWorker

\* A step of the scheduler: it takes a token, finds a set empty, or makes both smaller.
LEMMA PlanificadorCubierto ==
    ASSUME IInv, Cubierto, Planificador
    PROVE  Cubierto'
<1>0. TypeOK /\ ListasConsistentes /\ PlanValido(plan) /\ sem \in Nat
  BY DEF IInv, PunterosValidos, TypeOK
<1>f. /\ IsFiniteSet(EnReady) /\ Cardinality(EnReady) \in Nat
      /\ IsFiniteSet(Libres) /\ Cardinality(Libres) \in Nat
  BY ConjuntosFinitos, FS_CardinalityType
\* An empty set is covered by any number of tokens.
<1>v. ASSUME plan'.pc \notin {"exec", "elige", "asigna"}, sem' \in Nat,
             EnReady' = {} \/ Libres' = {}
      PROVE  Cubierto'
  <2>1. Pendientes' = EnReady' /\ Disponibles' = Libres'
    BY <1>v DEF Pendientes, Disponibles
  <2>2. Cardinality(EnReady') = 0 \/ Cardinality(Libres') = 0
    BY <1>v, FS_EmptySet
  <2>3. Fichas' = sem' \/ Fichas' = sem' + 1
    BY DEF Fichas
  <2>4. Fichas' \in Nat
    BY <1>v, <2>3
  <2> QED BY <2>1, <2>2, <2>4 DEF Cubierto
\* The scheduler leaves the two sets alone, but for two of its steps.
<1>i. ASSUME UNCHANGED <<varsQuery, varsWorker>>
      PROVE  EnReady' = EnReady /\ Libres' = Libres
  BY <1>i DEF EnReady, Libres, varsQuery, varsWorker
<1>1. CASE PlanDespierta
  <2>1. plan.pc = "espera" /\ sem > 0 /\ sem' = sem - 1 /\ sem' \in Nat
    BY <1>0, <1>1 DEF PlanDespierta
  <2>2. EnReady' = EnReady /\ Libres' = Libres
    BY <1>1, <1>i DEF PlanDespierta
  <2>3. CASE listas["READY"] # << >>
    <3>1. plan'.pc = "libre"
      BY <1>0, <1>1, <2>3 DEF PlanDespierta, PlanValido, PlanTipo
    <3>2. Pendientes' = Pendientes /\ Disponibles' = Disponibles /\ Fichas' = Fichas
      BY <1>0, <2>1, <2>2, <3>1 DEF Pendientes, Disponibles, Fichas
    <3> QED BY <3>2 DEF Cubierto
  <2>4. CASE listas["READY"] = << >>
    <3>1. EnReady = {}
      BY <2>4, SiguienteQuery
    <3>2. plan'.pc = "espera"
      BY <1>1, <2>1, <2>4 DEF PlanDespierta
    <3> QED BY <1>v, <2>1, <2>2, <3>1, <3>2
  <2> QED BY <2>3, <2>4
<1>2. CASE PlanBuscaWorker
  <2>1. plan.pc = "libre" /\ sem' = sem /\ EnReady' = EnReady /\ Libres' = Libres
    BY <1>2, <1>i DEF PlanBuscaWorker
  <2>2. CASE \E w \in obtener_worker_libre : plan' = [plan EXCEPT !.pc = "elige", !.w = w]
    <3>1. PICK w \in Libres : plan' = [plan EXCEPT !.pc = "elige", !.w = w]
      BY <2>2, WorkerLibre
    <3>2. plan'.pc = "elige" /\ plan'.w = w
      BY <1>0, <3>1 DEF PlanValido, PlanTipo
    <3>3. Pendientes' = Pendientes /\ Disponibles' = Disponibles /\ Fichas' = Fichas
      BY <2>1, <3>2 DEF Pendientes, Disponibles, Fichas
    <3> QED BY <3>3 DEF Cubierto
  <2>3. CASE /\ obtener_worker_libre = {}
             /\ plan' = IF listaWorkers # << >> /\ algoritmo = "PRIORIDADES"
                        THEN [plan EXCEPT !.pc = "mide"] ELSE EnEspera
    <3>1. plan'.pc \in {"mide", "espera"}
      BY <1>0, <2>3 DEF PlanValido, PlanTipo, EnEspera
    <3> QED BY <1>0, <1>v, <2>1, <2>3, <3>1, WorkerLibre
  <2> QED BY <1>2, <2>2, <2>3 DEF PlanBuscaWorker
<1>3. CASE PlanElige
  <2>1. plan.pc = "elige" /\ sem' = sem /\ EnReady' = EnReady /\ Libres' = Libres
    BY <1>3, <1>i DEF PlanElige
  <2>2. CASE \E q \in obtener_siguiente_query : plan' = [plan EXCEPT !.pc = "exec", !.q = q]
    <3>1. PICK q \in EnReady : plan' = [plan EXCEPT !.pc = "exec", !.q = q]
      BY <2>2, SiguienteQuery
    <3>2. plan'.pc = "exec" /\ plan'.q = q /\ plan'.w = plan.w
      BY <1>0, <3>1 DEF PlanValido, PlanTipo
    <3>3. /\ Pendientes = EnReady /\ Pendientes' = EnReady \ {q} /\ Fichas = Fichas' + 1
          /\ Disponibles = Libres \cup {plan.w} /\ Disponibles' = Libres \ {plan.w}
          /\ Fichas' = sem
      BY <1>0, <2>1, <3>2 DEF Pendientes, Disponibles, Fichas
    <3>4. Cardinality(EnReady \ {q}) = Cardinality(EnReady) - 1
      BY <1>f, FS_RemoveElement
    <3>5. /\ Cardinality(Libres \cup {plan.w})
               = (IF plan.w \in Libres THEN Cardinality(Libres) ELSE Cardinality(Libres) + 1)
          /\ Cardinality(Libres \ {plan.w})
               = (IF plan.w \in Libres THEN Cardinality(Libres) - 1 ELSE Cardinality(Libres))
      BY <1>f, FS_AddElement, FS_RemoveElement
    <3> QED BY <1>0, <1>f, <3>3, <3>4, <3>5 DEF Cubierto
  <2>3. CASE obtener_siguiente_query = {} /\ plan' = EnEspera
    BY <1>0, <1>v, <2>1, <2>3, SiguienteQuery DEF EnEspera
  <2> QED BY <1>3, <2>2, <2>3 DEF PlanElige
<1>4. CASE PlanPasaAExec
  <2>1. /\ plan.pc = "exec" /\ plan.q \in Queries /\ sem' = sem /\ Libres' = Libres
        /\ plan'.pc = "asigna" /\ plan'.w = plan.w
    BY <1>0, <1>4 DEF PlanPasaAExec, PlanValido, PlanTipo, Libres, varsWorker
  <2>2. \A p \in Queries :
           estado'[p] = IF p = plan.q /\ estado[plan.q] # "NUEVA" THEN "EXEC" ELSE estado[p]
    BY <1>0, <1>4, <2>1, actualizarEstadoQueryEfecto DEF PlanPasaAExec
  <2>3. EnReady' = EnReady \ {plan.q}
    BY <2>2 DEF EnReady
  <2>4. Pendientes' = Pendientes /\ Disponibles' = Disponibles /\ Fichas' = Fichas
    BY <2>1, <2>3 DEF Pendientes, Disponibles, Fichas
  <2> QED BY <2>4 DEF Cubierto
<1>5. CASE PlanOcupaWorker
  <2>1. /\ plan.pc = "asigna" /\ plan.q \in Queries /\ plan.w \in Workers /\ sem' = sem
        /\ plan'.pc = "envia"
    BY <1>0, <1>5 DEF PlanOcupaWorker, PlanValido, PlanTipo
  <2>2. EnReady' = EnReady /\ Libres' = Libres \ {plan.w}
    <3>1. \A w \in Workers : query'[w] = IF w = plan.w THEN plan.q ELSE query[w]
      BY <1>0, <1>5 DEF PlanOcupaWorker, TypeOK
    <3>2. plan.q # NULL /\ listaWorkers' = listaWorkers /\ estado' = estado
      BY <1>5, <2>1, ContratoSupuesto DEF PlanOcupaWorker, varsQuery
    <3> QED BY <3>1, <3>2, <2>1 DEF EnReady, Libres
  <2>3. Pendientes' = Pendientes /\ Disponibles' = Disponibles /\ Fichas' = Fichas
    BY <2>1, <2>2 DEF Pendientes, Disponibles, Fichas
  <2> QED BY <2>3 DEF Cubierto
<1>6. CASE /\ plan.pc \notin {"libre", "elige", "exec", "asigna"}
           /\ plan'.pc \notin {"libre", "elige", "exec", "asigna"}
           /\ UNCHANGED <<estado, listaWorkers, query, sem>>
  <2>1. Pendientes' = Pendientes /\ Disponibles' = Disponibles /\ Fichas' = Fichas
    BY <1>6 DEF Pendientes, Disponibles, Fichas, EnReady, Libres
  <2> QED BY <2>1 DEF Cubierto
<1>7. CASE PlanEnviaAsignacion \/ PlanDesaloja
  BY <1>6, <1>7 DEF PlanEnviaAsignacion, PlanDesaloja, EnEspera, varsQuery
<1>8. CASE PlanMide \/ PlanEligeVictima \/ PlanLeeReady \/ PlanCompara \/ PlanBuscaVictima
  <2>1. plan.pc \in {"mide", "victima", "pReady", "compara", "busca"}
    BY <1>8 DEF PlanMide, PlanEligeVictima, PlanLeeReady, PlanCompara, PlanBuscaVictima
  <2>2. plan'.pc \in {"espera", "victima", "pReady", "compara", "busca", "desaloja"}
    <3>1. \A r : r \in PlanTipo => DOMAIN r = {"pc", "q", "v", "w", "p"}
      BY DEF PlanTipo
    <3>2. plan \in PlanTipo /\ "pc" \in DOMAIN plan /\ EnEspera.pc = "espera"
      BY <1>0, <3>1 DEF PlanValido, EnEspera
    <3>3. CASE PlanMide
      BY <3>2, <3>3 DEF PlanMide
    <3>4. CASE PlanEligeVictima
      BY <3>2, <3>4 DEF PlanEligeVictima
    <3>5. CASE PlanLeeReady
      BY <3>2, <3>5 DEF PlanLeeReady
    <3>6. CASE PlanCompara
      BY <3>2, <3>6 DEF PlanCompara
    <3>7. CASE PlanBuscaVictima
      BY <3>2, <3>7 DEF PlanBuscaVictima
    <3> QED BY <1>8, <3>3, <3>4, <3>5, <3>6, <3>7
  <2>3. UNCHANGED <<estado, listaWorkers, query, sem>>
    BY <1>8 DEF PlanMide, PlanEligeVictima, PlanLeeReady, PlanCompara, PlanBuscaVictima,
       varsQuery, varsWorker
  <2> QED BY <1>6, <2>1, <2>2, <2>3
<1> QED BY <1>1, <1>2, <1>3, <1>4, <1>5, <1>7, <1>8 DEF Planificador

\* Every step keeps the invariant.
LEMMA NextCubierto == IInv /\ Cubierto /\ [Next]_vars => Cubierto'
<1> SUFFICES ASSUME IInv, Cubierto, [Next]_vars PROVE Cubierto'
  OBVIOUS
<1>1. CASE Planificador
  BY <1>1, PlanificadorCubierto
<1>2. CASE \E q \in Queries : ConectaQC(q) \/ HiloQC(q) \/ Envejece(q)
  BY <1>2, QueryControlAnuncia, AnunciaCubierto
<1>3. CASE \E w \in Workers : ConectaWorker(w) \/ HiloWorker(w) \/ DesconectaWorker(w)
                               \/ ProcesoWorker(w)
  BY <1>3, WorkerAnuncia, AnunciaCubierto
<1>4. CASE UNCHANGED vars
  <2>1. Anuncia
    BY <1>4 DEF Anuncia, EnReady, Libres, vars, varsQuery, varsWorker
  <2> QED BY <2>1, AnunciaCubierto
<1> QED BY <1>1, <1>2, <1>3, <1>4 DEF Next, EnReposo

\* No sem_post is missing (the scheduler waits on semPlanificador; Query Control threads,
\* Worker threads and aging threads post it): whenever it sleeps on an empty semaphore
\* there is no query in READY or no free Worker.  For any number of queries and Workers,
\* both policies, and whoever leaves.
THEOREM DespertarNoSePierde == Spec => []SinDespertarPerdido
<1>1. ASSUME IInv, Cubierto PROVE SinDespertarPerdido
  <2> SUFFICES ASSUME plan.pc = "espera", sem = 0
               PROVE  listas["READY"] = << >> \/ obtener_worker_libre = {}
    BY DEF SinDespertarPerdido
  <2>1. Cardinality(EnReady) <= 0 \/ Cardinality(Libres) <= 0
    BY <1>1 DEF Cubierto, Fichas, Pendientes, Disponibles
  <2>2. EnReady = {} \/ Libres = {}
    <3>1. /\ IsFiniteSet(EnReady) /\ Cardinality(EnReady) \in Nat
          /\ IsFiniteSet(Libres) /\ Cardinality(Libres) \in Nat
      BY ConjuntosFinitos, FS_CardinalityType
    <3>2. Cardinality(EnReady) = 0 \/ Cardinality(Libres) = 0
      BY <2>1, <3>1
    <3> QED BY <3>1, <3>2, FS_EmptySet
  <2> QED BY <1>1, <2>2, SiguienteQuery, WorkerLibre
<1>2. Spec => Init /\ [][Next]_vars
  BY DEF Spec
<1> QED BY <1>1, <1>2, Invariante, InitCubierto, NextCubierto, PTL

-----------------------------------------------------------------------------
(***************************************************************************)
(* Second part: who runs what.                                             *)
(***************************************************************************)

-----------------------------------------------------------------------------
(***************************************************************************)
(* What the Master and a Worker know of each other: the record of a Worker *)
(* against the pointer the Master keeps of its query.                      *)
(***************************************************************************)

\* The assignments that wait for the Worker.
Asignaciones(r) == {i \in DOMAIN r.entrada : r.entrada[i].op = "ASIGNAR"}

\* It has, or will have, a query to run.
Ocupado(r) == Asignaciones(r) # {} \/ r.query # NULL

\* Or an answer of it has still to be handled.
Cargado(r) == Ocupado(r) \/ r.salida # << >>

\* At most one assignment is anywhere between the two, it is of the query x of the pointer,
\* and its one result is the last of its answers.
Protocolo(r, x) ==
    /\ \A i, j \in Asignaciones(r) : i = j
    /\ \A i \in Asignaciones(r) : r.query = NULL /\ r.salida = << >> /\ r.entrada[i].query = x
    /\ r.query \in {NULL, x}
    /\ \A i \in DOMAIN r.salida :
          /\ r.salida[i].query = x
          /\ r.salida[i].op \in Resultados => i = Len(r.salida) /\ r.query = NULL

\* A cut the Worker will take while it runs a query was meant for it.
Cortes(r, x) ==
    \A i \in DOMAIN r.entrada :
        /\ r.entrada[i].op # "ASIGNAR"
        /\ r.query # NULL \/ \E j \in Asignaciones(r) : j < i
        => r.entrada[i].query = x

\* An idle Worker agrees with any pointer.
LEMMA SinCarga ==
    ASSUME NEW r \in WorkerTipo, ~Cargado(r), NEW x
    PROVE  Protocolo(r, x) /\ Cortes(r, x)
BY EmptySeq DEF Cargado, Ocupado, Protocolo, Cortes

\* A cut reaches the Worker: of its query, or it finds the Worker idle.
LEMMA LlegaCorte ==
    ASSUME NEW r \in WorkerTipo, NEW x, Protocolo(r, x),
           NEW m \in Pedidos, m.op # "ASIGNAR",
           NEW s \in WorkerTipo, s = [r EXCEPT !.entrada = Append(@, m)]
    PROVE  /\ Protocolo(s, x) /\ (Ocupado(s) <=> Ocupado(r)) /\ (Cargado(s) <=> Cargado(r))
           /\ Cortes(r, x) /\ (Ocupado(r) => m.query = x) => Cortes(s, x)
<1> DEFINE e == r.entrada
<1>1. /\ e \in Seq(Pedidos) /\ Len(e) \in Nat /\ DOMAIN e = 1..Len(e)
      /\ s.entrada = Append(e, m) /\ s.salida = r.salida /\ s.query = r.query
  BY DEF WorkerTipo
<1>2. /\ DOMAIN Append(e, m) = 1..(Len(e) + 1) /\ Append(e, m)[Len(e) + 1] = m
      /\ \A i \in 1..Len(e) : Append(e, m)[i] = e[i]
  BY <1>1, AppendProperties
<1>3. Asignaciones(s) = Asignaciones(r)
  BY <1>1, <1>2 DEF Asignaciones
<1>4. \A i \in Asignaciones(r) : i \in 1..Len(e) /\ s.entrada[i] = e[i]
  BY <1>1, <1>2 DEF Asignaciones
<1>5. Protocolo(s, x)
  BY <1>1, <1>3, <1>4 DEF Protocolo
<1>6. ASSUME Cortes(r, x), Ocupado(r) => m.query = x PROVE Cortes(s, x)
  <2> SUFFICES ASSUME NEW i \in DOMAIN s.entrada, s.entrada[i].op # "ASIGNAR",
                      r.query # NULL \/ \E j \in Asignaciones(r) : j < i
               PROVE  s.entrada[i].query = x
    BY <1>1, <1>3 DEF Cortes
  <2>1. CASE i \in 1..Len(e)
    BY <2>1, <1>1, <1>2, <1>6 DEF Cortes
  <2>2. CASE i = Len(e) + 1
    BY <2>2, <1>1, <1>2, <1>6 DEF Ocupado
  <2> QED BY <1>1, <1>2, <2>1, <2>2
<1> QED BY <1>1, <1>3, <1>5, <1>6 DEF Ocupado, Cargado

\* The assignment of x reaches a Worker that is idle.
LEMMA LlegaAsignacion ==
    ASSUME NEW r \in WorkerTipo, ~Cargado(r), NEW x,
           NEW m \in Pedidos, m.op = "ASIGNAR", m.query = x,
           NEW s \in WorkerTipo, s = [r EXCEPT !.entrada = Append(@, m)]
    PROVE  Protocolo(s, x) /\ Cortes(s, x)
<1> DEFINE e == r.entrada
<1>1. /\ e \in Seq(Pedidos) /\ Len(e) \in Nat /\ DOMAIN e = 1..Len(e)
      /\ s.entrada = Append(e, m) /\ s.salida = << >> /\ s.query = NULL
  BY DEF WorkerTipo, Cargado, Ocupado
<1>2. /\ DOMAIN Append(e, m) = 1..(Len(e) + 1) /\ Append(e, m)[Len(e) + 1] = m
      /\ \A i \in 1..Len(e) : Append(e, m)[i] = e[i] /\ e[i].op # "ASIGNAR"
  BY <1>1, AppendProperties DEF Cargado, Ocupado, Asignaciones
<1>3. Asignaciones(s) = {Len(e) + 1}
  BY <1>1, <1>2 DEF Asignaciones
<1>4. Protocolo(s, x)
  <2>1. \A i, j \in Asignaciones(s) : i = j
    BY <1>3
  <2>2. \A i \in Asignaciones(s) : s.entrada[i].query = x
    BY <1>1, <1>2, <1>3
  <2>3. DOMAIN s.salida = {}
    BY <1>1, EmptySeq
  <2> QED BY <1>1, <2>1, <2>2, <2>3 DEF Protocolo
<1>5. Cortes(s, x)
  <2>1. ASSUME NEW i \in DOMAIN s.entrada, s.entrada[i].op # "ASIGNAR",
               s.query # NULL \/ \E j \in Asignaciones(s) : j < i
        PROVE  s.entrada[i].query = x
    <3>1. i \in 1..(Len(e) + 1) /\ Len(e) + 1 < i
      BY <2>1, <1>1, <1>2, <1>3
    <3> QED BY <3>1, <1>1
  <2> QED BY <2>1 DEF Cortes
<1> QED BY <1>4, <1>5

\* atender_worker takes an answer; the result leaves the Worker idle.
LEMMA SaleRespuesta ==
    ASSUME NEW r \in WorkerTipo, NEW x, Protocolo(r, x), r.salida # << >>,
           NEW s \in WorkerTipo, s = [r EXCEPT !.salida = Tail(@)]
    PROVE  /\ Protocolo(s, x) /\ (Cortes(r, x) => Cortes(s, x))
           /\ Head(r.salida).query = x
           /\ Head(r.salida).op \in Resultados => ~Cargado(s)
           /\ Ocupado(s) <=> Ocupado(r)
<1> DEFINE a == r.salida
<1>1. /\ a \in Seq(Respuestas) /\ Len(a) \in Nat /\ DOMAIN a = 1..Len(a) /\ Len(a) >= 1
      /\ s.entrada = r.entrada /\ s.salida = Tail(a) /\ s.query = r.query
  BY EmptySeq DEF WorkerTipo
<1>2. /\ Head(a) = a[1] /\ Tail(a) \in Seq(Respuestas) /\ Len(Tail(a)) = Len(a) - 1
      /\ DOMAIN Tail(a) = 1..(Len(a) - 1)
      /\ \A i \in 1..(Len(a) - 1) : Tail(a)[i] = a[i + 1]
  BY <1>1, HeadTailProperties
<1>3. Asignaciones(s) = Asignaciones(r) /\ Asignaciones(r) = {}
  BY <1>1 DEF Asignaciones, Protocolo
<1>p. /\ \A i \in 1..Len(a) : a[i].query = x
      /\ \A i \in 1..Len(a) : a[i].op \in Resultados => i = Len(a)
      /\ \A i \in 1..Len(a) : a[i].op \in Resultados => r.query = NULL
  BY <1>1 DEF Protocolo
<1>h. 1 \in 1..Len(a)
  BY <1>1
<1>4. Protocolo(s, x)
  <2>1. r.query \in {NULL, x}
    BY DEF Protocolo
  <2> HIDE DEF a
  <2>2. ASSUME NEW i \in 1..(Len(a) - 1)
        PROVE  /\ Tail(a)[i].query = x
               /\ Tail(a)[i].op \in Resultados => i = Len(a) - 1 /\ r.query = NULL
    <3>1. i + 1 \in 1..Len(a) /\ Tail(a)[i] = a[i + 1]
      BY <1>1, <1>2
    <3>2. i + 1 = Len(a) => i = Len(a) - 1
      BY <1>1
    <3> QED BY <1>p, <3>1, <3>2
  <2> QED BY <1>1, <1>2, <1>3, <2>1, <2>2 DEF Protocolo
<1>5. Head(a).op \in Resultados => ~Cargado(s)
  <2> SUFFICES ASSUME a[1].op \in Resultados PROVE ~Cargado(s)
    BY <1>2
  <2>1. Len(a) = 1 /\ r.query = NULL
    <3> HIDE DEF a
    <3> QED BY <1>1, <1>p, <1>h
  <2>2. Tail(a) = << >>
    BY <1>1, <1>2, <2>1, EmptySeq
  <2> QED BY <1>1, <1>3, <2>1, <2>2 DEF Cargado, Ocupado
<1>6. Cortes(r, x) => Cortes(s, x)
  BY <1>1, <1>3 DEF Cortes
<1>7. Head(a).query = x
  <2> HIDE DEF a
  <2> QED BY <1>2, <1>p, <1>h DEF a
<1> QED BY <1>1, <1>3, <1>4, <1>5, <1>6, <1>7 DEF Ocupado

\* The Worker takes the first packet of its Master: the others move up by one.
LEMMA TomaPaquete ==
    ASSUME NEW r \in WorkerTipo, NEW s \in WorkerTipo, r.entrada # << >>,
           s.entrada = Tail(r.entrada)
    PROVE  /\ \A i \in Asignaciones(s) : i + 1 \in Asignaciones(r) /\ s.entrada[i] = r.entrada[i + 1]
           /\ \A i \in DOMAIN s.entrada : i + 1 \in DOMAIN r.entrada /\ s.entrada[i] = r.entrada[i + 1]
           /\ Asignaciones(s) \subseteq Nat /\ DOMAIN s.entrada \subseteq Nat
           /\ Asignaciones(r) \subseteq Nat
           /\ Head(r.entrada) = r.entrada[1] /\ 1 \in DOMAIN r.entrada
<1> DEFINE e == r.entrada
<1>1. e \in Seq(Pedidos) /\ Len(e) \in Nat /\ DOMAIN e = 1..Len(e) /\ Len(e) >= 1
  BY EmptySeq DEF WorkerTipo
<1>2. /\ Head(e) = e[1] /\ Tail(e) \in Seq(Pedidos) /\ Len(Tail(e)) = Len(e) - 1
      /\ DOMAIN Tail(e) = 1..(Len(e) - 1)
      /\ \A i \in 1..(Len(e) - 1) : Tail(e)[i] = e[i + 1]
  BY <1>1, HeadTailProperties
<1>3. \A i \in 1..(Len(e) - 1) : i + 1 \in 1..Len(e) /\ i \in Nat
  BY <1>1
<1>4. \A i \in DOMAIN s.entrada : i + 1 \in DOMAIN e /\ s.entrada[i] = e[i + 1] /\ i \in Nat
  BY <1>1, <1>2, <1>3
<1>5. 1 \in DOMAIN e /\ \A i \in DOMAIN e : i \in Nat
  BY <1>1
<1> QED BY <1>2, <1>4, <1>5 DEF Asignaciones

\* Whatever the Worker does next, the two still agree.
LEMMA PasoDeWorker ==
    ASSUME NEW r \in WorkerTipo, NEW x, Protocolo(r, x), Cortes(r, x), NEW s \in PasosWorker(r)
    PROVE  /\ s \in WorkerTipo /\ Protocolo(s, x) /\ Cortes(s, x)
           /\ Cargado(s) => Cargado(r)
           /\ Ocupado(s) => Ocupado(r)
<1>t. s \in WorkerTipo
  BY PasosWorkerTipo
<1>p. /\ \A i, j \in Asignaciones(r) : i = j
      /\ \A i \in Asignaciones(r) : r.query = NULL /\ r.salida = << >>
      /\ \A i \in Asignaciones(r) : r.entrada[i].query = x
      /\ r.query \in {NULL, x}
      /\ \A i \in DOMAIN r.salida : r.salida[i].query = x
      /\ \A i \in DOMAIN r.salida : r.salida[i].op \in Resultados => i = Len(r.salida)
      /\ \A i \in DOMAIN r.salida : r.salida[i].op \in Resultados => r.query = NULL
  BY DEF Protocolo
<1>1. CASE s \in TomaAsignacion(r)
  <2>1. /\ r.entrada # << >> /\ Head(r.entrada).op = "ASIGNAR" /\ r.query = NULL
        /\ s = [r EXCEPT !.entrada = Tail(@), !.query = Head(r.entrada).query,
                         !.pc = Head(r.entrada).pc, !.corte = FALSE]
    BY <1>1 DEF TomaAsignacion
  <2>2. s.entrada = Tail(r.entrada) /\ s.query = Head(r.entrada).query /\ s.salida = r.salida
    BY <2>1 DEF WorkerTipo
  <2>3. /\ \A i \in Asignaciones(s) : i + 1 \in Asignaciones(r) /\ i \in Nat
        /\ \A i \in DOMAIN s.entrada :
              i + 1 \in DOMAIN r.entrada /\ s.entrada[i] = r.entrada[i + 1] /\ i \in Nat
        /\ 1 \in DOMAIN r.entrada /\ Head(r.entrada) = r.entrada[1]
    BY <1>t, <2>1, <2>2, TomaPaquete
  <2>4. 1 \in Asignaciones(r)
    BY <2>1, <2>3 DEF Asignaciones
  <2>5. Asignaciones(s) = {} /\ s.salida = << >> /\ s.query = x
    <3>1. ASSUME NEW i \in Asignaciones(s) PROVE FALSE
      <4>1. i + 1 = 1 /\ i \in Nat
        BY <1>p, <2>3, <2>4
      <4>2. i = 0 /\ 0 \in DOMAIN s.entrada /\ s.entrada \in Seq(Pedidos)
        BY <1>t, <4>1 DEF Asignaciones, WorkerTipo
      <4> QED BY <4>2, LenProperties
    <3> QED BY <1>p, <2>2, <2>3, <2>4, <3>1
  <2>6. Protocolo(s, x)
    BY <2>5, EmptySeq DEF Protocolo
  <2>7. Cortes(s, x)
    <3> SUFFICES ASSUME NEW i \in DOMAIN s.entrada, s.entrada[i].op # "ASIGNAR"
                 PROVE  s.entrada[i].query = x
      BY DEF Cortes
    <3>1. i + 1 \in DOMAIN r.entrada /\ s.entrada[i] = r.entrada[i + 1] /\ i \in Nat /\ i # 0
      <4>1. s.entrada \in Seq(Pedidos)
        BY <1>t DEF WorkerTipo
      <4> QED BY <2>3, <4>1, LenProperties
    <3>2. 1 < i + 1
      BY <3>1
    <3> QED BY <2>4, <3>1, <3>2 DEF Cortes
  <2>8. Ocupado(r)
    BY <2>4 DEF Ocupado
  <2> QED BY <1>t, <2>6, <2>7, <2>8 DEF Cargado
<1>2. CASE s \in TomaCorte(r)
  <2>1. /\ r.entrada # << >> /\ s = [r EXCEPT !.entrada = Tail(@), !.corte = (r.query # NULL)]
    BY <1>2 DEF TomaCorte
  <2>2. s.entrada = Tail(r.entrada) /\ s.query = r.query /\ s.salida = r.salida
    BY <2>1 DEF WorkerTipo
  <2>3. /\ \A i \in Asignaciones(s) : i + 1 \in Asignaciones(r) /\ s.entrada[i] = r.entrada[i + 1]
        /\ \A i \in DOMAIN s.entrada :
              i + 1 \in DOMAIN r.entrada /\ s.entrada[i] = r.entrada[i + 1] /\ i \in Nat
        /\ Asignaciones(s) \subseteq Nat
    BY <1>t, <2>1, <2>2, TomaPaquete
  <2>4. Protocolo(s, x)
    <3>1. ASSUME NEW i \in Asignaciones(s), NEW j \in Asignaciones(s) PROVE i = j
      <4>1. i + 1 = j + 1 /\ i \in Nat /\ j \in Nat
        BY <1>p, <2>3
      <4> QED BY <4>1
    <3> QED BY <1>p, <2>2, <2>3, <3>1 DEF Protocolo
  <2>5. Cortes(s, x)
    <3> SUFFICES ASSUME NEW i \in DOMAIN s.entrada, s.entrada[i].op # "ASIGNAR",
                        r.query # NULL \/ \E j \in Asignaciones(s) : j < i
                 PROVE  s.entrada[i].query = x
      BY <2>2 DEF Cortes
    <3>1. i + 1 \in DOMAIN r.entrada /\ s.entrada[i] = r.entrada[i + 1] /\ i \in Nat
      BY <2>3
    <3>2. r.query # NULL \/ \E j \in Asignaciones(r) : j < i + 1
      <4>1. ASSUME NEW j \in Asignaciones(s), j < i PROVE j + 1 \in Asignaciones(r) /\ j + 1 < i + 1
        BY <2>3, <3>1, <4>1
      <4> QED BY <4>1
    <3> QED BY <3>1, <3>2 DEF Cortes
  <2> QED BY <1>t, <2>2, <2>3, <2>4, <2>5 DEF Cargado, Ocupado
<1>3. CASE s \in EjecutaInstruccion(r)
  <2>1. r.query # NULL /\ s.entrada = r.entrada /\ s.query = r.query
    BY <1>3 DEF EjecutaInstruccion, WorkerTipo
  <2>2. s.salida = r.salida \/ s.salida = Append(r.salida, Paquete("READ", r.query, r.pc))
    BY <1>3 DEF EjecutaInstruccion, WorkerTipo
  <2>3. Asignaciones(s) = {} /\ Asignaciones(r) = {} /\ r.query = x
    BY <1>p, <2>1 DEF Asignaciones
  <2>4. \A i \in DOMAIN s.salida : s.salida[i].query = x /\ s.salida[i].op \notin Resultados
    <3> DEFINE m == Paquete("READ", r.query, r.pc)
    <3>1. m.query = x /\ m.op \notin Resultados
      BY <2>3 DEF Paquete, Resultados
    <3> HIDE DEF m
    <3>2. \A i \in DOMAIN r.salida : r.salida[i].query = x /\ r.salida[i].op \notin Resultados
      BY <1>p, <2>1
    <3>3. /\ DOMAIN Append(r.salida, m) = 1..(Len(r.salida) + 1) /\ DOMAIN r.salida = 1..Len(r.salida)
          /\ Append(r.salida, m)[Len(r.salida) + 1] = m /\ Len(r.salida) \in Nat
          /\ \A i \in 1..Len(r.salida) : Append(r.salida, m)[i] = r.salida[i]
      BY AppendProperties DEF WorkerTipo
    <3>4. \A i \in DOMAIN Append(r.salida, m) : i = Len(r.salida) + 1 \/ i \in 1..Len(r.salida)
      BY <3>3
    <3>5. s.salida = r.salida \/ s.salida = Append(r.salida, m)
      BY <2>2 DEF m
    <3> QED BY <3>1, <3>2, <3>3, <3>4, <3>5
  <2>5. Protocolo(s, x)
    BY <2>1, <2>3, <2>4 DEF Protocolo
  <2>6. Cortes(s, x)
    BY <2>1, <2>3 DEF Cortes
  <2> QED BY <1>t, <2>1, <2>5, <2>6 DEF Cargado, Ocupado
<1>4. CASE s \in Responde(r)
  <2>1. PICK m \in ResultadosPosibles(r) :
           /\ r.query # NULL
           /\ s = [r EXCEPT !.salida = Append(@, m), !.query = NULL, !.corte = FALSE, !.pc = 0]
    BY <1>4 DEF Responde
  <2>2. s.entrada = r.entrada /\ s.query = NULL /\ s.salida = Append(r.salida, m)
    BY <2>1 DEF WorkerTipo
  <2>3. Asignaciones(s) = {} /\ Asignaciones(r) = {} /\ r.query = x
    BY <1>p, <2>1, <2>2 DEF Asignaciones
  <2>4. m.query = x
    BY <2>3 DEF ResultadosPosibles, Paquete
  <2>5. /\ DOMAIN s.salida = 1..(Len(r.salida) + 1) /\ DOMAIN r.salida = 1..Len(r.salida)
        /\ s.salida[Len(r.salida) + 1] = m /\ Len(r.salida) \in Nat
        /\ Len(s.salida) = Len(r.salida) + 1
        /\ \A i \in 1..Len(r.salida) : s.salida[i] = r.salida[i]
    BY <2>2, AppendProperties DEF WorkerTipo
  <2>6. ASSUME NEW i \in DOMAIN s.salida
        PROVE  s.salida[i].query = x /\ (s.salida[i].op \in Resultados => i = Len(s.salida))
    <3>1. i = Len(r.salida) + 1 \/ i \in 1..Len(r.salida)
      BY <2>5
    <3>2. CASE i = Len(r.salida) + 1
      BY <3>2, <2>4, <2>5
    <3>3. CASE i \in 1..Len(r.salida)
      BY <3>3, <1>p, <2>1, <2>5
    <3> QED BY <3>1, <3>2, <3>3
  <2>7. Protocolo(s, x)
    BY <2>2, <2>3, <2>6 DEF Protocolo
  <2>8. Cortes(s, x)
    BY <2>2, <2>3 DEF Cortes
  <2> QED BY <1>t, <2>1, <2>2, <2>3, <2>7, <2>8 DEF Cargado, Ocupado
<1> QED BY <1>1, <1>2, <1>3, <1>4 DEF PasosWorker

-----------------------------------------------------------------------------
(***************************************************************************)
(* Who owns a query.  A Worker owns the one its t_worker_interno points to *)
(* until its thread has moved it to READY or EXIT: from then on the        *)
(* pointer is stale, and is cleared by LiberaWorker.                       *)
(***************************************************************************)

Atiende(w) == hiloWorker[w] \in {"escucha", "aReady", "aExit", "termina"}
Dueno(w, q) == query[w] = q /\ Atiende(w)

\* A query has at most one owner, and none while it waits in READY or while the scheduler
\* holds it between PlanElige and PlanOcupaWorker.
Duenos ==
    /\ \A q \in Queries : \A v, w \in Workers : Dueno(v, q) /\ Dueno(w, q) => v = w
    /\ \A q \in Queries : estado[q] \in {"READY", "NUEVA"} => \A w \in Workers : ~Dueno(w, q)
    /\ plan.pc \in {"exec", "asigna"} =>
          estado[plan.q] # "NUEVA" /\ \A w \in Workers : ~Dueno(w, plan.q)
    /\ plan.pc = "asigna" => estado[plan.q] # "READY"

\* Nobody owns anything at the start.
LEMMA InitDuenos == Init => Duenos
BY DEF Init, Duenos, Dueno, Atiende, EnEspera

\* A step that gives no Worker a query, makes no query READY and does not move the scheduler
\* into a choice keeps the owners.
LEMMA SinNuevoDueno ==
    ASSUME Duenos, IInv,
           \A q \in Queries : \A w \in Workers : Dueno(w, q)' => Dueno(w, q),
           \A q \in Queries : estado'[q] \in {"READY", "NUEVA"} => estado'[q] = estado[q],
           \/ plan'.pc \notin {"exec", "asigna"}
           \/ plan'.pc = plan.pc /\ plan'.q = plan.q
    PROVE  Duenos'
<1>1. plan.pc \in {"exec", "asigna"} => plan.q \in Queries
  BY DEF IInv, PunterosValidos, PlanValido
<1>2. \A q \in Queries : \A v, w \in Workers : Dueno(v, q)' /\ Dueno(w, q)' => v = w
  BY DEF Duenos
<1>3. \A q \in Queries : estado'[q] \in {"READY", "NUEVA"} => \A w \in Workers : ~Dueno(w, q)'
  BY DEF Duenos
<1>4. ASSUME plan'.pc \in {"exec", "asigna"}
      PROVE  /\ estado'[plan'.q] # "NUEVA" /\ \A w \in Workers : ~Dueno(w, plan.q)'
             /\ plan'.pc = "asigna" => estado'[plan'.q] # "READY"
  <2>1. PICK q \in Queries : q = plan.q /\ q = plan'.q /\ plan'.pc = plan.pc
    BY <1>1, <1>4
  <2>2. /\ estado[q] # "NUEVA" /\ \A w \in Workers : ~Dueno(w, q)
        /\ plan.pc = "asigna" => estado[q] # "READY"
    BY <1>4, <2>1 DEF Duenos
  <2>3. \A w \in Workers : ~Dueno(w, plan.q)'
    <3>1. \A w \in Workers : Dueno(w, q)' <=> (query'[w] = q /\ Atiende(w)')
      BY DEF Dueno
    <3>2. \A w \in Workers : Dueno(w, plan.q)' <=> (query'[w] = plan'.q /\ Atiende(w)')
      BY DEF Dueno
    <3> QED BY <2>1, <2>2, <3>1, <3>2
  <2> QED BY <2>1, <2>2, <2>3
<1> QED BY <1>2, <1>3, <1>4 DEF Duenos

\* A step of the thread of a Query Control, of its aging thread or of accept.
LEMMA QueryControlDuenos ==
    ASSUME IInv, Duenos, NEW q \in Queries, ConectaQC(q) \/ HiloQC(q) \/ Envejece(q)
    PROVE  Duenos'
<1>0. TypeOK /\ ListasConsistentes /\ SinConectar /\ PlanValido(plan)
  BY DEF IInv, PunterosValidos
<1>1. UNCHANGED <<query, hiloWorker, plan>>
  BY DEF ConectaQC, HiloQC, DesconectaQC, RetiraDeReady, MiraSiEnExec, MarcaDesconexion,
     CancelaEnWorker, CierraQC, Envejece, varsWorker
<1>2. \A p : \A w \in Workers : Dueno(w, p)' <=> Dueno(w, p)
  BY <1>1 DEF Dueno, Atiende
<1>3. CASE ConectaQC(q)
  <2>1. estado[q] = "NUEVA" /\ \A p \in Queries : estado'[p] = IF p = q THEN "READY" ELSE estado[p]
    BY <1>0, <1>3 DEF ConectaQC, SiguienteDe, SinConectar, TypeOK
  <2>2. \A p \in Queries : estado'[p] \in {"READY", "NUEVA"} => estado[p] \in {"READY", "NUEVA"}
    BY <2>1
  <2>3. plan.pc \in {"exec", "asigna"} => plan.q \in Queries /\ plan.q # q
    BY <1>0, <2>1 DEF PlanValido, Duenos
  <2>4. \A w \in Workers : Dueno(w, plan.q)' <=> Dueno(w, plan.q)
    BY <1>1 DEF Dueno, Atiende
  <2> QED BY <1>1, <1>2, <2>1, <2>2, <2>3, <2>4 DEF Duenos
<1>4. CASE RetiraDeReady(q)
  <2>1. \A p \in Queries : estado'[p] \in {"READY", "NUEVA"} => estado'[p] = estado[p]
    BY <1>0, <1>4, actualizarEstadoQueryEfecto DEF RetiraDeReady
  <2> QED BY <1>1, <1>2, <2>1, SinNuevoDueno
<1>5. CASE estado' = estado
  BY <1>1, <1>2, <1>5, SinNuevoDueno
<1>6. CASE \/ DesconectaQC(q) \/ MiraSiEnExec(q) \/ MarcaDesconexion(q) \/ CancelaEnWorker(q)
           \/ CierraQC(q) \/ Envejece(q)
  BY <1>5, <1>6 DEF DesconectaQC, MiraSiEnExec, MarcaDesconexion, CancelaEnWorker, CierraQC,
     Envejece, varsQuery
<1> QED BY <1>3, <1>4, <1>6 DEF HiloQC

\* A step of the thread of a Worker, of the Worker itself or of accept.
LEMMA WorkerDuenos ==
    ASSUME IInv, Duenos, NEW w \in Workers,
           ConectaWorker(w) \/ HiloWorker(w) \/ DesconectaWorker(w) \/ ProcesoWorker(w)
    PROVE  Duenos'
<1>0. TypeOK /\ ListasConsistentes /\ PunterosValidos /\ PlanValido(plan)
  BY DEF IInv, PunterosValidos
<1>p. plan' = plan
  BY DEF ConectaWorker, HiloWorker, RecibeRead, RecibeResultado, VuelveAReady, PasaAExit,
     LiberaWorker, TerminaPorCaida, QuitaWorker, DesconectaWorker, ProcesoWorker
<1>1. CASE ConectaWorker(w)
  <2>1. /\ query'[w] \notin Queries /\ \A v \in Workers \ {w} : query'[v] = query[v]
        /\ \A v \in Workers \ {w} : hiloWorker'[v] = hiloWorker[v]
    <3>1. PICK p \in PunterosSinInicializar : query' = [query EXCEPT ![w] = p]
      BY <1>1 DEF ConectaWorker
    <3>2. p \notin Queries
      BY <3>1, MasterSupuesto, ContratoSupuesto
    <3>3. hiloWorker' = [hiloWorker EXCEPT ![w] = "escucha"]
      BY <1>1 DEF ConectaWorker
    <3> QED BY <1>0, <3>1, <3>2, <3>3 DEF TypeOK
  <2>2. \A q \in Queries : \A v \in Workers : Dueno(v, q)' => Dueno(v, q)
    BY <2>1 DEF Dueno, Atiende
  <2> QED BY <1>1, <1>p, <2>2, SinNuevoDueno DEF ConectaWorker, varsQuery
<1>2. CASE LiberaWorker(w)
  <2>1. /\ query'[w] \notin Queries /\ \A v \in Workers \ {w} : query'[v] = query[v]
        /\ \A v \in Workers \ {w} : hiloWorker'[v] = hiloWorker[v]
    BY <1>0, <1>2, ContratoSupuesto DEF LiberaWorker, SinQuery, TypeOK
  <2>2. \A q \in Queries : \A v \in Workers : Dueno(v, q)' => Dueno(v, q)
    BY <2>1 DEF Dueno, Atiende
  <2> QED BY <1>2, <1>p, <2>2, SinNuevoDueno DEF LiberaWorker, varsQuery
\* The other steps leave the pointers alone, and no thread that was past its query returns.
<1>3. ASSUME query' = query, \A v \in Workers : Atiende(v)' => Atiende(v)
      PROVE  \A q : \A v \in Workers : Dueno(v, q)' => Dueno(v, q)
  BY <1>3 DEF Dueno
<1>4. CASE VuelveAReady(w)
  <2> DEFINE q == query[w]
  <2>1. q \in Queries /\ Dueno(w, q) /\ query' = query
    BY <1>0, <1>4 DEF VuelveAReady, PunterosValidos, Dueno, Atiende
  <2>2. ~Atiende(w)' /\ \A v \in Workers : Atiende(v)' => Atiende(v)
    BY <1>0, <1>4 DEF VuelveAReady, Atiende, TypeOK
  <2>3. \A p \in Queries : \A v \in Workers : Dueno(v, p)' => Dueno(v, p)
    BY <1>3, <2>1, <2>2
  <2>4. \A v \in Workers : ~Dueno(v, q)'
    <3> SUFFICES ASSUME NEW v \in Workers, query'[v] = query'[w], Atiende(v)' PROVE FALSE
      BY <2>1 DEF Dueno
    <3>1. Dueno(v, q) /\ v # w
      BY <2>1, <2>2 DEF Dueno
    <3> QED BY <2>1, <3>1 DEF Duenos
  <2>5. \A p \in Queries : estado'[p] = IF p = q /\ estado[q] # "NUEVA" THEN "READY" ELSE estado[p]
    BY <1>0, <1>4, <2>1, actualizarEstadoQueryEfecto DEF VuelveAReady
  <2>6. plan.pc \in {"exec", "asigna"} => plan.q \in Queries /\ plan.q # q
    BY <1>0, <2>1 DEF PlanValido, Duenos
  <2>7. plan.pc \in {"exec", "asigna"} => \A v \in Workers : ~Dueno(v, plan.q)'
    <3> SUFFICES ASSUME plan.pc \in {"exec", "asigna"}, NEW v \in Workers,
                        query'[v] = plan'.q, Atiende(v)'
                 PROVE  FALSE
      BY DEF Dueno
    <3>1. Dueno(v, plan.q)
      BY <1>p, <2>1, <2>2 DEF Dueno
    <3> QED BY <3>1 DEF Duenos
  <2>8. \A p \in Queries : \A u, v \in Workers : Dueno(u, p)' /\ Dueno(v, p)' => u = v
    BY <2>3 DEF Duenos
  <2>9. \A p \in Queries : estado'[p] \in {"READY", "NUEVA"} => \A v \in Workers : ~Dueno(v, p)'
    <3> SUFFICES ASSUME NEW p \in Queries, estado'[p] \in {"READY", "NUEVA"}, NEW v \in Workers,
                        Dueno(v, p)'
                 PROVE  FALSE
      OBVIOUS
    <3>1. CASE p = q
      BY <3>1, <2>1, <2>4 DEF Dueno
    <3>2. CASE p # q
      BY <3>2, <2>3, <2>5 DEF Duenos
    <3> QED BY <3>1, <3>2
  <2>10. plan.pc \in {"exec", "asigna"} => estado'[plan.q] = estado[plan.q]
    BY <2>5, <2>6
  <2> QED BY <1>p, <2>7, <2>8, <2>9, <2>10 DEF Duenos
<1>5. CASE PasaAExit(w) \/ TerminaPorCaida(w)
  <2>1. query[w] \in Queries /\ query' = query
    BY <1>0, <1>5 DEF PasaAExit, TerminaPorCaida, PunterosValidos
  <2>2. \A v \in Workers : Atiende(v)' => Atiende(v)
    BY <1>0, <1>5 DEF PasaAExit, TerminaPorCaida, Atiende, TypeOK
  <2>3. \A p \in Queries : estado'[p] \in {"READY", "NUEVA"} => estado'[p] = estado[p]
    BY <1>0, <1>5, <2>1, actualizarEstadoQueryEfecto DEF PasaAExit, TerminaPorCaida
  <2> QED BY <1>3, <1>p, <2>1, <2>2, <2>3, SinNuevoDueno
<1>6. CASE RecibeRead(w) \/ RecibeResultado(w) \/ QuitaWorker(w) \/ DesconectaWorker(w)
            \/ ProcesoWorker(w)
  <2>1. query' = query /\ estado' = estado
    BY <1>6 DEF RecibeRead, RecibeResultado, QuitaWorker, DesconectaWorker, ProcesoWorker, varsQuery
  <2>2. \A v \in Workers : Atiende(v)' => Atiende(v)
    BY <1>0, <1>6 DEF RecibeRead, RecibeResultado, QuitaWorker, DesconectaWorker, ProcesoWorker,
       Atiende, TypeOK
  <2> QED BY <1>3, <1>p, <2>1, <2>2, SinNuevoDueno
<1> QED BY <1>1, <1>2, <1>4, <1>5, <1>6 DEF HiloWorker

\* A step of the scheduler.
LEMMA PlanificadorDuenos ==
    ASSUME IInv, Duenos, Planificador
    PROVE  Duenos'
<1>0. TypeOK /\ ListasConsistentes /\ PunterosValidos /\ PlanValido(plan) /\ plan \in PlanTipo
  BY DEF IInv, PunterosValidos, PlanValido
<1>h. hiloWorker' = hiloWorker
  BY DEF Planificador, PlanDespierta, PlanBuscaWorker, PlanElige, PlanPasaAExec, PlanOcupaWorker,
     PlanEnviaAsignacion, PlanMide, PlanEligeVictima, PlanLeeReady, PlanCompara, PlanBuscaVictima,
     PlanDesaloja, varsWorker
<1>1. CASE PlanElige
  <2>1. UNCHANGED <<estado, query>>
    BY <1>1 DEF PlanElige, varsQuery, varsWorker
  <2>2. CASE \E q \in obtener_siguiente_query : plan' = [plan EXCEPT !.pc = "exec", !.q = q]
    <3>1. PICK q \in EnReady : plan' = [plan EXCEPT !.pc = "exec", !.q = q]
      BY <2>2, SiguienteQuery
    <3>2. plan'.pc = "exec" /\ plan'.q = q /\ q \in Queries /\ estado[q] = "READY"
      BY <1>0, <3>1 DEF PlanTipo, EnReady
    <3>3. \A w \in Workers : ~Dueno(w, q)
      BY <3>2 DEF Duenos
    <3>4. \A w \in Workers : ~Dueno(w, plan.q)'
      BY <1>h, <2>1, <3>2, <3>3 DEF Dueno, Atiende
    <3>5. \A p : \A w \in Workers : Dueno(w, p)' <=> Dueno(w, p)
      BY <1>h, <2>1 DEF Dueno, Atiende
    <3> QED BY <2>1, <3>2, <3>4, <3>5 DEF Duenos
  <2>3. CASE plan' = EnEspera
    <3>1. plan'.pc = "espera" /\ \A p : \A w \in Workers : Dueno(w, p)' <=> Dueno(w, p)
      BY <1>h, <2>1, <2>3 DEF Dueno, Atiende, EnEspera
    <3> QED BY <2>1, <3>1, SinNuevoDueno
  <2> QED BY <1>1, <2>2, <2>3 DEF PlanElige
<1>2. CASE PlanPasaAExec
  <2>1. /\ plan.pc = "exec" /\ plan.q \in Queries /\ plan'.pc = "asigna" /\ plan'.q = plan.q
        /\ query' = query
    BY <1>0, <1>2 DEF PlanPasaAExec, PlanValido, PlanTipo, varsWorker
  <2>2. /\ \A p \in Queries :
              estado'[p] = IF p = plan.q /\ estado[plan.q] # "NUEVA" THEN "EXEC" ELSE estado[p]
        /\ estado[plan.q] # "NUEVA"
    BY <1>0, <1>2, <2>1, actualizarEstadoQueryEfecto DEF PlanPasaAExec, Duenos
  <2>3. estado'[plan'.q] = "EXEC" /\ \A p \in Queries : estado'[p] \in {estado[p], "EXEC"}
    BY <2>1, <2>2
  <2>4. \A p : \A w \in Workers : Dueno(w, p)' <=> Dueno(w, p)
    BY <1>h, <2>1 DEF Dueno, Atiende
  <2>5. \A w \in Workers : ~Dueno(w, plan.q)'
    BY <1>h, <2>1 DEF Dueno, Atiende, Duenos
  <2> QED BY <2>1, <2>3, <2>4, <2>5 DEF Duenos
<1>3. CASE PlanOcupaWorker
  <2>1. /\ plan.pc = "asigna" /\ plan.q \in Queries /\ plan.w \in Workers /\ plan'.pc = "envia"
        /\ estado' = estado
    BY <1>0, <1>3 DEF PlanOcupaWorker, PlanValido, PlanTipo, varsQuery
  <2>2. estado[plan.q] \notin {"NUEVA", "READY"} /\ \A w \in Workers : ~Dueno(w, plan.q)
    BY <2>1 DEF Duenos
  <2>3. /\ query'[plan.w] = plan.q /\ \A w \in Workers \ {plan.w} : query'[w] = query[w]
    BY <1>0, <1>3, <2>1 DEF PlanOcupaWorker, TypeOK
  <2>4. \A p \in Queries, w \in Workers : Dueno(w, p)' => Dueno(w, p) \/ (w = plan.w /\ p = plan.q)
    BY <1>h, <2>3 DEF Dueno, Atiende
  <2>5. \A p \in Queries : \A u, v \in Workers : Dueno(u, p)' /\ Dueno(v, p)' => u = v
    BY <2>2, <2>4 DEF Duenos
  <2>6. \A p \in Queries : estado'[p] \in {"READY", "NUEVA"} => \A w \in Workers : ~Dueno(w, p)'
    BY <2>1, <2>2, <2>4 DEF Duenos
  <2> QED BY <2>1, <2>5, <2>6 DEF Duenos
<1>4. CASE UNCHANGED <<estado, query>> /\ plan'.pc \notin {"exec", "asigna"}
  <2>1. \A p : \A w \in Workers : Dueno(w, p)' <=> Dueno(w, p)
    BY <1>h, <1>4 DEF Dueno, Atiende
  <2> QED BY <1>4, <2>1, SinNuevoDueno
<1>d. "pc" \in DOMAIN plan /\ EnEspera.pc = "espera"
  BY <1>0 DEF PlanTipo, EnEspera
<1>5. CASE PlanEnviaAsignacion \/ PlanDesaloja
  BY <1>4, <1>5 DEF PlanEnviaAsignacion, PlanDesaloja, EnEspera, varsQuery
<1>6. CASE PlanDespierta
  <2>1. plan'.pc \notin {"exec", "asigna"}
    BY <1>d, <1>6 DEF PlanDespierta
  <2> QED BY <1>4, <1>6, <2>1 DEF PlanDespierta, varsQuery, varsWorker
<1>7. CASE PlanBuscaWorker
  <2>1. plan'.pc \notin {"exec", "asigna"}
    BY <1>d, <1>7 DEF PlanBuscaWorker
  <2> QED BY <1>4, <1>7, <2>1 DEF PlanBuscaWorker, varsQuery, varsWorker
<1>8. CASE PlanMide
  <2>1. plan'.pc \notin {"exec", "asigna"}
    BY <1>d, <1>8 DEF PlanMide
  <2> QED BY <1>4, <1>8, <2>1 DEF PlanMide, varsQuery, varsWorker
<1>9. CASE PlanEligeVictima
  <2>1. plan'.pc \notin {"exec", "asigna"}
    BY <1>d, <1>9 DEF PlanEligeVictima
  <2> QED BY <1>4, <1>9, <2>1 DEF PlanEligeVictima, varsQuery, varsWorker
<1>10. CASE PlanLeeReady
  <2>1. plan'.pc \notin {"exec", "asigna"}
    BY <1>d, <1>10 DEF PlanLeeReady
  <2> QED BY <1>4, <1>10, <2>1 DEF PlanLeeReady, varsQuery, varsWorker
<1>11. CASE PlanCompara
  <2>1. plan'.pc \notin {"exec", "asigna"}
    BY <1>d, <1>11 DEF PlanCompara
  <2> QED BY <1>4, <1>11, <2>1 DEF PlanCompara, varsQuery, varsWorker
<1>12. CASE PlanBuscaVictima
  <2>1. plan'.pc \notin {"exec", "asigna"}
    BY <1>d, <1>12 DEF PlanBuscaVictima
  <2> QED BY <1>4, <1>12, <2>1 DEF PlanBuscaVictima, varsQuery, varsWorker
<1> QED BY <1>1, <1>2, <1>3, <1>5, <1>6, <1>7, <1>8, <1>9, <1>10, <1>11, <1>12
    DEF Planificador

\* Every step keeps the owners.
LEMMA NextDuenos == IInv /\ Duenos /\ [Next]_vars => Duenos'
<1> SUFFICES ASSUME IInv, Duenos, [Next]_vars PROVE Duenos'
  OBVIOUS
<1>1. CASE Planificador
  BY <1>1, PlanificadorDuenos
<1>2. CASE \E q \in Queries : ConectaQC(q) \/ HiloQC(q) \/ Envejece(q)
  BY <1>2, QueryControlDuenos
<1>3. CASE \E w \in Workers : ConectaWorker(w) \/ HiloWorker(w) \/ DesconectaWorker(w)
                               \/ ProcesoWorker(w)
  BY <1>3, WorkerDuenos
<1>4. CASE UNCHANGED vars
  <2>1. UNCHANGED <<estado, query, hiloWorker, plan>>
    BY <1>4 DEF vars, varsQuery, varsWorker
  <2> QED BY <2>1, SinNuevoDueno DEF Dueno, Atiende
<1> QED BY <1>1, <1>2, <1>3, <1>4 DEF Next, EnReposo

-----------------------------------------------------------------------------
(***************************************************************************)
(* The pointers of the Master against the Workers.  It keeps sending on a  *)
(* descriptor some time after it chose the Worker; were the descriptor     *)
(* closed and given to another Worker meanwhile, that one would be asked   *)
(* to run a query the Master does not know it has.  So the theorems are    *)
(* about the executions in which no Worker inherits the descriptor of      *)
(* another; descriptors may still pass between Workers and Query Controls. *)
(***************************************************************************)

DescriptoresPropios ==
    \A v, w \in Workers :
        hiloWorker[v] # "nuevo" /\ hiloWorker[w] # "nuevo" /\ fd[v] = fd[w] => v = w

WorkerCoherente(w) ==
    /\ Protocolo(worker[w], query[w]) /\ Cortes(worker[w], query[w])
    /\ Cargado(worker[w]) => query[w] \in Queries /\ hiloWorker[w] = "escucha"
    /\ hiloWorker[w] \notin Conectado => worker[w] = WorkerInicial
    /\ hiloWorker[w] \in {"aReady", "aExit", "libera"} => query[w] \in Queries
    /\ hiloWorker[w] = "nuevo" => ~Contains(listaWorkers, w)

\* The Worker the scheduler holds is still idle, and the victim it holds still that Worker's.
PlanCoherente ==
    /\ plan.pc \in {"elige", "exec", "asigna", "envia", "desaloja"} => hiloWorker[plan.w] # "nuevo"
    /\ plan.pc \in {"elige", "exec", "asigna"} /\ hiloWorker[plan.w] \in Conectado =>
          query[plan.w] = NULL
    /\ plan.pc = "envia" =>
          /\ query[plan.w] = plan.q /\ ~Cargado(worker[plan.w])
          /\ hiloWorker[plan.w] \in Conectado => hiloWorker[plan.w] = "escucha"
    /\ plan.pc = "desaloja" /\ Ocupado(worker[plan.w]) => plan.v = query[plan.w]

Coherente == PlanCoherente /\ \A w \in Workers : WorkerCoherente(w)

\* A Worker that has just connected is idle.
LEMMA InicialSinCarga == WorkerInicial \in WorkerTipo /\ ~Cargado(WorkerInicial)
BY ContratoSupuesto, EmptySeq
   DEF WorkerInicial, WorkerTipo, ProgramCounter, Cargado, Ocupado, Asignaciones

\* They agree at the start.
LEMMA InitCoherente == Init => Coherente
<1> SUFFICES ASSUME Init PROVE Coherente
  OBVIOUS
<1>1. PlanCoherente
  BY DEF Init, EnEspera, PlanCoherente
<1>2. ASSUME NEW w \in Workers PROVE WorkerCoherente(w)
  <2>1. worker[w] = WorkerInicial /\ hiloWorker[w] = "nuevo" /\ ~Contains(listaWorkers, w)
    BY DEF Init, Contains
  <2> QED BY <2>1, InicialSinCarga, SinCarga DEF WorkerCoherente, Conectado
<1> QED BY <1>1, <1>2 DEF Coherente

\* What the Master sends to a Worker reaches that Worker or nobody's queue.
LEMMA LlegaSoloA ==
    ASSUME TypeOK, DescriptoresPropios, NEW w \in Workers, hiloWorker[w] # "nuevo",
           NEW m, EnviaAWorker(w, m), NEW c \in Workers
    PROVE  \/ worker'[c] = worker[c]
           \/ /\ c = w /\ hiloWorker[c] \in Conectado
              /\ worker'[c] = [worker[c] EXCEPT !.entrada = Append(@, m)]
<1>1. worker'[c] = IF c \in Destinatarios(w) /\ hiloWorker[c] \in Conectado
                   THEN [worker[c] EXCEPT !.entrada = Append(@, m)] ELSE worker[c]
  BY DEF EnviaAWorker
<1>2. c \in Destinatarios(w) /\ hiloWorker[c] \in Conectado => c = w
  BY DEF Destinatarios, Conectado, DescriptoresPropios
<1> QED BY <1>1, <1>2

\* A cut sent to a Worker leaves them all in agreement.
LEMMA CorteCoherente ==
    ASSUME IInv, Coherente, DescriptoresPropios, NEW w \in Workers, hiloWorker[w] # "nuevo",
           NEW m \in Pedidos, m.op # "ASIGNAR", Ocupado(worker[w]) => m.query = query[w],
           EnviaAWorker(w, m), UNCHANGED <<query, hiloWorker, listaWorkers>>,
           NEW c \in Workers
    PROVE  /\ WorkerCoherente(c)'
           /\ Cargado(worker'[c]) <=> Cargado(worker[c])
           /\ Ocupado(worker'[c]) <=> Ocupado(worker[c])
<1>1. TypeOK /\ worker[c] \in WorkerTipo /\ WorkerCoherente(c)
  BY DEF IInv, TypeOK, Coherente
<1>2. CASE worker'[c] = worker[c]
  BY <1>1, <1>2 DEF WorkerCoherente
<1>3. CASE /\ c = w /\ hiloWorker[c] \in Conectado
           /\ worker'[c] = [worker[c] EXCEPT !.entrada = Append(@, m)]
  <2> DEFINE r == worker[c]
             s == worker'[c]
             x == query[c]
  <2>1. s \in WorkerTipo
    BY <1>1, EnviaAWorkerTipo DEF TypeOK
  <2>2. Protocolo(r, x) /\ Cortes(r, x) /\ (Ocupado(r) => m.query = x)
    BY <1>1, <1>3 DEF WorkerCoherente
  <2>3. /\ Protocolo(s, x) /\ (Ocupado(s) <=> Ocupado(r)) /\ (Cargado(s) <=> Cargado(r))
        /\ Cortes(s, x)
    BY <1>1, <1>3, <2>1, <2>2, LlegaCorte
  <2> QED BY <1>1, <1>3, <2>3 DEF WorkerCoherente
<1> QED BY <1>1, <1>2, <1>3, LlegaSoloA

\* What the threads that are not the scheduler do to a Worker and its pointer: none loads
\* a Worker, and only the thread of a Worker that has answered clears its pointer.
Discreto(w) ==
    /\ hiloWorker[w] # "nuevo" =>
          hiloWorker'[w] # "nuevo" /\ (hiloWorker'[w] \in Conectado => hiloWorker[w] \in Conectado)
    /\ hiloWorker[w] = "escucha" /\ ~Cargado(worker[w]) /\ hiloWorker'[w] \in Conectado =>
          hiloWorker'[w] = "escucha"
    /\ \/ query'[w] = query[w] \/ hiloWorker[w] = "nuevo"
       \/ hiloWorker[w] = "libera" /\ query'[w] = NULL /\ ~Ocupado(worker'[w])
    /\ Cargado(worker'[w]) => Cargado(worker[w])
    /\ Ocupado(worker'[w]) => Ocupado(worker[w])

\* That keeps what the scheduler holds.
LEMMA PlanCoherenteQuieto ==
    ASSUME IInv, PlanCoherente, plan' = plan, \A w \in Workers : Discreto(w)
    PROVE  PlanCoherente'
<1>1. CASE plan.pc \in {"elige", "exec", "asigna", "envia", "desaloja"}
  <2> DEFINE w == plan.w
  <2>1. w \in Workers /\ Discreto(w) /\ hiloWorker[w] # "nuevo"
    BY <1>1 DEF IInv, PunterosValidos, PlanValido, PlanCoherente
  <2>2. hiloWorker'[w] # "nuevo" /\ (hiloWorker'[w] \in Conectado => hiloWorker[w] \in Conectado)
    BY <2>1 DEF Discreto
  <2>3. plan.pc \in {"elige", "exec", "asigna"} /\ hiloWorker'[w] \in Conectado => query'[w] = NULL
    BY <2>1, <2>2 DEF Discreto, PlanCoherente
  <2>4. plan.pc = "envia" =>
          /\ query'[w] = plan.q /\ ~Cargado(worker'[w])
          /\ hiloWorker'[w] \in Conectado => hiloWorker'[w] = "escucha"
    BY <2>1, <2>2 DEF Discreto, PlanCoherente, Conectado
  <2>5. plan.pc = "desaloja" /\ Ocupado(worker'[w]) => plan.v = query'[w]
    BY <2>1 DEF Discreto, PlanCoherente
  <2> QED BY <2>2, <2>3, <2>4, <2>5 DEF PlanCoherente
<1>2. CASE plan.pc \notin {"elige", "exec", "asigna", "envia", "desaloja"}
  BY <1>2 DEF PlanCoherente
<1> QED BY <1>1, <1>2

\* A Worker nobody touches.
LEMMA WorkerQuieto ==
    ASSUME Coherente, NEW w \in Workers,
           worker'[w] = worker[w], query'[w] = query[w], hiloWorker'[w] = hiloWorker[w],
           Contains(listaWorkers', w) => Contains(listaWorkers, w)
    PROVE  WorkerCoherente(w)' /\ Discreto(w)
<1>1. WorkerCoherente(w)
  BY DEF Coherente
<1>2. WorkerCoherente(w)'
  BY <1>1 DEF WorkerCoherente
<1>3. Discreto(w)
  BY DEF Discreto
<1> QED BY <1>2, <1>3

\* WorkerDe finds a Worker that is, or was, connected and whose pointer is the query.
LEMMA WorkerDeConectado ==
    ASSUME Coherente, NEW q, NEW w \in WorkerDe(q)
    PROVE  w \in Workers /\ query[w] = q /\ hiloWorker[w] # "nuevo"
<1>1. w \in Workers /\ query[w] = q /\ Contains(listaWorkers, w)
  BY DEF WorkerDe, PrimeroDe, Contains
<1> QED BY <1>1 DEF Coherente, WorkerCoherente

\* A step of the thread of a Query Control, of its aging thread or of accept.
LEMMA QueryControlCoherente ==
    ASSUME IInv, Coherente, DescriptoresPropios,
           NEW q \in Queries, ConectaQC(q) \/ HiloQC(q) \/ Envejece(q)
    PROVE  Coherente'
<1>0. UNCHANGED <<query, hiloWorker, listaWorkers, plan>>
  BY DEF ConectaQC, HiloQC, DesconectaQC, RetiraDeReady, MiraSiEnExec, MarcaDesconexion,
     CancelaEnWorker, CierraQC, Envejece, varsWorker
<1>1. CASE worker' = worker
  <2>1. \A w \in Workers : WorkerCoherente(w)' /\ Discreto(w)
    BY <1>0, <1>1, WorkerQuieto
  <2> QED BY <1>0, <2>1, PlanCoherenteQuieto DEF Coherente
<1>2. CASE \E w \in WorkerDe(q) : EnviaAWorker(w, Paquete("FIN", q, 0))
  <2>1. PICK w \in WorkerDe(q) : EnviaAWorker(w, Paquete("FIN", q, 0))
    BY <1>2
  <2>2. w \in Workers /\ query[w] = q /\ hiloWorker[w] # "nuevo"
    BY WorkerDeConectado
  <2>3. /\ Paquete("FIN", q, 0) \in Pedidos
        /\ Paquete("FIN", q, 0).op = "FIN" /\ Paquete("FIN", q, 0).query = q
    <3>1. 0 \in ProgramCounter
      BY ContratoSupuesto DEF ProgramCounter
    <3>2. Paquete("FIN", q, 0) \in Pedidos
      BY <3>1, PaquetesTipo
    <3> QED BY <3>2 DEF Paquete
  <2> DEFINE m == Paquete("FIN", q, 0)
  <2>4. m \in Pedidos /\ m.op # "ASIGNAR" /\ m.query = query[w] /\ EnviaAWorker(w, m)
    BY <2>1, <2>2, <2>3
  <2> HIDE DEF m
  <2>5. \A c \in Workers : /\ WorkerCoherente(c)'
                           /\ Cargado(worker'[c]) <=> Cargado(worker[c])
                           /\ Ocupado(worker'[c]) <=> Ocupado(worker[c])
    BY <1>0, <2>2, <2>4, CorteCoherente
  <2>6. \A c \in Workers : Discreto(c)
    BY <1>0, <2>5 DEF Discreto
  <2> QED BY <1>0, <2>5, <2>6, PlanCoherenteQuieto DEF Coherente
<1>3. worker' = worker \/ \E w \in WorkerDe(q) : EnviaAWorker(w, Paquete("FIN", q, 0))
  BY DEF ConectaQC, HiloQC, DesconectaQC, RetiraDeReady, MiraSiEnExec, MarcaDesconexion,
     CancelaEnWorker, CierraQC, Envejece, varsWorker
<1> QED BY <1>1, <1>2, <1>3

\* A step of the thread of a Worker, of the Worker itself or of accept touches that Worker only.
LEMMA WorkerSoloElSuyo ==
    ASSUME IInv, NEW w \in Workers,
           ConectaWorker(w) \/ HiloWorker(w) \/ DesconectaWorker(w) \/ ProcesoWorker(w)
    PROVE  /\ plan' = plan
           /\ \A v \in Workers \ {w} :
                 /\ worker'[v] = worker[v] /\ query'[v] = query[v] /\ hiloWorker'[v] = hiloWorker[v]
                 /\ Contains(listaWorkers', v) => Contains(listaWorkers, v)
<1>0. TypeOK
  BY DEF IInv
<1>1. CASE ConectaWorker(w)
  <2>1. \A v : Contains(listaWorkers', v) => Contains(listaWorkers, v) \/ v = w
    BY <1>0, <1>1, AppendContiene DEF ConectaWorker, TypeOK
  <2>2. PICK p : query' = [query EXCEPT ![w] = p]
    BY <1>1 DEF ConectaWorker
  <2> QED BY <1>0, <1>1, <2>1, <2>2 DEF ConectaWorker, TypeOK
<1>2. CASE QuitaWorker(w)
  <2>1. \A v : Contains(listaWorkers', v) => Contains(listaWorkers, v)
    BY <1>0, <1>2, RemoveFirstContiene DEF QuitaWorker, TypeOK
  <2> QED BY <1>0, <1>2, <2>1 DEF QuitaWorker, TypeOK
<1>3. CASE RecibeRead(w)
  BY <1>0, <1>3 DEF RecibeRead, SinRecibido, TypeOK
<1>4. CASE RecibeResultado(w)
  BY <1>0, <1>4 DEF RecibeResultado, SinRecibido, TypeOK
<1>5. CASE VuelveAReady(w) \/ PasaAExit(w) \/ TerminaPorCaida(w)
  BY <1>0, <1>5 DEF VuelveAReady, PasaAExit, TerminaPorCaida, TypeOK
<1>6. CASE LiberaWorker(w)
  BY <1>0, <1>6 DEF LiberaWorker, SinQuery, TypeOK
<1>7. CASE DesconectaWorker(w)
  BY <1>0, <1>7 DEF DesconectaWorker, TypeOK
<1>8. CASE ProcesoWorker(w)
  BY <1>0, <1>8 DEF ProcesoWorker, TypeOK
<1> QED BY <1>1, <1>2, <1>3, <1>4, <1>5, <1>6, <1>7, <1>8 DEF HiloWorker

\* And leaves it in agreement with its pointer.
LEMMA WorkerCoherenteSigue ==
    ASSUME IInv, Coherente, NEW w \in Workers,
           ConectaWorker(w) \/ HiloWorker(w) \/ DesconectaWorker(w) \/ ProcesoWorker(w)
    PROVE  WorkerCoherente(w)' /\ Discreto(w)
<1> DEFINE r == worker[w]
           s == worker'[w]
           x == query[w]
<1>0. TypeOK /\ r \in WorkerTipo /\ WorkerCoherente(w) /\ PunterosValidos
  BY DEF IInv, TypeOK, Coherente
<1>t. s \in WorkerTipo
  BY WorkerIInv DEF IInv, TypeOK
<1>c. /\ Protocolo(r, x) /\ Cortes(r, x)
      /\ Cargado(r) => x \in Queries /\ hiloWorker[w] = "escucha"
      /\ hiloWorker[w] \notin Conectado => r = WorkerInicial
      /\ hiloWorker[w] \in {"aReady", "aExit", "libera"} => x \in Queries
      /\ hiloWorker[w] = "nuevo" => ~Contains(listaWorkers, w)
  BY <1>0 DEF WorkerCoherente
<1>i. ~Cargado(WorkerInicial) /\ ~Ocupado(WorkerInicial)
  BY InicialSinCarga DEF Cargado
<1>1. CASE ConectaWorker(w)
  <2>1. hiloWorker[w] = "nuevo" /\ hiloWorker'[w] = "escucha" /\ s = r /\ s = WorkerInicial
    BY <1>0, <1>1, <1>c DEF ConectaWorker, SiguienteDe, Conectado, TypeOK
  <2>2. Protocolo(s, query'[w]) /\ Cortes(s, query'[w])
    BY <1>t, <1>i, <2>1, SinCarga
  <2> HIDE DEF r, s
  <2> QED BY <2>1, <2>2, <1>i DEF WorkerCoherente, Discreto, Conectado, r, s
<1>2. CASE RecibeRead(w)
  <2>1. /\ hiloWorker[w] = "escucha" /\ hiloWorker'[w] = "escucha" /\ query'[w] = x
        /\ r.salida # << >> /\ s = [r EXCEPT !.salida = Tail(@)]
    BY <1>0, <1>2 DEF RecibeRead, SinRecibido, TypeOK
  <2>2. Protocolo(s, x) /\ Cortes(s, x) /\ (Ocupado(s) <=> Ocupado(r)) /\ Cargado(r)
    BY <1>0, <1>t, <1>c, <2>1, SaleRespuesta DEF Cargado
  <2> HIDE DEF r, s
  <2> QED BY <2>1, <2>2, <1>c DEF WorkerCoherente, Discreto, Conectado, r, s
<1>3. CASE RecibeResultado(w)
  <2>1. /\ hiloWorker[w] = "escucha" /\ query'[w] = x
        /\ r.salida # << >> /\ s = [r EXCEPT !.salida = Tail(@)] /\ Head(r.salida).op \in Resultados
    BY <1>0, <1>3 DEF RecibeResultado, SinRecibido, Recibido, TypeOK
  <2>2. /\ Protocolo(s, x) /\ Cortes(s, x) /\ (Ocupado(s) <=> Ocupado(r)) /\ Cargado(r)
        /\ ~Cargado(s)
    BY <1>0, <1>t, <1>c, <2>1, SaleRespuesta DEF Cargado
  <2>3. x \in Queries /\ hiloWorker'[w] \in {"aReady", "aExit"}
    BY <1>0, <1>3, <1>c, <2>2 DEF RecibeResultado, Destino, TypeOK
  <2> HIDE DEF r, s
  <2> QED BY <2>1, <2>2, <2>3, <1>c DEF WorkerCoherente, Discreto, Conectado, r, s
<1>4. CASE VuelveAReady(w) \/ PasaAExit(w)
  <2>1. /\ hiloWorker[w] \in {"aReady", "aExit"} /\ hiloWorker'[w] = "libera" /\ query'[w] = x
        /\ s = r
    BY <1>0, <1>4 DEF VuelveAReady, PasaAExit, TypeOK
  <2> HIDE DEF r, s
  <2> QED BY <2>1, <1>c DEF WorkerCoherente, Discreto, Conectado, r, s
<1>5. CASE LiberaWorker(w)
  <2>1. /\ hiloWorker[w] = "libera" /\ hiloWorker'[w] = "escucha" /\ query'[w] = NULL /\ s = r
    BY <1>0, <1>5 DEF LiberaWorker, SinQuery, TypeOK
  <2>2. ~Cargado(s) /\ ~Ocupado(s)
    BY <1>c, <2>1 DEF Cargado
  <2>3. Protocolo(s, NULL) /\ Cortes(s, NULL)
    BY <1>t, <2>2, SinCarga
  <2> HIDE DEF r, s
  <2> QED BY <2>1, <2>2, <2>3 DEF WorkerCoherente, Discreto, Conectado, r, s
<1>6. CASE DesconectaWorker(w)
  <2>1. /\ hiloWorker[w] = "escucha" /\ hiloWorker'[w] \in {"termina", "quita"} /\ query'[w] = x
        /\ s = WorkerInicial
    BY <1>0, <1>6 DEF DesconectaWorker, TypeOK
  <2>2. Protocolo(s, x) /\ Cortes(s, x)
    BY <1>t, <1>i, <2>1, SinCarga
  <2> HIDE DEF r, s
  <2> QED BY <2>1, <2>2, <1>i DEF WorkerCoherente, Discreto, Conectado, r, s
<1>7. CASE TerminaPorCaida(w) \/ QuitaWorker(w)
  <2>1. /\ hiloWorker[w] \in {"termina", "quita"} /\ hiloWorker'[w] \in {"quita", "fin"}
        /\ query'[w] = x /\ s = r
    BY <1>0, <1>7 DEF TerminaPorCaida, QuitaWorker, TypeOK
  <2>2. s = WorkerInicial
    BY <1>c, <2>1 DEF Conectado
  <2> HIDE DEF r, s
  <2> QED BY <2>1, <2>2, <1>c, <1>i DEF WorkerCoherente, Discreto, Conectado, r, s
<1>8. CASE ProcesoWorker(w)
  <2>1. /\ hiloWorker[w] \in Conectado /\ hiloWorker'[w] = hiloWorker[w] /\ query'[w] = x
        /\ s \in PasosWorker(r)
    BY <1>0, <1>8 DEF ProcesoWorker, TypeOK
  <2>2. /\ Protocolo(s, x) /\ Cortes(s, x) /\ (Cargado(s) => Cargado(r))
        /\ (Ocupado(s) => Ocupado(r))
    BY <1>0, <1>c, <2>1, PasoDeWorker
  <2> HIDE DEF r, s
  <2> QED BY <2>1, <2>2, <1>c DEF WorkerCoherente, Discreto, Conectado, r, s
<1> QED BY <1>1, <1>2, <1>3, <1>4, <1>5, <1>6, <1>7, <1>8 DEF HiloWorker

\* A step of the scheduler.
LEMMA PlanificadorCoherente ==
    ASSUME IInv, Coherente, DescriptoresPropios, Planificador
    PROVE  Coherente'
<1>0. TypeOK /\ PlanValido(plan) /\ plan \in PlanTipo /\ hiloWorker' = hiloWorker
      /\ listaWorkers' = listaWorkers
  BY DEF IInv, PunterosValidos, PlanValido, Planificador, PlanDespierta, PlanBuscaWorker, PlanElige,
     PlanPasaAExec, PlanOcupaWorker, PlanEnviaAsignacion, PlanMide, PlanEligeVictima, PlanLeeReady,
     PlanCompara, PlanBuscaVictima, PlanDesaloja, varsWorker
<1>d. "pc" \in DOMAIN plan /\ EnEspera.pc = "espera"
  BY <1>0 DEF PlanTipo, EnEspera
<1>w. \A w \in Workers : worker[w] \in WorkerTipo /\ WorkerCoherente(w)
  BY <1>0 DEF TypeOK, Coherente
\* A step that only moves the scheduler.
<1>q. ASSUME varsWorker' = varsWorker, PlanCoherente' PROVE Coherente'
  <2>1. \A w \in Workers : WorkerCoherente(w)'
    BY <1>q, WorkerQuieto DEF varsWorker
  <2> QED BY <1>q, <2>1 DEF Coherente
\* A place where it holds no Worker.
<1>l. ASSUME varsWorker' = varsWorker,
             plan'.pc \notin {"elige", "exec", "asigna", "envia", "desaloja"}
      PROVE  Coherente'
  BY <1>l, <1>q DEF PlanCoherente
<1>1. CASE PlanDespierta
  BY <1>1, <1>d, <1>l DEF PlanDespierta, PlanCoherente
<1>2. CASE PlanBuscaWorker
  <2>1. CASE \E w \in obtener_worker_libre : plan' = [plan EXCEPT !.pc = "elige", !.w = w]
    <3>1. PICK w \in Libres : plan' = [plan EXCEPT !.pc = "elige", !.w = w]
      BY <2>1, WorkerLibre
    <3>2. plan'.pc = "elige" /\ plan'.w = w
      BY <1>0, <3>1 DEF PlanTipo
    <3>3. query[w] = NULL /\ hiloWorker[w] # "nuevo"
      BY <1>w DEF Libres, WorkerCoherente
    <3>4. PlanCoherente'
      BY <1>0, <1>2, <3>2, <3>3 DEF PlanCoherente, PlanBuscaWorker, varsWorker
    <3> QED BY <1>2, <1>q, <3>4 DEF PlanBuscaWorker
  <2>2. CASE plan' = [plan EXCEPT !.pc = "mide"] \/ plan' = EnEspera
    BY <1>2, <1>d, <1>l, <2>2 DEF PlanBuscaWorker
  <2> QED BY <1>2, <2>1, <2>2 DEF PlanBuscaWorker
<1>3. CASE PlanElige
  <2>1. CASE \E q \in obtener_siguiente_query : plan' = [plan EXCEPT !.pc = "exec", !.q = q]
    <3>1. plan.pc = "elige" /\ plan'.pc = "exec" /\ plan'.w = plan.w
      BY <1>0, <1>3, <2>1 DEF PlanElige, PlanTipo
    <3>2. PlanCoherente'
      BY <1>0, <1>3, <3>1 DEF Coherente, PlanCoherente, PlanElige, varsWorker
    <3> QED BY <1>3, <1>q, <3>2 DEF PlanElige
  <2>2. CASE plan' = EnEspera
    BY <1>3, <1>d, <1>l, <2>2 DEF PlanElige
  <2> QED BY <1>3, <2>1, <2>2 DEF PlanElige
<1>4. CASE PlanPasaAExec
  <2>1. plan.pc = "exec" /\ plan'.pc = "asigna" /\ plan'.w = plan.w
    BY <1>0, <1>4 DEF PlanPasaAExec, PlanTipo
  <2>2. PlanCoherente'
    BY <1>0, <1>4, <2>1 DEF Coherente, PlanCoherente, PlanPasaAExec, varsWorker
  <2> QED BY <1>4, <1>q, <2>2 DEF PlanPasaAExec
<1>5. CASE PlanOcupaWorker
  <2>0. PICK w \in Workers : w = plan.w
    BY <1>0, <1>5 DEF PlanOcupaWorker, PlanValido
  <2> DEFINE r == worker[w]
  <2>1. /\ plan.pc = "asigna" /\ plan.q \in Queries /\ plan'.pc = "envia"
        /\ plan'.q = plan.q /\ plan'.w = plan.w /\ worker' = worker
    BY <1>0, <1>5 DEF PlanOcupaWorker, PlanValido, PlanTipo
  <2>2. query'[w] = plan.q /\ \A v \in Workers \ {w} : query'[v] = query[v]
    BY <1>0, <1>5, <2>0, <2>1 DEF PlanOcupaWorker, TypeOK
  <2>3. /\ hiloWorker[w] # "nuevo"
        /\ hiloWorker[w] \in Conectado => query[w] = NULL
    BY <2>0, <2>1 DEF Coherente, PlanCoherente
  <2>4. ~Cargado(r)
    <3>1. CASE hiloWorker[w] \in Conectado
      BY <1>w, <2>1, <2>3, <3>1, ContratoSupuesto DEF WorkerCoherente
    <3>2. CASE hiloWorker[w] \notin Conectado
      BY <1>w, <2>1, <3>2, InicialSinCarga DEF WorkerCoherente
    <3> QED BY <3>1, <3>2
  <2>5. hiloWorker[w] \in Conectado => hiloWorker[w] = "escucha"
    BY <1>w, <2>1, <2>3, ContratoSupuesto DEF WorkerCoherente, Conectado
  <2>6. Protocolo(r, plan.q) /\ Cortes(r, plan.q)
    BY <1>w, <2>1, <2>4, SinCarga
  <2>7. \A v \in Workers \ {w} : WorkerCoherente(v)'
    BY <1>0, <2>1, <2>2, WorkerQuieto
  <2>8. WorkerCoherente(w)'
    <3>1. WorkerCoherente(w)
      BY <1>w, <2>1
    <3> HIDE DEF r
    <3>2. query'[w] = plan.q /\ worker'[w] = r /\ hiloWorker'[w] = hiloWorker[w]
      BY <1>0, <2>1, <2>2 DEF r
    <3>3. /\ hiloWorker[w] \notin Conectado => r = WorkerInicial
          /\ hiloWorker[w] = "nuevo" => ~Contains(listaWorkers', w)
      BY <1>0, <3>1 DEF WorkerCoherente, r
    <3> QED BY <2>1, <2>4, <2>6, <3>2, <3>3 DEF WorkerCoherente
  <2>9. PlanCoherente'
    BY <1>0, <2>0, <2>1, <2>2, <2>3, <2>4, <2>5 DEF PlanCoherente
  <2> QED BY <2>7, <2>8, <2>9 DEF Coherente
<1>6. CASE PlanEnviaAsignacion
  <2> DEFINE w == plan.w
             q == plan.q
             m == Paquete("ASIGNAR", q, pc[q])
  <2>1. /\ plan.pc = "envia" /\ q \in Queries /\ w \in Workers /\ plan' = EnEspera
        /\ query' = query /\ EnviaAWorker(w, m)
    BY <1>0, <1>6 DEF PlanEnviaAsignacion, PlanValido
  <2>2. /\ hiloWorker[w] # "nuevo" /\ query[w] = q /\ ~Cargado(worker[w])
        /\ hiloWorker[w] \in Conectado => hiloWorker[w] = "escucha"
    BY <2>1 DEF Coherente, PlanCoherente
  <2>3. m \in Pedidos
    BY <1>0, <2>1, PaquetesTipo DEF TypeOK
  <2>4. m.op = "ASIGNAR" /\ m.query = q
    BY DEF Paquete
  <2> HIDE DEF m
  <2>5. \A c \in Workers : worker'[c] \in WorkerTipo
    BY <1>0, <2>1, <2>3, EnviaAWorkerTipo
  <2>6. ASSUME NEW c \in Workers PROVE WorkerCoherente(c)'
    <3>1. CASE worker'[c] = worker[c]
      BY <1>0, <2>1, <3>1, WorkerQuieto
    <3>2. CASE /\ c = w /\ hiloWorker[c] \in Conectado
               /\ worker'[c] = [worker[c] EXCEPT !.entrada = Append(@, m)]
      <4>1. worker[c] \in WorkerTipo /\ ~Cargado(worker[c]) /\ m.query = query[c]
        BY <1>w, <2>2, <2>4, <3>2
      <4>2. Protocolo(worker'[c], query[c]) /\ Cortes(worker'[c], query[c])
        BY <2>3, <2>4, <2>5, <3>2, <4>1, LlegaAsignacion
      <4>3. query[c] \in Queries /\ hiloWorker[c] = "escucha"
        BY <2>1, <2>2, <3>2
      <4> QED BY <1>0, <2>1, <3>2, <4>2, <4>3 DEF WorkerCoherente
    <3> QED BY <1>0, <2>1, <2>2, <3>1, <3>2, LlegaSoloA
  <2>7. PlanCoherente'
    BY <1>d, <2>1 DEF PlanCoherente
  <2> QED BY <2>6, <2>7 DEF Coherente
<1>7. CASE PlanDesaloja
  <2> DEFINE w == plan.w
             m == Paquete("DESALOJO", plan.v, 0)
  <2>1. /\ plan.pc = "desaloja" /\ plan.v \in Queries /\ w \in Workers /\ plan' = EnEspera
        /\ query' = query /\ EnviaAWorker(w, m)
    BY <1>0, <1>7 DEF PlanDesaloja, PlanValido
  <2>2. hiloWorker[w] # "nuevo" /\ (Ocupado(worker[w]) => plan.v = query[w])
    BY <2>1 DEF Coherente, PlanCoherente
  <2>3. m \in Pedidos
    <3>1. 0 \in ProgramCounter
      BY ContratoSupuesto DEF ProgramCounter
    <3> QED BY <2>1, <3>1, PaquetesTipo
  <2>4. m.op # "ASIGNAR" /\ m.query = plan.v
    BY DEF Paquete
  <2> HIDE DEF m
  <2>5. \A c \in Workers : WorkerCoherente(c)'
    BY <1>0, <2>1, <2>2, <2>3, <2>4, CorteCoherente
  <2>6. PlanCoherente'
    BY <1>d, <2>1 DEF PlanCoherente
  <2> QED BY <2>5, <2>6 DEF Coherente
<1>8. CASE PlanMide
  BY <1>8, <1>d, <1>l DEF PlanMide
<1>9. CASE PlanEligeVictima
  BY <1>9, <1>d, <1>l DEF PlanEligeVictima
<1>10. CASE PlanLeeReady
  BY <1>10, <1>d, <1>l DEF PlanLeeReady
<1>11. CASE PlanCompara
  BY <1>11, <1>d, <1>l DEF PlanCompara
<1>12. CASE PlanBuscaVictima
  <2>1. CASE \E w \in WorkerDe(plan.v) : plan' = [plan EXCEPT !.pc = "desaloja", !.w = w]
    <3>1. PICK w \in WorkerDe(plan.v) : plan' = [plan EXCEPT !.pc = "desaloja", !.w = w]
      BY <2>1
    <3>2. plan'.pc = "desaloja" /\ plan'.w = w /\ plan'.v = plan.v
      BY <1>0, <3>1 DEF PlanTipo
    <3>3. query[w] = plan.v /\ hiloWorker[w] # "nuevo"
      BY WorkerDeConectado
    <3>4. PlanCoherente'
      BY <1>0, <1>12, <3>2, <3>3 DEF PlanCoherente, PlanBuscaVictima, varsWorker
    <3> QED BY <1>12, <1>q, <3>4 DEF PlanBuscaVictima
  <2>2. CASE plan' = EnEspera
    BY <1>12, <1>d, <1>l, <2>2 DEF PlanBuscaVictima
  <2> QED BY <1>12, <2>1, <2>2 DEF PlanBuscaVictima
<1> QED BY <1>1, <1>2, <1>3, <1>4, <1>5, <1>6, <1>7, <1>8, <1>9, <1>10, <1>11, <1>12 DEF Planificador

\* Every step keeps the agreement, while descriptors are not inherited.
LEMMA NextCoherente == IInv /\ Coherente /\ DescriptoresPropios /\ [Next]_vars => Coherente'
<1> SUFFICES ASSUME IInv, Coherente, DescriptoresPropios, [Next]_vars PROVE Coherente'
  OBVIOUS
<1>1. CASE Planificador
  BY <1>1, PlanificadorCoherente
<1>2. CASE \E q \in Queries : ConectaQC(q) \/ HiloQC(q) \/ Envejece(q)
  BY <1>2, QueryControlCoherente
<1>3. CASE \E w \in Workers : ConectaWorker(w) \/ HiloWorker(w) \/ DesconectaWorker(w)
                               \/ ProcesoWorker(w)
  <2>1. PICK w \in Workers :
           ConectaWorker(w) \/ HiloWorker(w) \/ DesconectaWorker(w) \/ ProcesoWorker(w)
    BY <1>3
  <2>2. \A v \in Workers : WorkerCoherente(v)' /\ Discreto(v)
    <3>1. WorkerCoherente(w)' /\ Discreto(w)
      BY <2>1, WorkerCoherenteSigue
    <3>2. \A v \in Workers \ {w} : WorkerCoherente(v)' /\ Discreto(v)
      BY <2>1, WorkerSoloElSuyo, WorkerQuieto
    <3> QED BY <3>1, <3>2
  <2> QED BY <2>1, <2>2, WorkerSoloElSuyo, PlanCoherenteQuieto DEF Coherente
<1>4. CASE UNCHANGED vars
  <2>1. UNCHANGED <<worker, query, hiloWorker, listaWorkers, plan>>
    BY <1>4 DEF vars, varsWorker
  <2> QED BY <2>1 DEF Coherente, PlanCoherente, WorkerCoherente
<1> QED BY <1>1, <1>2, <1>3, <1>4 DEF Next, EnReposo

\* With both invariants, the three properties of the runs.
LEMMA CoherenteImplica ==
    ASSUME IInv, Duenos, Coherente
    PROVE  AsignacionUnica /\ ResultadoDeSuQuery /\ CorteSoloASuQuery
<1>0. ASSUME NEW w \in Workers
      PROVE  /\ worker[w] \in WorkerTipo
             /\ Protocolo(worker[w], query[w]) /\ Cortes(worker[w], query[w])
             /\ worker[w].query # NULL =>
                   worker[w].query = query[w] /\ query[w] \in Queries /\ hiloWorker[w] = "escucha"
  BY DEF IInv, TypeOK, Coherente, WorkerCoherente, Protocolo, Cargado, Ocupado
<1>1. AsignacionUnica
  <2> SUFFICES ASSUME NEW v \in Workers, NEW w \in Workers,
                      worker[v].query # NULL, worker[v].query = worker[w].query
               PROVE  v = w
    BY DEF AsignacionUnica
  <2>1. query[v] \in Queries /\ Dueno(v, query[v]) /\ Dueno(w, query[v])
    BY <1>0 DEF Dueno, Atiende
  <2> QED BY <2>1 DEF Duenos
<1>2. ResultadoDeSuQuery
  <2> SUFFICES ASSUME NEW w \in Workers
               PROVE  /\ worker[w].query \in {NULL, query[w]}
                      /\ \A m \in ToSet(worker[w].salida) : m.query = query[w]
                      /\ \A m \in ToSet(worker[w].entrada) : m.op = "ASIGNAR" =>
                            m.query = query[w] /\ worker[w].query = NULL
    BY DEF ResultadoDeSuQuery
  <2>1. Protocolo(worker[w], query[w])
    BY <1>0
  <2>2. \A m \in ToSet(worker[w].salida) : \E i \in DOMAIN worker[w].salida : m = worker[w].salida[i]
    BY DEF ToSet
  <2>3. \A m \in ToSet(worker[w].entrada) : \E i \in DOMAIN worker[w].entrada : m = worker[w].entrada[i]
    BY DEF ToSet
  <2> QED BY <2>1, <2>2, <2>3 DEF Protocolo, Asignaciones
<1>3. CorteSoloASuQuery
  <2> SUFFICES ASSUME NEW w \in Workers, worker[w].entrada # << >>,
                      Head(worker[w].entrada).op # "ASIGNAR", worker[w].query # NULL
               PROVE  Head(worker[w].entrada).query = worker[w].query
    BY DEF CorteSoloASuQuery
  <2>1. /\ worker[w].entrada \in Seq(Pedidos) /\ Cortes(worker[w], query[w])
        /\ worker[w].query = query[w]
    BY <1>0 DEF WorkerTipo
  <2>2. Head(worker[w].entrada) = worker[w].entrada[1] /\ 1 \in DOMAIN worker[w].entrada
    BY <2>1, HeadTailProperties, LenProperties, EmptySeq
  <2> QED BY <2>1, <2>2 DEF Cortes
<1> QED BY <1>1, <1>2, <1>3

\* Whoever leaves, the Master and its Workers agree as long as no Worker inherits the
\* descriptor of another: no query runs on two Workers (AsignacionUnica), every result is of
\* the query the Master takes it for (ResultadoDeSuQuery; the ids are never compared), and
\* every cut stops the query it was meant for (CorteSoloASuQuery; a cut names no query).
THEOREM SinHerencia ==
    Spec /\ []DescriptoresPropios =>
        []AsignacionUnica /\ []ResultadoDeSuQuery /\ []CorteSoloASuQuery
<1>1. IInv /\ Duenos /\ Coherente => AsignacionUnica /\ ResultadoDeSuQuery /\ CorteSoloASuQuery
  BY CoherenteImplica
<1>2. Spec => Init /\ [][Next]_vars
  BY DEF Spec
<1> QED BY <1>1, <1>2, Invariante, InitDuenos, NextDuenos, InitCoherente, NextCoherente, PTL

-----------------------------------------------------------------------------
(***************************************************************************)
(* When that hypothesis holds: Workers are numbered as they connect, and   *)
(* accept gives a descriptor nobody has open, so only a Worker that        *)
(* connects after another one closed can inherit its descriptor.           *)
(***************************************************************************)

SoloElUltimoCae == \A w \in PuedeCaer, v \in Workers : v <= w

EnOrden ==
    /\ \A v, w \in Workers : v < w /\ hiloWorker[w] # "nuevo" => hiloWorker[v] # "nuevo"
    /\ \A w \in Workers : hiloWorker[w] \in {"termina", "quita", "fin"} => w \in PuedeCaer

\* Nobody is connected at the start.
LEMMA InitEnOrden == Init => DescriptoresPropios /\ EnOrden
BY DEF Init, DescriptoresPropios, EnOrden

\* Every step keeps the descriptors apart.
LEMMA NextEnOrden ==
    ASSUME SoloElUltimoCae, IInv, DescriptoresPropios, EnOrden, [Next]_vars
    PROVE  DescriptoresPropios' /\ EnOrden'
<1>0. TypeOK /\ Workers \subseteq Nat
  BY MasterSupuesto DEF IInv
\* Nobody new.
<1>n. ASSUME \A w \in Workers : fd'[w] = fd[w],
             \A w \in Workers : hiloWorker'[w] = "nuevo" <=> hiloWorker[w] = "nuevo",
             \A w \in Workers : hiloWorker'[w] \in {"termina", "quita", "fin"} => w \in PuedeCaer
      PROVE  DescriptoresPropios' /\ EnOrden'
  BY <1>n DEF DescriptoresPropios, EnOrden
<1>1. CASE UNCHANGED <<fd, hiloWorker>>
  BY <1>1, <1>n DEF EnOrden
<1>2. CASE Planificador
  BY <1>1, <1>2 DEF Planificador, PlanDespierta, PlanBuscaWorker, PlanElige,
     PlanPasaAExec, PlanOcupaWorker, PlanEnviaAsignacion, PlanMide, PlanEligeVictima, PlanLeeReady,
     PlanCompara, PlanBuscaVictima, PlanDesaloja, varsWorker, varsQC
<1>3. ASSUME NEW q \in Queries, ConectaQC(q) \/ HiloQC(q) \/ Envejece(q)
      PROVE  DescriptoresPropios' /\ EnOrden'
  <2>1. CASE ConectaQC(q)
    <3>1. \A w \in Workers : w # q /\ w \in Conexiones
      BY MasterSupuesto DEF Conexiones
    <3>2. hiloWorker' = hiloWorker /\ \A w \in Workers : fd'[w] = fd[w]
      BY <1>0, <2>1, <3>1 DEF ConectaQC, varsWorker, TypeOK
    <3> QED BY <1>n, <3>2 DEF EnOrden
  <2>2. CASE HiloQC(q) \/ Envejece(q)
    BY <1>1, <2>2 DEF HiloQC, DesconectaQC, RetiraDeReady, MiraSiEnExec, MarcaDesconexion,
       CancelaEnWorker, CierraQC, Envejece, varsWorker, varsQC
  <2> QED BY <1>3, <2>1, <2>2
<1>4. ASSUME NEW w \in Workers, ConectaWorker(w)
      PROVE  DescriptoresPropios' /\ EnOrden'
  <2>1. /\ hiloWorker[w] = "nuevo" /\ \A v \in Workers : v < w => hiloWorker[v] # "nuevo"
        /\ hiloWorker'[w] = "escucha" /\ \A v \in Workers \ {w} : hiloWorker'[v] = hiloWorker[v]
    BY <1>0, <1>4 DEF ConectaWorker, SiguienteDe, TypeOK
  <2>2. fd'[w] = FdNuevo /\ \A v \in Workers \ {w} : fd'[v] = fd[v]
    BY <1>0, <1>4 DEF ConectaWorker, TypeOK, Conexiones
  <2>3. \A c \in Abiertas : fd[c] # FdNuevo
    BY <1>0, FdNuevoLibre DEF TypeOK
  <2>4. \A v \in Workers \ {w} : hiloWorker[v] # "nuevo" => v \in Abiertas
    <3> SUFFICES ASSUME NEW v \in Workers \ {w}, hiloWorker[v] = "fin" PROVE FALSE
      BY DEF Abiertas
    <3>1. w < v
      BY <1>0 DEF EnOrden, SoloElUltimoCae
    <3> QED BY <2>1, <3>1 DEF EnOrden
  <2>5. DescriptoresPropios'
    BY <2>1, <2>2, <2>3, <2>4 DEF DescriptoresPropios
  <2>6. EnOrden'
    <3>1. \A u, v \in Workers : u < v /\ hiloWorker'[v] # "nuevo" => hiloWorker'[u] # "nuevo"
      BY <1>0, <2>1 DEF EnOrden
    <3>2. \A v \in Workers : hiloWorker'[v] \in {"termina", "quita", "fin"} => v \in PuedeCaer
      BY <2>1 DEF EnOrden
    <3> QED BY <3>1, <3>2 DEF EnOrden
  <2> QED BY <2>5, <2>6
<1>5. ASSUME NEW w \in Workers, HiloWorker(w) \/ DesconectaWorker(w) \/ ProcesoWorker(w)
      PROVE  DescriptoresPropios' /\ EnOrden'
  <2>1. fd' = fd
    BY <1>5 DEF HiloWorker, RecibeRead, RecibeResultado, VuelveAReady, PasaAExit, LiberaWorker,
       TerminaPorCaida, QuitaWorker, DesconectaWorker, ProcesoWorker, varsQC
  <2>2. CASE hiloWorker' = hiloWorker
    BY <1>1, <2>1, <2>2
  <2>3. CASE RecibeResultado(w)
    <3>1. \E h \in {"aReady", "aExit", "libera"} : hiloWorker' = [hiloWorker EXCEPT ![w] = h]
      BY <2>3 DEF RecibeResultado, Destino
    <3>2. hiloWorker[w] = "escucha"
      BY <2>3 DEF RecibeResultado
    <3> QED BY <1>0, <1>n, <2>1, <3>1, <3>2 DEF TypeOK, EnOrden
  <2>4. CASE VuelveAReady(w) \/ PasaAExit(w) \/ LiberaWorker(w)
    <3>1. \E h \in {"escucha", "libera"} : hiloWorker' = [hiloWorker EXCEPT ![w] = h]
      BY <2>4 DEF VuelveAReady, PasaAExit, LiberaWorker
    <3>2. hiloWorker[w] \in {"aReady", "aExit", "libera"}
      BY <2>4 DEF VuelveAReady, PasaAExit, LiberaWorker
    <3> QED BY <1>0, <1>n, <2>1, <3>1, <3>2 DEF TypeOK, EnOrden
  <2>5. CASE DesconectaWorker(w)
    <3>1. \E h \in {"termina", "quita"} : hiloWorker' = [hiloWorker EXCEPT ![w] = h]
      BY <2>5 DEF DesconectaWorker
    <3>2. hiloWorker[w] = "escucha" /\ w \in PuedeCaer
      BY <2>5 DEF DesconectaWorker
    <3> QED BY <1>0, <1>n, <2>1, <3>1, <3>2 DEF TypeOK, EnOrden
  <2>6. CASE TerminaPorCaida(w) \/ QuitaWorker(w)
    <3>1. \E h \in {"quita", "fin"} : hiloWorker' = [hiloWorker EXCEPT ![w] = h]
      BY <2>6 DEF TerminaPorCaida, QuitaWorker
    <3>2. hiloWorker[w] \in {"termina", "quita"}
      BY <2>6 DEF TerminaPorCaida, QuitaWorker
    <3> QED BY <1>0, <1>n, <2>1, <3>1, <3>2 DEF TypeOK, EnOrden
  <2>7. CASE RecibeRead(w) \/ ProcesoWorker(w)
    BY <2>2, <2>7 DEF RecibeRead, ProcesoWorker
  <2> QED BY <1>5, <2>3, <2>4, <2>5, <2>6, <2>7 DEF HiloWorker
<1>6. CASE UNCHANGED vars
  BY <1>1, <1>6 DEF vars, varsQC, varsWorker
<1> QED BY <1>2, <1>3, <1>4, <1>5, <1>6 DEF Next, EnReposo

\* If only the last Worker to connect may disconnect (as when none does), no Worker ever
\* inherits a descriptor.
LEMMA NadieHereda == ASSUME SoloElUltimoCae PROVE Spec => []DescriptoresPropios
<1>1. IInv /\ DescriptoresPropios /\ EnOrden /\ [Next]_vars => DescriptoresPropios' /\ EnOrden'
  BY NextEnOrden
<1>2. Spec => Init /\ [][Next]_vars
  BY DEF Spec
<1> QED BY <1>1, <1>2, Invariante, InitEnOrden, PTL

\* Then no query ever runs on two Workers, for any number of queries and Workers, both
\* policies, whatever malloc leaves in a pointer and whichever Query Controls leave.
THEOREM NuncaEnDosWorkers == SoloElUltimoCae => (Spec => []AsignacionUnica)
<1> SUFFICES ASSUME SoloElUltimoCae PROVE Spec => []AsignacionUnica
  OBVIOUS
<1> QED BY NadieHereda, SinHerencia, PTL

\* And every result is applied to the query it is about.
THEOREM ResultadoSiempreDeSuQuery == SoloElUltimoCae => (Spec => []ResultadoDeSuQuery)
<1> SUFFICES ASSUME SoloElUltimoCae PROVE Spec => []ResultadoDeSuQuery
  OBVIOUS
<1> QED BY NadieHereda, SinHerencia, PTL

\* And no cut stops a query other than the one it was sent for.
THEOREM CorteSiempreASuQuery == SoloElUltimoCae => (Spec => []CorteSoloASuQuery)
<1> SUFFICES ASSUME SoloElUltimoCae PROVE Spec => []CorteSoloASuQuery
  OBVIOUS
<1> QED BY NadieHereda, SinHerencia, PTL

-----------------------------------------------------------------------------
(***************************************************************************)
(* The life cycle of a query, while nobody leaves: a Query Control goes    *)
(* when it has its result and Workers stay.  (A Query Control that goes    *)
(* before can make the code take a query from EXIT to EXEC.)               *)
(***************************************************************************)

NadieSeVa == PuedeIrse = {} /\ PuedeCaer = {}

\* accept gives every open connection a descriptor of its own, whoever leaves.
DescriptorPorConexion == \A c, d \in Abiertas : fd[c] = fd[d] => c = d

\* A query that has an owner is in EXEC; one that has been notified is in EXIT or on its way;
\* a Query Control leaves after that; what the scheduler holds is still where it found it.
EnSuCiclo ==
    /\ \A q \in Queries : /\ hiloQC[q] # "retira"
                          /\ hiloQC[q] \notin {"nuevo", "escucha"} => avisado[q]
    /\ \A q \in Queries : avisado[q] =>
          estado[q] = "EXIT" \/ \E w \in Workers : query[w] = q /\ hiloWorker[w] = "aExit"
    /\ \A q \in Queries, w \in Workers : Dueno(w, q) => estado[q] = "EXEC"
    /\ plan.pc = "exec" => estado[plan.q] = "READY"
    /\ plan.pc = "asigna" => estado[plan.q] = "EXEC"
    /\ \A w \in Workers : hiloWorker[w] \notin {"termina", "quita", "fin"}

\* Both hold at the start.
LEMMA InitEnSuCiclo == Init => DescriptorPorConexion /\ EnSuCiclo
<1> SUFFICES ASSUME Init PROVE DescriptorPorConexion /\ EnSuCiclo
  OBVIOUS
<1>1. Abiertas = {}
  BY DEF Init, Abiertas
<1>2. EnSuCiclo
  BY DEF Init, EnSuCiclo, Dueno, Atiende, EnEspera
<1> QED BY <1>1, <1>2 DEF DescriptorPorConexion

\* Every step keeps the descriptors of the open connections apart.
LEMMA NextDescriptorPorConexion ==
    ASSUME IInv, DescriptorPorConexion, [Next]_vars
    PROVE  DescriptorPorConexion'
<1>0. TypeOK /\ \A c \in Abiertas : fd[c] # FdNuevo
  BY FdNuevoLibre DEF IInv, TypeOK
\* Nobody is accepted.
<1>n. ASSUME fd' = fd, Abiertas' \subseteq Abiertas PROVE DescriptorPorConexion'
  BY <1>n DEF DescriptorPorConexion
\* Somebody is.
<1>s. ASSUME NEW x \in Conexiones, fd' = [fd EXCEPT ![x] = FdNuevo], Abiertas' \subseteq Abiertas \cup {x}
      PROVE  DescriptorPorConexion'
  <2> SUFFICES ASSUME NEW c \in Abiertas', NEW d \in Abiertas', fd'[c] = fd'[d] PROVE c = d
    BY DEF DescriptorPorConexion
  <2>1. Abiertas \subseteq Conexiones
    BY DEF Abiertas, Conexiones
  <2>2. fd'[x] = FdNuevo /\ \A y \in Abiertas : y # x => fd'[y] = fd[y]
    BY <1>0, <1>s, <2>1 DEF TypeOK
  <2>3. c \in Abiertas \cup {x} /\ d \in Abiertas \cup {x}
    BY <1>s
  <2> QED BY <1>0, <2>2, <2>3 DEF DescriptorPorConexion
<1>1. CASE Planificador
  BY <1>1, <1>n DEF Planificador, PlanDespierta, PlanBuscaWorker, PlanElige, Abiertas,
     PlanPasaAExec, PlanOcupaWorker, PlanEnviaAsignacion, PlanMide, PlanEligeVictima, PlanLeeReady,
     PlanCompara, PlanBuscaVictima, PlanDesaloja, varsWorker, varsQC
<1>2. ASSUME NEW q \in Queries, ConectaQC(q) \/ HiloQC(q) \/ Envejece(q)
      PROVE  DescriptorPorConexion'
  <2>1. CASE ConectaQC(q)
    <3>1. Abiertas' \subseteq Abiertas \cup {q}
      BY <1>0, <2>1 DEF ConectaQC, Abiertas, varsWorker, TypeOK
    <3> QED BY <1>s, <2>1, <3>1 DEF ConectaQC, Conexiones
  <2>2. CASE Envejece(q)
    BY <1>n, <2>2 DEF Envejece, Abiertas, varsQC, varsWorker
  <2>3. CASE HiloQC(q)
    <3>1. /\ hiloWorker' = hiloWorker /\ fd' = fd /\ hiloQC[q] \notin {"nuevo", "fin"}
          /\ \A p \in Queries \ {q} : hiloQC'[p] = hiloQC[p]
      BY <1>0, <2>3 DEF HiloQC, DesconectaQC, RetiraDeReady, MiraSiEnExec, MarcaDesconexion,
         CancelaEnWorker, CierraQC, varsWorker, TypeOK
    <3>2. Abiertas' \subseteq Abiertas
      BY <3>1 DEF Abiertas
    <3> QED BY <1>n, <3>1, <3>2
  <2> QED BY <1>2, <2>1, <2>2, <2>3
<1>3. ASSUME NEW w \in Workers, ConectaWorker(w)
      PROVE  DescriptorPorConexion'
  <2>1. Abiertas' \subseteq Abiertas \cup {w}
    BY <1>0, <1>3 DEF ConectaWorker, Abiertas, TypeOK
  <2> QED BY <1>s, <1>3, <2>1 DEF ConectaWorker, Conexiones
<1>4. ASSUME NEW w \in Workers, HiloWorker(w) \/ DesconectaWorker(w) \/ ProcesoWorker(w)
      PROVE  DescriptorPorConexion'
  <2>1. fd' = fd /\ hiloQC' = hiloQC
    BY <1>4 DEF HiloWorker, RecibeRead, RecibeResultado, VuelveAReady, PasaAExit, LiberaWorker,
       TerminaPorCaida, QuitaWorker, DesconectaWorker, ProcesoWorker, varsQC
  <2>2. hiloWorker[w] \notin {"nuevo", "fin"}
    BY <1>4 DEF HiloWorker, RecibeRead, RecibeResultado, VuelveAReady, PasaAExit, LiberaWorker,
       TerminaPorCaida, QuitaWorker, DesconectaWorker, ProcesoWorker, Conectado
  <2>3. \A v \in Workers \ {w} : hiloWorker'[v] = hiloWorker[v]
    BY <1>4, WorkerSoloElSuyo
  <2>4. Abiertas' \subseteq Abiertas
    BY <2>1, <2>2, <2>3 DEF Abiertas
  <2> QED BY <1>n, <2>1, <2>4
<1>5. CASE UNCHANGED vars
  BY <1>5, <1>n DEF vars, varsQC, varsWorker, Abiertas
<1> QED BY <1>1, <1>2, <1>3, <1>4, <1>5 DEF Next, EnReposo

\* The Query Control of a query that a Worker owns, and that is not to EXIT yet, is still
\* there: nobody else has its descriptor.
LEMMA SuQueryControl ==
    ASSUME IInv, Duenos, DescriptorPorConexion, EnSuCiclo,
           NEW w \in Workers, query[w] \in Queries, hiloWorker[w] = "escucha"
    PROVE  Destinatarios(query[w]) = {query[w]} /\ ~avisado[query[w]]
<1> DEFINE q == query[w]
<1>1. Dueno(w, q) /\ estado[q] = "EXEC"
  BY DEF Dueno, Atiende, EnSuCiclo
<1>2. ~avisado[q]
  <2> SUFFICES ASSUME avisado[q] PROVE FALSE
    BY DEF IInv, TypeOK
  <2>1. PICK v \in Workers : query[v] = q /\ hiloWorker[v] = "aExit"
    BY <1>1 DEF EnSuCiclo
  <2>2. v = w
    BY <1>1, <2>1 DEF Duenos, Dueno, Atiende
  <2> QED BY <2>1, <2>2
<1>3. hiloQC[q] # "nuevo"
  BY <1>1 DEF IInv, SinConectar
<1>4. q \in Abiertas
  BY <1>2, <1>3 DEF Abiertas, EnSuCiclo
<1>5. Destinatarios(q) = {q}
  BY <1>4 DEF Destinatarios, DescriptorPorConexion
<1> QED BY <1>2, <1>5

\* actualizarEstadoQuery moves a query that has been admitted.
LEMMA actualizarEstadoQueryMueve ==
    ASSUME TypeOK, ListasConsistentes, NEW q \in Queries, NEW n, estado[q] # "NUEVA",
           actualizarEstadoQuery(q, n)
    PROVE  /\ estado' = [estado EXCEPT ![q] = n]
           /\ estado'[q] = n /\ \A p \in Queries \ {q} : estado'[p] = estado[p]
<1>1. estado[q] \in Estados /\ Contains(listas[estado[q]], q)
  BY DEF TypeOK, ListasConsistentes
<1> QED BY <1>1 DEF actualizarEstadoQuery, TypeOK

\* A step that moves no query and notifies nobody.
LEMMA CicloQuieto ==
    ASSUME IInv, EnSuCiclo, estado' = estado, avisado' = avisado,
           \A q \in Queries : hiloQC'[q] # "retira",
           \A q \in Queries : hiloQC'[q] \notin {"nuevo", "escucha"} => avisado[q],
           \A w \in Workers : hiloWorker'[w] \notin {"termina", "quita", "fin"},
           \A w \in Workers : hiloWorker[w] = "aExit" => hiloWorker'[w] = "aExit" /\ query'[w] = query[w],
           \A q \in Queries : \A w \in Workers : Dueno(w, q)' => Dueno(w, q),
           plan'.pc \in {"exec", "asigna"} => plan'.pc = plan.pc /\ plan'.q = plan.q
    PROVE  EnSuCiclo' /\ [Ciclo!Next]_estado
<1>1. \A q \in Queries : avisado'[q] =>
          estado'[q] = "EXIT" \/ \E w \in Workers : query'[w] = q /\ hiloWorker'[w] = "aExit"
  BY DEF EnSuCiclo
<1>2. \A q \in Queries, w \in Workers : Dueno(w, q)' => estado'[q] = "EXEC"
  BY DEF EnSuCiclo
<1>3. plan'.pc = "exec" => estado'[plan'.q] = "READY"
  BY DEF EnSuCiclo
<1>4. plan'.pc = "asigna" => estado'[plan'.q] = "EXEC"
  BY DEF EnSuCiclo
<1>5. EnSuCiclo'
  BY <1>1, <1>2, <1>3, <1>4 DEF EnSuCiclo
<1> QED BY <1>5

\* A step of the scheduler.
LEMMA PlanificadorCiclo ==
    ASSUME IInv, Duenos, Coherente, EnSuCiclo, Planificador
    PROVE  EnSuCiclo' /\ [Ciclo!Next]_estado
<1>0. TypeOK /\ ListasConsistentes /\ PlanValido(plan) /\ plan \in PlanTipo
  BY DEF IInv, PunterosValidos, PlanValido
<1>h. UNCHANGED <<hiloWorker, hiloQC, avisado>>
  BY DEF Planificador, PlanDespierta, PlanBuscaWorker, PlanElige, PlanPasaAExec, PlanOcupaWorker,
     PlanEnviaAsignacion, PlanMide, PlanEligeVictima, PlanLeeReady, PlanCompara, PlanBuscaVictima,
     PlanDesaloja, varsWorker, varsQC
<1>d. "pc" \in DOMAIN plan /\ EnEspera.pc = "espera"
  BY <1>0 DEF PlanTipo, EnEspera
<1>q. /\ \A q \in Queries : hiloQC'[q] # "retira"
      /\ \A q \in Queries : hiloQC'[q] \notin {"nuevo", "escucha"} => avisado[q]
      /\ \A w \in Workers : hiloWorker'[w] \notin {"termina", "quita", "fin"}
  BY <1>h DEF EnSuCiclo
\* A step that only moves the scheduler, and not into a choice.
<1>4. ASSUME UNCHANGED <<estado, query>>, plan'.pc \notin {"exec", "asigna"}
      PROVE  EnSuCiclo' /\ [Ciclo!Next]_estado
  <2>1. \A q \in Queries : \A w \in Workers : Dueno(w, q)' => Dueno(w, q)
    BY <1>h, <1>4 DEF Dueno, Atiende
  <2>2. estado' = estado /\ avisado' = avisado
    BY <1>h, <1>4
  <2>3. \A w \in Workers : hiloWorker[w] = "aExit" => hiloWorker'[w] = "aExit" /\ query'[w] = query[w]
    BY <1>h, <1>4
  <2>4. plan'.pc \in {"exec", "asigna"} => plan'.pc = plan.pc /\ plan'.q = plan.q
    BY <1>4
  <2> QED BY <1>q, <2>1, <2>2, <2>3, <2>4, CicloQuieto
<1>1. CASE PlanElige
  <2>1. UNCHANGED <<estado, query>>
    BY <1>1 DEF PlanElige, varsQuery, varsWorker
  <2>2. \A q \in Queries : \A w \in Workers : Dueno(w, q)' <=> Dueno(w, q)
    BY <1>h, <2>1 DEF Dueno, Atiende
  <2>3. CASE \E q \in obtener_siguiente_query : plan' = [plan EXCEPT !.pc = "exec", !.q = q]
    <3>1. PICK q \in EnReady : plan' = [plan EXCEPT !.pc = "exec", !.q = q]
      BY <2>3, SiguienteQuery
    <3>2. plan'.pc = "exec" /\ plan'.q = q /\ q \in Queries /\ estado[q] = "READY"
      BY <1>0, <3>1 DEF PlanTipo, EnReady
    <3>3. \A q0 \in Queries : avisado'[q0] =>
             estado'[q0] = "EXIT" \/ \E w \in Workers : query'[w] = q0 /\ hiloWorker'[w] = "aExit"
      BY <1>h, <2>1 DEF EnSuCiclo
    <3>4. \A q0 \in Queries, w \in Workers : Dueno(w, q0)' => estado'[q0] = "EXEC"
      BY <2>1, <2>2 DEF EnSuCiclo
    <3>5. EnSuCiclo'
      BY <1>h, <1>q, <2>1, <3>2, <3>3, <3>4 DEF EnSuCiclo
    <3> QED BY <2>1, <3>5
  <2>4. CASE plan' = EnEspera
    <3>1. plan'.pc \notin {"exec", "asigna"}
      BY <1>d, <2>4
    <3> QED BY <1>4, <2>1, <3>1
  <2> QED BY <1>1, <2>3, <2>4 DEF PlanElige
<1>2. CASE PlanPasaAExec
  <2>1. /\ plan.pc = "exec" /\ plan.q \in Queries /\ plan'.pc = "asigna" /\ plan'.q = plan.q
        /\ query' = query
    BY <1>0, <1>2 DEF PlanPasaAExec, PlanValido, PlanTipo, varsWorker
  <2>2. estado[plan.q] = "READY"
    BY <2>1 DEF EnSuCiclo
  <2>3. /\ estado' = [estado EXCEPT ![plan.q] = "EXEC"] /\ estado'[plan.q] = "EXEC"
        /\ \A p \in Queries \ {plan.q} : estado'[p] = estado[p]
    BY <1>0, <1>2, <2>1, <2>2, actualizarEstadoQueryMueve DEF PlanPasaAExec
  <2>4. \A q \in Queries : \A w \in Workers : Dueno(w, q)' <=> Dueno(w, q)
    BY <1>h, <2>1 DEF Dueno, Atiende
  <2>5. \A q \in Queries : avisado'[q] =>
           estado'[q] = "EXIT" \/ \E w \in Workers : query'[w] = q /\ hiloWorker'[w] = "aExit"
    <3>1. ~avisado[plan.q]
      <4> SUFFICES ASSUME avisado[plan.q] PROVE FALSE
        BY <1>0, <2>1 DEF TypeOK
      <4>1. PICK w \in Workers : query[w] = plan.q /\ hiloWorker[w] = "aExit"
        BY <2>1, <2>2 DEF EnSuCiclo
      <4> QED BY <2>1, <2>2, <4>1 DEF EnSuCiclo, Dueno, Atiende
    <3> QED BY <1>h, <2>1, <2>3, <3>1 DEF EnSuCiclo
  <2>6. \A q \in Queries, w \in Workers : Dueno(w, q)' => estado'[q] = "EXEC"
    BY <2>3, <2>4 DEF EnSuCiclo
  <2>7. EnSuCiclo'
    BY <1>h, <1>q, <2>1, <2>3, <2>5, <2>6 DEF EnSuCiclo
  <2>8. Ciclo!Despacha(plan.q)
    BY <2>2, <2>3 DEF Ciclo!Despacha, Ciclo!Pasa
  <2> QED BY <2>1, <2>7, <2>8 DEF Ciclo!Next
<1>3. CASE PlanOcupaWorker
  <2>0. PICK q \in Queries, w \in Workers : q = plan.q /\ w = plan.w
    BY <1>0, <1>3 DEF PlanOcupaWorker, PlanValido
  <2>1. plan.pc = "asigna" /\ plan'.pc = "envia" /\ estado' = estado
    BY <1>0, <1>3 DEF PlanOcupaWorker, PlanTipo, varsQuery
  <2>2. query'[w] = q /\ \A v \in Workers \ {w} : query'[v] = query[v]
    BY <1>0, <1>3, <2>0 DEF PlanOcupaWorker, TypeOK
  <2>3. estado[q] = "EXEC"
    BY <2>0, <2>1 DEF EnSuCiclo
  <2>4. \A p \in Queries, v \in Workers : Dueno(v, p)' => Dueno(v, p) \/ p = q
    BY <1>h, <2>2 DEF Dueno, Atiende
  <2>5. \A p \in Queries, v \in Workers : Dueno(v, p)' => estado'[p] = "EXEC"
    BY <2>1, <2>3, <2>4 DEF EnSuCiclo
  <2>7. hiloWorker[w] # "aExit"
    BY <2>0, <2>1, ContratoSupuesto
       DEF IInv, PunterosValidos, Coherente, PlanCoherente, Conectado
  <2>8. \A p \in Queries : avisado'[p] =>
           estado'[p] = "EXIT" \/ \E v \in Workers : query'[v] = p /\ hiloWorker'[v] = "aExit"
    BY <1>h, <2>1, <2>2, <2>7 DEF EnSuCiclo
  <2>9. EnSuCiclo'
    BY <1>h, <1>q, <2>1, <2>5, <2>8 DEF EnSuCiclo
  <2> QED BY <2>1, <2>9
<1>5. CASE PlanEnviaAsignacion \/ PlanDesaloja
  BY <1>4, <1>5 DEF PlanEnviaAsignacion, PlanDesaloja, EnEspera, varsQuery
<1>6. CASE PlanDespierta
  <2>1. plan'.pc \notin {"exec", "asigna"}
    BY <1>d, <1>6 DEF PlanDespierta
  <2> QED BY <1>4, <1>6, <2>1 DEF PlanDespierta, varsQuery, varsWorker
<1>7. CASE PlanBuscaWorker
  <2>1. plan'.pc \notin {"exec", "asigna"}
    BY <1>d, <1>7 DEF PlanBuscaWorker
  <2> QED BY <1>4, <1>7, <2>1 DEF PlanBuscaWorker, varsQuery, varsWorker
<1>8. CASE PlanMide
  <2>1. plan'.pc \notin {"exec", "asigna"}
    BY <1>d, <1>8 DEF PlanMide
  <2> QED BY <1>4, <1>8, <2>1 DEF PlanMide, varsQuery, varsWorker
<1>9. CASE PlanEligeVictima
  <2>1. plan'.pc \notin {"exec", "asigna"}
    BY <1>d, <1>9 DEF PlanEligeVictima
  <2> QED BY <1>4, <1>9, <2>1 DEF PlanEligeVictima, varsQuery, varsWorker
<1>10. CASE PlanLeeReady
  <2>1. plan'.pc \notin {"exec", "asigna"}
    BY <1>d, <1>10 DEF PlanLeeReady
  <2> QED BY <1>4, <1>10, <2>1 DEF PlanLeeReady, varsQuery, varsWorker
<1>11. CASE PlanCompara
  <2>1. plan'.pc \notin {"exec", "asigna"}
    BY <1>d, <1>11 DEF PlanCompara
  <2> QED BY <1>4, <1>11, <2>1 DEF PlanCompara, varsQuery, varsWorker
<1>12. CASE PlanBuscaVictima
  <2>1. plan'.pc \notin {"exec", "asigna"}
    BY <1>d, <1>12 DEF PlanBuscaVictima
  <2> QED BY <1>4, <1>12, <2>1 DEF PlanBuscaVictima, varsQuery, varsWorker
<1> QED BY <1>1, <1>2, <1>3, <1>5, <1>6, <1>7, <1>8, <1>9, <1>10, <1>11, <1>12
    DEF Planificador

\* A step of the thread of a Query Control, of its aging thread or of accept.
LEMMA QueryControlCiclo ==
    ASSUME NadieSeVa, IInv, Duenos, EnSuCiclo,
           NEW q \in Queries, ConectaQC(q) \/ HiloQC(q) \/ Envejece(q)
    PROVE  EnSuCiclo' /\ [Ciclo!Next]_estado
<1>0. TypeOK /\ SinConectar /\ PlanValido(plan)
  BY DEF IInv, PunterosValidos
<1>1. UNCHANGED <<query, hiloWorker, plan, avisado>>
  BY DEF ConectaQC, HiloQC, DesconectaQC, RetiraDeReady, MiraSiEnExec, MarcaDesconexion,
     CancelaEnWorker, CierraQC, Envejece, varsWorker, varsQC
<1>2. /\ \A p \in Queries : \A w \in Workers : Dueno(w, p)' <=> Dueno(w, p)
      /\ \A w \in Workers : hiloWorker'[w] \notin {"termina", "quita", "fin"}
  BY <1>1 DEF Dueno, Atiende, EnSuCiclo
<1>3. CASE ConectaQC(q)
  <2>1. /\ estado[q] = "NUEVA" /\ estado' = [estado EXCEPT ![q] = "READY"]
        /\ hiloQC' = [hiloQC EXCEPT ![q] = "escucha"]
    BY <1>0, <1>3 DEF ConectaQC, SiguienteDe, SinConectar
  <2>2. estado'[q] = "READY" /\ \A p \in Queries \ {q} : estado'[p] = estado[p]
    BY <1>0, <2>1 DEF TypeOK
  <2>3. hiloQC'[q] = "escucha" /\ \A p \in Queries \ {q} : hiloQC'[p] = hiloQC[p]
    BY <1>0, <2>1 DEF TypeOK
  <2>4. \A w \in Workers : ~Dueno(w, q)
    BY <2>1 DEF EnSuCiclo
  <2>5. ~avisado[q]
    <3> SUFFICES ASSUME avisado[q] PROVE FALSE
      BY <1>0 DEF TypeOK
    <3>1. PICK w \in Workers : query[w] = q /\ hiloWorker[w] = "aExit"
      BY <2>1 DEF EnSuCiclo
    <3> QED BY <2>4, <3>1 DEF Dueno, Atiende
  <2>6. plan.pc \in {"exec", "asigna"} => plan.q \in Queries \ {q}
    BY <1>0, <2>1 DEF PlanValido, EnSuCiclo
  <2>7. /\ \A p \in Queries : /\ hiloQC'[p] # "retira"
                              /\ hiloQC'[p] \notin {"nuevo", "escucha"} => avisado'[p]
        /\ \A p \in Queries : avisado'[p] =>
              estado'[p] = "EXIT" \/ \E w \in Workers : query'[w] = p /\ hiloWorker'[w] = "aExit"
    BY <1>1, <2>2, <2>3, <2>5 DEF EnSuCiclo
  <2>8. \A p \in Queries, w \in Workers : Dueno(w, p)' => estado'[p] = "EXEC"
    BY <1>2, <2>2, <2>4 DEF EnSuCiclo
  <2>9. EnSuCiclo'
    BY <1>1, <1>2, <2>2, <2>6, <2>7, <2>8 DEF EnSuCiclo
  <2>10. Ciclo!Admite(q)
    BY <2>1 DEF Ciclo!Admite, Ciclo!Pasa
  <2> QED BY <2>9, <2>10 DEF Ciclo!Next
<1>4. CASE Envejece(q)
  <2>1. hiloQC' = hiloQC /\ estado' = estado
    BY <1>4 DEF Envejece, varsQC
  <2>2. /\ \A p \in Queries : hiloQC'[p] # "retira"
        /\ \A p \in Queries : hiloQC'[p] \notin {"nuevo", "escucha"} => avisado[p]
    BY <2>1 DEF EnSuCiclo
  <2> QED BY <1>1, <1>2, <2>1, <2>2, CicloQuieto
<1>5. CASE HiloQC(q)
  <2>1. hiloQC[q] # "retira"
    BY DEF EnSuCiclo
  <2>2. avisado[q] /\ estado[q] # "READY"
    <3>1. avisado[q]
      BY <1>0, <1>5, <2>1 DEF HiloQC, DesconectaQC, RetiraDeReady, MiraSiEnExec, MarcaDesconexion,
         CancelaEnWorker, CierraQC, EnSuCiclo, NadieSeVa, TypeOK
    <3> QED BY <3>1 DEF EnSuCiclo, Dueno, Atiende
  <2>3. estado' = estado /\ \E h \in {"mira", "marca", "cancela", "cierra", "fin"} :
                              hiloQC' = [hiloQC EXCEPT ![q] = h]
    BY <1>5, <2>1, <2>2 DEF HiloQC, DesconectaQC, RetiraDeReady, MiraSiEnExec, MarcaDesconexion,
       CancelaEnWorker, CierraQC, varsQuery
  <2>4. /\ \A p \in Queries : hiloQC'[p] # "retira"
        /\ \A p \in Queries : hiloQC'[p] \notin {"nuevo", "escucha"} => avisado[p]
    BY <1>0, <2>2, <2>3 DEF EnSuCiclo, TypeOK
  <2> QED BY <1>1, <1>2, <2>3, <2>4, CicloQuieto
<1> QED BY <1>3, <1>4, <1>5


\* A step of the thread of a Worker, of the Worker itself or of accept.
LEMMA WorkerCiclo ==
    ASSUME NadieSeVa, IInv, Duenos, DescriptorPorConexion, EnSuCiclo, NEW w \in Workers,
           ConectaWorker(w) \/ HiloWorker(w) \/ DesconectaWorker(w) \/ ProcesoWorker(w)
    PROVE  EnSuCiclo' /\ [Ciclo!Next]_estado
<1>0. TypeOK /\ ListasConsistentes /\ PunterosValidos /\ PlanValido(plan) /\ plan' = plan
  BY WorkerSoloElSuyo DEF IInv, PunterosValidos
<1>a. \A v \in Workers \ {w} : query'[v] = query[v] /\ hiloWorker'[v] = hiloWorker[v]
  BY WorkerSoloElSuyo
<1>q. hiloQC' = hiloQC
  BY DEF ConectaWorker, HiloWorker, RecibeRead, RecibeResultado, VuelveAReady, PasaAExit,
     LiberaWorker, TerminaPorCaida, QuitaWorker, DesconectaWorker, ProcesoWorker, varsQC
<1>r. /\ \A q \in Queries : hiloQC'[q] # "retira"
      /\ \A q \in Queries : hiloQC'[q] \notin {"nuevo", "escucha"} => avisado[q]
  BY <1>q DEF EnSuCiclo
<1>h. hiloWorker[w] \notin {"termina", "quita", "fin"}
  BY DEF EnSuCiclo
\* A step that moves no query and notifies nobody.
<1>n. ASSUME estado' = estado, avisado' = avisado,
             hiloWorker'[w] \notin {"termina", "quita", "fin"},
             hiloWorker[w] = "aExit" => hiloWorker'[w] = "aExit" /\ query'[w] = query[w],
             \A q \in Queries : Dueno(w, q)' => Dueno(w, q)
      PROVE  EnSuCiclo' /\ [Ciclo!Next]_estado
  <2>1. \A v \in Workers : hiloWorker'[v] \notin {"termina", "quita", "fin"}
    BY <1>a, <1>n DEF EnSuCiclo
  <2>2. \A v \in Workers : hiloWorker[v] = "aExit" => hiloWorker'[v] = "aExit" /\ query'[v] = query[v]
    BY <1>a, <1>n
  <2>3. \A q \in Queries : \A v \in Workers : Dueno(v, q)' => Dueno(v, q)
    BY <1>a, <1>n DEF Dueno, Atiende
  <2>4. plan'.pc \in {"exec", "asigna"} => plan'.pc = plan.pc /\ plan'.q = plan.q
    BY <1>0
  <2> QED BY <1>n, <1>r, <2>1, <2>2, <2>3, <2>4, CicloQuieto
<1>1. CASE ConectaWorker(w)
  <2>1. estado' = estado /\ avisado' = avisado /\ hiloWorker'[w] = "escucha" /\ hiloWorker[w] = "nuevo"
    BY <1>0, <1>1 DEF ConectaWorker, varsQuery, SiguienteDe, TypeOK
  <2>2. query'[w] \notin Queries
    <3>1. PICK p \in PunterosSinInicializar : query' = [query EXCEPT ![w] = p]
      BY <1>1 DEF ConectaWorker
    <3>2. p \notin Queries
      BY <3>1, MasterSupuesto, ContratoSupuesto
    <3> QED BY <1>0, <3>1, <3>2 DEF TypeOK
  <2>3. \A q \in Queries : Dueno(w, q)' => Dueno(w, q)
    BY <2>2 DEF Dueno
  <2> QED BY <1>n, <2>1, <2>3
<1>2. CASE LiberaWorker(w)
  <2>1. estado' = estado /\ avisado' = avisado /\ hiloWorker'[w] = "escucha" /\ hiloWorker[w] = "libera"
    BY <1>0, <1>2 DEF LiberaWorker, varsQuery, varsQC, TypeOK
  <2>2. query'[w] \notin Queries
    BY <1>0, <1>2, ContratoSupuesto DEF LiberaWorker, SinQuery, TypeOK
  <2>3. \A q \in Queries : Dueno(w, q)' => Dueno(w, q)
    BY <2>2 DEF Dueno
  <2> QED BY <1>n, <2>1, <2>3
<1>3. CASE RecibeRead(w) \/ ProcesoWorker(w)
  <2>1. /\ estado' = estado /\ avisado' = avisado /\ hiloWorker' = hiloWorker /\ query' = query
    BY <1>3 DEF RecibeRead, ProcesoWorker, varsQuery, varsQC
  <2>2. \A q \in Queries : Dueno(w, q)' => Dueno(w, q)
    BY <2>1 DEF Dueno, Atiende
  <2> QED BY <1>h, <1>n, <2>1, <2>2
<1>4. CASE RecibeResultado(w)
  <2> DEFINE x == query[w]
             op == Recibido(w).op
  <2>1. estado' = estado /\ query' = query /\ hiloWorker[w] = "escucha"
    BY <1>4 DEF RecibeResultado
  <2>2. hiloWorker'[w] = IF x \in Queries THEN Destino(op, x) ELSE "libera"
    BY <1>0, <1>4 DEF RecibeResultado, TypeOK
  <2>3. Destino(op, x) \in {"aReady", "aExit"}
    BY DEF Destino
  <2>4. \A q \in Queries : Dueno(w, q)' => Dueno(w, q)
    BY <2>1 DEF Dueno, Atiende
  <2>5. CASE x \in Queries /\ SeNotifica(op, x)
    <3>1. Destinatarios(x) = {x}
      BY <2>1, <2>5, SuQueryControl
    <3>2. hiloWorker'[w] = "aExit"
      BY <2>2, <2>5 DEF Destino, SeNotifica
    <3>3. avisado' = [c \in Queries |-> avisado[c] \/ c \in Destinatarios(x)]
      BY <1>4, <2>5 DEF RecibeResultado, NotificaResultado
    <3>4. \A c \in Queries : avisado'[c] => avisado[c] \/ c = x
      BY <3>1, <3>3
    <3>5. \A c \in Queries : avisado[c] => avisado'[c]
      BY <3>3
    <3>6. \A v \in Workers : hiloWorker[v] = "aExit" => hiloWorker'[v] = "aExit" /\ query'[v] = query[v]
      BY <1>a, <2>1
    <3>7. \A c \in Queries : avisado'[c] =>
             estado'[c] = "EXIT" \/ \E v \in Workers : query'[v] = c /\ hiloWorker'[v] = "aExit"
      <4> SUFFICES ASSUME NEW c \in Queries, avisado'[c]
                   PROVE  estado'[c] = "EXIT" \/ \E v \in Workers : query'[v] = c /\ hiloWorker'[v] = "aExit"
        OBVIOUS
      <4>1. CASE c = x
        BY <2>1, <3>2, <4>1
      <4>2. CASE avisado[c]
        BY <2>1, <3>6, <4>2 DEF EnSuCiclo
      <4> QED BY <3>4, <4>1, <4>2
    <3>8. \A c \in Queries, v \in Workers : Dueno(v, c)' => estado'[c] = "EXEC"
      <4>1. \A v \in Workers : Atiende(v)' => Atiende(v)
        BY <1>a, <2>1 DEF Atiende
      <4> QED BY <2>1, <4>1 DEF EnSuCiclo, Dueno
    <3>9. \A v \in Workers : hiloWorker'[v] \notin {"termina", "quita", "fin"}
      BY <1>a, <3>2 DEF EnSuCiclo
    <3>10. /\ plan'.pc = "exec" => estado'[plan'.q] = "READY"
           /\ plan'.pc = "asigna" => estado'[plan'.q] = "EXEC"
      BY <1>0, <2>1 DEF EnSuCiclo
    <3>11. \A q \in Queries : hiloQC'[q] # "retira" /\ (hiloQC'[q] \notin {"nuevo", "escucha"} => avisado'[q])
      BY <1>r, <3>5
    <3>12. EnSuCiclo'
      BY <3>7, <3>8, <3>9, <3>10, <3>11 DEF EnSuCiclo
    <3> QED BY <2>1, <3>12
  <2>6. CASE ~(x \in Queries /\ SeNotifica(op, x))
    <3>1. avisado' = avisado
      BY <1>4, <2>6 DEF RecibeResultado
    <3>2. hiloWorker'[w] \notin {"termina", "quita", "fin"}
      BY <2>2, <2>3
    <3> QED BY <1>n, <2>1, <2>4, <3>1, <3>2
  <2> QED BY <2>5, <2>6
\* The query the Worker answered for is in EXEC, and goes on.
<1>5. ASSUME NEW n \in {"READY", "EXIT"}, hiloWorker[w] \in {"aReady", "aExit"},
             n = "READY" => hiloWorker[w] = "aReady",
             actualizarEstadoQuery(query[w], n), avisado' = avisado, query' = query,
             hiloWorker'[w] = "libera"
      PROVE  EnSuCiclo' /\ [Ciclo!Next]_estado
  <2>1. PICK x \in Queries : x = query[w]
    BY <1>0, <1>5 DEF PunterosValidos
  <2>2. Dueno(w, x) /\ estado[x] = "EXEC"
    BY <1>5, <2>1 DEF Dueno, Atiende, EnSuCiclo
  <2>3. /\ estado' = [estado EXCEPT ![x] = n]
        /\ estado'[x] = n /\ \A p \in Queries \ {x} : estado'[p] = estado[p]
    BY <1>0, <1>5, <2>1, <2>2, actualizarEstadoQueryMueve
  <2>4. \A v \in Workers : Atiende(v)' => Atiende(v) /\ v # w
    BY <1>a, <1>5 DEF Atiende
  <2>5. \A p \in Queries, v \in Workers : Dueno(v, p)' => Dueno(v, p) /\ v # w
    BY <1>5, <2>4 DEF Dueno
  <2>6. \A p \in Queries, v \in Workers : Dueno(v, p)' => p # x
    BY <2>2, <2>5 DEF Duenos
  <2>7. \A p \in Queries, v \in Workers : Dueno(v, p)' => estado'[p] = "EXEC"
    BY <2>3, <2>5, <2>6 DEF EnSuCiclo
  <2>8. \A c \in Queries : avisado'[c] =>
           estado'[c] = "EXIT" \/ \E v \in Workers : query'[v] = c /\ hiloWorker'[v] = "aExit"
    <3> SUFFICES ASSUME NEW c \in Queries, avisado[c]
                 PROVE  estado'[c] = "EXIT" \/ \E v \in Workers : query'[v] = c /\ hiloWorker'[v] = "aExit"
      BY <1>5
    <3>1. CASE estado[c] = "EXIT"
      BY <2>2, <2>3, <3>1
    <3>2. CASE \E v \in Workers : query[v] = c /\ hiloWorker[v] = "aExit"
      <4>1. PICK v \in Workers : query[v] = c /\ hiloWorker[v] = "aExit"
        BY <3>2
      <4>2. CASE v = w
        BY <1>5, <2>1, <2>3, <4>1, <4>2
      <4>3. CASE v # w
        BY <1>a, <1>5, <4>1, <4>3
      <4> QED BY <4>2, <4>3
    <3> QED BY <3>1, <3>2 DEF EnSuCiclo
  <2>9. plan.pc \in {"exec", "asigna"} => plan.q \in Queries \ {x}
    BY <1>0, <2>2 DEF PlanValido, Duenos
  <2>10. /\ plan'.pc = "exec" => estado'[plan'.q] = "READY"
         /\ plan'.pc = "asigna" => estado'[plan'.q] = "EXEC"
    BY <1>0, <2>3, <2>9 DEF EnSuCiclo
  <2>11. \A v \in Workers : hiloWorker'[v] \notin {"termina", "quita", "fin"}
    BY <1>a, <1>5 DEF EnSuCiclo
  <2>12. \A q \in Queries : hiloQC'[q] # "retira" /\ (hiloQC'[q] \notin {"nuevo", "escucha"} => avisado'[q])
    BY <1>r, <1>5
  <2>13. EnSuCiclo'
    BY <2>7, <2>8, <2>10, <2>11, <2>12 DEF EnSuCiclo
  <2>14. Ciclo!Devuelve(x) \/ Ciclo!Termina(x)
    BY <2>2, <2>3 DEF Ciclo!Devuelve, Ciclo!Termina, Ciclo!Pasa
  <2> QED BY <2>13, <2>14 DEF Ciclo!Next
<1>6. CASE VuelveAReady(w)
  <2>1. /\ hiloWorker[w] = "aReady" /\ actualizarEstadoQuery(query[w], "READY") /\ avisado' = avisado
        /\ query' = query /\ hiloWorker'[w] = "libera"
    BY <1>0, <1>6 DEF VuelveAReady, varsQC, TypeOK
  <2> QED BY <1>5, <2>1
<1>7. CASE PasaAExit(w)
  <2>1. /\ hiloWorker[w] = "aExit" /\ actualizarEstadoQuery(query[w], "EXIT") /\ avisado' = avisado
        /\ query' = query /\ hiloWorker'[w] = "libera"
    BY <1>0, <1>7 DEF PasaAExit, varsQC, TypeOK
  <2> QED BY <1>5, <2>1
<1>8. ~DesconectaWorker(w) /\ ~TerminaPorCaida(w) /\ ~QuitaWorker(w)
  BY <1>h DEF NadieSeVa, DesconectaWorker, TerminaPorCaida, QuitaWorker
<1> QED BY <1>1, <1>2, <1>3, <1>4, <1>6, <1>7, <1>8 DEF HiloWorker

\* Every step keeps the cycle, and is a step of it.
LEMMA NextEnSuCiclo ==
    ASSUME NadieSeVa, IInv, Duenos, Coherente, DescriptorPorConexion, EnSuCiclo, [Next]_vars
    PROVE  EnSuCiclo' /\ [Ciclo!Next]_estado
<1>1. CASE Planificador
  BY <1>1, PlanificadorCiclo
<1>2. CASE \E q \in Queries : ConectaQC(q) \/ HiloQC(q) \/ Envejece(q)
  BY <1>2, QueryControlCiclo
<1>3. CASE \E w \in Workers : ConectaWorker(w) \/ HiloWorker(w) \/ DesconectaWorker(w)
                               \/ ProcesoWorker(w)
  BY <1>3, WorkerCiclo
<1>4. CASE UNCHANGED vars
  <2>1. UNCHANGED <<estado, avisado, hiloQC, query, hiloWorker, plan>>
    BY <1>4 DEF vars, varsQuery, varsQC, varsWorker
  <2> QED BY <2>1 DEF EnSuCiclo, Dueno, Atiende
<1> QED BY <1>1, <1>2, <1>3, <1>4 DEF Next, EnReposo

\* While nobody leaves, the Master implements CicloDeVida: whatever its threads interleave, a
\* query is dispatched only from READY, given back or finished only from EXEC, and EXIT is
\* final, for any number of queries and Workers and both policies.
THEOREM CicloDeVidaImplementado == NadieSeVa => (Spec => ImplementaCicloDeVida)
<1> SUFFICES ASSUME NadieSeVa PROVE Spec => ImplementaCicloDeVida
  OBVIOUS
<1>1. Init => Ciclo!Init
  BY DEF Init, Ciclo!Init
<1>2. IInv /\ DescriptorPorConexion /\ [Next]_vars => DescriptorPorConexion'
  BY NextDescriptorPorConexion
<1>3. IInv /\ Duenos /\ Coherente /\ DescriptorPorConexion /\ EnSuCiclo /\ [Next]_vars
        => EnSuCiclo' /\ [Ciclo!Next]_estado
  BY NextEnSuCiclo
<1>4. SoloElUltimoCae
  BY DEF NadieSeVa, SoloElUltimoCae
<1>5. Spec => []DescriptoresPropios
  BY <1>4, NadieHereda
<1>6. Spec => Init /\ [][Next]_vars
  BY DEF Spec
<1>7. Init => DescriptorPorConexion /\ EnSuCiclo
  BY InitEnSuCiclo
<1> QED BY <1>1, <1>2, <1>3, <1>5, <1>6, <1>7, Invariante, InitDuenos, NextDuenos,
           InitCoherente, NextCoherente, PTL DEF ImplementaCicloDeVida, Ciclo!Spec


\* A step that sends writes on a descriptor only its addressee reads.
LEMMA NextEntrega ==
    ASSUME NadieSeVa, IInv, Duenos, Coherente, DescriptorPorConexion, EnSuCiclo, EntregaASuQC,
           [Next]_vars
    PROVE  EntregaASuQC'
<1>0. TypeOK /\ PlanValido(plan) /\ ajenas = {}
  BY DEF IInv, PunterosValidos, EntregaASuQC
\* To a Worker: its connection is open.
<1>w. ASSUME NEW w \in Workers, hiloWorker[w] # "nuevo", NEW m, EnviaAWorker(w, m)
      PROVE  ajenas' = {}
  <2>1. w \in Abiertas
    BY <1>w DEF EnSuCiclo, Abiertas
  <2>2. Destinatarios(w) = {w}
    BY <2>1 DEF Destinatarios, DescriptorPorConexion
  <2> QED BY <1>0, <1>w, <2>2 DEF EnviaAWorker, Reenvia
\* To the Query Control of the query a Worker answers for: its connection is open too.
<1>q. ASSUME NEW w \in Workers, hiloWorker[w] = "escucha", query[w] \in Queries,
             worker[w].salida # << >>, Reenvia(Recibido(w).query, query[w])
      PROVE  ajenas' = {}
  <2>1. Destinatarios(query[w]) = {query[w]}
    BY <1>q, SuQueryControl
  <2>2. worker[w] \in WorkerTipo /\ Protocolo(worker[w], query[w])
    BY <1>0 DEF TypeOK, Coherente, WorkerCoherente
  <2>3. [worker[w] EXCEPT !.salida = Tail(@)] \in WorkerTipo
    BY <1>q, <2>2 DEF WorkerTipo
  <2>4. Recibido(w).query = query[w]
    BY <1>q, <2>2, <2>3, SaleRespuesta DEF Recibido
  <2> QED BY <1>0, <1>q, <2>1, <2>4 DEF Reenvia
<1>1. CASE Planificador
  <2>1. CASE PlanEnviaAsignacion
    <3>1. PICK w \in Workers : w = plan.w
      BY <1>0, <2>1 DEF PlanEnviaAsignacion, PlanValido
    <3> QED BY <1>w, <2>1, <3>1 DEF PlanEnviaAsignacion, Coherente, PlanCoherente, EntregaASuQC
  <2>2. CASE PlanDesaloja
    <3>1. PICK w \in Workers : w = plan.w
      BY <1>0, <2>2 DEF PlanDesaloja, PlanValido
    <3> QED BY <1>w, <2>2, <3>1 DEF PlanDesaloja, Coherente, PlanCoherente, EntregaASuQC
  <2> QED BY <1>0, <1>1, <2>1, <2>2 DEF Planificador, PlanDespierta, PlanBuscaWorker, PlanElige,
     PlanPasaAExec, PlanOcupaWorker, PlanMide, PlanEligeVictima, PlanLeeReady, PlanCompara,
     PlanBuscaVictima, varsQC, EntregaASuQC
<1>2. ASSUME NEW q \in Queries, ConectaQC(q) \/ HiloQC(q) \/ Envejece(q) PROVE EntregaASuQC'
  <2>1. CASE CancelaEnWorker(q)
    <3>1. ASSUME NEW w \in WorkerDe(q), EnviaAWorker(w, Paquete("FIN", q, 0)) PROVE ajenas' = {}
      BY <1>w, <3>1, WorkerDeConectado
    <3> QED BY <1>0, <2>1, <3>1 DEF CancelaEnWorker, EntregaASuQC
  <2> QED BY <1>0, <1>2, <2>1 DEF ConectaQC, HiloQC, DesconectaQC, RetiraDeReady, MiraSiEnExec,
     MarcaDesconexion, CierraQC, Envejece, varsQC, EntregaASuQC
<1>3. ASSUME NEW w \in Workers,
             ConectaWorker(w) \/ HiloWorker(w) \/ DesconectaWorker(w) \/ ProcesoWorker(w)
      PROVE  EntregaASuQC'
  <2>1. CASE RecibeRead(w)
    BY <1>0, <1>q, <2>1 DEF RecibeRead, EntregaASuQC
  <2>2. CASE RecibeResultado(w)
    BY <1>0, <1>q, <2>2 DEF RecibeResultado, NotificaResultado, EntregaASuQC
  <2>3. ~DesconectaWorker(w)
    BY DEF NadieSeVa, DesconectaWorker
  <2> QED BY <1>0, <1>3, <2>1, <2>2, <2>3 DEF ConectaWorker, HiloWorker, VuelveAReady, PasaAExit,
     LiberaWorker, TerminaPorCaida, QuitaWorker, ProcesoWorker, varsQC, EntregaASuQC
<1>4. CASE UNCHANGED vars
  BY <1>4 DEF vars, varsQC, EntregaASuQC
<1> QED BY <1>1, <1>2, <1>3, <1>4 DEF Next, EnReposo

\* While nobody leaves, nothing the Master sends reaches another connection: what the run
\* master_descriptor shows takes a Query Control or a Worker that leaves early.
THEOREM EntregaSinBajas == NadieSeVa => (Spec => []EntregaASuQC)
<1> SUFFICES ASSUME NadieSeVa PROVE Spec => []EntregaASuQC
  OBVIOUS
<1>1. IInv /\ DescriptorPorConexion /\ [Next]_vars => DescriptorPorConexion'
  BY NextDescriptorPorConexion
<1>2. IInv /\ Duenos /\ Coherente /\ DescriptorPorConexion /\ EnSuCiclo /\ [Next]_vars
        => EnSuCiclo'
  BY NextEnSuCiclo
<1>3. IInv /\ Duenos /\ Coherente /\ DescriptorPorConexion /\ EnSuCiclo /\ EntregaASuQC /\ [Next]_vars
        => EntregaASuQC'
  BY NextEntrega
<1>4. Spec => []DescriptoresPropios
  BY NadieHereda DEF NadieSeVa, SoloElUltimoCae
<1>5. Spec => Init /\ [][Next]_vars
  BY DEF Spec
<1>6. Init => DescriptorPorConexion /\ EnSuCiclo /\ EntregaASuQC
  BY InitEnSuCiclo DEF Init, EntregaASuQC
<1> QED BY <1>1, <1>2, <1>3, <1>4, <1>5, <1>6, Invariante, InitDuenos, NextDuenos,
           InitCoherente, NextCoherente, PTL

-----------------------------------------------------------------------------
(***************************************************************************)
(* No eviction is forgotten, while nobody leaves.  The scheduler compares  *)
(* one query of READY with one of EXEC and sends the cut several steps     *)
(* after; what it has measured stays true as long as nobody posts.         *)
(***************************************************************************)

\* The result of the Worker waits for its thread.
Respondido(r) == \E i \in DOMAIN r.salida : r.salida[i].op \in Resultados

\* A cut has reached the Worker, or will reach it, with its query: it will answer.
EnCamino(r) ==
    \/ Respondido(r) \/ (r.corte /\ r.query # NULL)
    \/ \E i \in DOMAIN r.entrada :
          r.entrada[i].op # "ASIGNAR" /\ (r.query # NULL \/ \E j \in Asignaciones(r) : j < i)

\* The Worker has to answer for a query.
Debe(r) == Ocupado(r) \/ Respondido(r)

\* Something comes to the Worker of its Master.
LEMMA LlegaPaquete ==
    ASSUME NEW r \in WorkerTipo, NEW m \in Pedidos,
           NEW s, s = [r EXCEPT !.entrada = Append(@, m)]
    PROVE  /\ Debe(r) => Debe(s)
           /\ EnCamino(r) => EnCamino(s)
           /\ m.op = "ASIGNAR" => Debe(s)
           /\ m.op # "ASIGNAR" /\ Debe(r) => EnCamino(s)
<1> DEFINE e == r.entrada
<1>1. /\ e \in Seq(Pedidos) /\ Len(e) \in Nat /\ DOMAIN e = 1..Len(e)
      /\ s.entrada = Append(e, m) /\ s.salida = r.salida /\ s.query = r.query /\ s.corte = r.corte
  BY DEF WorkerTipo
<1>2. /\ DOMAIN Append(e, m) = 1..(Len(e) + 1) /\ Append(e, m)[Len(e) + 1] = m
      /\ \A i \in 1..Len(e) : Append(e, m)[i] = e[i] /\ i \in 1..(Len(e) + 1) /\ i < Len(e) + 1
      /\ Len(e) + 1 \in 1..(Len(e) + 1)
  BY <1>1, AppendProperties
<1>3. Asignaciones(r) \subseteq Asignaciones(s) /\ Asignaciones(r) \subseteq 1..Len(e)
  BY <1>1, <1>2 DEF Asignaciones
<1>4. Respondido(s) <=> Respondido(r)
  BY <1>1 DEF Respondido
<1>5. Debe(r) => Debe(s)
  BY <1>1, <1>3, <1>4 DEF Debe, Ocupado
<1>6. ASSUME EnCamino(r) PROVE EnCamino(s)
  <2>1. CASE Respondido(r) \/ (r.corte /\ r.query # NULL)
    BY <2>1, <1>1, <1>4 DEF EnCamino
  <2>2. ASSUME NEW i \in DOMAIN e, e[i].op # "ASIGNAR",
               r.query # NULL \/ \E j \in Asignaciones(r) : j < i
        PROVE  EnCamino(s)
    <3>1. i \in DOMAIN s.entrada /\ s.entrada[i].op # "ASIGNAR"
      BY <1>1, <1>2, <2>2
    <3> QED BY <2>2, <1>1, <1>3, <3>1 DEF EnCamino
  <2> QED BY <1>6, <2>1, <2>2 DEF EnCamino
<1>7. m.op = "ASIGNAR" => Debe(s)
  BY <1>1, <1>2 DEF Debe, Ocupado, Asignaciones
<1>8. m.op # "ASIGNAR" /\ Debe(r) => EnCamino(s)
  <2>1. CASE Respondido(r)
    BY <2>1, <1>4 DEF EnCamino
  <2>2. ASSUME Ocupado(r), m.op # "ASIGNAR" PROVE EnCamino(s)
    <3>1. Len(e) + 1 \in DOMAIN s.entrada /\ s.entrada[Len(e) + 1].op # "ASIGNAR"
      BY <1>1, <1>2, <2>2
    <3>2. s.query # NULL \/ \E j \in Asignaciones(s) : j < Len(e) + 1
      BY <1>1, <1>2, <1>3, <2>2 DEF Ocupado
    <3> QED BY <3>1, <3>2 DEF EnCamino
  <2> QED BY <2>1, <2>2 DEF Debe
<1> QED BY <1>5, <1>6, <1>7, <1>8

\* Whatever the Worker does, it still has to answer, and will.
LEMMA PasoEnCamino ==
    ASSUME NEW r \in WorkerTipo, NEW s \in PasosWorker(r)
    PROVE  /\ Debe(r) => Debe(s)
           /\ EnCamino(r) => EnCamino(s)
<1>t. s \in WorkerTipo
  BY PasosWorkerTipo
<1>1. CASE s \in TomaAsignacion(r)
  <2>1. /\ r.entrada # << >> /\ Head(r.entrada).op = "ASIGNAR" /\ r.query = NULL
        /\ s = [r EXCEPT !.entrada = Tail(@), !.query = Head(r.entrada).query,
                         !.pc = Head(r.entrada).pc, !.corte = FALSE]
    BY <1>1 DEF TomaAsignacion
  <2>2. s.entrada = Tail(r.entrada) /\ s.query = Head(r.entrada).query /\ s.salida = r.salida
    BY <2>1 DEF WorkerTipo
  <2>3. s.query # NULL
    <3>1. r.entrada \in Seq(Pedidos) /\ Head(r.entrada) \in Pedidos
      BY <2>1, HeadTailProperties DEF WorkerTipo
    <3> QED BY <2>2, <3>1, ContratoSupuesto DEF Pedidos
  <2>4. Debe(s)
    BY <2>3 DEF Debe, Ocupado
  <2>5. ASSUME EnCamino(r) PROVE EnCamino(s)
    <3>1. CASE Respondido(r)
      BY <3>1, <2>2 DEF EnCamino, Respondido
    <3>2. ASSUME NEW i \in DOMAIN r.entrada, r.entrada[i].op # "ASIGNAR" PROVE EnCamino(s)
      <4>1. /\ r.entrada \in Seq(Pedidos) /\ Head(r.entrada) = r.entrada[1]
            /\ Len(Tail(r.entrada)) = Len(r.entrada) - 1 /\ Len(r.entrada) \in Nat
            /\ \A k \in 1..(Len(r.entrada) - 1) : Tail(r.entrada)[k] = r.entrada[k + 1]
            /\ Tail(r.entrada) \in Seq(Pedidos)
        BY <2>1, HeadTailProperties DEF WorkerTipo
      <4>2. i \in 1..Len(r.entrada) /\ i # 1
        BY <2>1, <3>2, <4>1, LenProperties
      <4>3. i - 1 \in DOMAIN s.entrada /\ s.entrada[i - 1] = r.entrada[i]
        BY <2>2, <4>1, <4>2, LenProperties
      <4> QED BY <2>3, <3>2, <4>3 DEF EnCamino
    <3> QED BY <2>1, <2>5, <3>1, <3>2 DEF EnCamino
  <2> QED BY <2>4, <2>5
<1>2. CASE s \in TomaCorte(r)
  <2>1. /\ r.entrada # << >> /\ s = [r EXCEPT !.entrada = Tail(@), !.corte = (r.query # NULL)]
        /\ Head(r.entrada).op # "ASIGNAR"
    BY <1>2 DEF TomaCorte
  <2>2. s.entrada = Tail(r.entrada) /\ s.query = r.query /\ s.salida = r.salida
        /\ s.corte = (r.query # NULL)
    BY <2>1 DEF WorkerTipo
  <2>3. /\ r.entrada \in Seq(Pedidos) /\ Head(r.entrada) = r.entrada[1]
        /\ Len(r.entrada) \in Nat /\ DOMAIN r.entrada = 1..Len(r.entrada)
        /\ DOMAIN s.entrada = 1..(Len(r.entrada) - 1)
        /\ \A k \in 1..(Len(r.entrada) - 1) : s.entrada[k] = r.entrada[k + 1]
    <3>1. r.entrada \in Seq(Pedidos)
      BY DEF WorkerTipo
    <3> QED BY <2>1, <2>2, <3>1, HeadTailProperties, LenProperties
  <2>4. \A k \in DOMAIN r.entrada : k # 1 => k - 1 \in DOMAIN s.entrada /\ s.entrada[k - 1] = r.entrada[k]
    BY <2>3
  <2>5. \A k \in Asignaciones(r) : k # 1 /\ k \in 1..Len(r.entrada) /\ k - 1 \in Asignaciones(s)
    BY <2>1, <2>3, <2>4 DEF Asignaciones
  <2>6. Respondido(r) <=> Respondido(s)
    BY <2>2 DEF Respondido
  <2>7. Debe(r) => Debe(s)
    BY <2>2, <2>5, <2>6 DEF Debe, Ocupado
  <2>8. ASSUME EnCamino(r) PROVE EnCamino(s)
    <3>1. CASE Respondido(r) \/ r.query # NULL
      BY <3>1, <2>2, <2>6 DEF EnCamino
    <3>2. ASSUME NEW i \in DOMAIN r.entrada, NEW j \in Asignaciones(r), j < i,
                 r.entrada[i].op # "ASIGNAR"
          PROVE  EnCamino(s)
      <4>1. j \in 1..Len(r.entrada) /\ i \in 1..Len(r.entrada) /\ j # 1 /\ j - 1 \in Asignaciones(s)
        BY <2>3, <2>5, <3>2
      <4>2. i # 1 /\ j - 1 < i - 1
        BY <3>2, <4>1
      <4>3. i - 1 \in DOMAIN s.entrada /\ s.entrada[i - 1].op # "ASIGNAR"
        BY <2>4, <3>2, <4>2
      <4> QED BY <4>1, <4>2, <4>3 DEF EnCamino
    <3> QED BY <2>8, <3>1, <3>2 DEF EnCamino
  <2> QED BY <2>7, <2>8
<1>3. CASE s \in EjecutaInstruccion(r)
  <2>1. /\ r.query # NULL /\ s.entrada = r.entrada /\ s.query = r.query /\ s.corte = r.corte
        /\ s.salida = r.salida \/ s.salida = Append(r.salida, Paquete("READ", r.query, r.pc))
    BY <1>3 DEF EjecutaInstruccion, WorkerTipo
  <2>2. \A m : /\ DOMAIN r.salida \subseteq DOMAIN Append(r.salida, m)
               /\ \A i \in DOMAIN r.salida : Append(r.salida, m)[i] = r.salida[i]
    BY AppendProperties, LenProperties DEF WorkerTipo
  <2>3. Respondido(r) => Respondido(s)
    BY <2>1, <2>2 DEF Respondido
  <2>4. Asignaciones(r) = Asignaciones(s)
    BY <2>1 DEF Asignaciones
  <2> QED BY <2>1, <2>3, <2>4 DEF Debe, Ocupado, EnCamino
<1>4. CASE s \in Responde(r)
  <2>1. PICK m \in ResultadosPosibles(r) :
           s = [r EXCEPT !.salida = Append(@, m), !.query = NULL, !.corte = FALSE, !.pc = 0]
    BY <1>4 DEF Responde
  <2>2. s.salida = Append(r.salida, m) /\ r.salida \in Seq(Respuestas) /\ m.op \in Resultados
    BY <2>1 DEF WorkerTipo, ResultadosPosibles, Resultados, Paquete
  <2>3. Len(r.salida) + 1 \in DOMAIN s.salida /\ s.salida[Len(r.salida) + 1] = m
    BY <2>2, AppendProperties, LenProperties
  <2> QED BY <2>2, <2>3 DEF Respondido, Debe, EnCamino
<1> QED BY <1>1, <1>2, <1>3, <1>4 DEF PasosWorker

\* The thread of the Worker forwards an OP_READ: the rest is as before.
LEMMA SaleLectura ==
    ASSUME NEW r \in WorkerTipo, r.salida # << >>, Head(r.salida).op = "READ",
           NEW s, s = [r EXCEPT !.salida = Tail(@)]
    PROVE  /\ Debe(r) => Debe(s)
           /\ EnCamino(r) => EnCamino(s)
<1>1. /\ s.entrada = r.entrada /\ s.query = r.query /\ s.corte = r.corte /\ s.salida = Tail(r.salida)
      /\ r.salida \in Seq(Respuestas)
  BY DEF WorkerTipo
<1>2. /\ Head(r.salida) = r.salida[1] /\ Len(r.salida) \in Nat
      /\ DOMAIN r.salida = 1..Len(r.salida) /\ DOMAIN s.salida = 1..(Len(r.salida) - 1)
      /\ \A k \in 1..(Len(r.salida) - 1) : s.salida[k] = r.salida[k + 1]
  BY <1>1, HeadTailProperties, LenProperties
<1>3. Respondido(r) => Respondido(s)
  <2> SUFFICES ASSUME NEW i \in DOMAIN r.salida, r.salida[i].op \in Resultados PROVE Respondido(s)
    BY DEF Respondido
  <2>1. i \in 1..Len(r.salida) /\ i # 1
    BY <1>2 DEF Resultados
  <2>2. i - 1 \in 1..(Len(r.salida) - 1) /\ s.salida[i - 1] = r.salida[(i - 1) + 1] /\ (i - 1) + 1 = i
    BY <1>2, <2>1
  <2> QED BY <1>2, <2>2 DEF Respondido
<1>4. Asignaciones(r) = Asignaciones(s)
  BY <1>1 DEF Asignaciones
<1> QED BY <1>1, <1>3, <1>4 DEF Debe, Ocupado, EnCamino

-----------------------------------------------------------------------------
\* What is sent to a Worker that is listening reaches it.
LEMMA LlegaA ==
    ASSUME NEW w \in Workers, hiloWorker[w] \in {"escucha", "aReady", "aExit", "libera"},
           NEW m, EnviaAWorker(w, m)
    PROVE  worker'[w] = [worker[w] EXCEPT !.entrada = Append(@, m)]
<1>1. w \in Destinatarios(w)
  BY DEF Destinatarios, Abiertas
<1> QED BY <1>1 DEF EnviaAWorker, Conectado

\* list_add keeps what the list holds, and adds.
LEMMA AppendConserva ==
    ASSUME NEW S, NEW s \in Seq(S), NEW e \in S, NEW x, Contains(s, x) \/ x = e
    PROVE  Contains(Append(s, e), x)
<1>1. /\ Len(Append(s, e)) = Len(s) + 1 /\ Append(s, e)[Len(s) + 1] = e /\ Len(s) \in Nat
      /\ \A j \in 1..Len(s) : Append(s, e)[j] = s[j]
  BY AppendProperties
<1> QED BY <1>1 DEF Contains

\* A Worker whose thread goes on listening still has what it had to answer.
LEMMA SigueEnCamino ==
    ASSUME NadieSeVa, IInv, Coherente, DescriptoresPropios, [Next]_vars,
           NEW w \in Workers, hiloWorker[w] = "escucha", hiloWorker'[w] = "escucha"
    PROVE  /\ Debe(worker[w]) => Debe(worker'[w])
           /\ EnCamino(worker[w]) => EnCamino(worker'[w])
<1> DEFINE Sigue == /\ Debe(worker[w]) => Debe(worker'[w])
                    /\ EnCamino(worker[w]) => EnCamino(worker'[w])
<1>0. TypeOK /\ worker[w] \in WorkerTipo /\ PlanValido(plan) /\ PlanCoherente
  BY DEF IInv, TypeOK, PunterosValidos, Coherente
<1>1. CASE worker'[w] = worker[w]
  BY <1>1
<1>2. ASSUME NEW v \in Workers, hiloWorker[v] # "nuevo", NEW m \in Pedidos, EnviaAWorker(v, m)
      PROVE  Sigue
  <2>1. CASE worker'[w] = [worker[w] EXCEPT !.entrada = Append(@, m)]
    BY <1>0, <2>1, LlegaPaquete
  <2> QED BY <1>0, <1>1, <1>2, <2>1, LlegaSoloA
<1>3. CASE Planificador
  <2>1. CASE PlanEnviaAsignacion
    <3>1. plan.w \in Workers /\ plan.q \in Queries /\ hiloWorker[plan.w] # "nuevo" /\ pc[plan.q] \in ProgramCounter
      BY <1>0, <2>1 DEF PlanEnviaAsignacion, PlanValido, PlanCoherente, TypeOK
    <3> QED BY <1>2, <2>1, <3>1, PaquetesTipo DEF PlanEnviaAsignacion
  <2>2. CASE PlanDesaloja
    <3>1. plan.w \in Workers /\ plan.v \in Queries /\ hiloWorker[plan.w] # "nuevo" /\ 0 \in ProgramCounter
      BY <1>0, <2>2, ContratoSupuesto DEF PlanDesaloja, PlanValido, PlanCoherente, ProgramCounter
    <3> QED BY <1>2, <2>2, <3>1, PaquetesTipo DEF PlanDesaloja
  <2> QED BY <1>1, <1>3, <2>1, <2>2 DEF Planificador, PlanDespierta, PlanBuscaWorker, PlanElige,
     PlanPasaAExec, PlanOcupaWorker, PlanMide, PlanEligeVictima, PlanLeeReady, PlanCompara,
     PlanBuscaVictima, varsWorker
<1>4. ASSUME NEW q \in Queries, ConectaQC(q) \/ HiloQC(q) \/ Envejece(q) PROVE Sigue
  <2>1. CASE CancelaEnWorker(q)
    <3>1. ASSUME NEW v \in WorkerDe(q), EnviaAWorker(v, Paquete("FIN", q, 0)) PROVE Sigue
      <4>1. v \in Workers /\ hiloWorker[v] # "nuevo" /\ 0 \in ProgramCounter
        BY WorkerDeConectado, ContratoSupuesto DEF ProgramCounter
      <4> QED BY <1>2, <3>1, <4>1, PaquetesTipo
    <3> QED BY <1>1, <2>1, <3>1 DEF CancelaEnWorker
  <2> QED BY <1>1, <1>4, <2>1 DEF ConectaQC, HiloQC, DesconectaQC, RetiraDeReady, MiraSiEnExec,
     MarcaDesconexion, CierraQC, Envejece, varsWorker
<1>5. ASSUME NEW v \in Workers,
             ConectaWorker(v) \/ HiloWorker(v) \/ DesconectaWorker(v) \/ ProcesoWorker(v)
      PROVE  Sigue
  <2>1. CASE v # w
    BY <1>1, <1>5, <2>1, WorkerSoloElSuyo
  <2>2. CASE v = w /\ ProcesoWorker(w)
    BY <1>0, <2>2, PasoEnCamino DEF ProcesoWorker, TypeOK
  <2>3. CASE v = w /\ RecibeRead(w)
    BY <1>0, <2>3, SaleLectura DEF RecibeRead, SinRecibido, Recibido, TypeOK
  <2>4. CASE v = w /\ RecibeResultado(w)
    BY <1>0, <2>4 DEF RecibeResultado, Destino, TypeOK
  <2> QED BY <1>0, <1>5, <2>1, <2>2, <2>3, <2>4 DEF ConectaWorker, SiguienteDe, HiloWorker, VuelveAReady,
       PasaAExit, LiberaWorker, TerminaPorCaida, QuitaWorker, DesconectaWorker, NadieSeVa
<1>6. CASE UNCHANGED vars
  BY <1>1, <1>6 DEF vars, varsWorker
<1> QED BY <1>3, <1>4, <1>5, <1>6 DEF Next, EnReposo

(***************************************************************************)
(* A query of EXEC has its Worker, which the list holds and has to answer; *)
(* between, the scheduler is about to give it one.                         *)
(***************************************************************************)

EnEjecucion ==
    /\ \A q \in Queries : estado[q] = "EXEC" =>
          \/ plan.pc = "asigna" /\ plan.q = q
          \/ \E w \in Workers : Dueno(w, q)
    /\ \A w \in Workers : hiloWorker[w] = "escucha" /\ query[w] \in Queries =>
          Debe(worker[w]) \/ (plan.pc = "envia" /\ plan.w = w)
    /\ \A w \in Workers : hiloWorker[w] # "nuevo" => Contains(listaWorkers, w)

\* Nobody is connected at the start.
LEMMA InitEnEjecucion == Init => EnEjecucion
  BY DEF Init, EnEjecucion

\* The list of Workers keeps every Worker that is connected.
LEMMA ListaCompleta ==
    ASSUME NadieSeVa, IInv, EnSuCiclo, EnEjecucion, [Next]_vars, NEW v \in Workers, hiloWorker'[v] # "nuevo"
    PROVE  Contains(listaWorkers', v)
<1>0. TypeOK /\ listaWorkers \in Seq(Workers) /\ (hiloWorker[v] # "nuevo" => Contains(listaWorkers, v))
  BY DEF IInv, TypeOK, EnEjecucion
<1>1. CASE UNCHANGED <<hiloWorker, listaWorkers>>
  BY <1>0, <1>1
<1>2. CASE Planificador
  BY <1>1, <1>2 DEF Planificador, PlanDespierta, PlanBuscaWorker, PlanElige, PlanEnviaAsignacion, PlanDesaloja,
     PlanPasaAExec, PlanOcupaWorker, PlanMide, PlanEligeVictima, PlanLeeReady, PlanCompara,
     PlanBuscaVictima, varsWorker
<1>3. ASSUME NEW q \in Queries, ConectaQC(q) \/ HiloQC(q) \/ Envejece(q) PROVE UNCHANGED <<hiloWorker, listaWorkers>>
  BY <1>3 DEF ConectaQC, HiloQC, DesconectaQC, RetiraDeReady, MiraSiEnExec,
     MarcaDesconexion, CancelaEnWorker, CierraQC, Envejece, varsWorker
<1>4. ASSUME NEW w \in Workers,
             ConectaWorker(w) \/ HiloWorker(w) \/ DesconectaWorker(w) \/ ProcesoWorker(w)
      PROVE  Contains(listaWorkers', v)
  <2>1. CASE ConectaWorker(w)
    <3>1. listaWorkers' = Append(listaWorkers, w) /\ (v = w \/ hiloWorker'[v] = hiloWorker[v])
      BY <1>0, <2>1 DEF ConectaWorker, TypeOK
    <3> QED BY <1>0, <3>1, AppendConserva
  <2>2. hiloWorker[w] \notin {"termina", "quita", "fin"} /\ ~DesconectaWorker(w)
    BY DEF EnSuCiclo, NadieSeVa, DesconectaWorker
  <2>3. CASE ~ConectaWorker(w)
    <3>1. listaWorkers' = listaWorkers /\ hiloWorker[w] # "nuevo"
      BY <1>4, <2>2, <2>3 DEF HiloWorker, RecibeRead, RecibeResultado, VuelveAReady, PasaAExit, LiberaWorker,
         TerminaPorCaida, QuitaWorker, ProcesoWorker, Conectado
    <3>2. v = w \/ hiloWorker'[v] = hiloWorker[v]
      BY <1>4, WorkerSoloElSuyo
    <3> QED BY <1>0, <3>1, <3>2
  <2> QED BY <2>1, <2>3
<1> QED BY <1>1, <1>2, <1>3, <1>4 DEF Next, EnReposo, vars, varsWorker

\* Most steps of the scheduler only look.
LEMMA SoloMueveElPlan ==
    ASSUME PlanDespierta \/ PlanBuscaWorker \/ PlanElige \/ PlanMide \/ PlanEligeVictima \/ PlanLeeReady
           \/ PlanCompara \/ PlanBuscaVictima
    PROVE  /\ algoritmo' = algoritmo /\ varsQuery' = varsQuery /\ varsWorker' = varsWorker
           /\ plan.pc \notin {"exec", "asigna", "envia", "desaloja"}
<1>1. algoritmo' = algoritmo /\ varsQuery' = varsQuery /\ varsWorker' = varsWorker
  BY Zenon DEF PlanDespierta, PlanBuscaWorker, PlanElige, PlanMide, PlanEligeVictima, PlanLeeReady,
     PlanCompara, PlanBuscaVictima
<1>2. plan.pc \in {"espera", "libre", "elige", "mide", "victima", "pReady", "compara", "busca"}
  BY Zenon DEF PlanDespierta, PlanBuscaWorker, PlanElige, PlanMide, PlanEligeVictima, PlanLeeReady,
     PlanCompara, PlanBuscaVictima
<1> QED BY <1>1, <1>2

\* And none moves the thread of a Worker.
LEMMA PlanificadorSinHilos ==
    ASSUME Planificador
    PROVE  hiloWorker' = hiloWorker /\ prioridad' = prioridad /\ algoritmo' = algoritmo
<1>1. PlanPasaAExec \/ PlanOcupaWorker \/ PlanEnviaAsignacion \/ PlanDesaloja
        => hiloWorker' = hiloWorker /\ prioridad' = prioridad /\ algoritmo' = algoritmo
  BY DEF PlanPasaAExec, PlanOcupaWorker, PlanEnviaAsignacion, PlanDesaloja, varsQuery, varsWorker
<1> QED BY <1>1, SoloMueveElPlan DEF Planificador, varsQuery, varsWorker

\* A step of the scheduler.
LEMMA PlanificadorEnEjecucion ==
    ASSUME IInv, Coherente, DescriptoresPropios, EnSuCiclo, EnEjecucion, Planificador
    PROVE  /\ \A q \in Queries : estado'[q] = "EXEC" =>
                 (plan.pc = "asigna" /\ plan.q = q)' \/ \E w \in Workers : Dueno(w, q)'
           /\ \A w \in Workers : hiloWorker'[w] = "escucha" /\ query'[w] \in Queries /\ ~Debe(worker'[w]) =>
                 (plan.pc = "envia" /\ plan.w = w)' \/ Debe(worker[w])
<1>a. hiloWorker' = hiloWorker
  BY PlanificadorSinHilos
<1>0. /\ TypeOK /\ PlanValido(plan) /\ plan \in PlanTipo /\ hiloWorker' = hiloWorker /\ PlanCoherente
      /\ ListasConsistentes
  BY <1>a DEF IInv, PunterosValidos, PlanValido, Coherente
\* A step that only moves the scheduler.
<1>q. CASE UNCHANGED <<estado, query, worker>> /\ plan.pc \notin {"asigna", "envia"}
  BY <1>0, <1>q DEF EnEjecucion, Dueno, Atiende
<1>1. CASE PlanPasaAExec
  <2>1. plan.pc = "exec" /\ plan.q \in Queries /\ plan'.pc = "asigna" /\ plan'.q = plan.q
        /\ UNCHANGED <<query, worker>>
    BY <1>0, <1>1 DEF PlanPasaAExec, PlanValido, PlanTipo, varsWorker
  <2>2. \A q \in Queries : q # plan.q => estado'[q] = estado[q]
    BY <1>0, <1>1, <2>1, actualizarEstadoQueryEfecto DEF PlanPasaAExec
  <2> QED BY <1>0, <2>1, <2>2 DEF EnEjecucion, Dueno, Atiende
<1>2. CASE PlanOcupaWorker
  <2>0. PICK v \in Workers, p \in Queries : v = plan.w /\ p = plan.q
    BY <1>0, <1>2 DEF PlanOcupaWorker, PlanValido
  <2>1. /\ plan.pc = "asigna" /\ plan'.pc = "envia" /\ plan'.w = v /\ UNCHANGED <<estado, worker>>
        /\ query'[v] = p /\ \A w \in Workers : w # v => query'[w] = query[w]
    BY <1>0, <1>2, <2>0 DEF PlanOcupaWorker, PlanTipo, varsQuery, TypeOK
  <2>2. hiloWorker[v] \in Conectado
    BY <1>0, <2>0, <2>1 DEF TypeOK, PlanCoherente, EnSuCiclo, Conectado
  <2>3. query[v] = NULL /\ hiloWorker[v] = "escucha"
    BY <1>0, <2>0, <2>1, <2>2, ContratoSupuesto DEF PlanCoherente, Coherente, WorkerCoherente, Conectado
  <2>4. Dueno(v, p)'
    BY <1>0, <2>1, <2>3 DEF Dueno, Atiende
  <2>5. ASSUME NEW q \in Queries, estado'[q] = "EXEC", q # p PROVE \E w \in Workers : Dueno(w, q)'
    <3>1. PICK w \in Workers : Dueno(w, q)
      BY <2>0, <2>1, <2>5 DEF EnEjecucion
    <3>2. w # v
      BY <2>3, <3>1, ContratoSupuesto DEF Dueno
    <3> QED BY <1>0, <2>1, <3>1, <3>2 DEF Dueno, Atiende
  <2>6. ASSUME NEW w \in Workers, w # v, hiloWorker'[w] = "escucha", query'[w] \in Queries PROVE Debe(worker[w])
    BY <1>0, <2>1, <2>6 DEF EnEjecucion
  <2> QED BY <2>1, <2>4, <2>5, <2>6
<1>3. CASE PlanEnviaAsignacion
  <2>1. /\ plan.pc = "envia" /\ plan.q \in Queries /\ plan.w \in Workers /\ UNCHANGED <<estado, query>>
        /\ pc[plan.q] \in ProgramCounter
    BY <1>0, <1>3 DEF PlanEnviaAsignacion, PlanValido, varsQuery, TypeOK
  <2>2. hiloWorker[plan.w] \in {"escucha", "aReady", "aExit", "libera"}
    BY <1>0, <2>1 DEF TypeOK, PlanCoherente, EnSuCiclo
  <2>3. worker'[plan.w] = [worker[plan.w] EXCEPT !.entrada = Append(@, Paquete("ASIGNAR", plan.q, pc[plan.q]))]
    BY <1>3, <2>1, <2>2, LlegaA DEF PlanEnviaAsignacion
  <2>4. Paquete("ASIGNAR", plan.q, pc[plan.q]) \in Pedidos /\ worker[plan.w] \in WorkerTipo
        /\ Paquete("ASIGNAR", plan.q, pc[plan.q]).op = "ASIGNAR"
    BY <1>0, <2>1, PaquetesTipo DEF TypeOK, Paquete
  <2>5. Debe(worker'[plan.w])
    BY <2>3, <2>4, LlegaPaquete
  <2> QED BY <1>0, <2>1, <2>5 DEF EnEjecucion, Dueno, Atiende
<1>4. CASE PlanDesaloja
  BY <1>0, <1>4 DEF PlanDesaloja, varsQuery, EnEjecucion, Dueno, Atiende
<1>5. CASE PlanDespierta \/ PlanBuscaWorker \/ PlanElige \/ PlanMide \/ PlanEligeVictima \/ PlanLeeReady
           \/ PlanCompara \/ PlanBuscaVictima
  BY <1>0, <1>5, <1>q, SoloMueveElPlan DEF varsQuery, varsWorker
<1> QED BY <1>1, <1>2, <1>3, <1>4, <1>5 DEF Planificador

\* A step of any other thread.
LEMMA OtrosEnEjecucion ==
    ASSUME NadieSeVa, IInv, Coherente, EnSuCiclo,
           \/ \E q \in Queries : ConectaQC(q) \/ HiloQC(q) \/ Envejece(q)
           \/ \E w \in Workers : ConectaWorker(w) \/ HiloWorker(w) \/ DesconectaWorker(w) \/ ProcesoWorker(w)
    PROVE  /\ plan' = plan
           /\ \A q \in Queries : estado'[q] = "EXEC" => estado[q] = "EXEC"
           /\ \A q \in Queries, w \in Workers : estado'[q] = "EXEC" /\ Dueno(w, q) => Dueno(w, q)'
           /\ \A w \in Workers : hiloWorker'[w] = "escucha" /\ query'[w] \in Queries =>
                 hiloWorker[w] = "escucha" /\ query'[w] = query[w]
<1>0. TypeOK /\ ListasConsistentes
  BY DEF IInv
<1>1. ASSUME NEW q \in Queries, ConectaQC(q) \/ HiloQC(q) \/ Envejece(q)
      PROVE  /\ UNCHANGED <<plan, query, hiloWorker>>
             /\ \A p \in Queries : estado'[p] = "EXEC" => estado[p] = "EXEC"
  <2>1. ~RetiraDeReady(q)
    BY DEF RetiraDeReady, EnSuCiclo
  <2> QED BY <1>0, <1>1, <2>1 DEF ConectaQC, HiloQC, DesconectaQC, MiraSiEnExec, MarcaDesconexion,
        CancelaEnWorker, CierraQC, Envejece, varsQuery, varsWorker, TypeOK
<1>2. ASSUME NEW w \in Workers,
             ConectaWorker(w) \/ HiloWorker(w) \/ DesconectaWorker(w) \/ ProcesoWorker(w)
      PROVE  /\ \A p \in Queries : estado'[p] = "EXEC" => estado[p] = "EXEC"
             /\ \A p \in Queries : estado'[p] = "EXEC" /\ Dueno(w, p) => Dueno(w, p)'
             /\ hiloWorker'[w] = "escucha" /\ query'[w] \in Queries =>
                   hiloWorker[w] = "escucha" /\ query'[w] = query[w]
  <2>1. hiloWorker[w] \notin {"termina", "quita", "fin"} /\ ~DesconectaWorker(w)
    BY DEF EnSuCiclo, NadieSeVa, DesconectaWorker
  <2>2. CASE ConectaWorker(w)
    <3>1. PICK p \in PunterosSinInicializar : query' = [query EXCEPT ![w] = p]
      BY <2>2 DEF ConectaWorker
    <3>2. query'[w] \notin Queries
      BY <1>0, <3>1, MasterSupuesto, ContratoSupuesto DEF TypeOK
    <3>3. hiloWorker[w] = "nuevo" /\ estado' = estado
      BY <2>2 DEF ConectaWorker, SiguienteDe, varsQuery
    <3> QED BY <3>2, <3>3 DEF Dueno, Atiende
  <2>3. CASE RecibeRead(w) \/ ProcesoWorker(w)
    BY <2>3 DEF RecibeRead, ProcesoWorker, varsQuery, Dueno, Atiende
  <2>4. CASE RecibeResultado(w)
    <3>1. /\ UNCHANGED <<estado, query>>
          /\ hiloWorker'[w] = IF query[w] \in Queries THEN Destino(Recibido(w).op, query[w]) ELSE "libera"
      BY <1>0, <2>4 DEF RecibeResultado, TypeOK
    <3> QED BY <3>1 DEF Destino, Dueno, Atiende
  <2>5. CASE VuelveAReady(w) \/ PasaAExit(w)
    <3>1. /\ query[w] \in Queries /\ query' = query /\ hiloWorker'[w] = "libera"
          /\ actualizarEstadoQuery(query[w], "READY") \/ actualizarEstadoQuery(query[w], "EXIT")
          /\ hiloWorker[w] \in {"aReady", "aExit"}
      BY <1>0, <2>5 DEF VuelveAReady, PasaAExit, TypeOK, IInv, PunterosValidos
    <3>2. Dueno(w, query[w])
      BY <3>1 DEF Dueno, Atiende
    <3>3. estado[query[w]] = "EXEC"
      BY <3>1, <3>2 DEF EnSuCiclo
    <3>4. estado'[query[w]] # "EXEC" /\ \A p \in Queries : p # query[w] => estado'[p] = estado[p]
      BY <1>0, <3>1, <3>3, actualizarEstadoQueryEfecto
    <3> QED BY <3>1, <3>4 DEF Dueno
  <2>6. CASE LiberaWorker(w)
    <3>1. hiloWorker[w] = "libera" /\ query'[w] = NULL /\ estado' = estado
      BY <1>0, <2>6 DEF LiberaWorker, SinQuery, varsQuery, TypeOK
    <3> QED BY <3>1, ContratoSupuesto DEF Dueno, Atiende
  <2> QED BY <1>2, <2>1, <2>2, <2>3, <2>4, <2>5, <2>6 DEF HiloWorker, TerminaPorCaida, QuitaWorker
<1>3. CASE \E q \in Queries : ConectaQC(q) \/ HiloQC(q) \/ Envejece(q)
  BY <1>1, <1>3 DEF Dueno, Atiende
<1>4. CASE \E w \in Workers : ConectaWorker(w) \/ HiloWorker(w) \/ DesconectaWorker(w) \/ ProcesoWorker(w)
  <2>1. PICK w \in Workers : ConectaWorker(w) \/ HiloWorker(w) \/ DesconectaWorker(w) \/ ProcesoWorker(w)
    BY <1>4
  <2>2. plan' = plan /\ \A v \in Workers \ {w} : query'[v] = query[v] /\ hiloWorker'[v] = hiloWorker[v]
    BY <2>1, WorkerSoloElSuyo
  <2>3. \A v \in Workers \ {w}, p \in Queries : Dueno(v, p) => Dueno(v, p)'
    BY <2>2 DEF Dueno, Atiende
  <2> QED BY <1>2, <2>1, <2>2, <2>3
<1> QED BY <1>3, <1>4

\* Every step keeps it.
LEMMA NextEnEjecucion ==
    ASSUME NadieSeVa, IInv, Coherente, DescriptoresPropios, EnSuCiclo, EnEjecucion, [Next]_vars
    PROVE  EnEjecucion'
<1>1. \A w \in Workers : hiloWorker[w] = "escucha" /\ hiloWorker'[w] = "escucha" /\ Debe(worker[w])
                           => Debe(worker'[w])
  BY SigueEnCamino
<1>2. \A w \in Workers : hiloWorker'[w] # "nuevo" => Contains(listaWorkers', w)
  BY ListaCompleta
<1>3. CASE Planificador
  <2>1. hiloWorker' = hiloWorker
    BY <1>3, PlanificadorSinHilos
  <2>2. \A q \in Queries : estado'[q] = "EXEC" =>
           (plan.pc = "asigna" /\ plan.q = q)' \/ \E w \in Workers : Dueno(w, q)'
    BY <1>3, PlanificadorEnEjecucion
  <2>3. \A w \in Workers : hiloWorker'[w] = "escucha" /\ query'[w] \in Queries /\ ~Debe(worker'[w]) =>
           (plan.pc = "envia" /\ plan.w = w)' \/ Debe(worker[w])
    BY <1>3, PlanificadorEnEjecucion
  <2> QED BY <1>1, <1>2, <2>1, <2>2, <2>3 DEF EnEjecucion
<1>4. CASE \/ \E q \in Queries : ConectaQC(q) \/ HiloQC(q) \/ Envejece(q)
           \/ \E w \in Workers : ConectaWorker(w) \/ HiloWorker(w) \/ DesconectaWorker(w) \/ ProcesoWorker(w)
  <2>1. /\ plan' = plan
        /\ \A q \in Queries : estado'[q] = "EXEC" => estado[q] = "EXEC"
        /\ \A q \in Queries, w \in Workers : estado'[q] = "EXEC" /\ Dueno(w, q) => Dueno(w, q)'
        /\ \A w \in Workers : hiloWorker'[w] = "escucha" /\ query'[w] \in Queries =>
              hiloWorker[w] = "escucha" /\ query'[w] = query[w]
    BY <1>4, OtrosEnEjecucion
  <2>2. \A q \in Queries : estado'[q] = "EXEC" =>
           (plan.pc = "asigna" /\ plan.q = q)' \/ \E w \in Workers : Dueno(w, q)'
    BY <2>1 DEF EnEjecucion
  <2>3. \A w \in Workers : hiloWorker'[w] = "escucha" /\ query'[w] \in Queries =>
           Debe(worker'[w]) \/ (plan.pc = "envia" /\ plan.w = w)'
    BY <1>1, <2>1 DEF EnEjecucion
  <2> QED BY <1>2, <2>2, <2>3 DEF EnEjecucion
<1>5. CASE UNCHANGED vars
  BY <1>5 DEF vars, varsQuery, varsWorker, EnEjecucion, Dueno, Atiende
<1> QED BY <1>3, <1>4, <1>5 DEF Next, EnReposo

(***************************************************************************)
(* What the scheduler has measured, while nobody has posted since.         *)
(***************************************************************************)

Quieto == algoritmo = "PRIORIDADES" /\ sem = 0 /\ \A w \in Workers : hiloWorker[w] # "libera"

\* No query of READY beats q.
Menor(q) == \A r \in EnReady : prioridad[q] <= prioridad[r]

\* None beats all those of EXEC: there is no need to evict.
Calma == \A r \in EnReady : \E x \in Queries : estado[x] = "EXEC" /\ prioridad[x] <= prioridad[r]

\* The victim is being answered for.
Atendido ==
    \A v \in obtener_query_menos_prioritaria_ejecutandose :
        \E w \in Workers : query[w] = v /\ (hiloWorker[w] # "escucha" \/ EnCamino(worker[w]))

Mediciones ==
    /\ plan.pc \in {"exec", "victima", "pReady", "compara", "busca", "desaloja"} => Menor(plan.q)
    /\ plan.pc \in {"asigna", "envia"} => Calma
    /\ plan.pc \in {"pReady", "compara", "busca", "desaloja"} =>
          plan.v \in obtener_query_menos_prioritaria_ejecutandose
    /\ plan.pc = "compara" => plan.p = prioridad[plan.q]
    /\ plan.pc = "desaloja" => query[plan.w] = plan.v
    /\ plan.pc = "espera" => Calma \/ Atendido

Medido == Quieto => Mediciones

\* list_find finds one.
LEMMA PrimeroDeUnico ==
    ASSUME NEW T, NEW s \in Seq(T), NEW S, NEW x \in PrimeroDe(s, S), NEW y \in PrimeroDe(s, S)
    PROVE  x = y
<1>1. PICK i \in 1..Len(s) : s[i] = x /\ \A k \in 1..(i - 1) : s[k] \notin S
  BY LenProperties DEF PrimeroDe
<1>2. PICK j \in 1..Len(s) : s[j] = y /\ \A k \in 1..(j - 1) : s[k] \notin S
  BY LenProperties DEF PrimeroDe
<1>3. x \in S /\ y \in S /\ i \in Nat /\ j \in Nat /\ i >= 1 /\ j >= 1
  BY LenProperties DEF PrimeroDe
<1>4. ~(i < j) /\ ~(j < i)
  BY <1>1, <1>2, <1>3
<1> QED BY <1>1, <1>2, <1>3, <1>4

\* The victim is one query of EXEC, of the lowest number.
LEMMA LaVictima ==
    ASSUME IInv
    PROVE  /\ \A v \in obtener_query_menos_prioritaria_ejecutandose :
                 /\ v \in Queries /\ estado[v] = "EXEC"
                 /\ \A x \in Queries : estado[x] = "EXEC" => prioridad[v] <= prioridad[x]
                 /\ \A u \in obtener_query_menos_prioritaria_ejecutandose : u = v
<1> DEFINE s == listas["EXEC"]
<1>1. TypeOK /\ s \in Seq(Queries) /\ \A q \in Queries : Contains(s, q) <=> estado[q] = "EXEC"
  BY DEF IInv, TypeOK, ListasConsistentes, Estados
<1>2. ToSet(s) \subseteq Queries /\ \A q \in Queries : q \in ToSet(s) <=> estado[q] = "EXEC"
  BY <1>1, LenProperties DEF ToSet, Contains
<1>3. ASSUME NEW v \in SegunComparador(s)
      PROVE  v \in ToSet(s) /\ \A x \in ToSet(s) : prioridad[v] <= prioridad[x]
  BY DEF SegunComparador, PrimeroDe
<1>4. ASSUME NEW v \in SegunComparador(s), NEW u \in SegunComparador(s) PROVE u = v
  BY <1>1, PrimeroDeUnico DEF SegunComparador
<1> QED BY <1>2, <1>3, <1>4 DEF obtener_query_menos_prioritaria_ejecutandose

\* With priorities, no query of READY beats the next one.
LEMMA SiguienteMenor ==
    ASSUME IInv, algoritmo = "PRIORIDADES", NEW q \in obtener_siguiente_query
    PROVE  q \in EnReady /\ Menor(q)
<1> DEFINE s == listas["READY"]
<1>1. TypeOK /\ s \in Seq(Queries) /\ \A r \in Queries : Contains(s, r) <=> estado[r] = "READY"
  BY DEF IInv, TypeOK, ListasConsistentes, Estados
<1>2. ASSUME NEW r \in EnReady PROVE r \in ToSet(s)
  <2>1. Contains(s, r)
    BY <1>1 DEF EnReady
  <2> QED BY <1>1, <2>1, LenProperties DEF ToSet, Contains
<1>3. \A r \in ToSet(s) : prioridad[q] <= prioridad[r]
  BY DEF obtener_siguiente_query, SegunComparador, PrimeroDe
<1> QED BY <1>2, <1>3, SiguienteQuery DEF Menor

\* Without a post, the other threads change nothing that was measured.
LEMMA OtrosCallan ==
    ASSUME NadieSeVa, IInv, EnSuCiclo, Quieto',
           \/ \E q \in Queries : ConectaQC(q) \/ HiloQC(q) \/ Envejece(q)
           \/ \E w \in Workers : ConectaWorker(w) \/ HiloWorker(w) \/ DesconectaWorker(w) \/ ProcesoWorker(w)
    PROVE  Quieto /\ UNCHANGED <<estado, prioridad, query, listas, plan>>
<1>0. TypeOK /\ sem \in Nat /\ sem' = 0 /\ algoritmo' = "PRIORIDADES"
      /\ \A w \in Workers : hiloWorker'[w] # "libera"
  BY DEF IInv, TypeOK, Quieto
<1>1. ASSUME NEW q \in Queries, ConectaQC(q) \/ HiloQC(q) \/ Envejece(q)
      PROVE  UNCHANGED <<estado, prioridad, query, listas, plan, algoritmo, sem, hiloWorker>>
  <2>1. ~RetiraDeReady(q)
    BY DEF RetiraDeReady, EnSuCiclo
  <2>2. ~ConectaQC(q) /\ ~Envejece(q)
    BY <1>0 DEF ConectaQC, Envejece, AvisoDeAging
  <2> QED BY <1>1, <2>1, <2>2 DEF HiloQC, DesconectaQC, MiraSiEnExec, MarcaDesconexion,
        CancelaEnWorker, CierraQC, varsQuery, varsWorker
<1>2. ASSUME NEW w \in Workers,
             ConectaWorker(w) \/ HiloWorker(w) \/ DesconectaWorker(w) \/ ProcesoWorker(w)
      PROVE  /\ UNCHANGED <<estado, prioridad, query, listas, plan, algoritmo, sem>>
             /\ hiloWorker[w] # "libera" /\ \A v \in Workers \ {w} : hiloWorker[v] = hiloWorker'[v]
  <2>1. hiloWorker[w] \notin {"termina", "quita", "fin"} /\ ~DesconectaWorker(w)
    BY DEF EnSuCiclo, NadieSeVa, DesconectaWorker
  <2>2. ~ConectaWorker(w) /\ ~VuelveAReady(w) /\ ~LiberaWorker(w)
    BY <1>0 DEF ConectaWorker, VuelveAReady, LiberaWorker, AvisoDeWorkerLibre
  <2>3. ~PasaAExit(w)
    BY <1>0 DEF PasaAExit, TypeOK
  <2>4. \A v \in Workers \ {w} : hiloWorker[v] = hiloWorker'[v]
    BY <1>2, WorkerSoloElSuyo
  <2>5. CASE RecibeRead(w)
    BY <1>0, <2>4, <2>5 DEF RecibeRead, varsQuery
  <2>6. CASE RecibeResultado(w)
    <3>1. UNCHANGED <<estado, prioridad, query, listas, plan, algoritmo, sem>> /\ hiloWorker[w] = "escucha"
      BY <2>6 DEF RecibeResultado
    <3> QED BY <2>4, <3>1
  <2>7. CASE ProcesoWorker(w)
    BY <1>0, <2>4, <2>7 DEF ProcesoWorker, varsQuery
  <2> QED BY <1>2, <2>1, <2>2, <2>3, <2>5, <2>6, <2>7 DEF HiloWorker, TerminaPorCaida, QuitaWorker
<1>3. CASE \E q \in Queries : ConectaQC(q) \/ HiloQC(q) \/ Envejece(q)
  BY <1>0, <1>1, <1>3 DEF Quieto
<1>4. CASE \E w \in Workers : ConectaWorker(w) \/ HiloWorker(w) \/ DesconectaWorker(w) \/ ProcesoWorker(w)
  <2>1. PICK w \in Workers : ConectaWorker(w) \/ HiloWorker(w) \/ DesconectaWorker(w) \/ ProcesoWorker(w)
    BY <1>4
  <2> QED BY <1>0, <1>2, <2>1 DEF Quieto
<1> QED BY <1>3, <1>4

\* So they keep what was measured.
LEMMA OtrosMedido ==
    ASSUME NadieSeVa, IInv, Coherente, DescriptoresPropios, EnSuCiclo, Medido, Quieto', [Next]_vars,
           \/ \E q \in Queries : ConectaQC(q) \/ HiloQC(q) \/ Envejece(q)
           \/ \E w \in Workers : ConectaWorker(w) \/ HiloWorker(w) \/ DesconectaWorker(w) \/ ProcesoWorker(w)
    PROVE  Mediciones'
<1>1. Mediciones /\ UNCHANGED <<estado, prioridad, query, listas, plan>>
  BY OtrosCallan DEF Medido
<1>2. /\ EnReady' = EnReady /\ (Calma => Calma')
      /\ obtener_query_menos_prioritaria_ejecutandose' = obtener_query_menos_prioritaria_ejecutandose
      /\ \A q \in Queries : Menor(q) => Menor(q)'
  BY <1>1 DEF EnReady, Calma, Menor, obtener_query_menos_prioritaria_ejecutandose, SegunComparador
<1>3. Atendido => Atendido'
  <2> SUFFICES ASSUME Atendido, NEW v \in obtener_query_menos_prioritaria_ejecutandose
               PROVE  \E w \in Workers : query'[w] = v /\ (hiloWorker'[w] # "escucha" \/ EnCamino(worker'[w]))
    BY <1>2 DEF Atendido
  <2>1. PICK w \in Workers : query[w] = v /\ (hiloWorker[w] # "escucha" \/ EnCamino(worker[w]))
    BY DEF Atendido
  <2>2. v \in Queries
    BY LaVictima
  <2>3. hiloWorker'[w] = "escucha" => hiloWorker[w] = "escucha"
    BY <1>1, <2>1, <2>2, OtrosEnEjecucion
  <2>4. hiloWorker'[w] = "escucha" => EnCamino(worker'[w])
    BY <2>1, <2>3, SigueEnCamino
  <2> QED BY <1>1, <2>1, <2>4
<1>4. PlanValido(plan)
  BY DEF IInv, PunterosValidos
<1> QED BY <1>1, <1>2, <1>3, <1>4 DEF Mediciones, PlanValido, Menor

\* A step of the scheduler: what it measures, it measures right.
LEMMA PlanificadorMedido ==
    ASSUME IInv, Coherente, DescriptoresPropios, EnSuCiclo, EnEjecucion, Medido, Quieto', Planificador
    PROVE  Mediciones'
<1> DEFINE V == obtener_query_menos_prioritaria_ejecutandose
<1>0. /\ TypeOK /\ ListasConsistentes /\ PlanValido(plan) /\ plan \in PlanTipo /\ PlanCoherente
      /\ algoritmo = "PRIORIDADES" /\ \A w \in Workers : hiloWorker[w] # "libera"
      /\ UNCHANGED <<hiloWorker, prioridad, algoritmo>>
  <2>1. UNCHANGED <<hiloWorker, prioridad, algoritmo>>
    BY PlanificadorSinHilos
  <2> QED BY <2>1 DEF IInv, PunterosValidos, PlanValido, Coherente, Quieto
<1>e. EnEspera.pc = "espera"
  BY DEF EnEspera
\* A step that only moves the scheduler.
<1>m. ASSUME sem' = sem
      PROVE  Mediciones
  BY <1>0, <1>m DEF Medido, Quieto
<1>u. ASSUME varsQuery' = varsQuery, varsWorker' = varsWorker
      PROVE  /\ EnReady' = EnReady /\ V' = V /\ (Calma => Calma') /\ (Atendido => Atendido')
             /\ \A q \in Queries : Menor(q) => Menor(q)'
             /\ query' = query
  BY <1>0, <1>u DEF EnReady, Calma, Menor, Atendido, obtener_query_menos_prioritaria_ejecutandose,
     SegunComparador, varsQuery, varsWorker
<1>c. ASSUME plan'.pc = "espera", (Calma \/ Atendido)' PROVE Mediciones'
  BY <1>c DEF Mediciones
<1>s. ASSUME NEW q \in obtener_siguiente_query PROVE q \in Queries /\ Menor(q)
  BY <1>0, SiguienteMenor DEF EnReady
<1>n. obtener_siguiente_query = {} \/ listas["READY"] = << >> => Calma
  BY SiguienteQuery DEF Calma
<1>v. ASSUME V = {} PROVE Atendido
  BY <1>v DEF Atendido
<1>1. CASE PlanDespierta
  <2>1. varsQuery' = varsQuery /\ varsWorker' = varsWorker /\ plan.pc = "espera"
    BY <1>1 DEF PlanDespierta
  <2>2. CASE listas["READY"] = << >>
    BY <1>1, <1>u, <1>c, <1>n, <2>1, <2>2 DEF PlanDespierta
  <2>3. CASE listas["READY"] # << >>
    <3>1. plan'.pc = "libre"
      BY <1>0, <1>1, <2>3 DEF PlanDespierta, PlanTipo
    <3> QED BY <3>1 DEF Mediciones
  <2> QED BY <2>2, <2>3
<1>2. CASE PlanBuscaWorker
  <2>1. varsQuery' = varsQuery /\ varsWorker' = varsWorker /\ plan.pc = "libre"
    BY <1>2, Zenon DEF PlanBuscaWorker
  <2>2. CASE \E w \in obtener_worker_libre : plan' = [plan EXCEPT !.pc = "elige", !.w = w]
    <3>1. PICK w : plan' = [plan EXCEPT !.pc = "elige", !.w = w]
      BY Zenon, <2>2
    <3>2. plan'.pc = "elige"
      BY <1>0, <3>1 DEF PlanTipo
    <3> QED BY <3>2 DEF Mediciones
  <2>3. CASE plan' = [plan EXCEPT !.pc = "mide"]
    <3>1. plan'.pc = "mide"
      BY <1>0, <2>3 DEF PlanTipo
    <3> QED BY <3>1 DEF Mediciones
  <2>4. CASE listaWorkers = << >> /\ plan' = EnEspera
    <3>1. \A w \in Workers : hiloWorker[w] = "nuevo"
      BY <2>4 DEF EnEjecucion, Contains
    <3>2. \A q \in Queries : estado[q] # "EXEC"
      BY <2>1, <3>1 DEF EnEjecucion, Dueno, Atiende
    <3>3. V = {}
      BY <3>2, LaVictima
    <3> QED BY <1>c, <1>e, <1>u, <1>v, <2>1, <2>4, <3>3
  <2> QED BY Zenon, <1>0, <1>2, <2>2, <2>3, <2>4 DEF PlanBuscaWorker
<1>3. CASE PlanElige
  <2>1. varsQuery' = varsQuery /\ varsWorker' = varsWorker
    BY <1>3, Zenon DEF PlanElige
  <2>2. CASE \E q \in obtener_siguiente_query : plan' = [plan EXCEPT !.pc = "exec", !.q = q]
    <3>1. PICK q \in obtener_siguiente_query : plan' = [plan EXCEPT !.pc = "exec", !.q = q]
      BY Zenon, <2>2
    <3>2. plan'.pc = "exec" /\ plan'.q = q
      BY <1>0, <3>1 DEF PlanTipo
    <3>3. \A r \in EnReady' : prioridad'[q] <= prioridad'[r]
      BY <1>0, <1>s, <1>u, <2>1 DEF Menor
    <3> QED BY <3>2, <3>3 DEF Mediciones, Menor
  <2>3. CASE obtener_siguiente_query = {} /\ plan' = EnEspera
    BY <1>c, <1>e, <1>n, <1>u, <2>1, <2>3
  <2> QED BY Zenon, <1>3, <2>2, <2>3 DEF PlanElige
<1>4. CASE PlanPasaAExec
  <2>0. PICK q \in Queries : q = plan.q
    BY <1>0, <1>4 DEF PlanPasaAExec, PlanValido
  <2>1. plan.pc = "exec" /\ plan'.pc = "asigna" /\ sem' = sem
    BY <1>0, <1>4 DEF PlanPasaAExec, PlanTipo
  <2>2. estado[q] = "READY" /\ Menor(q)
    BY <1>m, <2>0, <2>1 DEF EnSuCiclo, Mediciones
  <2>3. estado'[q] = "EXEC" /\ \A p \in Queries : p # q => estado'[p] = estado[p]
    BY <1>0, <1>4, <2>0, <2>2, actualizarEstadoQueryEfecto DEF PlanPasaAExec
  <2>4. EnReady' \subseteq EnReady
    BY <2>2, <2>3 DEF EnReady
  <2>5. Calma'
    BY <1>0, <2>2, <2>3, <2>4 DEF Calma, Menor
  <2> QED BY <2>1, <2>5 DEF Mediciones
<1>5. CASE PlanOcupaWorker
  <2>1. plan.pc = "asigna" /\ plan'.pc = "envia" /\ sem' = sem /\ estado' = estado
    BY <1>0, <1>5 DEF PlanOcupaWorker, PlanTipo, varsQuery
  <2>2. Calma'
    BY <1>0, <1>m, <2>1 DEF Mediciones, Calma, EnReady
  <2> QED BY <2>1, <2>2 DEF Mediciones
<1>6. CASE PlanEnviaAsignacion
  <2>1. plan.pc = "envia" /\ plan' = EnEspera /\ sem' = sem /\ estado' = estado
    BY <1>6 DEF PlanEnviaAsignacion, varsQuery
  <2>2. Calma'
    BY <1>0, <1>m, <2>1 DEF Mediciones, Calma, EnReady
  <2> QED BY <1>c, <1>e, <2>1, <2>2
<1>7. CASE PlanMide
  <2>1. varsQuery' = varsQuery /\ varsWorker' = varsWorker
    BY <1>7, Zenon DEF PlanMide
  <2>2. CASE \E q \in obtener_siguiente_query : plan' = [plan EXCEPT !.pc = "victima", !.q = q]
    <3>1. PICK q \in obtener_siguiente_query : plan' = [plan EXCEPT !.pc = "victima", !.q = q]
      BY Zenon, <2>2
    <3>2. plan'.pc = "victima" /\ plan'.q = q
      BY <1>0, <3>1 DEF PlanTipo
    <3>3. \A r \in EnReady' : prioridad'[q] <= prioridad'[r]
      BY <1>0, <1>s, <1>u, <2>1 DEF Menor
    <3> QED BY <3>2, <3>3 DEF Mediciones, Menor
  <2>3. CASE obtener_siguiente_query = {} /\ plan' = EnEspera
    BY <1>c, <1>e, <1>n, <1>u, <2>1, <2>3
  <2> QED BY Zenon, <1>7, <2>2, <2>3 DEF PlanMide
<1>8. CASE PlanEligeVictima
  <2>1. varsQuery' = varsQuery /\ varsWorker' = varsWorker /\ plan.pc = "victima" /\ sem' = sem
    BY <1>8, Zenon DEF PlanEligeVictima
  <2>2. CASE \E v \in V : plan' = [plan EXCEPT !.pc = "pReady", !.v = v]
    <3>1. PICK v \in V : plan' = [plan EXCEPT !.pc = "pReady", !.v = v]
      BY Zenon, <2>2
    <3>2. plan'.pc = "pReady" /\ plan'.v = v /\ plan'.q = plan.q
      BY <1>0, <3>1 DEF PlanTipo
    <3>3. plan.q \in Queries /\ Menor(plan.q) /\ v \in V'
      BY <1>0, <1>m, <1>u, <2>1 DEF Mediciones, PlanValido
    <3>4. \A r \in EnReady' : prioridad'[plan'.q] <= prioridad'[r]
      BY <1>0, <1>u, <2>1, <3>2, <3>3 DEF Menor
    <3> QED BY <3>2, <3>3, <3>4 DEF Mediciones, Menor
  <2>3. CASE V = {} /\ plan' = EnEspera
    BY <1>c, <1>e, <1>u, <1>v, <2>1, <2>3
  <2> QED BY Zenon, <1>8, <2>2, <2>3 DEF PlanEligeVictima
<1>9. CASE PlanLeeReady
  <2>1. varsQuery' = varsQuery /\ varsWorker' = varsWorker /\ plan.pc = "pReady" /\ sem' = sem
    BY <1>9 DEF PlanLeeReady
  <2>2. plan'.pc = "compara" /\ plan'.v = plan.v /\ plan'.q = plan.q /\ plan'.p = prioridad[plan.q]
    BY <1>0, <1>9 DEF PlanLeeReady, PlanTipo
  <2>3. Menor(plan.q) /\ plan.v \in V /\ V' = V /\ EnReady' = EnReady
    BY <1>m, <1>u, <2>1 DEF Mediciones
  <2> QED BY <1>0, <2>2, <2>3 DEF Mediciones, Menor
<1>10. CASE PlanCompara
  <2>1. varsQuery' = varsQuery /\ varsWorker' = varsWorker /\ plan.pc = "compara" /\ sem' = sem
    BY <1>10, Zenon DEF PlanCompara
  <2>2. /\ Menor(plan.q) /\ plan.v \in V /\ V' = V /\ EnReady' = EnReady /\ plan.p = prioridad[plan.q]
        /\ plan.q \in Queries /\ plan.v \in Queries
    BY <1>0, <1>m, <1>u, <2>1 DEF Mediciones, PlanValido
  <2>3. CASE plan.p < prioridad[plan.v]
    <3>1. plan'.pc = "busca" /\ plan'.v = plan.v /\ plan'.q = plan.q
      BY <1>0, <1>10, <2>3 DEF PlanCompara, PlanTipo
    <3> QED BY <1>0, <2>2, <3>1 DEF Mediciones, Menor
  <2>4. CASE ~(plan.p < prioridad[plan.v])
    <3>1. plan' = EnEspera
      BY <1>10, <2>4 DEF PlanCompara
    <3>2. prioridad \in [Queries -> Nat]
      BY <1>0, MasterSupuesto DEF TypeOK
    <3>3. prioridad[plan.v] <= prioridad[plan.q]
      BY <2>2, <2>4, <3>2
    <3>4. estado[plan.v] = "EXEC"
      BY <2>2, LaVictima
    <3>5. ASSUME NEW r \in EnReady PROVE prioridad[plan.v] <= prioridad[r]
      <4>1. r \in Queries /\ prioridad[plan.q] <= prioridad[r]
        BY <2>2 DEF Menor, EnReady
      <4> QED BY <2>2, <3>2, <3>3, <4>1
    <3>6. Calma
      BY <2>2, <3>4, <3>5 DEF Calma
    <3> QED BY <1>c, <1>e, <1>u, <2>1, <3>1, <3>6
  <2> QED BY <2>3, <2>4
<1>11. CASE PlanBuscaVictima
  <2>1. varsQuery' = varsQuery /\ varsWorker' = varsWorker /\ plan.pc = "busca" /\ sem' = sem
    BY <1>11, Zenon DEF PlanBuscaVictima
  <2>2. /\ Menor(plan.q) /\ plan.v \in V /\ V' = V /\ EnReady' = EnReady /\ query' = query
        /\ plan.q \in Queries /\ plan.v \in Queries
    BY <1>0, <1>m, <1>u, <2>1 DEF Mediciones, PlanValido
  <2>3. WorkerDe(plan.v) # {}
    <3>1. estado[plan.v] = "EXEC"
      BY <2>2, LaVictima
    <3>2. PICK w \in Workers : Dueno(w, plan.v)
      BY <2>1, <2>2, <3>1 DEF EnEjecucion
    <3>3. query[w] = plan.v /\ Contains(listaWorkers, w)
      BY <3>2 DEF Dueno, Atiende, EnEjecucion
    <3> DEFINE S == {c \in Workers : query[c] = plan.v}
    <3>4. w \in S /\ listaWorkers \in Seq(Workers)
      BY <1>0, <3>3 DEF TypeOK
    <3> HIDE DEF S
    <3>5. PrimeroDe(listaWorkers, S) # {}
      BY <3>3, <3>4, PrimeroDeExiste
    <3> QED BY <3>5 DEF WorkerDe, S
  <2>4. PICK w \in WorkerDe(plan.v) : plan' = [plan EXCEPT !.pc = "desaloja", !.w = w]
    BY Zenon, <1>11, <2>3 DEF PlanBuscaVictima
  <2>5. plan'.pc = "desaloja" /\ plan'.v = plan.v /\ plan'.q = plan.q /\ plan'.w = w
    BY <1>0, <2>4 DEF PlanTipo
  <2>6. query[w] = plan.v
    BY <2>4, WorkerDeConectado
  <2> QED BY <1>0, <2>2, <2>5, <2>6 DEF Mediciones, Menor
<1>12. CASE PlanDesaloja
  <2>0. PICK w \in Workers, v \in Queries : w = plan.w /\ v = plan.v
    BY <1>0, <1>12 DEF PlanDesaloja, PlanValido
  <2>1. /\ plan.pc = "desaloja" /\ plan' = EnEspera /\ sem' = sem /\ UNCHANGED <<varsQuery, query>>
        /\ EnviaAWorker(w, Paquete("DESALOJO", v, 0))
    BY <1>12, <2>0 DEF PlanDesaloja
  <2>2. v \in V /\ query[w] = v
    BY <1>m, <2>0, <2>1 DEF Mediciones
  <2>3. V' = V
    BY <1>0, <2>1 DEF obtener_query_menos_prioritaria_ejecutandose, SegunComparador, varsQuery
  <2>4. \A u \in V' : u = v
    BY <2>2, <2>3, LaVictima
  <2>5. ASSUME hiloWorker[w] = "escucha" PROVE EnCamino(worker'[w])
    <3>1. Debe(worker[w])
      BY <2>1, <2>2, <2>5 DEF EnEjecucion
    <3>2. worker'[w] = [worker[w] EXCEPT !.entrada = Append(@, Paquete("DESALOJO", v, 0))]
      BY <2>1, <2>5, LlegaA
    <3>3. /\ Paquete("DESALOJO", v, 0) \in Pedidos /\ worker[w] \in WorkerTipo
          /\ Paquete("DESALOJO", v, 0).op # "ASIGNAR"
      <4>1. 0 \in ProgramCounter /\ worker[w] \in WorkerTipo
        BY <1>0, ContratoSupuesto DEF TypeOK, ProgramCounter
      <4> QED BY <4>1, PaquetesTipo DEF Paquete
    <3> QED BY <3>1, <3>2, <3>3, LlegaPaquete
  <2>6. Atendido'
    BY <1>0, <2>1, <2>2, <2>4, <2>5 DEF Atendido
  <2> QED BY <1>c, <1>e, <2>1, <2>6
<1> QED BY <1>1, <1>2, <1>3, <1>4, <1>5, <1>6, <1>7, <1>8, <1>9, <1>10, <1>11, <1>12 DEF Planificador

\* Every step keeps what was measured.
LEMMA NextMedido ==
    ASSUME NadieSeVa, IInv, Coherente, DescriptoresPropios, EnSuCiclo, EnEjecucion, Medido, [Next]_vars
    PROVE  Medido'
<1> SUFFICES ASSUME Quieto' PROVE Mediciones'
  BY DEF Medido
<1>1. CASE Planificador
  BY <1>1, PlanificadorMedido
<1>2. CASE \/ \E q \in Queries : ConectaQC(q) \/ HiloQC(q) \/ Envejece(q)
           \/ \E w \in Workers : ConectaWorker(w) \/ HiloWorker(w) \/ DesconectaWorker(w) \/ ProcesoWorker(w)
  BY <1>2, OtrosMedido
<1>3. CASE UNCHANGED vars
  <2>1. UNCHANGED <<algoritmo, estado, prioridad, listas, query, hiloWorker, worker, sem, plan>>
    BY <1>3 DEF vars, varsQuery, varsWorker
  <2> QED BY <2>1 DEF Medido, Mediciones, Quieto, Menor, Calma, Atendido, EnReady,
        obtener_query_menos_prioritaria_ejecutandose, SegunComparador
<1> QED BY <1>1, <1>2, <1>3 DEF Next, EnReposo

\* What it says of the scheduler that sleeps.
LEMMA MedidoImplica ==
    ASSUME IInv, Medido
    PROVE  SinDesalojoPerdido
<1> SUFFICES ASSUME algoritmo = "PRIORIDADES", plan.pc = "espera", sem = 0,
                    \A w \in Workers : hiloWorker[w] # "libera",
                    NEW q \in ToSet(listas["READY"]),
                    NEW v \in obtener_query_menos_prioritaria_ejecutandose, prioridad[q] < prioridad[v]
             PROVE  EnRetirada(v)
  BY DEF SinDesalojoPerdido
<1>1. Calma \/ Atendido
  BY DEF Medido, Quieto, Mediciones
<1>2. TypeOK /\ prioridad \in [Queries -> Nat]
  BY MasterSupuesto DEF IInv, TypeOK
<1>3. q \in EnReady
  <2>1. listas["READY"] \in Seq(Queries) /\ \A r \in Queries : Contains(listas["READY"], r) => estado[r] = "READY"
    BY <1>2 DEF IInv, TypeOK, ListasConsistentes, Estados
  <2>2. Contains(listas["READY"], q) /\ q \in Queries
    BY <2>1, LenProperties DEF ToSet, Contains
  <2> QED BY <2>1, <2>2 DEF EnReady
<1>4. ~Calma
  <2>1. \A x \in Queries : estado[x] = "EXEC" => prioridad[v] <= prioridad[x]
    BY LaVictima
  <2>2. v \in Queries /\ q \in Queries
    BY <1>3, LaVictima DEF EnReady
  <2> QED BY <1>2, <1>3, <2>1, <2>2 DEF Calma
<1>5. PICK w \in Workers : query[w] = v /\ (hiloWorker[w] # "escucha" \/ EnCamino(worker[w]))
  BY <1>1, <1>4 DEF Atendido
<1>6. ASSUME EnCamino(worker[w])
      PROVE  \/ worker[w].corte
             \/ \E m \in ToSet(worker[w].entrada) : m.op # "ASIGNAR"
             \/ \E m \in ToSet(worker[w].salida) : m.op \in Resultados
  BY <1>6 DEF EnCamino, Respondido, ToSet
<1> QED BY <1>5, <1>6 DEF EnRetirada

\* A query of EXEC has its Worker, and descriptors stay apart, while nobody leaves.
LEMMA EjecucionSigue == ASSUME NadieSeVa PROVE Spec => [](EnSuCiclo /\ EnEjecucion)
<1>1. IInv /\ DescriptorPorConexion /\ [Next]_vars => DescriptorPorConexion'
  BY NextDescriptorPorConexion
<1>2. IInv /\ Duenos /\ Coherente /\ DescriptorPorConexion /\ EnSuCiclo /\ [Next]_vars
        => EnSuCiclo'
  BY NextEnSuCiclo
<1>3. IInv /\ Coherente /\ DescriptoresPropios /\ EnSuCiclo /\ EnEjecucion /\ [Next]_vars
        => EnEjecucion'
  BY NextEnEjecucion
<1>4. Spec => []DescriptoresPropios
  BY NadieHereda DEF NadieSeVa, SoloElUltimoCae
<1>5. Spec => Init /\ [][Next]_vars
  BY DEF Spec
<1> QED BY <1>1, <1>2, <1>3, <1>4, <1>5, Invariante, InitDuenos, NextDuenos, InitCoherente,
           NextCoherente, InitEnSuCiclo, InitEnEjecucion, PTL

\* While nobody leaves, no eviction the code looks for is forgotten.  Its victim is the most
\* important query of EXEC (m_funciones.c:317), so what is promised is about a query of READY
\* that beats every query that runs: when the scheduler sleeps and no Worker is about to be
\* freed, that victim is being taken off already, for any number of queries and Workers and
\* whatever the aging threads do between the two reads of priorities the scheduler makes.
\* Of a query that beats only some of those that run, with several Workers, it says nothing.
THEOREM DesalojoNoSePierde == NadieSeVa => (Spec => []SinDesalojoPerdido)
<1> SUFFICES ASSUME NadieSeVa PROVE Spec => []SinDesalojoPerdido
  OBVIOUS
<1>1. IInv /\ Coherente /\ DescriptoresPropios /\ EnSuCiclo /\ EnEjecucion /\ Medido /\ [Next]_vars
        => Medido'
  BY NextMedido
<1>2. IInv /\ Medido => SinDesalojoPerdido
  BY MedidoImplica
<1>3. Spec => []DescriptoresPropios
  BY NadieHereda DEF NadieSeVa, SoloElUltimoCae
<1>4. Spec => [](EnSuCiclo /\ EnEjecucion)
  BY EjecucionSigue
<1>5. Spec => Init /\ [][Next]_vars
  BY DEF Spec
<1>6. Init => Medido
  BY DEF Init, EnEspera, Medido, Mediciones, Calma, EnReady
<1>7. Spec => []IInv /\ []Coherente
  BY <1>3, <1>5, Invariante, InitCoherente, NextCoherente, PTL
<1> QED BY <1>1, <1>2, <1>3, <1>4, <1>5, <1>6, <1>7, PTL

\* The eviction that is due: with one Worker, a query of READY that beats the one that runs,
\* which is then the victim and the least important of EXEC too.
DesalojoDebido ==
    /\ algoritmo = "PRIORIDADES" /\ plan.pc = "espera" /\ sem = 0
    /\ \A w \in Workers : hiloWorker[w] # "libera"
    => \A q, v \in Queries : estado[q] = "READY" /\ estado[v] = "EXEC"
                                /\ prioridad[q] < prioridad[v] => EnRetirada(v)

\* With one Worker, no more than one query is in EXEC while the scheduler sleeps.
LEMMA UnaEnEjecucion ==
    ASSUME IInv, EnEjecucion, plan.pc = "espera", \A u, w \in Workers : u = w,
           NEW v \in Queries, estado[v] = "EXEC"
    PROVE  /\ \A x \in Queries : estado[x] = "EXEC" => x = v
           /\ v \in obtener_query_menos_prioritaria_ejecutandose
<1>1. \A x \in Queries : estado[x] = "EXEC" => \E w \in Workers : query[w] = x
  BY DEF EnEjecucion, Dueno
<1>2. \A x \in Queries : estado[x] = "EXEC" => x = v
  BY <1>1
<1> DEFINE s == listas["EXEC"]
           S == {q \in ToSet(s) : \A r \in ToSet(s) : prioridad[q] <= prioridad[r]}
<1>3. /\ s \in Seq(Queries) /\ \A q \in Queries : Contains(s, q) <=> estado[q] = "EXEC"
      /\ \A i, j \in DOMAIN s : s[i] = s[j] => i = j
  BY DEF IInv, TypeOK, ListasConsistentes, Estados
<1>4. ToSet(s) = {v}
  BY <1>2, <1>3, LenProperties DEF ToSet, Contains
<1>5. prioridad[v] \in Nat
  BY MasterSupuesto DEF IInv, TypeOK
<1>6. S = {v}
  BY <1>4, <1>5
<1>7. PICK i \in DOMAIN s : s[i] = v
  BY <1>4 DEF ToSet
<1>8. \A j \in 1..(i - 1) : s[j] \notin S
  BY <1>3, <1>6, <1>7, LenProperties
<1>9. v \in PrimeroDe(s, S)
  BY <1>6, <1>7, <1>8 DEF PrimeroDe
<1> QED BY <1>2, <1>9 DEF obtener_query_menos_prioritaria_ejecutandose, SegunComparador

\* With one Worker, then, the eviction that is due is never forgotten: whichever query waits
\* in READY with a lower number than the one that runs, while the scheduler sleeps a cut for
\* that one is on its way to the Worker, or its answer on the way back.
THEOREM DesalojoConUnWorker ==
    NadieSeVa /\ (\A u, w \in Workers : u = w) => (Spec => []DesalojoDebido)
<1> SUFFICES ASSUME NadieSeVa, \A u, w \in Workers : u = w PROVE Spec => []DesalojoDebido
  OBVIOUS
<1>1. IInv /\ EnEjecucion /\ SinDesalojoPerdido => DesalojoDebido
  <2> SUFFICES ASSUME IInv, EnEjecucion, SinDesalojoPerdido,
                      algoritmo = "PRIORIDADES", plan.pc = "espera", sem = 0,
                      \A w \in Workers : hiloWorker[w] # "libera",
                      NEW q \in Queries, NEW v \in Queries, estado[q] = "READY",
                      estado[v] = "EXEC", prioridad[q] < prioridad[v]
               PROVE  EnRetirada(v)
    BY DEF DesalojoDebido
  <2>1. v \in obtener_query_menos_prioritaria_ejecutandose
    BY UnaEnEjecucion
  <2>2. q \in ToSet(listas["READY"])
    <3>1. listas["READY"] \in Seq(Queries) /\ Contains(listas["READY"], q)
      BY DEF IInv, TypeOK, ListasConsistentes, Estados
    <3> QED BY <3>1, LenProperties DEF ToSet, Contains
  <2> QED BY <2>1, <2>2 DEF SinDesalojoPerdido
<1>2. Spec => []IInv
  BY Invariante
<1>3. Spec => []EnEjecucion
  BY EjecucionSigue
<1>4. Spec => []SinDesalojoPerdido
  BY DesalojoNoSePierde
<1> QED BY <1>1, <1>2, <1>3, <1>4, PTL
=============================================================================
