------------------------------- MODULE Master -------------------------------
(***************************************************************************)
(* The Master process (src/master): its short-term scheduler, one thread   *)
(* per Query Control, one thread per Worker and one aging thread per query,*)
(* over the lists READY / EXEC / EXIT, the list of Workers and the         *)
(* semaphore of the scheduler, composed with the Workers of                *)
(* ProtocoloWorker.                                                        *)
(*                                                                         *)
(* Every critical section of the code is one action, and so is every       *)
(* access to a shared field the code makes outside a mutex: a thread may   *)
(* be overtaken between any two of them.  A sem_post is merged into the    *)
(* action just before it, and the two reads of listaWorkers the scheduler  *)
(* makes in a row into one: delaying the scheduler gives the same runs.    *)
(* actualizarEstadoQuery is one action here; ListasQueries.tla takes it    *)
(* apart into its locks; it also takes apart the two reads of              *)
(* comparar_prioridades, which are one here.  A t_worker_interno that has  *)
(* been freed is taken to keep its contents, and a send to a peer that is  *)
(* gone to be swallowed (SIGPIPE is ignored).  Left out: logs,             *)
(* nivelMultiprocesamiento and the field `libre` (written, never read),    *)
(* and the usleep calls.                                                   *)
(***************************************************************************)
EXTENDS ProtocoloWorker, SequencesExt

CONSTANTS
    Workers,               (* connections of Worker processes, by number   *)
    Algoritmos,            (* values of ALGORITMO_PLANIFICACION to explore *)
    PrioridadMaxima,       (* bound on the priority of a query (a uint8)   *)
    PuedeIrse,             (* queries whose QC may leave before its result *)
    PuedeCaer,             (* Workers that may disconnect                  *)
    BASURA,                (* a pointer whose id_query matches no query    *)
    PunterosSinInicializar (* what malloc may leave in worker->query       *)

ASSUME MasterSupuesto ==
    /\ Algoritmos \subseteq {"FIFO", "PRIORIDADES"}
    /\ PrioridadMaxima \in 0..255
    /\ PuedeIrse \subseteq Queries /\ PuedeCaer \subseteq Workers
    /\ PunterosSinInicializar \subseteq {NULL, BASURA}
    /\ Queries \subseteq Nat /\ Workers \subseteq Nat /\ Queries \cap Workers = {}
    /\ IsFiniteSet(Queries) /\ IsFiniteSet(Workers)
    /\ NULL \notin Workers /\ BASURA \notin Queries

Estados == {"READY", "EXEC", "EXIT"}
Conexiones == Queries \cup Workers

VARIABLES
    algoritmo,     \* master_config->algoritmo_planificacion
    estado,        \* t_query.estado, "NUEVA" before its QC connects
    prioridad,     \* t_query.prioridad
    pc,            \* t_query.pc
    desconexion,   \* t_query.desconexion_solicitada
    listas,        \* listaQueriesReady, listaQueriesExec, listaQueriesExit
    fd,            \* t_query.socketQuery and t_worker_interno.socket_fd
    hiloQC,        \* where atender_query_control is, per query
    avisado,       \* the QC of the query has an OP_RESULTADO_QUERY and will leave
    ajenas,        \* history: connections that read a packet meant for another
    listaWorkers,  \* listaWorkers
    query,         \* t_worker_interno.query
    hiloWorker,    \* where atender_worker is, per Worker
    worker,        \* the Worker processes and the sockets to them
    sem,           \* semPlanificador
    plan           \* where iniciar_planificador is, and its locals

varsQuery  == <<estado, prioridad, pc, desconexion, listas>>
varsQC     == <<hiloQC, avisado, ajenas, fd>>
varsWorker == <<listaWorkers, query, hiloWorker, worker>>
vars == <<algoritmo, varsQuery, varsQC, varsWorker, sem, plan>>

PlanTipo == [pc : {"espera", "libre", "elige", "exec", "asigna", "envia", "mide",
                   "victima", "pReady", "compara", "busca", "desaloja"},
             q : Queries \cup {NULL}, v : Queries \cup {NULL},
             w : Workers \cup {NULL}, p : 0..PrioridadMaxima]
EnEspera == [pc |-> "espera", q |-> NULL, v |-> NULL, w |-> NULL, p |-> 0]

Init ==
    /\ algoritmo \in Algoritmos
    /\ estado = [q \in Queries |-> "NUEVA"]
    /\ prioridad \in [Queries -> 0..(IF algoritmo = "FIFO" THEN 0 ELSE PrioridadMaxima)]
    /\ pc = [q \in Queries |-> 0]
    /\ desconexion = [q \in Queries |-> FALSE]
    /\ listas = [e \in Estados |-> << >>]
    /\ fd = [c \in Conexiones |-> 0]
    /\ hiloQC = [q \in Queries |-> "nuevo"]
    /\ avisado = [q \in Queries |-> FALSE]
    /\ ajenas = {}
    /\ listaWorkers = << >>
    /\ query = [w \in Workers |-> NULL]
    /\ hiloWorker = [w \in Workers |-> "nuevo"]
    /\ worker = [w \in Workers |-> WorkerInicial]
    /\ sem = 0
    /\ plan = EnEspera

-----------------------------------------------------------------------------
(***************************************************************************)
(* Helpers.                                                                *)
(***************************************************************************)

\* The first member of S in the list s, as a set: empty when there is none.
PrimeroDe(s, S) ==
    {x \in S : \E i \in DOMAIN s : s[i] = x /\ \A j \in 1..(i - 1) : s[j] \notin S}

\* What list_fold1 keeps with comparar_prioridades: the lowest number, first found.
SegunComparador(s) ==
    PrimeroDe(s, {q \in ToSet(s) : \A r \in ToSet(s) : prioridad[q] <= prioridad[r]})

\* Mutant: the first Worker of the list, busy or not.
obtener_worker_libre_Mut == PrimeroDe(listaWorkers, Workers)

obtener_worker_libre == PrimeroDe(listaWorkers, {w \in Workers : query[w] = NULL})

obtener_siguiente_query ==
    IF algoritmo = "FIFO" THEN PrimeroDe(listas["READY"], Queries)
    ELSE SegunComparador(listas["READY"])

\* list_get_maximum is given the comparator of list_get_minimum, and both are list_fold1.
obtener_query_menos_prioritaria_ejecutandose == SegunComparador(listas["EXEC"])

\* Mutant: any Worker that is busy.
WorkerDe_Mut(q) == PrimeroDe(listaWorkers, {w \in Workers : query[w] # NULL})

\* The Worker the list holds first among those whose query pointer is q.
WorkerDe(q) == PrimeroDe(listaWorkers, {w \in Workers : query[w] = q})

\* Mutant: the query is not taken out of its old list.
Mover_Mut(ls, viejo, nuevo, q) == [ls EXCEPT ![nuevo] = Append(@, q)]

\* Takes q out of the list of its state and appends it to the list of `nuevo`.
Mover(ls, viejo, nuevo, q) ==
    LET sin == [ls EXCEPT ![viejo] = RemoveFirst(@, q)]
    IN  [sin EXCEPT ![nuevo] = Append(@, q)]

\* Connections are numbered in the order they are accepted, as id_query is.
SiguienteDe(S, x, hilo) == hilo[x] = "nuevo" /\ \A y \in S : y < x => hilo[y] # "nuevo"

\* No transition is refused; a query its list does not hold is left alone.
actualizarEstadoQuery(q, nuevo) ==
    IF estado[q] \in Estados /\ Contains(listas[estado[q]], q)
    THEN /\ listas' = Mover(listas, estado[q], nuevo, q)
         /\ estado' = [estado EXCEPT ![q] = nuevo]
    ELSE UNCHANGED <<listas, estado>>

\* The connections whose descriptor the Master has not closed.
Abiertas == {q \in Queries : hiloQC[q] \notin {"nuevo", "fin"}}
              \cup {w \in Workers : hiloWorker[w] \notin {"nuevo", "fin"}}

\* accept returns the lowest descriptor that is free.
FdNuevo == CHOOSE n \in 1..(Cardinality(Abiertas) + 1) :
              /\ \A c \in Abiertas : fd[c] # n
              /\ \A m \in 1..(n - 1) : \E c \in Abiertas : fd[c] = m

\* Who reads what the Master writes on the descriptor it keeps for c.
Destinatarios(c) == {d \in Abiertas : fd[d] = fd[c]}

\* A packet meant for connection `id` is written on the descriptor of c.
Reenvia(id, c) == ajenas' = ajenas \cup (Destinatarios(c) \ {id})

\* A Query Control ends on the first OP_RESULTADO_QUERY it reads.
NotificaResultado(id, q) ==
    /\ Reenvia(id, q)
    /\ avisado' = [c \in Queries |-> avisado[c] \/ c \in Destinatarios(q)]

Conectado == {"escucha", "aReady", "aExit", "libera"}

\* enviar_paquete to a Worker.  Its t_worker_interno may have been freed by now: the
\* packet goes to whoever has its descriptor, and a dead connection swallows it.
EnviaAWorker(w, p) ==
    /\ worker' = [c \in Workers |->
                     IF c \in Destinatarios(w) /\ hiloWorker[c] \in Conectado
                     THEN [worker[c] EXCEPT !.entrada = Append(@, p)] ELSE worker[c]]
    /\ Reenvia(w, w)

-----------------------------------------------------------------------------
(***************************************************************************)
(* iniciar_planificador.                                                   *)
(***************************************************************************)

\* sem_wait, and the look at listaQueriesReady.
PlanDespierta ==
    /\ plan.pc = "espera" /\ sem > 0
    /\ sem' = sem - 1
    /\ plan' = IF listas["READY"] # << >> THEN [plan EXCEPT !.pc = "libre"] ELSE plan
    /\ UNCHANGED <<algoritmo, varsQuery, varsQC, varsWorker>>

\* hay_workers, obtener_worker_libre, and what to do without a free Worker.
PlanBuscaWorker ==
    /\ plan.pc = "libre"
    /\ \/ \E w \in obtener_worker_libre : plan' = [plan EXCEPT !.pc = "elige", !.w = w]
       \/ /\ obtener_worker_libre = {}
          /\ plan' = IF listaWorkers # << >> /\ algoritmo = "PRIORIDADES"
                     THEN [plan EXCEPT !.pc = "mide"] ELSE EnEspera
    /\ UNCHANGED <<algoritmo, varsQuery, varsQC, varsWorker, sem>>

\* The query is only looked at: it stays in READY until the next action.
PlanElige ==
    /\ plan.pc = "elige"
    /\ \/ \E q \in obtener_siguiente_query : plan' = [plan EXCEPT !.pc = "exec", !.q = q]
       \/ obtener_siguiente_query = {} /\ plan' = EnEspera
    /\ UNCHANGED <<algoritmo, varsQuery, varsQC, varsWorker, sem>>

PlanPasaAExec ==
    /\ plan.pc = "exec"
    /\ actualizarEstadoQuery(plan.q, "EXEC")
    /\ plan' = [plan EXCEPT !.pc = "asigna"]
    /\ UNCHANGED <<algoritmo, prioridad, pc, desconexion, varsQC,
                   varsWorker, sem>>

PlanOcupaWorker ==
    /\ plan.pc = "asigna"
    /\ query' = [query EXCEPT ![plan.w] = plan.q]
    /\ plan' = [plan EXCEPT !.pc = "envia"]
    /\ UNCHANGED <<algoritmo, varsQuery, varsQC, listaWorkers, hiloWorker,
                   worker, sem>>

PlanEnviaAsignacion ==
    /\ plan.pc = "envia"
    /\ EnviaAWorker(plan.w, Paquete("ASIGNAR", plan.q, pc[plan.q]))
    /\ plan' = EnEspera
    /\ UNCHANGED <<algoritmo, varsQuery, hiloQC, avisado, fd, listaWorkers, query,
                   hiloWorker, sem>>

PlanMide ==
    /\ plan.pc = "mide"
    /\ \/ \E q \in obtener_siguiente_query : plan' = [plan EXCEPT !.pc = "victima", !.q = q]
       \/ obtener_siguiente_query = {} /\ plan' = EnEspera
    /\ UNCHANGED <<algoritmo, varsQuery, varsQC, varsWorker, sem>>

PlanEligeVictima ==
    /\ plan.pc = "victima"
    /\ \/ \E v \in obtener_query_menos_prioritaria_ejecutandose :
             plan' = [plan EXCEPT !.pc = "pReady", !.v = v]
       \/ obtener_query_menos_prioritaria_ejecutandose = {} /\ plan' = EnEspera
    /\ UNCHANGED <<algoritmo, varsQuery, varsQC, varsWorker, sem>>

PlanLeeReady ==
    /\ plan.pc = "pReady"
    /\ plan' = [plan EXCEPT !.pc = "compara", !.p = prioridad[plan.q]]
    /\ UNCHANGED <<algoritmo, varsQuery, varsQC, varsWorker, sem>>

PlanCompara ==
    /\ plan.pc = "compara"
    /\ plan' = IF plan.p < prioridad[plan.v] THEN [plan EXCEPT !.pc = "busca"] ELSE EnEspera
    /\ UNCHANGED <<algoritmo, varsQuery, varsQC, varsWorker, sem>>

\* The victim's Worker is looked up, and its mutex left before the packet is sent.
PlanBuscaVictima ==
    /\ plan.pc = "busca"
    /\ \/ \E w \in WorkerDe(plan.v) : plan' = [plan EXCEPT !.pc = "desaloja", !.w = w]
       \/ WorkerDe(plan.v) = {} /\ plan' = EnEspera
    /\ UNCHANGED <<algoritmo, varsQuery, varsQC, varsWorker, sem>>

PlanDesaloja ==
    /\ plan.pc = "desaloja"
    /\ EnviaAWorker(plan.w, Paquete("DESALOJO", plan.v, 0))
    /\ plan' = EnEspera
    /\ UNCHANGED <<algoritmo, varsQuery, hiloQC, avisado, fd, listaWorkers, query,
                   hiloWorker, sem>>

Planificador ==
    \/ PlanDespierta \/ PlanBuscaWorker \/ PlanElige \/ PlanPasaAExec
    \/ PlanOcupaWorker \/ PlanEnviaAsignacion
    \/ PlanMide \/ PlanEligeVictima \/ PlanLeeReady \/ PlanCompara
    \/ PlanBuscaVictima \/ PlanDesaloja

-----------------------------------------------------------------------------
(***************************************************************************)
(* aging_de_query: the thread of a query ends at priority 0.               *)
(***************************************************************************)
\* Mutant: the priority, a uint8, goes below 0.
PuedeEnvejecer_Mut(q) == estado[q] = "READY"

PuedeEnvejecer(q) == estado[q] = "READY" /\ prioridad[q] > 0

\* Mutant: the scheduler is not told of the new priority.
AvisoDeAging_Mut == sem

AvisoDeAging == sem + 1

Envejece(q) ==
    /\ algoritmo = "PRIORIDADES"
    /\ PuedeEnvejecer(q)
    /\ prioridad' = [prioridad EXCEPT ![q] = @ - 1]
    /\ sem' = AvisoDeAging
    /\ UNCHANGED <<algoritmo, estado, pc, desconexion, listas, varsQC,
                   varsWorker, plan>>

-----------------------------------------------------------------------------
(***************************************************************************)
(* atender_query_control.                                                  *)
(***************************************************************************)

\* Handshake, crearNuevaQuery, queryAReady, sem_post.
ConectaQC(q) ==
    /\ SiguienteDe(Queries, q, hiloQC)
    /\ hiloQC' = [hiloQC EXCEPT ![q] = "escucha"]
    /\ fd' = [fd EXCEPT ![q] = FdNuevo]
    /\ estado' = [estado EXCEPT ![q] = "READY"]
    /\ listas' = [listas EXCEPT !["READY"] = Append(@, q)]
    /\ sem' = sem + 1
    /\ UNCHANGED <<algoritmo, prioridad, pc, desconexion, avisado, ajenas,
                   varsWorker, plan>>

\* recibir_paquete gives NULL, and estado is read without its mutex.
DesconectaQC(q) ==
    /\ hiloQC[q] = "escucha"
    /\ avisado[q] \/ q \in PuedeIrse
    /\ hiloQC' = [hiloQC EXCEPT ![q] = IF estado[q] = "READY" THEN "retira" ELSE "mira"]
    /\ UNCHANGED <<algoritmo, varsQuery, avisado, ajenas, fd, varsWorker, sem, plan>>

RetiraDeReady(q) ==
    /\ hiloQC[q] = "retira"
    /\ actualizarEstadoQuery(q, "EXIT")
    /\ hiloQC' = [hiloQC EXCEPT ![q] = "cierra"]
    /\ UNCHANGED <<algoritmo, prioridad, pc, desconexion, avisado,
                   ajenas, fd, varsWorker, sem, plan>>

\* The second read of estado, without its mutex too.
MiraSiEnExec(q) ==
    /\ hiloQC[q] = "mira"
    /\ hiloQC' = [hiloQC EXCEPT ![q] = IF estado[q] = "EXEC" THEN "marca" ELSE "cierra"]
    /\ UNCHANGED <<algoritmo, varsQuery, avisado, ajenas, fd, varsWorker, sem, plan>>

MarcaDesconexion(q) ==
    /\ hiloQC[q] = "marca"
    /\ desconexion' = [desconexion EXCEPT ![q] = TRUE]
    /\ hiloQC' = [hiloQC EXCEPT ![q] = "cancela"]
    /\ UNCHANGED <<algoritmo, estado, prioridad, pc, listas, avisado,
                   ajenas, fd, varsWorker, sem, plan>>

\* OP_FIN_QUERY to the first Worker that has the query, holding mutexListaWorkers.
CancelaEnWorker(q) ==
    /\ hiloQC[q] = "cancela"
    /\ \/ \E w \in WorkerDe(q) : EnviaAWorker(w, Paquete("FIN", q, 0))
       \/ WorkerDe(q) = {} /\ UNCHANGED <<worker, ajenas>>
    /\ hiloQC' = [hiloQC EXCEPT ![q] = "cierra"]
    /\ UNCHANGED <<algoritmo, varsQuery, avisado, fd, listaWorkers, query,
                   hiloWorker, sem, plan>>

\* The descriptor is free for the next accept; t_query.socketQuery keeps its number.
CierraQC(q) ==
    /\ hiloQC[q] = "cierra"
    /\ hiloQC' = [hiloQC EXCEPT ![q] = "fin"]
    /\ UNCHANGED <<algoritmo, varsQuery, avisado, ajenas, fd, varsWorker, sem, plan>>

HiloQC(q) ==
    \/ DesconectaQC(q) \/ RetiraDeReady(q) \/ MiraSiEnExec(q)
    \/ MarcaDesconexion(q) \/ CancelaEnWorker(q) \/ CierraQC(q)

-----------------------------------------------------------------------------
(***************************************************************************)
(* atender_worker.                                                         *)
(***************************************************************************)

\* Handshake, malloc (query keeps what the memory held), list_add, sem_post.
ConectaWorker(w) ==
    /\ SiguienteDe(Workers, w, hiloWorker)
    /\ hiloWorker' = [hiloWorker EXCEPT ![w] = "escucha"]
    /\ fd' = [fd EXCEPT ![w] = FdNuevo]
    /\ \E p \in PunterosSinInicializar : query' = [query EXCEPT ![w] = p]
    /\ listaWorkers' = Append(listaWorkers, w)
    /\ sem' = sem + 1
    /\ UNCHANGED <<algoritmo, varsQuery, hiloQC, avisado, ajenas, worker, plan>>

Recibido(w) == Head(worker[w].salida)
SinRecibido(w) == [worker EXCEPT ![w].salida = Tail(@)]

\* OP_READ is forwarded to the Query Control without a look at desconexion_solicitada.
RecibeRead(w) ==
    /\ hiloWorker[w] = "escucha"
    /\ worker[w].salida # << >> /\ Recibido(w).op = "READ"
    /\ worker' = SinRecibido(w)
    /\ IF query[w] \in Queries THEN Reenvia(Recibido(w).query, query[w]) ELSE UNCHANGED ajenas
    /\ UNCHANGED <<algoritmo, varsQuery, hiloQC, avisado, fd, listaWorkers, query,
                   hiloWorker, sem, plan>>

\* Only an eviction of a query that keeps its Query Control goes back to READY.
Destino(op, q) == IF op = "EXEC_DESALOJO" /\ ~desconexion[q] THEN "aReady" ELSE "aExit"

\* Mutant: an eviction is notified to the Query Control too.
SeNotifica_Mut(op, q) == ~desconexion[q]

SeNotifica(op, q) == op # "EXEC_DESALOJO" /\ ~desconexion[q]

RecibeResultado(w) ==
    /\ hiloWorker[w] = "escucha"
    /\ worker[w].salida # << >> /\ Recibido(w).op \in Resultados
    /\ worker' = SinRecibido(w)
    /\ LET q == query[w]  op == Recibido(w).op IN
         IF q \in Queries
         THEN /\ pc' = [pc EXCEPT ![q] = Recibido(w).pc]
              /\ IF SeNotifica(op, q) THEN NotificaResultado(Recibido(w).query, q)
                 ELSE UNCHANGED <<avisado, ajenas>>
              /\ hiloWorker' = [hiloWorker EXCEPT ![w] = Destino(op, q)]
         ELSE /\ hiloWorker' = [hiloWorker EXCEPT ![w] = "libera"]
              /\ UNCHANGED <<pc, avisado, ajenas>>
    /\ UNCHANGED <<algoritmo, estado, prioridad, desconexion, listas,
                   hiloQC, fd, listaWorkers, query, sem, plan>>

\* Back to READY posts the semaphore; the Worker is not free yet.
VuelveAReady(w) ==
    /\ hiloWorker[w] = "aReady"
    /\ actualizarEstadoQuery(query[w], "READY")
    /\ sem' = sem + 1
    /\ hiloWorker' = [hiloWorker EXCEPT ![w] = "libera"]
    /\ UNCHANGED <<algoritmo, prioridad, pc, desconexion, varsQC,
                   listaWorkers, query, worker, plan>>

PasaAExit(w) ==
    /\ hiloWorker[w] = "aExit"
    /\ actualizarEstadoQuery(query[w], "EXIT")
    /\ hiloWorker' = [hiloWorker EXCEPT ![w] = "libera"]
    /\ UNCHANGED <<algoritmo, prioridad, pc, desconexion, varsQC,
                   listaWorkers, query, worker, sem, plan>>

\* Mutant: the Worker keeps its query after the result.
SinQuery_Mut(w) == query

SinQuery(w) == [query EXCEPT ![w] = NULL]

\* Mutant: the scheduler is not told that the Worker is free.
AvisoDeWorkerLibre_Mut == sem

AvisoDeWorkerLibre == sem + 1

LiberaWorker(w) ==
    /\ hiloWorker[w] = "libera"
    /\ query' = SinQuery(w)
    /\ sem' = AvisoDeWorkerLibre
    /\ hiloWorker' = [hiloWorker EXCEPT ![w] = "escucha"]
    /\ UNCHANGED <<algoritmo, varsQuery, varsQC, listaWorkers, worker, plan>>

\* recibir_paquete gives NULL: the query of the Worker, if any, ends with an error.
DesconectaWorker(w) ==
    /\ w \in PuedeCaer
    /\ hiloWorker[w] = "escucha" /\ worker[w].salida = << >>
    /\ worker' = [worker EXCEPT ![w] = WorkerInicial]
    /\ LET q == query[w] IN
         IF q \in Queries
         THEN /\ IF ~desconexion[q] THEN NotificaResultado(q, q)
                 ELSE UNCHANGED <<avisado, ajenas>>
              /\ hiloWorker' = [hiloWorker EXCEPT ![w] = "termina"]
         ELSE /\ hiloWorker' = [hiloWorker EXCEPT ![w] = "quita"]
              /\ UNCHANGED <<avisado, ajenas>>
    /\ UNCHANGED <<algoritmo, varsQuery, hiloQC, fd, listaWorkers, query,
                   sem, plan>>

TerminaPorCaida(w) ==
    /\ hiloWorker[w] = "termina"
    /\ actualizarEstadoQuery(query[w], "EXIT")
    /\ hiloWorker' = [hiloWorker EXCEPT ![w] = "quita"]
    /\ UNCHANGED <<algoritmo, prioridad, pc, desconexion, varsQC,
                   listaWorkers, query, worker, sem, plan>>

\* list_remove_element, close and free; the scheduler is not told.
QuitaWorker(w) ==
    /\ hiloWorker[w] = "quita"
    /\ listaWorkers' = RemoveFirst(listaWorkers, w)
    /\ hiloWorker' = [hiloWorker EXCEPT ![w] = "fin"]
    /\ UNCHANGED <<algoritmo, varsQuery, varsQC, query, worker, sem, plan>>

HiloWorker(w) ==
    \/ RecibeRead(w) \/ RecibeResultado(w) \/ VuelveAReady(w) \/ PasaAExit(w)
    \/ LiberaWorker(w) \/ TerminaPorCaida(w) \/ QuitaWorker(w)

\* A step of the Worker process itself, while it is connected.
ProcesoWorker(w) ==
    /\ hiloWorker[w] \in Conectado
    /\ \E r \in PasosWorker(worker[w]) : worker' = [worker EXCEPT ![w] = r]
    /\ UNCHANGED <<algoritmo, varsQuery, varsQC, listaWorkers, query,
                   hiloWorker, sem, plan>>

-----------------------------------------------------------------------------
\* Nothing left to do: every thread is blocked and no query waits for anything.
EnReposo ==
    /\ plan.pc = "espera" /\ sem = 0
    /\ \A q \in Queries : hiloQC[q] = "fin" /\ estado[q] = "EXIT"
    /\ \A w \in Workers : worker[w].entrada = << >> /\ worker[w].salida = << >>
    /\ UNCHANGED vars

Next ==
    \/ Planificador
    \/ \E q \in Queries : ConectaQC(q) \/ HiloQC(q) \/ Envejece(q)
    \/ \E w \in Workers : ConectaWorker(w) \/ HiloWorker(w) \/ DesconectaWorker(w)
                            \/ ProcesoWorker(w)
    \/ EnReposo

Spec == Init /\ [][Next]_vars

(***************************************************************************)
(* Every thread that is not blocked gets to run, the Workers' included;    *)
(* nothing obliges a Query Control or a Worker to connect or to leave.     *)
(***************************************************************************)
Equidad ==
    /\ WF_vars(Planificador)
    /\ \A q \in Queries : WF_vars(HiloQC(q)) /\ WF_vars(Envejece(q))
    /\ \A w \in Workers : WF_vars(HiloWorker(w)) /\ WF_vars(ProcesoWorker(w))

SpecEquitativa == Spec /\ Equidad

-----------------------------------------------------------------------------
(***************************************************************************)
(* Properties.                                                             *)
(***************************************************************************)

\* The variables hold values of their C types, and every pointer a query or a Worker.
TypeOK ==
    /\ algoritmo \in Algoritmos
    /\ estado \in [Queries -> Estados \cup {"NUEVA"}]
    /\ prioridad \in [Queries -> 0..PrioridadMaxima]
    /\ pc \in [Queries -> ProgramCounter]
    /\ desconexion \in [Queries -> BOOLEAN]
    /\ listas \in [Estados -> Seq(Queries)]
    /\ fd \in [Conexiones -> Nat]
    /\ hiloQC \in [Queries -> {"nuevo", "escucha", "retira", "mira", "marca",
                                "cancela", "cierra", "fin"}]
    /\ avisado \in [Queries -> BOOLEAN]
    /\ ajenas \subseteq Conexiones
    /\ listaWorkers \in Seq(Workers)
    /\ query \in [Workers -> Queries \cup {NULL, BASURA}]
    /\ hiloWorker \in [Workers -> {"nuevo", "escucha", "aReady", "aExit", "libera",
                                    "termina", "quita", "fin"}]
    /\ worker \in [Workers -> WorkerTipo]
    /\ sem \in Nat
    /\ plan \in PlanTipo

\* A query is once in the list of its state and in no other list, whichever threads
\* race to move it with actualizarEstadoQuery.
ListasConsistentes ==
    \A e \in Estados :
        /\ \A q \in Queries : Contains(listas[e], q) <=> estado[q] = e
        /\ \A i, j \in DOMAIN listas[e] : listas[e][i] = listas[e][j] => i = j

\* No two Workers ever execute the same query, although for a moment two
\* t_worker_interno may point to it (atender_worker gives a query back to READY
\* before it clears worker->query).
AsignacionUnica ==
    \A w1, w2 \in Workers :
        worker[w1].query # NULL /\ worker[w1].query = worker[w2].query => w1 = w2

\* Everything a Worker has been asked to run, runs, or has answered and atender_worker
\* has not yet handled, is about the query the Master believes it has: the Master never
\* compares resultado->id_query with worker->query->id_query.
ResultadoDeSuQuery ==
    \A w \in Workers : hiloWorker[w] \in Conectado =>
        /\ worker[w].query \in {NULL, query[w]}
        /\ \A m \in ToSet(worker[w].salida) : m.query = query[w]
        /\ \A m \in ToSet(worker[w].entrada) : m.op = "ASIGNAR" =>
              m.query = query[w] /\ worker[w].query = NULL

\* OP_DESALOJO_QUERY and OP_FIN_QUERY name no query and are sent some time after the
\* Worker was chosen; still none reaches a Worker that runs another query by then.
CorteSoloASuQuery ==
    \A w \in Workers : LET r == worker[w] IN
        r.entrada # << >> /\ Head(r.entrada).op # "ASIGNAR" /\ r.query # NULL =>
            Head(r.entrada).query = r.query

\* When the scheduler sleeps on an empty semaphore, no query of READY could be given
\* to a free Worker: no sem_post is missing.
SinDespertarPerdido ==
    plan.pc = "espera" /\ sem = 0 => listas["READY"] = << >> \/ obtener_worker_libre = {}

\* A cut is on its way to the Worker of v, or its answer on the way back.
EnRetirada(v) ==
    \E w \in Workers : query[w] = v /\
        \/ hiloWorker[w] # "escucha" \/ worker[w].corte
        \/ \E m \in ToSet(worker[w].entrada) : m.op # "ASIGNAR"
        \/ \E m \in ToSet(worker[w].salida) : m.op \in Resultados

\* When the scheduler sleeps, a query of READY that beats all of EXEC (PlanEligeVictima
\* takes the most important one) has already caused the eviction of one of them, or a
\* Worker is about to be freed, and its thread to post: the wake-up on aging ("NO SE SI
\* ESTO ES NECESARIO", m_funciones.c:333) is needed for this.
SinDesalojoPerdido ==
    /\ algoritmo = "PRIORIDADES" /\ plan.pc = "espera" /\ sem = 0
    /\ \A w \in Workers : hiloWorker[w] # "libera"
    => \A q \in ToSet(listas["READY"]) :
          \A v \in obtener_query_menos_prioritaria_ejecutandose :
              prioridad[q] < prioridad[v] => EnRetirada(v)

\* What the Master sends to a Query Control or to a Worker reaches it and no other
\* connection, and is about its own query, although descriptors are reused: "Socket para
\* comunicarse con el Query Control que envio la Query" (m_funciones.h:59).
EntregaASuQC == ajenas = {}

\* Once there is a Worker, every query of READY comes to EXIT.
TodaQueryTermina ==
    \A q \in Queries : (estado[q] = "READY" /\ listaWorkers # << >>) ~> (estado[q] = "EXIT")

Ciclo == INSTANCE CicloDeVida

\* The Master implements CicloDeVida: whatever its threads interleave, a query is dispatched
\* only from READY, given back or finished only from EXEC, and never leaves EXIT.
ImplementaCicloDeVida == Ciclo!Spec

\* "Marcamos la query para que al volver del worker vaya a EXIT" (conexion.c:110): a query
\* already marked when the Worker gives it back does not return to READY.
MarcadaVaAExit ==
    [][\A q \in Queries : desconexion[q] /\ estado[q] = "EXEC" => estado'[q] # "READY"]_vars

\* "Encontrar el worker que ejecuta la query menos prioritaria" (m_funciones.c:421): the
\* query evicted is one of EXEC with the highest number (0 is the highest priority).
DesalojaLaMenosPrioritaria ==
    [][plan.pc = "victima" /\ plan'.pc = "pReady" =>
          \A q \in ToSet(listas["EXEC"]) : prioridad[q] <= prioridad[plan'.v]]_vars
=============================================================================
