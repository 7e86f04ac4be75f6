---------------------------- MODULE ListasQueries ----------------------------
(***************************************************************************)
(* The locks under actualizarEstadoQuery and the selection of queries in   *)
(* the Master: one mutex per query and one per list of queries.            *)
(*                                                                         *)
(* actualizarEstadoQuery takes the mutex of the query and, holding it, the *)
(* mutex of its old list and then of its new one.  The PRIORIDADES         *)
(* selection takes the mutex of a list and, holding it, the mutex of each  *)
(* query it compares.  Master.tla has both as single actions; here a       *)
(* critical section is a single action only when the code takes no other   *)
(* mutex inside it.  The scheduler may wake at any time READY has          *)
(* something, and may or may not find a free Worker: the semaphore and the *)
(* Workers are the business of Master.tla.                                 *)
(***************************************************************************)
EXTENDS Naturals, SequencesExt

CONSTANTS
    Queries,          (* the queries                                       *)
    NULL,             (* the null pointer                                  *)
    LIBRE,            (* the holder of a mutex nobody holds                *)
    Algoritmos,       (* values of ALGORITMO_PLANIFICACION to explore      *)
    PrioridadMaxima,  (* bound on the priority of a query                  *)
    PuedeIrse         (* queries whose Query Control may leave             *)

ASSUME ListasSupuesto ==
    /\ Algoritmos \subseteq {"FIFO", "PRIORIDADES"}
    /\ PrioridadMaxima \in 0..255
    /\ PuedeIrse \subseteq Queries
    /\ IsFiniteSet(Queries) /\ NULL \notin Queries

Estados == {"READY", "EXEC", "EXIT"}

\* The threads that call actualizarEstadoQuery; a query is in one Worker at a time.
Plan == <<"plan", NULL>>
HiloQC(q) == <<"qc", q>>
HiloWorker(q) == <<"worker", q>>
Hilos == {Plan} \cup {HiloQC(q) : q \in Queries} \cup {HiloWorker(q) : q \in Queries}

ASSUME LibreSupuesto == LIBRE \notin Hilos

VARIABLES
    algoritmo,   \* master_config->algoritmo_planificacion
    estado,      \* t_query.estado
    prioridad,   \* t_query.prioridad
    listas,      \* listaQueriesReady, listaQueriesExec, listaQueriesExit
    mutexQuery,  \* who holds t_query.mutex_query
    mutexLista,  \* who holds mutexListaQueriesReady, ...Exec, ...Exit
    llamada,     \* the call of actualizarEstadoQuery each thread is in
    plan,        \* where iniciar_planificador is, and its locals
    qc,          \* whether the Query Control of each query is connected
    asignada     \* the queries a Worker has

varsListas == <<algoritmo, estado, listas, mutexQuery, mutexLista, llamada>>
vars == <<varsListas, prioridad, plan, qc, asignada>>

SinLlamada == [paso |-> "no", q |-> NULL, nuevo |-> "READY"]
Dormido == [paso |-> "duerme", lista |-> "READY", q |-> NULL, v |-> NULL, i |-> 0, p |-> 0]

LlamadaTipo == [paso : {"no", "pide", "saca", "pone"}, q : Queries \cup {NULL},
                nuevo : Estados]
PlanTipo == [paso : {"duerme", "elige", "leeA", "leeB", "decide", "mideQ", "mideV"},
             lista : {"READY", "EXEC"}, q : Queries \cup {NULL},
             v : Queries \cup {NULL}, i : Nat, p : 0..PrioridadMaxima]

\* crearNuevaQuery and queryAReady of every query are done.
Init ==
    /\ algoritmo \in Algoritmos
    /\ estado = [q \in Queries |-> "READY"]
    /\ prioridad \in [Queries -> 0..(IF algoritmo = "FIFO" THEN 0 ELSE PrioridadMaxima)]
    /\ listas = [e \in Estados |-> IF e = "READY" THEN SetToSeq(Queries) ELSE << >>]
    /\ mutexQuery = [q \in Queries |-> LIBRE]
    /\ mutexLista = [e \in Estados |-> LIBRE]
    /\ llamada = [h \in Hilos |-> SinLlamada]
    /\ plan = Dormido
    /\ qc = [q \in Queries |-> TRUE]
    /\ asignada = {}

-----------------------------------------------------------------------------
(***************************************************************************)
(* actualizarEstadoQuery.                                                  *)
(***************************************************************************)

Llama(h, q, nuevo) ==
    /\ llamada[h] = SinLlamada
    /\ llamada' = [llamada EXCEPT ![h] = [paso |-> "pide", q |-> q, nuevo |-> nuevo]]

\* Mutant: the mutex of the query is not taken.
Puede_Mut(q) == TRUE

Puede(q) == mutexQuery[q] = LIBRE

\* Mutant: a return without pthread_mutex_unlock.
Suelta_Mut(q) == mutexQuery

Suelta(q) == [mutexQuery EXCEPT ![q] = LIBRE]

PideQuery(h) ==
    LET q == llamada[h].q IN
    /\ llamada[h].paso = "pide"
    /\ Puede(q)
    /\ mutexQuery' = [mutexQuery EXCEPT ![q] = h]
    /\ llamada' = [llamada EXCEPT ![h].paso = "saca"]
    /\ UNCHANGED <<algoritmo, estado, listas, mutexLista, prioridad, plan, qc, asignada>>

\* The old list, under its mutex; a query that is not there is left as it is.
Saca(h) ==
    LET q == llamada[h].q  viejo == estado[q] IN
    /\ llamada[h].paso = "saca"
    /\ mutexLista[viejo] = LIBRE
    /\ IF Contains(listas[viejo], q)
       THEN /\ listas' = [listas EXCEPT ![viejo] = RemoveFirst(@, q)]
            /\ estado' = [estado EXCEPT ![q] = llamada[h].nuevo]
            /\ llamada' = [llamada EXCEPT ![h].paso = "pone"]
            /\ UNCHANGED mutexQuery
       ELSE /\ mutexQuery' = Suelta(q)
            /\ llamada' = [llamada EXCEPT ![h] = SinLlamada]
            /\ UNCHANGED <<listas, estado>>
    /\ UNCHANGED <<algoritmo, mutexLista, prioridad, plan, qc, asignada>>

\* Mutant: the query goes to the front of its new list.
Agrega_Mut(s, q) == <<q>> \o s

Agrega(s, q) == Append(s, q)

\* queryAReady, queryAExec or queryAExit; then the mutex of the query is left.
Pone(h) ==
    LET q == llamada[h].q  nuevo == llamada[h].nuevo IN
    /\ llamada[h].paso = "pone"
    /\ mutexLista[nuevo] = LIBRE
    /\ listas' = [listas EXCEPT ![nuevo] = Agrega(@, q)]
    /\ mutexQuery' = Suelta(q)
    /\ llamada' = [llamada EXCEPT ![h] = SinLlamada]
    /\ asignada' = IF h = Plan THEN asignada \cup {q} ELSE asignada
    /\ UNCHANGED <<algoritmo, estado, mutexLista, prioridad, plan, qc>>

ActualizarEstadoQuery(h) == PideQuery(h) \/ Saca(h) \/ Pone(h)

-----------------------------------------------------------------------------
(***************************************************************************)
(* The callers.                                                            *)
(***************************************************************************)

\* recibir_paquete gives NULL; the state is read without the mutex of the query.
SeVaElQC(q) ==
    /\ q \in PuedeIrse /\ qc[q]
    /\ qc' = [qc EXCEPT ![q] = FALSE]
    /\ IF estado[q] = "READY" THEN Llama(HiloQC(q), q, "EXIT") ELSE UNCHANGED llamada
    /\ UNCHANGED <<algoritmo, estado, listas, mutexQuery, mutexLista, prioridad, plan, asignada>>

\* OP_RESULTADO_QUERY: evicted or over.
VuelveDelWorker(q) ==
    /\ q \in asignada
    /\ asignada' = asignada \ {q}
    /\ \E nuevo \in {"READY", "EXIT"} : Llama(HiloWorker(q), q, nuevo)
    /\ UNCHANGED <<algoritmo, estado, listas, mutexQuery, mutexLista, prioridad, plan, qc>>

\* Mutant: the priority, a uint8, goes below 0.
PuedeEnvejecer_Mut(q) == estado[q] = "READY"

PuedeEnvejecer(q) == estado[q] = "READY" /\ prioridad[q] > 0

\* aging_de_query: one critical section of the mutex of the query.
Envejece(q) ==
    /\ algoritmo = "PRIORIDADES"
    /\ mutexQuery[q] = LIBRE
    /\ PuedeEnvejecer(q)
    /\ prioridad' = [prioridad EXCEPT ![q] = @ - 1]
    /\ UNCHANGED <<varsListas, plan, qc, asignada>>

-----------------------------------------------------------------------------
(***************************************************************************)
(* iniciar_planificador.                                                   *)
(***************************************************************************)

\* sem_wait; READY is not empty.
Despierta ==
    /\ plan.paso = "duerme" /\ llamada[Plan] = SinLlamada
    /\ mutexLista["READY"] = LIBRE /\ listas["READY"] # << >>
    /\ plan' = [Dormido EXCEPT !.paso = "elige"]
    /\ UNCHANGED <<varsListas, prioridad, qc, asignada>>

\* obtener_siguiente_query_fifo: the first of READY.
EligeFifo ==
    /\ plan.paso = "elige" /\ algoritmo = "FIFO"
    /\ mutexLista["READY"] = LIBRE
    /\ plan' = IF listas["READY"] = << >> THEN Dormido
               ELSE [plan EXCEPT !.paso = "decide", !.q = Head(listas["READY"])]
    /\ UNCHANGED <<varsListas, prioridad, qc, asignada>>

\* list_get_minimum on READY, list_get_maximum on EXEC: list_fold1 from the first element.
EmpiezaARecorrer ==
    /\ plan.paso = "elige" /\ algoritmo = "PRIORIDADES"
    /\ mutexLista[plan.lista] = LIBRE
    /\ IF listas[plan.lista] = << >>
       THEN plan' = Dormido /\ UNCHANGED mutexLista
       ELSE /\ plan' = [plan EXCEPT !.paso = "leeA", !.v = Head(listas[plan.lista]), !.i = 2]
            /\ mutexLista' = [mutexLista EXCEPT ![plan.lista] = Plan]
    /\ UNCHANGED <<algoritmo, estado, listas, mutexQuery, llamada, prioridad, qc, asignada>>

\* comparar_prioridades, queryA.
LeeA ==
    /\ plan.paso = "leeA" /\ plan.i <= Len(listas[plan.lista])
    /\ mutexQuery[plan.v] = LIBRE
    /\ plan' = [plan EXCEPT !.paso = "leeB", !.p = prioridad[plan.v]]
    /\ UNCHANGED <<varsListas, prioridad, qc, asignada>>

\* comparar_prioridades, queryB, and which of the two is kept.
LeeB ==
    LET b == listas[plan.lista][plan.i] IN
    /\ plan.paso = "leeB"
    /\ mutexQuery[b] = LIBRE
    /\ plan' = [plan EXCEPT !.paso = "leeA", !.i = @ + 1,
                            !.v = IF plan.p <= prioridad[b] THEN @ ELSE b]
    /\ UNCHANGED <<varsListas, prioridad, qc, asignada>>

TerminaDeRecorrer ==
    /\ plan.paso = "leeA" /\ plan.i > Len(listas[plan.lista])
    /\ mutexLista' = [mutexLista EXCEPT ![plan.lista] = LIBRE]
    /\ plan' = IF plan.lista = "READY" THEN [plan EXCEPT !.paso = "decide", !.q = plan.v]
               ELSE [plan EXCEPT !.paso = "mideQ"]
    /\ UNCHANGED <<algoritmo, estado, listas, mutexQuery, llamada, prioridad, qc, asignada>>

\* There is a free Worker: the query goes to EXEC.
Despacha ==
    /\ plan.paso = "decide"
    /\ Llama(Plan, plan.q, "EXEC")
    /\ plan' = Dormido
    /\ UNCHANGED <<algoritmo, estado, listas, mutexQuery, mutexLista, prioridad, qc, asignada>>

\* There is none: the query of EXEC to evict is looked for.
BuscaVictima ==
    /\ plan.paso = "decide" /\ algoritmo = "PRIORIDADES"
    /\ plan' = [plan EXCEPT !.paso = "elige", !.lista = "EXEC"]
    /\ UNCHANGED <<varsListas, prioridad, qc, asignada>>

\* p_ready and p_exec, each under the mutex of its query; the lists do not change.
Mide ==
    /\ \/ plan.paso = "mideQ" /\ mutexQuery[plan.q] = LIBRE
          /\ plan' = [plan EXCEPT !.paso = "mideV"]
       \/ plan.paso = "mideV" /\ mutexQuery[plan.v] = LIBRE /\ plan' = Dormido
    /\ UNCHANGED <<varsListas, prioridad, qc, asignada>>

Planificador ==
    \/ Despierta \/ EligeFifo \/ EmpiezaARecorrer \/ LeeA \/ LeeB
    \/ TerminaDeRecorrer \/ Despacha \/ BuscaVictima \/ Mide

\* Nothing left to do.
EnReposo ==
    /\ plan.paso = "duerme" /\ listas["READY"] = << >> /\ asignada = {}
    /\ \A h \in Hilos : llamada[h] = SinLlamada
    /\ UNCHANGED vars

Next ==
    \/ Planificador
    \/ \E h \in Hilos : ActualizarEstadoQuery(h)
    \/ \E q \in Queries : SeVaElQC(q) \/ VuelveDelWorker(q) \/ Envejece(q)
    \/ EnReposo

\* A thread that is not blocked runs, and a mutex that keeps being released is not denied
\* to one of its waiters for ever; nobody has to leave or to give back a query.
Equidad ==
    /\ WF_vars(Planificador)
    /\ \A h \in Hilos : SF_vars(PideQuery(h)) /\ WF_vars(Saca(h) \/ Pone(h))

Spec == Init /\ [][Next]_vars
SpecEquitativa == Spec /\ Equidad

-----------------------------------------------------------------------------
(***************************************************************************)
(* Properties.                                                             *)
(***************************************************************************)

\* The variables hold values of their types.
TypeOK ==
    /\ algoritmo \in Algoritmos
    /\ estado \in [Queries -> Estados]
    /\ prioridad \in [Queries -> 0..PrioridadMaxima]
    /\ listas \in [Estados -> Seq(Queries)]
    /\ mutexQuery \in [Queries -> Hilos \cup {LIBRE}]
    /\ mutexLista \in [Estados -> {Plan, LIBRE}]
    /\ llamada \in [Hilos -> LlamadaTipo]
    /\ plan \in PlanTipo
    /\ qc \in [Queries -> BOOLEAN]
    /\ asignada \subseteq Queries

Veces(q, e) == Cardinality({i \in DOMAIN listas[e] : listas[e][i] = q})

\* A query is in no list but that of its state, once; and it is missing from that one only
\* while the thread that moves it holds its mutex ("Bloqueamos la query para asegurar que su
\* estado no cambie mientras la movemos", m_funciones.c:162).
NingunaSePierde ==
    \A q \in Queries :
        /\ \A e \in Estados \ {estado[q]} : Veces(q, e) = 0
        /\ Veces(q, estado[q]) =
              IF \E h \in Hilos : mutexQuery[q] = h /\ llamada[h].paso = "pone" THEN 0 ELSE 1

\* With FIFO the scheduler takes out of READY the query that has been in it longest,
\* although it only looked at it before and READY changes in between.
RespetaElOrden ==
    [][\A q \in Queries :
          algoritmo = "FIFO" /\ llamada[Plan].paso = "saca" /\ llamada'[Plan].paso = "pone"
            /\ llamada[Plan].q = q /\ estado[q] = "READY" => Head(listas["READY"]) = q]_vars

\* With FIFO every call of actualizarEstadoQuery returns, whoever it waits for.
TodaLlamadaVuelve ==
    algoritmo = "FIFO" =>
        \A h \in Hilos : (llamada[h] # SinLlamada) ~> (llamada[h] = SinLlamada)

\* "planif se despierta cuadno: - hay una nueva query en ready ..." (m_funciones.c:329-330):
\* whatever it does for one token, the scheduler comes back to sem_wait.
VuelveADormir == []<>(plan.paso = "duerme" /\ llamada[Plan] = SinLlamada)
=============================================================================
