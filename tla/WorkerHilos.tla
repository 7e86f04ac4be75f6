----------------------------- MODULE WorkerHilos -----------------------------
(***************************************************************************)
(* The two threads of a Worker process: hilo_master, which reads the       *)
(* packets of the Master, and hilo_query_interpreter, which runs the       *)
(* query.  They share the registers (id_query, path_query, pc_actual,      *)
(* flag_query_activa, flag_desalojo_query), mutex_registros and the        *)
(* semaphores sem_query_asignada and sem_query_terminada.                  *)
(*                                                                         *)
(* A critical section of mutex_registros is one action; so is each turn of *)
(* the fetch-decode-execute loop after its look at flag_desalojo_query.    *)
(* What an instruction does to the memory of the Worker and to the Storage *)
(* is left to other modules: here it succeeds, ends the query or fails.    *)
(* An empty line kills the process: its instruction is NULL, and the log   *)
(* of the fetch reads its type before the check.  The Master is the most   *)
(* general one, with MaxEnVuelo packets unread.                            *)
(***************************************************************************)
EXTENDS ProtocoloWorker, TLC

CONSTANTS
    MaxEnVuelo,  (* bound: packets the Master has sent and not seen consumed *)
    Vacias       (* queries whose file has an empty line before its END      *)

ASSUME HilosSupuesto == MaxEnVuelo \in Nat \ {0} /\ Queries # {} /\ Vacias \subseteq Queries

VARIABLES
    entrada,     \* packets of the Master hilo_master has not read yet
    salida,      \* packets of the Worker the Master has not read yet
    registros,   \* id_query (with path_query), pc_actual and the two flags
    asignada,    \* sem_query_asignada
    terminada,   \* sem_query_terminada
    hm,          \* hilo_master: where it is, and the packet it holds
    qi,          \* hilo_query_interpreter: where it is, and its `resultado`
    vivo         \* the process has not been killed by SIGSEGV

vars == <<entrada, salida, registros, asignada, terminada, hm, qi, vivo>>

SinQuery == [id |-> NULL, pc |-> 0, activa |-> FALSE, desalojo |-> FALSE]
Leyendo == [paso |-> "recibe", paquete |-> NULL]

Init ==
    /\ entrada = << >> /\ salida = << >>
    /\ registros = SinQuery
    /\ asignada = 0 /\ terminada = 1
    /\ hm = Leyendo
    /\ qi = [paso |-> "espera", resultado |-> "EXEC_OK"]
    /\ vivo = TRUE

-----------------------------------------------------------------------------
(***************************************************************************)
(* hilo_master.                                                            *)
(***************************************************************************)

\* OP_ASIGNAR_QUERY: the thread keeps the packet while it waits.
RecibeAsignacion ==
    /\ hm.paso = "recibe" /\ entrada # << >> /\ Head(entrada).op = "ASIGNAR"
    /\ entrada' = Tail(entrada)
    /\ hm' = [paso |-> "espera", paquete |-> Head(entrada)]
    /\ UNCHANGED <<salida, registros, asignada, terminada, qi>>

\* Mutant: the thread does not wait for the end of the previous query.
Termino_Mut == TRUE

Termino == terminada > 0

\* sem_wait(&sem_query_terminada).
EsperaTerminada ==
    /\ hm.paso = "espera" /\ Termino
    /\ terminada' = terminada - 1
    /\ hm' = [hm EXCEPT !.paso = "graba"]
    /\ UNCHANGED <<entrada, salida, registros, asignada, qi>>

GrabaRegistros ==
    /\ hm.paso = "graba"
    /\ registros' = [id |-> hm.paquete.query, pc |-> hm.paquete.pc,
                     activa |-> TRUE, desalojo |-> FALSE]
    /\ hm' = [Leyendo EXCEPT !.paso = "avisa"]
    /\ UNCHANGED <<entrada, salida, asignada, terminada, qi>>

\* sem_post(&sem_query_asignada).
AvisaAsignada ==
    /\ hm.paso = "avisa"
    /\ asignada' = asignada + 1
    /\ hm' = Leyendo
    /\ UNCHANGED <<entrada, salida, registros, terminada, qi>>

\* OP_DESALOJO_QUERY and OP_FIN_QUERY.
RecibeCorte ==
    /\ hm.paso = "recibe" /\ entrada # << >> /\ Head(entrada).op # "ASIGNAR"
    /\ entrada' = Tail(entrada)
    /\ registros' = [registros EXCEPT !.desalojo = @ \/ registros.activa]
    /\ UNCHANGED <<salida, asignada, terminada, hm, qi>>

HiloMaster ==
    /\ vivo /\ UNCHANGED vivo
    /\ RecibeAsignacion \/ EsperaTerminada \/ GrabaRegistros \/ AvisaAsignada \/ RecibeCorte

-----------------------------------------------------------------------------
(***************************************************************************)
(* hilo_query_interpreter and query_interpreter.                           *)
(***************************************************************************)

\* sem_wait(&sem_query_asignada); the file of the query may not open.
TomaQuery ==
    /\ qi.paso = "espera" /\ asignada > 0
    /\ asignada' = asignada - 1
    /\ qi' \in {[paso |-> "ciclo", resultado |-> "EXEC_OK"],
                [paso |-> "flush", resultado |-> "EXEC_ERROR"]}
    /\ UNCHANGED <<entrada, salida, registros, terminada, hm>>

\* The look at flag_desalojo_query, without the mutex.
MiraDesalojo ==
    /\ qi.paso = "ciclo"
    /\ qi' = IF registros.desalojo THEN [paso |-> "flush", resultado |-> "EXEC_DESALOJO"]
             ELSE [qi EXCEPT !.paso = "instruccion"]
    /\ UNCHANGED <<entrada, salida, registros, asignada, terminada, hm>>

\* An instruction that is not END; a READ sends what it read to the Master.
Ejecuta ==
    /\ qi.paso = "instruccion" /\ registros.pc < MaxPc
    /\ salida' \in {salida, Append(salida, Paquete("READ", registros.id, registros.pc))}
    /\ registros' = [registros EXCEPT !.pc = @ + 1]
    /\ qi' = [qi EXCEPT !.paso = "ciclo"]
    /\ UNCHANGED <<entrada, asignada, terminada, hm>>

\* END: the counter moves past it.
EjecutaEnd ==
    /\ qi.paso = "instruccion" /\ registros.pc <= MaxPc
    /\ registros' = [registros EXCEPT !.pc = @ + 1]
    /\ qi' = [paso |-> "flush", resultado |-> "EXEC_FIN_QUERY"]
    /\ UNCHANGED <<entrada, salida, asignada, terminada, hm>>

\* The file ends before this line, its first word is no instruction, or the instruction
\* fails.
Falla ==
    /\ qi.paso = "instruccion"
    /\ qi' = [paso |-> "flush", resultado |-> "EXEC_ERROR"]
    /\ UNCHANGED <<entrada, salida, registros, asignada, terminada, hm>>

\* parse_instruction gives NULL for an empty line: both threads die with the process, the
\* registers as they are, and nothing is answered.
LineaVacia ==
    /\ vivo /\ qi.paso = "instruccion" /\ registros.id \in Vacias /\ registros.pc <= MaxPc
    /\ vivo' = FALSE
    /\ UNCHANGED <<entrada, salida, registros, asignada, terminada, hm, qi>>

\* flush_all, whose failure replaces a result that is not one already.
FlushAll ==
    /\ qi.paso = "flush"
    /\ qi' \in {[paso |-> "notifica", resultado |-> r] : r \in {qi.resultado, "EXEC_ERROR"}}
    /\ UNCHANGED <<entrada, salida, registros, asignada, terminada, hm>>

\* notificar_resultado_a_master, before the registers are cleared.
Notifica ==
    /\ qi.paso = "notifica"
    /\ salida' = Append(salida, Paquete(qi.resultado, registros.id, registros.pc))
    /\ qi' = [qi EXCEPT !.paso = "limpia"]
    /\ UNCHANGED <<entrada, registros, asignada, terminada, hm>>

\* Mutant: the registers are not cleared.
desalojar_query_Mut == registros

desalojar_query == SinQuery

Limpia ==
    /\ qi.paso = "limpia"
    /\ registros' = desalojar_query
    /\ qi' = [qi EXCEPT !.paso = "avisa"]
    /\ UNCHANGED <<entrada, salida, asignada, terminada, hm>>

\* Mutant: the end of the query is not posted.
Posteada_Mut == terminada

Posteada == terminada + 1

\* sem_post(&sem_query_terminada).
AvisaTerminada ==
    /\ qi.paso = "avisa"
    /\ terminada' = Posteada
    /\ qi' = [paso |-> "espera", resultado |-> "EXEC_OK"]
    /\ UNCHANGED <<entrada, salida, registros, asignada, hm>>

HiloQueryInterpreter ==
    \/ /\ vivo /\ UNCHANGED vivo
       /\ \/ TomaQuery \/ MiraDesalojo \/ Ejecuta \/ EjecutaEnd \/ Falla
          \/ FlushAll \/ Notifica \/ Limpia \/ AvisaTerminada
    \/ LineaVacia

-----------------------------------------------------------------------------
(***************************************************************************)
(* The Master.                                                             *)
(***************************************************************************)

\* The orders to cut travel empty, and OP_FIN_QUERY is handled by the statements of
\* OP_DESALOJO_QUERY: one packet stands for all of them.
UnCorte == Paquete("DESALOJO", CHOOSE q \in Queries : TRUE, 0)
PedidosUtiles == [op : {"ASIGNAR"}, query : Queries, pc : 0..MaxPc] \cup {UnCorte}

Envia ==
    /\ vivo /\ Len(entrada) + Len(salida) < MaxEnVuelo
    /\ \E p \in PedidosUtiles : entrada' = Append(entrada, p)
    /\ UNCHANGED <<salida, registros, asignada, terminada, hm, qi, vivo>>

Recibe ==
    /\ salida # << >> /\ salida' = Tail(salida)
    /\ UNCHANGED <<entrada, registros, asignada, terminada, hm, qi, vivo>>

Next == HiloMaster \/ HiloQueryInterpreter \/ Envia \/ Recibe

\* Both threads run while they are not blocked; the Master need not do anything.
Spec == Init /\ [][Next]_vars /\ WF_vars(HiloMaster) /\ WF_vars(HiloQueryInterpreter)

-----------------------------------------------------------------------------
(***************************************************************************)
(* Properties.                                                             *)
(***************************************************************************)

\* The variables hold values of their types, and the semaphores are binary.
TypeOK ==
    /\ entrada \in Seq(Pedidos) /\ salida \in Seq(Respuestas)
    /\ registros \in [id : Queries \cup {NULL}, pc : ProgramCounter,
                      activa : BOOLEAN, desalojo : BOOLEAN]
    /\ asignada \in 0..1 /\ terminada \in 0..1
    /\ hm \in [paso : {"recibe", "espera", "graba", "avisa"}, paquete : Pedidos \cup {NULL}]
    /\ qi \in [paso : {"espera", "ciclo", "instruccion", "flush", "notifica", "limpia",
                       "avisa"},
               resultado : Resultados \cup {"EXEC_OK"}]
    /\ vivo \in BOOLEAN

\* hilo_master writes the registers of a query only when the interpreter is done with
\* those of the one before: they do not change under it, but for the flag.
RegistrosEstables ==
    [][qi.paso # "espera" /\ qi'.paso # "avisa" => registros'.id = registros.id]_vars

\* A cut that arrives between the notification of a query and the next OP_ASIGNAR_QUERY
\* leaves no flag behind: a query starts uncut unless a later packet cuts it.
SinCorteHeredado ==
    [][hm.paso = "graba" => ~registros.activa /\ ~registros.desalojo]_vars

\* hilo_master does not stay for ever behind an OP_ASIGNAR_QUERY it cannot accept while the
\* process lives, and every query whose registers are set and whose file has no empty line
\* is answered, and they are cleared.
TodaAsignacionSeResponde ==
    /\ (hm.paso = "espera") ~> (hm.paso = "recibe" \/ ~vivo)
    /\ (registros.activa /\ registros.id \notin Vacias) ~> ~registros.activa

\* The refinement mapping: the Worker is idle for the Master from the moment it has sent
\* its result, although the registers are still set, and an assignment is accepted when
\* the registers are written.
EnCurso == registros.activa /\ qi.paso \notin {"limpia", "avisa"}
WorkerVisto ==
    [entrada |-> IF hm.paso \in {"espera", "graba"} THEN <<hm.paquete>> \o entrada
                 ELSE entrada,
     salida  |-> salida,
     query   |-> IF EnCurso THEN registros.id ELSE NULL,
     pc      |-> IF EnCurso THEN registros.pc ELSE 0,
     corte   |-> EnCurso /\ registros.desalojo]

Contrato == INSTANCE ContratoWorker WITH worker <- WorkerVisto

\* The two threads implement the Worker that Master.tla is composed with: packets are
\* taken in order, and an OP_ASIGNAR_QUERY is answered once at most, about its own query.
\* A Worker that has died takes no more steps.
ImplementaContrato == Contrato!Spec
=============================================================================
