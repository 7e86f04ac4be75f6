--------------------------- MODULE ProtocoloWorker --------------------------
(***************************************************************************)
(* What the Master may count on of one Worker process, seen from the       *)
(* socket between them: the Worker takes the packets of the Master in the  *)
(* order they were sent, runs at most one query, and answers every         *)
(* OP_ASIGNAR_QUERY with one OP_RESULTADO_QUERY, unless it falls first.    *)
(*                                                                         *)
(* Only operators: a Worker is a record, and PasosWorker the records it    *)
(* may become.  Master.tla composes one record per Worker with the         *)
(* Master's own threads; ContratoWorker.tla makes the specification of a   *)
(* single Worker of it, which WorkerHilos.tla (the two threads of the      *)
(* Worker process, with their semaphores and flags) is checked against.    *)
(***************************************************************************)
EXTENDS Naturals, Sequences

CONSTANTS Queries,  (* the queries, by id_query                          *)
          NULL,     (* the null pointer: no query                        *)
          MaxPc     (* bound: lines of a query file before its END       *)

ASSUME ContratoSupuesto == MaxPc \in Nat /\ NULL \notin Queries

(***************************************************************************)
(* Packets.  `query` is the id an OP_ASIGNAR_QUERY, OP_READ or             *)
(* OP_RESULTADO_QUERY carries.  OP_DESALOJO_QUERY and OP_FIN_QUERY travel  *)
(* empty: there `query` is a history field, the query whose eviction or    *)
(* cancellation the Master meant, and no step below reads it.              *)
(***************************************************************************)
ProgramCounter == 0..(MaxPc + 1)
Paquete(op, q, pc) == [op |-> op, query |-> q, pc |-> pc]

Pedidos == [op : {"ASIGNAR", "DESALOJO", "FIN"}, query : Queries,
            pc : ProgramCounter]
Respuestas == [op : {"READ", "EXEC_FIN_QUERY", "EXEC_DESALOJO", "EXEC_ERROR"},
               query : Queries, pc : ProgramCounter]
Resultados == {"EXEC_FIN_QUERY", "EXEC_DESALOJO", "EXEC_ERROR"}

WorkerTipo == [entrada : Seq(Pedidos), salida : Seq(Respuestas),
               query : Queries \cup {NULL}, pc : ProgramCounter,
               corte : BOOLEAN]

WorkerInicial == [entrada |-> << >>, salida |-> << >>, query |-> NULL,
                  pc |-> 0, corte |-> FALSE]

-----------------------------------------------------------------------------
(***************************************************************************)
(* The steps of a Worker, as the set of records it may become.             *)
(***************************************************************************)

\* hilo_master takes an assignment only when the previous one is over.
TomaAsignacion(r) ==
    IF r.entrada # << >> /\ Head(r.entrada).op = "ASIGNAR" /\ r.query = NULL
    THEN {[r EXCEPT !.entrada = Tail(@), !.query = Head(r.entrada).query,
                    !.pc = Head(r.entrada).pc, !.corte = FALSE]}
    ELSE {}

\* OP_DESALOJO_QUERY and OP_FIN_QUERY are the same order; an idle Worker drops it.
TomaCorte(r) ==
    IF r.entrada # << >> /\ Head(r.entrada).op \in {"DESALOJO", "FIN"}
    THEN {[r EXCEPT !.entrada = Tail(@), !.corte = (r.query # NULL)]}
    ELSE {}

\* One instruction of the query, END included; it sends an OP_READ when it is a READ.
EjecutaInstruccion(r) ==
    IF r.query # NULL /\ r.pc <= MaxPc
    THEN {[r EXCEPT !.pc = @ + 1],
          [r EXCEPT !.pc = @ + 1,
                    !.salida = Append(@, Paquete("READ", r.query, r.pc))]}
    ELSE {}

\* The one answer: END was run, an instruction failed, or a cut was seen.
ResultadosPosibles(r) ==
    {Paquete(op, r.query, r.pc) : op \in {"EXEC_FIN_QUERY", "EXEC_ERROR"}
        \cup (IF r.corte THEN {"EXEC_DESALOJO"} ELSE {})}

\* Mutant: the Worker keeps running what it has answered for.
Responde_Mut(r) ==
    IF r.query # NULL
    THEN {[r EXCEPT !.salida = Append(@, m)] : m \in ResultadosPosibles(r)} ELSE {}

Responde(r) ==
    IF r.query # NULL
    THEN {[r EXCEPT !.salida = Append(@, m), !.query = NULL, !.corte = FALSE,
                    !.pc = 0] : m \in ResultadosPosibles(r)}
    ELSE {}

PasosWorker(r) ==
    TomaAsignacion(r) \cup TomaCorte(r) \cup EjecutaInstruccion(r) \cup Responde(r)
=============================================================================
