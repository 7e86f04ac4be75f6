-------------------------- MODULE WorkerHilosPruebas --------------------------
(***************************************************************************)
(* The two threads of a Worker implement the Worker the Master is composed *)
(* with (ContratoWorker), for any queries, any length of their files and   *)
(* any number of packets in flight.                                        *)
(*                                                                         *)
(* Both semaphores and both threads share one token (Turno): it is in      *)
(* sem_query_terminada, with hilo_master between its sem_wait and its      *)
(* sem_post, in sem_query_asignada, or with the interpreter.  Who has it   *)
(* decides what the registers hold (RegistrosDelTurno), and that is what   *)
(* every property of the threads rests on.                                 *)
(***************************************************************************)
EXTENDS WorkerHilos, TLAPS

Escribiendo == hm.paso \in {"graba", "avisa"}
Ocupado == qi.paso # "espera"

\* The token is in one place, and only there.
Turno ==
    \/ terminada = 1 /\ asignada = 0 /\ ~Escribiendo /\ ~Ocupado
    \/ terminada = 0 /\ asignada = 0 /\ Escribiendo /\ ~Ocupado
    \/ terminada = 0 /\ asignada = 1 /\ ~Escribiendo /\ ~Ocupado
    \/ terminada = 0 /\ asignada = 0 /\ ~Escribiendo /\ Ocupado

\* The registers are set from the moment hilo_master has written them until the
\* interpreter clears them, and clear the rest of the time.
RegistrosDelTurno ==
    IF terminada = 1 \/ hm.paso = "graba" \/ qi.paso = "avisa"
    THEN registros = SinQuery
    ELSE registros.activa /\ registros.id \in Queries

\* hilo_master keeps the assignment it waits to accept.
PaqueteGuardado ==
    hm.paso \in {"espera", "graba"} => hm.paquete \in Pedidos /\ hm.paquete.op = "ASIGNAR"

\* A query that has been cut was told to be, and a result is sent after the loop only.
ResultadoDelPaso ==
    /\ qi.paso \in {"flush", "notifica"} => qi.resultado \in Resultados
    /\ qi.paso \in {"flush", "notifica"} /\ qi.resultado = "EXEC_DESALOJO" => registros.desalojo

IInv == TypeOK /\ Turno /\ RegistrosDelTurno /\ PaqueteGuardado /\ ResultadoDelPaso

-----------------------------------------------------------------------------
\* The orders the Master of this module sends are packets of the protocol.
LEMMA PedidosUtilesValidos == PedidosUtiles \subseteq Pedidos
<1>1. (CHOOSE q \in Queries : TRUE) \in Queries
  BY HilosSupuesto
<1>2. UnCorte \in Pedidos
  BY <1>1, ContratoSupuesto DEF UnCorte, Paquete, Pedidos, ProgramCounter
<1>3. [op : {"ASIGNAR"}, query : Queries, pc : 0..MaxPc] \subseteq Pedidos
  BY ContratoSupuesto DEF Pedidos, ProgramCounter
<1> QED BY <1>2, <1>3 DEF PedidosUtiles

\* The initial state satisfies the invariant: the token is in sem_query_terminada.
LEMMA Inicial == Init => IInv
<1> SUFFICES ASSUME Init PROVE IInv
  OBVIOUS
<1> USE ContratoSupuesto DEF Init
<1>1. TypeOK
  BY DEF TypeOK, SinQuery, Leyendo, ProgramCounter, Pedidos, Respuestas
<1>2. Turno /\ RegistrosDelTurno /\ PaqueteGuardado /\ ResultadoDelPaso
  BY DEF Turno, RegistrosDelTurno, PaqueteGuardado, ResultadoDelPaso, Leyendo, Escribiendo, Ocupado
<1> QED BY <1>1, <1>2 DEF IInv

\* hilo_master keeps the invariant.
LEMMA HiloMasterInv == IInv /\ HiloMaster => IInv'
<1> SUFFICES ASSUME IInv, HiloMaster PROVE IInv'
  OBVIOUS
<1> USE ContratoSupuesto DEF IInv, TypeOK, Turno, RegistrosDelTurno, PaqueteGuardado,
        ResultadoDelPaso, Escribiendo, Ocupado, Leyendo
<1>0. vivo' \in BOOLEAN
  BY DEF HiloMaster
<1>1. CASE RecibeAsignacion
  <2>1. Head(entrada) \in Pedidos /\ Tail(entrada) \in Seq(Pedidos)
    BY <1>1 DEF RecibeAsignacion
  <2> QED BY <1>0, <1>1, <2>1 DEF RecibeAsignacion
<1>2. CASE EsperaTerminada
  BY <1>0, <1>2 DEF EsperaTerminada, Termino
<1>3. CASE GrabaRegistros
  <2>1. hm.paquete \in Pedidos
    BY <1>3 DEF GrabaRegistros
  <2>2. registros' \in [id : Queries, pc : ProgramCounter, activa : {TRUE}, desalojo : {FALSE}]
    BY <1>3, <2>1 DEF GrabaRegistros, Pedidos
  <2> QED BY <1>0, <1>3, <2>2 DEF GrabaRegistros
<1>4. CASE AvisaAsignada
  BY <1>0, <1>4 DEF AvisaAsignada
<1>5. CASE RecibeCorte
  <2>1. Tail(entrada) \in Seq(Pedidos)
    BY <1>5 DEF RecibeCorte
  <2>2. registros = SinQuery => registros' = SinQuery
    <3>1. registros = SinQuery => (registros.desalojo \/ registros.activa) = FALSE
      BY DEF SinQuery
    <3> QED BY <1>5, <3>1 DEF RecibeCorte, SinQuery
  <2>3. /\ registros' \in [id : Queries \cup {NULL}, pc : ProgramCounter,
                           activa : BOOLEAN, desalojo : BOOLEAN]
        /\ registros'.activa = registros.activa /\ registros'.id = registros.id
        /\ registros.desalojo => registros'.desalojo
    BY <1>5 DEF RecibeCorte
  <2> QED BY <1>0, <1>5, <2>1, <2>2, <2>3 DEF RecibeCorte
<1> QED BY <1>1, <1>2, <1>3, <1>4, <1>5 DEF HiloMaster

\* hilo_query_interpreter keeps the invariant.
LEMMA InterpreteInv == IInv /\ HiloQueryInterpreter => IInv'
<1> SUFFICES ASSUME IInv, HiloQueryInterpreter PROVE IInv'
  OBVIOUS
<1> USE ContratoSupuesto DEF IInv, TypeOK, Turno, RegistrosDelTurno, PaqueteGuardado,
        ResultadoDelPaso, Escribiendo, Ocupado, Resultados
<1>0. vivo' \in BOOLEAN
  BY DEF HiloQueryInterpreter, LineaVacia
<1>1. CASE TomaQuery
  BY <1>0, <1>1 DEF TomaQuery
<1>2. CASE MiraDesalojo
  BY <1>0, <1>2 DEF MiraDesalojo
<1>3. CASE Ejecuta
  <2>1. /\ registros' = [registros EXCEPT !.pc = @ + 1] /\ registros.pc + 1 \in ProgramCounter
        /\ salida' \in {salida, Append(salida, Paquete("READ", registros.id, registros.pc))}
    BY <1>3 DEF Ejecuta, ProgramCounter
  <2>2. /\ registros' \in [id : Queries \cup {NULL}, pc : ProgramCounter,
                           activa : BOOLEAN, desalojo : BOOLEAN]
        /\ registros'.activa = registros.activa /\ registros'.id = registros.id
    BY <2>1
  <2>3. registros.id \in Queries /\ qi'.paso = "ciclo"
    BY <1>3 DEF Ejecuta
  <2>4. Append(salida, Paquete("READ", registros.id, registros.pc)) \in Seq(Respuestas)
    <3>1. Paquete("READ", registros.id, registros.pc) \in Respuestas
      BY <2>3 DEF Paquete, Respuestas
    <3> QED BY <3>1
  <2>5. salida' \in Seq(Respuestas)
    BY <2>1, <2>4
  <2> QED BY <1>0, <1>3, <2>2, <2>3, <2>5 DEF Ejecuta
<1>4. CASE EjecutaEnd
  <2>1. /\ registros' \in [id : Queries \cup {NULL}, pc : ProgramCounter,
                           activa : BOOLEAN, desalojo : BOOLEAN]
        /\ registros'.activa = registros.activa /\ registros'.id = registros.id
    BY <1>4 DEF EjecutaEnd, ProgramCounter
  <2> QED BY <1>0, <1>4, <2>1 DEF EjecutaEnd
<1>5. CASE Falla
  BY <1>0, <1>5 DEF Falla
<1>6. CASE FlushAll
  BY <1>0, <1>6 DEF FlushAll
<1>7. CASE Notifica
  <2>1. Paquete(qi.resultado, registros.id, registros.pc) \in Respuestas
    BY <1>7 DEF Notifica, Paquete, Respuestas
  <2>2. salida' \in Seq(Respuestas)
    BY <1>7, <2>1 DEF Notifica
  <2> QED BY <1>0, <1>7, <2>2 DEF Notifica
<1>8. CASE Limpia
  BY <1>0, <1>8 DEF Limpia, desalojar_query, SinQuery, ProgramCounter
<1>9. CASE AvisaTerminada
  BY <1>0, <1>9 DEF AvisaTerminada, Posteada
<1>10. CASE LineaVacia
  BY <1>0, <1>10 DEF LineaVacia
<1> QED BY <1>1, <1>2, <1>3, <1>4, <1>5, <1>6, <1>7, <1>8, <1>9, <1>10 DEF HiloQueryInterpreter

\* So does every step, the Master's and those that change nothing included.
LEMMA PasoInv == IInv /\ [Next]_vars => IInv'
<1> SUFFICES ASSUME IInv, [Next]_vars PROVE IInv'
  OBVIOUS
<1> USE DEF IInv, TypeOK, Turno, RegistrosDelTurno, PaqueteGuardado, ResultadoDelPaso,
            Escribiendo, Ocupado
<1>1. CASE HiloMaster
  BY <1>1, HiloMasterInv
<1>2. CASE HiloQueryInterpreter
  BY <1>2, InterpreteInv
<1>3. CASE Envia
  <2>1. entrada' \in Seq(Pedidos)
    BY <1>3, PedidosUtilesValidos DEF Envia
  <2> QED BY <1>3, <2>1 DEF Envia
<1>4. CASE Recibe
  <2>1. salida' \in Seq(Respuestas)
    BY <1>4 DEF Recibe
  <2> QED BY <1>4, <2>1 DEF Recibe
<1>5. CASE UNCHANGED vars
  BY <1>5 DEF vars
<1> QED BY <1>1, <1>2, <1>3, <1>4, <1>5 DEF Next

\* The token is in one place, and the registers say whose it is, in every reachable state.
THEOREM TurnoUnico == Spec => []IInv
<1>1. Spec => Init /\ [][Next]_vars
  BY PTL DEF Spec
<1> QED BY <1>1, Inicial, PasoInv, PTL

\* The variables keep to their types, and both semaphores are binary.
THEOREM TiposDelWorker == Spec => []TypeOK
<1>1. IInv => TypeOK
  BY DEF IInv
<1> QED BY <1>1, TurnoUnico, PTL

-----------------------------------------------------------------------------
\* The registers do not change under the interpreter, but for the flag (worker.c:124).
THEOREM RegistrosSiempreEstables == Spec => RegistrosEstables
<1> DEFINE Quieto == qi.paso # "espera" /\ qi'.paso # "avisa" => registros'.id = registros.id
<1>1. IInv /\ [Next]_vars => [Quieto]_vars
  <2> SUFFICES ASSUME IInv, Next, qi.paso # "espera", qi'.paso # "avisa"
               PROVE  registros'.id = registros.id
    OBVIOUS
  <2>1. ~GrabaRegistros /\ ~Limpia
    BY DEF IInv, TypeOK, Turno, Escribiendo, Ocupado, GrabaRegistros, Limpia
  <2>2. CASE RecibeCorte \/ Ejecuta \/ EjecutaEnd
    BY <2>2 DEF IInv, TypeOK, RecibeCorte, Ejecuta, EjecutaEnd
  <2>3. CASE UNCHANGED registros
    BY <2>3
  <2> QED BY <2>1, <2>2, <2>3 DEF Next, HiloMaster, HiloQueryInterpreter, Envia, Recibe,
             RecibeAsignacion, EsperaTerminada, AvisaAsignada, TomaQuery, MiraDesalojo, Falla,
             FlushAll, Notifica, AvisaTerminada, LineaVacia
<1>2. Spec => [][Next]_vars
  BY PTL DEF Spec
<1> QED BY <1>1, <1>2, TurnoUnico, PTL DEF RegistrosEstables

\* A query starts uncut, whenever the cut of the one before arrived (worker.c:211).
THEOREM NingunCorteHeredado == Spec => SinCorteHeredado
<1> DEFINE Limpio == hm.paso = "graba" => ~registros.activa /\ ~registros.desalojo
<1>1. IInv => Limpio
  BY DEF IInv, RegistrosDelTurno, SinQuery
<1> QED BY <1>1, TurnoUnico, PTL DEF SinCorteHeredado

-----------------------------------------------------------------------------
(***************************************************************************)
(* The refinement.  WorkerVisto changes when the registers are written     *)
(* (TomaAsignacion), when a cut is read (TomaCorte), with an instruction   *)
(* (EjecutaInstruccion) and when the result is sent (Responde); every      *)
(* other step of the threads leaves it as it is.                           *)
(***************************************************************************)

\* The Worker the Master sees at the beginning is the initial one.
LEMMA InicialVisto == Init => Contrato!Init
<1> SUFFICES ASSUME Init PROVE Contrato!Init
  OBVIOUS
<1>1. EnCurso = FALSE
  BY DEF Init, EnCurso, SinQuery
<1>2. (EnCurso /\ registros.desalojo) = FALSE
  BY <1>1
<1>3. hm.paso \notin {"espera", "graba"} /\ entrada = << >> /\ salida = << >>
  BY DEF Init, Leyendo
<1> QED BY <1>1, <1>2, <1>3 DEF Contrato!Init, Contrato!WorkerInicial, WorkerVisto

\* A Worker of the contract, field by field.
Registro(e, s, q, pc, c) ==
    [entrada |-> e, salida |-> s, query |-> q, pc |-> pc, corte |-> c]

\* TomaAsignacion, of the contract, on the record hilo_master leaves.
LEMMA PasoAsignacion ==
    ASSUME NEW e \in Seq(Pedidos), NEW s, NEW p \in Pedidos, p.op = "ASIGNAR", NEW c, c = FALSE
    PROVE  Registro(e, s, p.query, p.pc, c)
               \in Contrato!PasosWorker(Registro(<<p>> \o e, s, NULL, 0, c))
<1> DEFINE t  == <<p>> \o e
           r  == Registro(t, s, NULL, 0, c)
           r1 == Registro(e, s, NULL, 0, c)
           r2 == Registro(e, s, p.query, 0, c)
           r3 == Registro(e, s, p.query, p.pc, c)
<1>1. t # << >> /\ Head(t) = p /\ Tail(t) = e
  OBVIOUS
<1> HIDE DEF t
<1>2. r.entrada = t /\ r.query = NULL
  BY DEF Registro
<1>3. [r EXCEPT !.entrada = e] = r1
  BY DEF Registro
<1>4. [r1 EXCEPT !.query = p.query] = r2
  BY DEF Registro
<1>5. [r2 EXCEPT !.pc = p.pc] = r3
  BY DEF Registro
<1>6. [r3 EXCEPT !.corte = c] = r3
  BY DEF Registro
<1> HIDE DEF r, r1, r2, r3
<1>7. [r EXCEPT !.entrada = e, !.query = p.query, !.pc = p.pc, !.corte = c] = r3
  BY <1>3, <1>4, <1>5, <1>6
<1>8. Contrato!TomaAsignacion(r)
        = {[r EXCEPT !.entrada = e, !.query = p.query, !.pc = p.pc, !.corte = c]}
  BY <1>1, <1>2 DEF Contrato!TomaAsignacion
<1> QED BY <1>7, <1>8 DEF Contrato!PasosWorker, r, r3, t

\* TomaCorte: the flag is raised, unless no query is in course.
LEMMA PasoCorte ==
    ASSUME NEW e, NEW s, NEW q, NEW pc, NEW c, NEW d, d = (q # NULL),
           e # << >>, Head(e).op \in {"DESALOJO", "FIN"}
    PROVE  Registro(Tail(e), s, q, pc, d) \in Contrato!PasosWorker(Registro(e, s, q, pc, c))
<1> DEFINE t  == Tail(e)
           r  == Registro(e, s, q, pc, c)
           r1 == Registro(t, s, q, pc, c)
           r2 == Registro(t, s, q, pc, d)
<1>1. r.entrada = e /\ r.query = q
  BY DEF Registro
<1> HIDE DEF t
<1>2. [r EXCEPT !.entrada = t] = r1
  BY DEF Registro
<1>3. [r1 EXCEPT !.corte = d] = r2
  BY DEF Registro
<1> HIDE DEF r, r1, r2
<1>4. [r EXCEPT !.entrada = t, !.corte = d] = r2
  BY <1>2, <1>3
<1>5. d = (r.query # NULL)
  BY <1>1
<1>6. Contrato!TomaCorte(r) = {[r EXCEPT !.entrada = t, !.corte = d]}
  BY <1>1, <1>5 DEF Contrato!TomaCorte, t
<1> QED BY <1>4, <1>6 DEF Contrato!PasosWorker, r, r2, t

\* EjecutaInstruccion, with the OP_READ it may send.
LEMMA PasoInstruccion ==
    ASSUME NEW e, NEW s, NEW q, NEW pc, NEW c, q # NULL, pc <= MaxPc,
           NEW t \in {s, Append(s, Paquete("READ", q, pc))}
    PROVE  Registro(e, t, q, pc + 1, c) \in Contrato!PasosWorker(Registro(e, s, q, pc, c))
<1> DEFINE a  == Append(s, Paquete("READ", q, pc))
           r  == Registro(e, s, q, pc, c)
           r1 == Registro(e, s, q, pc + 1, c)
           r2 == Registro(e, a, q, pc + 1, c)
<1>1. r.query = q /\ r.pc = pc /\ r.salida = s
  BY DEF Registro
<1> HIDE DEF a
<1>2. [r EXCEPT !.pc = pc + 1] = r1
  BY DEF Registro
<1>3. [r1 EXCEPT !.salida = a] = r2
  BY DEF Registro
<1> HIDE DEF r, r1, r2
<1>4. [r EXCEPT !.pc = pc + 1, !.salida = a] = r2
  BY <1>2, <1>3
<1>5. Contrato!EjecutaInstruccion(r)
        = {[r EXCEPT !.pc = pc + 1], [r EXCEPT !.pc = pc + 1, !.salida = a]}
  BY <1>1 DEF Contrato!EjecutaInstruccion, Contrato!Paquete, Paquete, a
<1>6. r1 \in Contrato!EjecutaInstruccion(r) /\ r2 \in Contrato!EjecutaInstruccion(r)
  BY <1>2, <1>4, <1>5
<1>7. Registro(e, t, q, pc + 1, c) \in {r1, r2}
  BY DEF r1, r2, a
<1> QED BY <1>6, <1>7 DEF Contrato!PasosWorker, r

\* Responde: the answer leaves, and the Worker is idle.
LEMMA PasoRespuesta ==
    ASSUME NEW e, NEW s, NEW q, NEW pc, NEW c \in BOOLEAN, q # NULL, NEW f, f = FALSE,
           NEW op \in Resultados, op = "EXEC_DESALOJO" => c
    PROVE  Registro(e, Append(s, Paquete(op, q, pc)), NULL, 0, f)
               \in Contrato!PasosWorker(Registro(e, s, q, pc, c))
<1> DEFINE m  == Paquete(op, q, pc)
           a  == Append(s, m)
           r  == Registro(e, s, q, pc, c)
           r1 == Registro(e, a, q, pc, c)
           r2 == Registro(e, a, NULL, pc, c)
           r3 == Registro(e, a, NULL, pc, f)
           r4 == Registro(e, a, NULL, 0, f)
<1>1. r.query = q /\ r.pc = pc /\ r.corte = c /\ r.salida = s
  BY DEF Registro
<1> HIDE DEF a
<1>2. [r EXCEPT !.salida = a] = r1
  BY DEF Registro
<1>3. [r1 EXCEPT !.query = NULL] = r2
  BY DEF Registro
<1>4. [r2 EXCEPT !.corte = f] = r3
  BY DEF Registro
<1>5. [r3 EXCEPT !.pc = 0] = r4
  BY DEF Registro
<1> HIDE DEF r, r1, r2, r3, r4
<1>6. [r EXCEPT !.salida = a, !.query = NULL, !.corte = f, !.pc = 0] = r4
  BY <1>2, <1>3, <1>4, <1>5
<1>7. m \in Contrato!ResultadosPosibles(r)
  <2>1. op \in {"EXEC_FIN_QUERY", "EXEC_ERROR"}
               \cup (IF r.corte THEN {"EXEC_DESALOJO"} ELSE {})
    BY <1>1 DEF Resultados
  <2> QED BY <1>1, <2>1 DEF Contrato!ResultadosPosibles, Contrato!Paquete, Paquete
<1> HIDE DEF m
<1>8. [r EXCEPT !.salida = a, !.query = NULL, !.corte = f, !.pc = 0] \in Contrato!Responde(r)
  BY <1>1, <1>7 DEF Contrato!Responde, a
<1> QED BY <1>6, <1>8 DEF Contrato!PasosWorker, r, r4, a, m

\* What the Master sends goes to the end of the socket.
LEMMA PasoEnvia ==
    ASSUME NEW e, NEW s, NEW q, NEW pc, NEW c, NEW p
    PROVE  Registro(Append(e, p), s, q, pc, c)
             = [Registro(e, s, q, pc, c) EXCEPT !.entrada = Append(@, p)]
<1> DEFINE r == Registro(e, s, q, pc, c)
           a == Append(e, p)
<1>1. r.entrada = e
  BY DEF Registro
<1> HIDE DEF a
<1>2. [r EXCEPT !.entrada = a] = Registro(a, s, q, pc, c)
  BY DEF Registro
<1> HIDE DEF r
<1> QED BY <1>1, <1>2 DEF a, r

\* What the Master reads leaves the socket.
LEMMA PasoRecibe ==
    ASSUME NEW e, NEW s, NEW q, NEW pc, NEW c
    PROVE  Registro(e, Tail(s), q, pc, c)
             = [Registro(e, s, q, pc, c) EXCEPT !.salida = Tail(@)]
<1> DEFINE r == Registro(e, s, q, pc, c)
           a == Tail(s)
<1>1. r.salida = s
  BY DEF Registro
<1> HIDE DEF a
<1>2. [r EXCEPT !.salida = a] = Registro(e, a, q, pc, c)
  BY DEF Registro
<1> HIDE DEF r
<1> QED BY <1>1, <1>2 DEF a, r

\* The packets the Master has sent, the one hilo_master holds first.
EntradaVista == IF hm.paso \in {"espera", "graba"} THEN <<hm.paquete>> \o entrada ELSE entrada

\* Steps that leave alone what WorkerVisto looks at.
LEMMA VistoIgual ==
    ASSUME EntradaVista' = EntradaVista, salida' = salida, EnCurso' = EnCurso,
           EnCurso => /\ registros'.id = registros.id /\ registros'.pc = registros.pc
                      /\ registros'.desalojo = registros.desalojo
    PROVE  WorkerVisto' = WorkerVisto
<1>1. (EnCurso /\ registros.desalojo)' = (EnCurso /\ registros.desalojo)
  OBVIOUS
<1>2. /\ (IF EnCurso THEN registros.id ELSE NULL)' = IF EnCurso THEN registros.id ELSE NULL
      /\ (IF EnCurso THEN registros.pc ELSE 0)' = IF EnCurso THEN registros.pc ELSE 0
  OBVIOUS
<1> QED BY <1>1, <1>2 DEF WorkerVisto, EntradaVista

\* hilo_master: the registers are written, or a cut is read, or nothing can be seen.
LEMMA HiloMasterVisto ==
    ASSUME IInv, HiloMaster
    PROVE  WorkerVisto' \in Contrato!PasosWorker(WorkerVisto) \/ WorkerVisto' = WorkerVisto
<1> USE DEF IInv
<1>1. CASE RecibeAsignacion
  <2>1. <<Head(entrada)>> \o Tail(entrada) = entrada
    BY <1>1 DEF TypeOK, RecibeAsignacion
  <2>2. EntradaVista' = EntradaVista
    BY <1>1, <2>1 DEF RecibeAsignacion, EntradaVista
  <2>3. EnCurso' = EnCurso
    BY <1>1 DEF RecibeAsignacion, EnCurso
  <2> QED BY <1>1, <2>2, <2>3, VistoIgual DEF RecibeAsignacion
<1>2. CASE EsperaTerminada
  <2>1. EntradaVista' = EntradaVista /\ EnCurso' = EnCurso
    BY <1>2 DEF TypeOK, EsperaTerminada, EntradaVista, EnCurso
  <2> QED BY <1>2, <2>1, VistoIgual DEF EsperaTerminada
<1>3. CASE GrabaRegistros
  <2>1. hm.paquete \in Pedidos /\ hm.paquete.op = "ASIGNAR" /\ entrada \in Seq(Pedidos)
    BY <1>3 DEF GrabaRegistros, PaqueteGuardado, TypeOK
  <2>2. EnCurso = FALSE
    BY <1>3 DEF GrabaRegistros, RegistrosDelTurno, SinQuery, EnCurso
  <2>3. EnCurso' = TRUE /\ (EnCurso /\ registros.desalojo)' = FALSE
    BY <1>3 DEF GrabaRegistros, Turno, Escribiendo, Ocupado, EnCurso
  <2>4. WorkerVisto = Registro(<<hm.paquete>> \o entrada, salida, NULL, 0, FALSE)
    BY <1>3, <2>2 DEF GrabaRegistros, WorkerVisto, Registro
  <2>5. WorkerVisto' = Registro(entrada, salida, hm.paquete.query, hm.paquete.pc, FALSE)
    BY <1>3, <2>3 DEF GrabaRegistros, WorkerVisto, Leyendo, Registro
  <2> QED BY <2>1, <2>4, <2>5, PasoAsignacion
<1>4. CASE AvisaAsignada
  <2>1. EntradaVista' = EntradaVista /\ EnCurso' = EnCurso
    BY <1>4 DEF AvisaAsignada, EntradaVista, EnCurso, Leyendo
  <2> QED BY <1>4, <2>1, VistoIgual DEF AvisaAsignada
<1>5. CASE RecibeCorte
  <2>1. entrada # << >> /\ Head(entrada) \in Pedidos /\ Head(entrada).op # "ASIGNAR"
    BY <1>5 DEF RecibeCorte, TypeOK
  <2>2. Head(entrada).op \in {"DESALOJO", "FIN"}
    BY <2>1 DEF Pedidos
  <2>3. EnCurso' = EnCurso /\ registros'.id = registros.id /\ registros'.pc = registros.pc
    BY <1>5 DEF RecibeCorte, EnCurso, TypeOK
  <2>4. (EnCurso /\ registros.desalojo)' = EnCurso
    BY <1>5, <2>3 DEF RecibeCorte, EnCurso, TypeOK
  <2>5. EnCurso = (WorkerVisto.query # NULL)
    <3>1. EnCurso => registros.id \in Queries
      BY DEF RegistrosDelTurno, SinQuery, EnCurso
    <3> QED BY <3>1, ContratoSupuesto DEF WorkerVisto, EnCurso
  <2>6. WorkerVisto' \in Contrato!PasosWorker(WorkerVisto)
    <3> DEFINE q  == IF EnCurso THEN registros.id ELSE NULL
               pc == IF EnCurso THEN registros.pc ELSE 0
               c  == EnCurso /\ registros.desalojo
               d  == EnCurso
    <3>1. q' = q /\ pc' = pc /\ c' = d
      BY <2>3, <2>4
    <3>2. WorkerVisto = Registro(entrada, salida, q, pc, c)
      BY <1>5 DEF RecibeCorte, WorkerVisto, Registro
    <3>3. WorkerVisto' = Registro(Tail(entrada), salida, q, pc, d)
      BY <1>5, <3>1 DEF RecibeCorte, WorkerVisto, Registro
    <3>4. d = (q # NULL)
      BY <2>5 DEF WorkerVisto
    <3> HIDE DEF q, pc, c, d
    <3> QED BY <2>1, <2>2, <3>2, <3>3, <3>4, PasoCorte
  <2> QED BY <2>6
<1> QED BY <1>1, <1>2, <1>3, <1>4, <1>5 DEF HiloMaster

\* hilo_query_interpreter: an instruction, the result, or nothing that can be seen.
LEMMA InterpreteVisto ==
    ASSUME IInv, HiloQueryInterpreter
    PROVE  WorkerVisto' \in Contrato!PasosWorker(WorkerVisto) \/ WorkerVisto' = WorkerVisto
<1> USE DEF IInv
<1>0. EnCurso => registros.id \in Queries /\ registros.id # NULL
  BY ContratoSupuesto DEF RegistrosDelTurno, SinQuery, EnCurso
<1>1. CASE TomaQuery \/ MiraDesalojo \/ Falla \/ LineaVacia \/ FlushAll
  <2>1. EnCurso' = EnCurso
    BY <1>1 DEF TomaQuery, MiraDesalojo, Falla, LineaVacia, FlushAll, EnCurso, TypeOK
  <2>2. EntradaVista' = EntradaVista
    BY <1>1 DEF TomaQuery, MiraDesalojo, Falla, LineaVacia, FlushAll, EntradaVista
  <2> QED BY <1>1, <2>1, <2>2, VistoIgual
          DEF TomaQuery, MiraDesalojo, Falla, LineaVacia, FlushAll
<1>2. CASE Ejecuta \/ EjecutaEnd
  <2>1. /\ EnCurso = TRUE /\ EnCurso' = TRUE /\ registros.pc <= MaxPc
        /\ registros' = [registros EXCEPT !.pc = @ + 1]
        /\ EntradaVista' = EntradaVista
        /\ salida' \in {salida, Append(salida, Paquete("READ", registros.id, registros.pc))}
    <3>1. EnCurso = TRUE
      BY <1>2 DEF Ejecuta, EjecutaEnd, Turno, Escribiendo, Ocupado, RegistrosDelTurno, EnCurso,
                  TypeOK
    <3>2. registros.pc <= MaxPc
      BY <1>2, ContratoSupuesto DEF Ejecuta, EjecutaEnd, TypeOK, ProgramCounter
    <3>3. registros' = [registros EXCEPT !.pc = @ + 1] /\ qi'.paso \in {"ciclo", "flush"}
      BY <1>2 DEF Ejecuta, EjecutaEnd, TypeOK
    <3>4. EnCurso' = TRUE
      BY <3>1, <3>3 DEF EnCurso, TypeOK
    <3>5. /\ EntradaVista' = EntradaVista
          /\ salida' \in {salida, Append(salida, Paquete("READ", registros.id, registros.pc))}
      BY <1>2 DEF Ejecuta, EjecutaEnd, EntradaVista
    <3> QED BY <3>1, <3>2, <3>3, <3>4, <3>5
  <2>2. /\ registros'.id = registros.id /\ registros'.pc = registros.pc + 1
        /\ registros'.desalojo = registros.desalojo
    BY <2>1 DEF TypeOK
  <2>3. WorkerVisto = Registro(EntradaVista, salida, registros.id, registros.pc,
                               registros.desalojo)
    BY <2>1 DEF WorkerVisto, EntradaVista, TypeOK, Registro
  <2>4. WorkerVisto' = Registro(EntradaVista, salida', registros.id, registros.pc + 1,
                                registros.desalojo)
    <3>1. (EnCurso /\ registros.desalojo)' = registros.desalojo
      BY <2>1, <2>2 DEF TypeOK
    <3> QED BY <2>1, <2>2, <3>1 DEF WorkerVisto, EntradaVista, Registro
  <2> QED BY <1>0, <2>1, <2>3, <2>4, PasoInstruccion
<1>3. CASE Notifica
  <2> DEFINE m == Paquete(qi.resultado, registros.id, registros.pc)
  <2>1. /\ EnCurso = TRUE /\ EnCurso' = FALSE
        /\ EntradaVista' = EntradaVista /\ salida' = Append(salida, m)
    <3>1. EnCurso = TRUE
      BY <1>3 DEF Notifica, Turno, Escribiendo, Ocupado, RegistrosDelTurno, EnCurso, TypeOK
    <3>2. EnCurso' = FALSE
      BY <1>3 DEF Notifica, EnCurso, TypeOK
    <3> QED BY <1>3, <3>1, <3>2 DEF Notifica, EntradaVista
  <2>2. WorkerVisto = Registro(EntradaVista, salida, registros.id, registros.pc,
                               registros.desalojo)
    BY <2>1 DEF WorkerVisto, EntradaVista, TypeOK, Registro
  <2>3. WorkerVisto' = Registro(EntradaVista, Append(salida, m), NULL, 0, FALSE)
    <3>1. (EnCurso /\ registros.desalojo)' = FALSE
      BY <2>1
    <3> QED BY <2>1, <3>1 DEF WorkerVisto, EntradaVista, Registro
  <2>4. /\ qi.resultado \in Resultados /\ registros.desalojo \in BOOLEAN
        /\ qi.resultado = "EXEC_DESALOJO" => registros.desalojo
    BY <1>3 DEF Notifica, ResultadoDelPaso, TypeOK
  <2> QED BY <1>0, <2>1, <2>2, <2>3, <2>4, PasoRespuesta
<1>4. CASE Limpia \/ AvisaTerminada
  <2>1. EnCurso = FALSE /\ EnCurso' = FALSE
    BY <1>4 DEF Limpia, AvisaTerminada, desalojar_query, SinQuery, RegistrosDelTurno, EnCurso,
                TypeOK
  <2>2. EntradaVista' = EntradaVista /\ salida' = salida
    BY <1>4 DEF Limpia, AvisaTerminada, EntradaVista
  <2> QED BY <2>1, <2>2, VistoIgual
<1> QED BY <1>1, <1>2, <1>3, <1>4 DEF HiloQueryInterpreter

\* Every step of the process or of the Master is one of the contract, or cannot be seen.
LEMMA PasoVisto == IInv /\ [Next]_vars => [Contrato!Next]_WorkerVisto
<1> SUFFICES ASSUME IInv, [Next]_vars
             PROVE  Contrato!Next \/ WorkerVisto' = WorkerVisto
  OBVIOUS
<1>1. CASE HiloMaster
  BY <1>1, HiloMasterVisto DEF Contrato!Next, Contrato!Worker
<1>2. CASE HiloQueryInterpreter
  BY <1>2, InterpreteVisto DEF Contrato!Next, Contrato!Worker
<1>3. CASE Envia
  <2>1. PICK p \in Pedidos : entrada' = Append(entrada, p)
    BY <1>3, PedidosUtilesValidos DEF Envia
  <2>2. EntradaVista' = Append(EntradaVista, p)
    <3>1. entrada \in Seq(Pedidos) /\ hm' = hm
      BY <1>3 DEF IInv, TypeOK, Envia
    <3>2. CASE hm.paso \in {"espera", "graba"}
      <4>1. hm.paquete \in Pedidos
        BY <3>2 DEF IInv, PaqueteGuardado
      <4>2. <<hm.paquete>> \o Append(entrada, p) = Append(<<hm.paquete>> \o entrada, p)
        BY <3>1, <4>1
      <4> QED BY <2>1, <3>1, <3>2, <4>2 DEF EntradaVista
    <3>3. CASE hm.paso \notin {"espera", "graba"}
      BY <2>1, <3>1, <3>3 DEF EntradaVista
    <3> QED BY <3>2, <3>3
  <2>3. WorkerVisto' = [WorkerVisto EXCEPT !.entrada = Append(@, p)]
    <3> DEFINE q  == IF EnCurso THEN registros.id ELSE NULL
               pc == IF EnCurso THEN registros.pc ELSE 0
               c  == EnCurso /\ registros.desalojo
    <3>1. q' = q /\ pc' = pc /\ c' = c /\ salida' = salida
      BY <1>3 DEF Envia, EnCurso
    <3>2. WorkerVisto = Registro(EntradaVista, salida, q, pc, c)
      BY DEF WorkerVisto, EntradaVista, Registro
    <3>3. WorkerVisto' = Registro(EntradaVista', salida, q, pc, c)
      BY <3>1 DEF WorkerVisto, EntradaVista, Registro
    <3> HIDE DEF q, pc, c
    <3> QED BY <2>2, <3>2, <3>3, PasoEnvia
  <2>4. p \in Contrato!Pedidos
    BY DEF Pedidos, ProgramCounter, Contrato!Pedidos, Contrato!ProgramCounter
  <2> QED BY <2>3, <2>4 DEF Contrato!Next, Contrato!Envia
<1>4. CASE Recibe
  <2>1. salida # << >> /\ WorkerVisto.salida = salida
    BY <1>4 DEF Recibe, WorkerVisto
  <2>2. WorkerVisto' = [WorkerVisto EXCEPT !.salida = Tail(@)]
    <3> DEFINE q  == IF EnCurso THEN registros.id ELSE NULL
               pc == IF EnCurso THEN registros.pc ELSE 0
               c  == EnCurso /\ registros.desalojo
    <3>1. q' = q /\ pc' = pc /\ c' = c /\ EntradaVista' = EntradaVista
      BY <1>4 DEF Recibe, EnCurso, EntradaVista
    <3>2. WorkerVisto = Registro(EntradaVista, salida, q, pc, c)
      BY DEF WorkerVisto, EntradaVista, Registro
    <3>3. WorkerVisto' = Registro(EntradaVista, Tail(salida), q, pc, c)
      BY <1>4, <3>1 DEF Recibe, WorkerVisto, EntradaVista, Registro
    <3> HIDE DEF q, pc, c
    <3> QED BY <3>2, <3>3, PasoRecibe
  <2> QED BY <2>1, <2>2 DEF Contrato!Next, Contrato!Recibe
<1>5. CASE UNCHANGED vars
  BY <1>5 DEF vars, WorkerVisto, EnCurso
<1> QED BY <1>1, <1>2, <1>3, <1>4, <1>5 DEF Next

\* The two threads, with their semaphores, registers and flags, are the Worker the Master
\* is composed with (worker.c:117-220).
THEOREM HilosImplementanContrato == Spec => ImplementaContrato
<1>1. Spec => Init /\ [][Next]_vars
  BY PTL DEF Spec
<1> QED BY <1>1, InicialVisto, PasoVisto, TurnoUnico, PTL DEF ImplementaContrato, Contrato!Spec
=============================================================================
