------------------------------ MODULE Conexiones ------------------------------
(***************************************************************************)
(* The life of the processes and of the connections between them: how the  *)
(* Storage and the Master accept their clients, how Workers and Query      *)
(* Controls start, and what each process does when another one ends.       *)
(*                                                                         *)
(* A connection ("enlace") is a pair <<client, server>>: what the client   *)
(* keeps in conexion_storage or conexion_master.  A server accepts a       *)
(* connection and reads its handshake in one thread, before it accepts the *)
(* next; every connection it recognises then gets a thread.  A process may *)
(* be killed at any moment, and a client may be configured with the port   *)
(* of the other server.                                                    *)
(*                                                                         *)
(* Grain: one call that may block (accept, recv, sem_wait), or one send,   *)
(* per action.  Packets are whole (Mensajeria cuts them).  The scheduler   *)
(* is FIFO without evictions and a query makes at most one request to the  *)
(* Storage and one READ (Master and Consultas have the rest).              *)
(***************************************************************************)
EXTENDS Naturals, Sequences, FiniteSets

CONSTANTS
    Workers,         (* the Workers                                        *)
    QueryControls,   (* the Query Controls; each one names its query       *)
    NULL,            (* no query, no connection                            *)
    Errores,         (* the sets of connections whose port may be mistaken *)
    MaxCaidas        (* bound: processes killed                            *)

Servidores == {"storage", "master"}
Clientes == Workers \cup QueryControls
Enlaces == (Workers \X Servidores) \cup (QueryControls \X {"master"})

ASSUME ConexionesSupuesto ==
    /\ Workers \cap QueryControls = {} /\ Clientes \cap Servidores = {}
    /\ NULL \notin Clientes \cup Enlaces
    /\ Errores \subseteq SUBSET Enlaces /\ MaxCaidas \in Nat

VARIABLES
    equivocados,   \* the connections configured with the other server's port
    vivo,          \* the processes that run
    paso,          \* client: the connection its main is making, and where it is
    sock,          \* the connections, as the kernel keeps them
    cola,          \* server: connections made and not accepted yet
    receptor,      \* server: the thread that accepts
    hilo,          \* server: where the thread of each connection is
    cuenta,        \* g_cantidadWorkers of the Storage, nivelMultiprocesamiento of the Master
    semListo,      \* Master: whether main has passed sem_init and started the scheduler
    sem,           \* Master: semPlanificador
    lista,         \* Master: listaWorkers
    asignada,      \* Master: worker->query
    estado,        \* Master: the list each query is in
    socketQuery,   \* Master: the connection with the number each query writes to, or its last
    pagina,        \* Workers that know the size of a page
    hm,            \* Worker: hilo_master
    qi,            \* Worker: hilo_query_interpreter
    caidas,        \* bound: processes killed so far
    abandono,      \* history: the Master met a client that left before its handshake
    perdido,       \* history: sem_init erased a sem_post
    sigpipe        \* history: the processes that died writing

clientes == <<paso, pagina>>
maestro == <<semListo, sem, lista, asignada, estado, socketQuery, perdido>>
hilosWorker == <<hm, qi>>
vars == <<equivocados, vivo, sock, cola, receptor, hilo, cuenta, clientes, maestro,
          hilosWorker, caidas, abandono, sigpipe>>

-----------------------------------------------------------------------------
(***************************************************************************)
(* Connections.  `hacia` is what waits to be read at each end; `rst` says  *)
(* that a packet reached an end that was closed, or that an end was closed *)
(* over packets it had not read: the next send of the other end fails.     *)
(***************************************************************************)
Lados == {"cliente", "servidor"}
Otro(l) == IF l = "cliente" THEN "servidor" ELSE "cliente"
Nada == [l \in Lados |-> << >>]
SinConexion == [abierto |-> {}, hacia |-> Nada, rst |-> FALSE]
Nueva == [SinConexion EXCEPT !.abierto = Lados]

\* close, or the end of the process.
Cierra(k, l) == [abierto |-> k.abierto \ {l}, hacia |-> [k.hacia EXCEPT ![l] = << >>],
                 rst |-> k.rst \/ k.hacia[l] # << >>]

\* send that does not fail: nobody says whether the other end was there.
Escribe(k, l, m) == IF Otro(l) \in k.abierto
                    THEN [k EXCEPT !.hacia[Otro(l)] = Append(@, m)]
                    ELSE [k EXCEPT !.rst = TRUE]
Rota(k, l) == Otro(l) \notin k.abierto /\ k.rst                \* send fails
Hay(k, l) == k.hacia[l] # << >>                                \* recv returns
Cortada(k, l) == Otro(l) \notin k.abierto /\ ~Hay(k, l)        \* recv returns 0 or -1
Lee(k, l) == [k EXCEPT !.hacia[l] = Tail(@)]

Destino(e) == IF e \notin equivocados THEN e[2]
              ELSE IF e[2] = "master" THEN "storage" ELSE "master"

EnCola(e) == \E i \in DOMAIN cola[Destino(e)] : cola[Destino(e)][i] = e

\* The connections s once process p has ended: those it had not accepted are reset.
Sin(p, s) == [e \in Enlaces |-> IF e[1] = p THEN Cierra(s[e], "cliente")
                                ELSE IF Destino(e) = p /\ "servidor" \in s[e].abierto
                                THEN [Cierra(s[e], "servidor") EXCEPT
                                        !.rst = @ \/ EnCola(e)]
                                ELSE s[e]]
Termina(p, s) == vivo' = vivo \ {p} /\ sock' = Sin(p, s)

\* Mutant: the Master does not ignore SIGPIPE.
IgnoranSigpipe_Mut == {}

IgnoranSigpipe == {"master"}

\* A send that fails: SIGPIPE.  The first one after a reset may only return -1.
Muere(p) == p \notin IgnoranSigpipe /\ Termina(p, sock) /\ sigpipe' = sigpipe \cup {p}
Sigue == UNCHANGED <<vivo, sock, sigpipe>>

\* Process p sends m from side l of connection e, s being the connections: it goes on
\* whether the send fails or not, or dies.
Envia(p, s, e, l, m) ==
    \/ /\ sock' = IF Rota(s[e], l) \/ l \notin s[e].abierto THEN s
                  ELSE [s EXCEPT ![e] = Escribe(@, l, m)]
       /\ UNCHANGED <<vivo, sigpipe>>
    \/ Rota(s[e], l) /\ Muere(p)

-----------------------------------------------------------------------------
Init ==
    /\ equivocados \in Errores
    /\ vivo = Clientes \cup Servidores
    /\ paso = [c \in Clientes |-> [con |-> IF c \in Workers THEN "storage" ELSE "master",
                                   en |-> "conecta"]]
    /\ sock = [e \in Enlaces |-> SinConexion]
    /\ cola = [s \in Servidores |-> << >>]
    /\ receptor = [s \in Servidores |-> [en |-> "acepta", de |-> NULL]]
    /\ hilo = [e \in Enlaces |-> "no"]
    /\ cuenta = [s \in Servidores |-> 0]
    /\ semListo = FALSE /\ sem = 0 /\ perdido = FALSE
    /\ lista = {} /\ asignada = [w \in Workers |-> NULL]
    /\ estado = [q \in QueryControls |-> "NINGUNO"]
    /\ socketQuery = [q \in QueryControls |-> <<q, "master">>]
    /\ pagina = {}
    /\ hm = [w \in Workers |-> "no"] /\ qi = [w \in Workers |-> "no"]
    /\ caidas = 0 /\ abandono = FALSE /\ sigpipe = {}

-----------------------------------------------------------------------------
(***************************************************************************)
(* The clients: conexiones_worker and conexion_qc, then the loop of each.  *)
(***************************************************************************)
Enlace(c) == <<c, paso[c].con>>
En(c, donde) == c \in vivo /\ paso[c].en = donde
Avanza(c, donde) == paso' = [paso EXCEPT ![c].en = donde]
servidor == <<cola, receptor, hilo, cuenta, maestro>>
historia == <<equivocados, caidas, abandono>>

\* crear_conexion: with nobody listening, the process ends.
Conecta(c) ==
    LET e == Enlace(c) IN
    /\ En(c, "conecta")
    /\ \/ /\ Destino(e) \in vivo
          /\ sock' = [sock EXCEPT ![e] = Nueva]
          /\ cola' = [cola EXCEPT ![Destino(e)] = Append(@, e)]
          /\ Avanza(c, "saluda") /\ UNCHANGED vivo
       \/ Destino(e) \notin vivo /\ Termina(c, sock) /\ UNCHANGED <<cola, paso>>
    /\ UNCHANGED <<receptor, hilo, cuenta, maestro, pagina, hilosWorker, sigpipe, historia>>

\* The handshake.  Only the Worker's to the Master is sent without looking at the result.
Saludo(e) == IF e[1] \in QueryControls THEN "HANDSHAKE_QC_MASTER"
             ELSE IF e[2] = "master" THEN "HANDSHAKE_WORKER_MASTER"
             ELSE "HANDSHAKE_WORKER_STORAGE"

Saluda(c) ==
    LET e == Enlace(c) IN
    /\ En(c, "saluda")
    /\ \/ /\ ~Rota(sock[e], "cliente")
          /\ sock' = [sock EXCEPT ![e] = Escribe(@, "cliente", Saludo(e))]
          /\ Avanza(c, "espera") /\ UNCHANGED <<vivo, sigpipe>>
       \/ /\ Rota(sock[e], "cliente")
          /\ \/ Muere(c) /\ UNCHANGED paso
             \/ c \in Workers /\ e[2] = "master" /\ Sigue /\ Avanza(c, "espera")
             \/ Termina(c, sock) /\ UNCHANGED <<paso, sigpipe>>
    /\ UNCHANGED <<servidor, pagina, hilosWorker, historia>>

\* handshake_worker_storage: the size of the page.  Another packet ends the Worker, and
\* without one it reads through NULL.
RecibePagina(w) ==
    LET e == Enlace(w) IN
    /\ En(w, "espera") /\ w \in Workers /\ e[2] = "storage"
    /\ \/ /\ Hay(sock[e], "cliente") /\ Head(sock[e].hacia.cliente) = "PAGINA"
          /\ sock' = [sock EXCEPT ![e] = Lee(@, "cliente")]
          /\ pagina' = pagina \cup {w}
          /\ paso' = [paso EXCEPT ![w] = [con |-> "master", en |-> "conecta"]]
          /\ UNCHANGED vivo
       \/ /\ \/ Hay(sock[e], "cliente") /\ Head(sock[e].hacia.cliente) # "PAGINA"
             \/ Cortada(sock[e], "cliente")
          /\ Termina(w, sock) /\ UNCHANGED clientes
    /\ UNCHANGED <<servidor, hilosWorker, sigpipe, historia>>

\* confirmarRecepcion takes whatever comes for a string: the first bytes of a packet, if it
\* is one, and what follows is read out of step.  With nothing to read the Query Control
\* gives up; the Worker goes on and starts its threads.
Confirma(c) ==
    LET e == Enlace(c) IN
    /\ En(c, "espera") /\ e[2] = "master"
    /\ \/ /\ \/ /\ Hay(sock[e], "cliente")
                /\ sock' = [sock EXCEPT ![e] = Lee(@, "cliente")]
                /\ Avanza(c, IF Head(sock[e].hacia.cliente) = "CONFIRMACION" THEN "sirve"
                             ELSE "desfasado")
             \/ /\ c \in Workers /\ Cortada(sock[e], "cliente")
                /\ UNCHANGED sock /\ Avanza(c, "sirve")
          /\ UNCHANGED vivo
          /\ hm' = [w \in Workers |-> IF w = c THEN "recibe" ELSE hm[w]]
          /\ qi' = [w \in Workers |-> IF w = c THEN "espera" ELSE qi[w]]
       \/ /\ c \in QueryControls /\ Cortada(sock[e], "cliente")
          /\ Termina(c, sock) /\ UNCHANGED <<paso, hilosWorker>>
    /\ UNCHANGED <<servidor, pagina, sigpipe, historia>>

\* Mutant: the Query Control reads again when the Master has gone.
FinDeEscucha_Mut(m) == m = "RESULTADO"

\* What ends the loop of the Query Control; "CORTE" is the NULL of recibir_paquete.
FinDeEscucha(m) == m \in {"RESULTADO", "CORTE"}

\* The loop of query_control.c.
Escucha(q) ==
    LET e == Enlace(q)
        m == IF Hay(sock[e], "cliente") THEN Head(sock[e].hacia.cliente) ELSE "CORTE" IN
    /\ q \in QueryControls /\ En(q, "sirve")
    /\ Hay(sock[e], "cliente") \/ Cortada(sock[e], "cliente")
    /\ \/ FinDeEscucha(m) /\ Termina(q, sock)
       \/ /\ ~FinDeEscucha(m) /\ UNCHANGED vivo
          /\ sock' = IF m = "CORTE" THEN sock ELSE [sock EXCEPT ![e] = Lee(@, "cliente")]
    /\ UNCHANGED <<servidor, clientes, hilosWorker, sigpipe, historia>>

\* A client that reads out of step finds no operation it knows; a Query Control may end,
\* and does when the connection does.
Desfasado(c) ==
    LET e == Enlace(c) IN
    /\ En(c, "desfasado")
    /\ \/ /\ Hay(sock[e], "cliente") /\ UNCHANGED vivo
          /\ sock' = [sock EXCEPT ![e] = Lee(@, "cliente")]
       \/ /\ c \in QueryControls
          /\ Hay(sock[e], "cliente") \/ Cortada(sock[e], "cliente")
          /\ Termina(c, sock)
    /\ UNCHANGED <<servidor, clientes, hilosWorker, sigpipe, historia>>

Cliente(c) == \/ Conecta(c) \/ Saluda(c) \/ RecibePagina(c) \/ Confirma(c) \/ Escucha(c)
              \/ Desfasado(c)

-----------------------------------------------------------------------------
(***************************************************************************)
(* The two threads of a Worker.                                            *)
(***************************************************************************)
ConMaster(c) == <<c, "master">>
ConStorage(w) == <<w, "storage">>
Trabaja(w) == w \in Workers /\ En(w, "sirve")

\* hilo_master: an assignment waits for the interpreter; without the Master it ends.
HiloMaster(w) ==
    LET k == sock[ConMaster(w)]
        m == IF Hay(k, "cliente") THEN Head(k.hacia.cliente) ELSE "CORTE" IN
    /\ Trabaja(w) /\ hm[w] = "recibe"
    /\ \/ /\ Hay(k, "cliente") /\ (m = "ASIGNAR" => qi[w] = "espera")
          /\ sock' = [sock EXCEPT ![ConMaster(w)] = Lee(@, "cliente")]
          /\ qi' = IF m = "ASIGNAR" THEN [qi EXCEPT ![w] = "ejecuta"] ELSE qi
          /\ UNCHANGED hm
       \/ Cortada(k, "cliente") /\ hm' = [hm EXCEPT ![w] = "fin"] /\ UNCHANGED <<sock, qi>>
    /\ UNCHANGED <<vivo, servidor, clientes, sigpipe, historia>>

Interprete(w, donde, sigue) ==
    /\ Trabaja(w) /\ qi[w] = donde /\ qi' = [qi EXCEPT ![w] = sigue]
    /\ UNCHANGED <<servidor, clientes, hm, historia>>

\* A query that never needs the Storage, or an instruction that does.
SinPedidos(w) == Interprete(w, "ejecuta", "notifica") /\ Sigue
Pide(w) ==
    LET e == ConStorage(w) IN
    /\ Interprete(w, "ejecuta", IF Rota(sock[e], "cliente") THEN "notifica" ELSE "respuesta")
    /\ Envia(w, sock, e, "cliente", "PEDIDO")

\* recibir_entero says nothing of the end of the Storage: the query goes on either way.
RecibeRespuesta(w) ==
    LET k == sock[ConStorage(w)] IN
    /\ \E sigue \in {"lectura", "notifica"} : Interprete(w, "respuesta", sigue)
    /\ Hay(k, "cliente") \/ Cortada(k, "cliente")
    /\ sock' = IF Hay(k, "cliente") THEN [sock EXCEPT ![ConStorage(w)] = Lee(@, "cliente")]
               ELSE sock
    /\ UNCHANGED <<vivo, sigpipe>>

EnviaLectura(w) == /\ Interprete(w, "lectura", "notifica")
                   /\ Envia(w, sock, ConMaster(w), "cliente", "READ")
Notifica(w) == /\ Interprete(w, "notifica", "espera")
               /\ Envia(w, sock, ConMaster(w), "cliente", "RESULTADO")

HiloQueryInterpreter(w) ==
    SinPedidos(w) \/ Pide(w) \/ RecibeRespuesta(w) \/ EnviaLectura(w) \/ Notifica(w)

-----------------------------------------------------------------------------
(***************************************************************************)
(* The servers: main of the Storage and iniciar_receptor of the Master.    *)
(***************************************************************************)
Recibe(s, en, de) == receptor' = [receptor EXCEPT ![s] = [en |-> en, de |-> de]]
Reconoce(s) == IF s = "storage" THEN {"HANDSHAKE_WORKER_STORAGE"}
               ELSE {"HANDSHAKE_QC_MASTER", "HANDSHAKE_WORKER_MASTER"}

\* Mutant: a client of the Master is registered before it is answered.
Despues_Mut == [no |-> "registra", registra |-> "confirma", confirma |-> "avisa",
                avisa |-> "lee"]

\* The steps of a thread of the Master: the confirmation goes out before the scheduler
\* can know of the client.  A thread of the Storage answers and goes to its loop.
Despues == [no |-> "confirma", confirma |-> "registra", registra |-> "avisa", avisa |-> "lee"]

\* accept gives e the number that x had until its thread closed it (the lowest free one; which
\* one that is, or whether it was a query's, is left open), and the queries keep theirs.
Reusa(x, e) ==
    /\ hilo[x] = "fin"
    /\ socketQuery' = [q \in QueryControls |-> IF socketQuery[q] = x THEN e ELSE socketQuery[q]]

Acepta(s) ==
    /\ s \in vivo /\ receptor[s].en = "acepta" /\ cola[s] # << >>
    /\ Recibe(s, "lee", Head(cola[s])) /\ cola' = [cola EXCEPT ![s] = Tail(@)]
    /\ \/ UNCHANGED socketQuery
       \/ s = "master" /\ \E x \in Enlaces : Reusa(x, Head(cola[s]))
    /\ UNCHANGED <<vivo, sock, hilo, cuenta, clientes, semListo, sem, lista, asignada, estado,
                   perdido, hilosWorker, sigpipe, historia>>

\* Mutant: a first packet that is not a handshake ends the Master's loop too.
Tolera_Mut == {}

\* The servers that go on after a first packet that is not a handshake: the Master keeps
\* the connection open and forgets it; the Storage exits.
Tolera == {"master"}

RecibeHandshake(s) ==
    LET e == receptor[s].de IN
    /\ s \in vivo /\ receptor[s].en = "lee" /\ Hay(sock[e], "servidor")
    /\ LET m == Head(sock[e].hacia.servidor)
           leido == [sock EXCEPT ![e] = Lee(@, "servidor")] IN
       \/ /\ m \in Reconoce(s)
          /\ hilo' = [hilo EXCEPT ![e] = IF s = "storage" THEN "confirma" ELSE Despues.no]
          /\ Recibe(s, "acepta", NULL) /\ sock' = leido /\ UNCHANGED vivo
       \/ /\ m \notin Reconoce(s) /\ UNCHANGED hilo
          /\ IF s = "storage" THEN Termina(s, leido) ELSE sock' = leido /\ UNCHANGED vivo
          /\ Recibe(s, IF s \in Tolera THEN "acepta" ELSE "fin", NULL)
    /\ UNCHANGED <<cola, cuenta, clientes, maestro, hilosWorker, sigpipe, historia>>

\* The client leaves before its handshake: main of the Storage returns EXIT_FAILURE, and
\* iniciar_receptor returns NULL: the Master runs on and accepts nobody.
SinHandshake(s) ==
    LET e == receptor[s].de IN
    /\ s \in vivo /\ receptor[s].en = "lee" /\ Cortada(sock[e], "servidor")
    /\ Recibe(s, "fin", NULL)
    /\ \/ s = "storage" /\ Termina(s, sock) /\ UNCHANGED abandono
       \/ /\ s = "master" /\ abandono' = TRUE
          /\ sock' = [sock EXCEPT ![e] = Cierra(@, "servidor")] /\ UNCHANGED vivo
    /\ UNCHANGED <<cola, hilo, cuenta, clientes, maestro, hilosWorker, sigpipe, equivocados,
                   caidas>>

Receptor(s) == Acepta(s) \/ RecibeHandshake(s) \/ SinHandshake(s)

-----------------------------------------------------------------------------
(***************************************************************************)
(* The thread a server gives to each connection.                           *)
(***************************************************************************)
Hilo(e, donde) == e[2] \in vivo /\ hilo[e] = donde
Pasa(e, donde) == hilo' = [hilo EXCEPT ![e] = donde]
Suma(s, n) == cuenta' = [cuenta EXCEPT ![s] = @ + n]
Resta(s, n) == cuenta' = [cuenta EXCEPT ![s] = @ - n]
ajeno == <<cola, receptor, clientes, hilosWorker, historia>>

\* atender_worker of the Storage.
HiloStorage(e) ==
    LET k == sock[e] IN
    /\ \/ /\ Hilo(e, "confirma") /\ Pasa(e, "lee") /\ Suma("storage", 1)
          /\ Envia("storage", sock, e, "servidor", "PAGINA")
       \/ /\ Hilo(e, "lee") /\ Hay(k, "servidor") /\ UNCHANGED <<hilo, cuenta>>
          /\ Envia("storage", [sock EXCEPT ![e] = Lee(@, "servidor")], e, "servidor", "RESPUESTA")
       \/ /\ Hilo(e, "lee") /\ Cortada(k, "servidor")
          /\ Pasa(e, "fin") /\ Resta("storage", 1)
          /\ sock' = [sock EXCEPT ![e] = Cierra(@, "servidor")] /\ UNCHANGED <<vivo, sigpipe>>
    /\ UNCHANGED <<maestro, ajeno>>

\* atender_query_control and atender_worker of the Master, up to their loops.
Registra(e) ==
    /\ e[2] = "master" /\ hilo[e] \in {"confirma", "registra", "avisa"}
    /\ Hilo(e, hilo[e]) /\ Pasa(e, Despues[hilo[e]])
    /\ \/ /\ Hilo(e, "confirma") /\ UNCHANGED <<maestro, cuenta>>
          /\ Envia("master", sock, e, "servidor", "CONFIRMACION")
       \/ /\ Hilo(e, "registra") /\ Sigue
          /\ \/ /\ e[1] \in QueryControls
                /\ estado' = [estado EXCEPT ![e[1]] = "READY"] /\ UNCHANGED <<lista, cuenta>>
             \/ /\ e[1] \in Workers /\ Suma("master", 1)
                /\ lista' = lista \cup {e[1]} /\ UNCHANGED estado
          /\ UNCHANGED <<semListo, sem, asignada, socketQuery, perdido>>
       \/ /\ Hilo(e, "avisa") /\ Sigue /\ sem' = sem + 1
          /\ UNCHANGED <<semListo, lista, asignada, estado, socketQuery, perdido, cuenta>>
    /\ UNCHANGED ajeno

\* A Query Control that leaves: its query is withdrawn, or cancelled in its Worker, which
\* runs on meanwhile; the query keeps the number of the connection that is closed.
SeVaQueryControl(q) ==
    LET e == ConMaster(q)
        cerrado == [sock EXCEPT ![e] = Cierra(@, "servidor")]
        suyo == {w \in lista : asignada[w] = q} IN
    /\ Hilo(e, "lee") /\ Cortada(sock[e], "servidor") /\ Pasa(e, "fin")
    /\ estado' = IF estado[q] = "READY" THEN [estado EXCEPT ![q] = "EXIT"] ELSE estado
    /\ IF estado[q] = "EXEC" /\ suyo # {}
       THEN \E w \in suyo : Envia("master", cerrado, ConMaster(w), "servidor", "FIN")
       ELSE sock' = cerrado /\ UNCHANGED <<vivo, sigpipe>>
    /\ UNCHANGED <<semListo, sem, lista, asignada, socketQuery, perdido, cuenta, ajeno>>

Conectado(q) == hilo[ConMaster(q)] # "fin"      \* ~desconexion_solicitada

\* Mutant: the Worker is freed without a post.
Avisa_Mut == 0

\* sem_post of a Worker that has been freed.
Avisa == 1

\* A packet of a Worker: what it read goes to the number its query has, without a look at
\* whether the Query Control is still there; its result, only if it is, and the Worker is
\* free again.
LeeWorker(w) ==
    LET e == ConMaster(w)
        m == Head(sock[e].hacia.servidor)
        leido == [sock EXCEPT ![e] = Lee(@, "servidor")]
        q == asignada[w] IN
    /\ Hilo(e, "lee") /\ Hay(sock[e], "servidor")
    /\ IF q # NULL /\ (m = "READ" \/ Conectado(q))
       THEN Envia("master", leido, socketQuery[q], "servidor", m)
       ELSE sock' = leido /\ UNCHANGED <<vivo, sigpipe>>
    /\ IF m = "RESULTADO"
       THEN /\ asignada' = [asignada EXCEPT ![w] = NULL] /\ sem' = sem + Avisa
            /\ estado' = IF q = NULL THEN estado ELSE [estado EXCEPT ![q] = "EXIT"]
       ELSE UNCHANGED <<asignada, sem, estado>>
    /\ UNCHANGED <<semListo, lista, socketQuery, perdido, hilo, cuenta, ajeno>>

\* A Worker that leaves: its query ends in error, and nobody posts.
SeVaWorker(w) ==
    LET e == ConMaster(w)
        cerrado == [sock EXCEPT ![e] = Cierra(@, "servidor")]
        q == asignada[w] IN
    /\ Hilo(e, "lee") /\ Cortada(sock[e], "servidor") /\ Pasa(e, "fin")
    /\ IF q # NULL /\ Conectado(q)
       THEN Envia("master", cerrado, socketQuery[q], "servidor", "RESULTADO")
       ELSE sock' = cerrado /\ UNCHANGED <<vivo, sigpipe>>
    /\ estado' = IF q = NULL THEN estado ELSE [estado EXCEPT ![q] = "EXIT"]
    /\ lista' = lista \ {w} /\ Resta("master", 1)
    /\ UNCHANGED <<semListo, sem, asignada, socketQuery, perdido, ajeno>>

HiloDe(e) == \/ e[2] = "storage" /\ HiloStorage(e)
             \/ Registra(e)
             \/ e[1] \in QueryControls /\ SeVaQueryControl(e[1])
             \/ e[1] \in Workers /\ e[2] = "master" /\ (LeeWorker(e[1]) \/ SeVaWorker(e[1]))

-----------------------------------------------------------------------------
(***************************************************************************)
(* main of the Master, which initialises semPlanificador once the thread   *)
(* that accepts is already running, and the scheduler.                     *)
(***************************************************************************)
IniciaPlanificador ==
    /\ "master" \in vivo /\ ~semListo /\ semListo' = TRUE
    /\ sem' = 0 /\ perdido' = (sem > 0)
    /\ UNCHANGED <<vivo, sock, hilo, cuenta, lista, asignada, estado, socketQuery, sigpipe,
                   ajeno>>

Libres == {w \in lista : asignada[w] = NULL}
Listas == {q \in QueryControls : estado[q] = "READY"}

Planifica ==
    /\ "master" \in vivo /\ semListo /\ sem > 0 /\ sem' = sem - 1
    /\ \/ \E w \in Libres, q \in Listas :
            /\ estado' = [estado EXCEPT ![q] = "EXEC"]
            /\ asignada' = [asignada EXCEPT ![w] = q]
            /\ Envia("master", sock, ConMaster(w), "servidor", "ASIGNAR")
       \/ (Libres = {} \/ Listas = {}) /\ Sigue /\ UNCHANGED <<estado, asignada>>
    /\ UNCHANGED <<semListo, lista, socketQuery, perdido, hilo, cuenta, ajeno>>

Planificador == IniciaPlanificador \/ Planifica

\* A process is killed, and its memory is gone.
CaeCliente(c) ==
    /\ c \in Clientes
    /\ paso' = [paso EXCEPT ![c] = [con |-> "master", en |-> "fin"]] /\ pagina' = pagina \ {c}
    /\ hm' = [w \in Workers |-> IF w = c THEN "no" ELSE hm[w]]
    /\ qi' = [w \in Workers |-> IF w = c THEN "no" ELSE qi[w]]
    /\ UNCHANGED servidor

CaeServidor(s) ==
    /\ s \in Servidores /\ UNCHANGED <<clientes, hilosWorker>>
    /\ cola' = [cola EXCEPT ![s] = << >>] /\ Recibe(s, "fin", NULL)
    /\ hilo' = [e \in Enlaces |-> IF e[2] = s THEN "no" ELSE hilo[e]]
    /\ cuenta' = [cuenta EXCEPT ![s] = 0]
    /\ \/ /\ s = "master" /\ sem' = 0 /\ lista' = {}
          /\ asignada' = [w \in Workers |-> NULL]
          /\ estado' = [q \in QueryControls |-> "NINGUNO"]
          /\ UNCHANGED <<semListo, socketQuery, perdido>>
       \/ s = "storage" /\ UNCHANGED maestro

Cae(p) ==
    /\ caidas < MaxCaidas /\ caidas' = caidas + 1
    /\ p \in vivo /\ Termina(p, sock)
    /\ CaeCliente(p) \/ CaeServidor(p)
    /\ UNCHANGED <<sigpipe, equivocados, abandono>>

Next ==
    \/ \E c \in Clientes : Cliente(c)
    \/ \E w \in Workers : HiloMaster(w) \/ HiloQueryInterpreter(w)
    \/ \E s \in Servidores : Receptor(s)
    \/ \E e \in Enlaces : HiloDe(e)
    \/ Planificador
    \/ \E p \in Clientes \cup Servidores : Cae(p)

\* Every thread runs while it is not blocked; nobody has to be killed.
Spec ==
    /\ Init /\ [][Next]_vars
    /\ \A c \in Clientes : WF_vars(Cliente(c))
    /\ \A w \in Workers : WF_vars(HiloMaster(w)) /\ WF_vars(HiloQueryInterpreter(w))
    /\ \A s \in Servidores : WF_vars(Receptor(s))
    /\ \A e \in Enlaces : WF_vars(HiloDe(e))
    /\ WF_vars(Planificador)

-----------------------------------------------------------------------------
(***************************************************************************)
(* Properties.                                                             *)
(***************************************************************************)
Mensajes == {"HANDSHAKE_QC_MASTER", "HANDSHAKE_WORKER_MASTER", "HANDSHAKE_WORKER_STORAGE",
             "PAGINA", "CONFIRMACION", "ASIGNAR", "FIN", "RESULTADO", "READ", "PEDIDO",
             "RESPUESTA"}

\* The variables hold values of their types; each count of Workers is the number of
\* threads of that server that have a Worker registered, and the Workers of the list are
\* those of the Master's (g_cantidadWorkers, nivelMultiprocesamiento, listaWorkers).
TypeOK ==
    /\ vivo \subseteq Clientes \cup Servidores /\ sigpipe \subseteq Clientes \cup Servidores
    /\ paso \in [Clientes -> [con : Servidores,
                              en : {"conecta", "saluda", "espera", "sirve", "desfasado",
                                    "fin"}]]
    /\ sock \in [Enlaces -> [abierto : SUBSET Lados, rst : BOOLEAN,
                             hacia : [Lados -> Seq(Mensajes)]]]
    /\ cola \in [Servidores -> Seq(Enlaces)]
    /\ \A s \in Servidores : receptor[s].en \in {"acepta", "lee", "fin"}
                            /\ receptor[s].de \in Enlaces \cup {NULL}
    /\ hilo \in [Enlaces -> {"no", "confirma", "registra", "avisa", "lee", "fin"}]
    /\ semListo \in BOOLEAN /\ sem \in Nat
    /\ asignada \in [Workers -> QueryControls \cup {NULL}]
    /\ estado \in [QueryControls -> {"NINGUNO", "READY", "EXEC", "EXIT"}]
    /\ socketQuery \in [QueryControls -> Enlaces]
    /\ pagina \subseteq Workers
    /\ hm \in [Workers -> {"no", "recibe", "fin"}]
    /\ qi \in [Workers -> {"no", "espera", "ejecuta", "respuesta", "lectura", "notifica"}]
    /\ lista = {w \in Workers : hilo[ConMaster(w)] \in {"avisa", "lee"}}
    /\ cuenta = [s \in Servidores |-> IF s = "master" THEN Cardinality(lista)
                ELSE Cardinality({w \in Workers : hilo[ConStorage(w)] = "lee"})]

\* Connection e has the number that the query of another Query Control writes to.
Heredada(e) == \E q \in QueryControls : ConMaster(q) # e /\ socketQuery[q] = e

\* What a client takes for the answer to its handshake is that answer, and never a packet
\* the scheduler, or its Worker, sent to it first (src/worker/src/w_conexiones.c:40,
\* src/query_control/src/qc_funciones.c:62).  What can come first is a READ of a query whose
\* Query Control left, if the client was given its number (src/master/src/conexion.c:306);
\* and only that.  No query is given to a Worker that does not know the size of a page.
ConfirmacionPrimero ==
    /\ \A c \in Clientes : En(c, "espera") /\ Hay(sock[Enlace(c)], "cliente") =>
          LET m == Head(sock[Enlace(c)].hacia.cliente)
          IN  \/ m = IF paso[c].con = "master" THEN "CONFIRMACION" ELSE "PAGINA"
              \/ m = "READ" /\ Heredada(Enlace(c))
    /\ \A w \in Workers \cap vivo : asignada[w] # NULL => w \in pagina

\* A client that leaves takes no server with it by SIGPIPE: the Master ignores the signal
\* (src/master/src/master.c:24) and the Storage, which does not, never sends to the same
\* Worker twice without reading from it in between.
ServidoresResisten == sigpipe \cap Servidores = {}

\* The Master accepts nobody, because a client left before its handshake.
Sordo == "master" \in vivo /\ receptor["master"].en = "fin" /\ abandono

\* A client waits for the answer to its handshake, or on a server that has ended.
Pendiente(c) == En(c, "espera") \/ (c \in QueryControls /\ (En(c, "sirve") \/ En(c, "desfasado"))
                                    /\ Destino(ConMaster(c)) \notin vivo)
Equivocado(c) == \E e \in equivocados : e[1] = c

\* A client with the right ports does not wait for ever: it is answered, or it learns that
\* the server has ended; the one exception is the Master that went deaf
\* (src/master/src/conexion.c:25).
ClienteAtendido ==
    \A c \in Clientes : (Pendiente(c) /\ ~Equivocado(c)) ~> (~Pendiente(c) \/ Sordo)

\* A ready query and a free Worker meet, whatever clients came and went, unless a
\* sem_post came before sem_init (src/master/src/master.c:48).
QueryAsignada ==
    \A q \in QueryControls :
        ("master" \in vivo /\ q \in Listas /\ Libres # {}) ~>
        ("master" \notin vivo \/ q \notin Listas \/ Libres = {} \/ perdido)

\* src/master/src/conexion.c:56: "No retornamos NULL para no matar al servidor, solo
\* ignoramos la conexion erronea": a client that fails to present itself does not leave
\* the others without a Master.
NadieEnsordeceAlMaster ==
    \A c \in Clientes : (Pendiente(c) /\ ~Equivocado(c)) ~> ~Pendiente(c)
=============================================================================
