------------------------------- MODULE Consultas -------------------------------
(***************************************************************************)
(* Queries that run on several Workers over one Storage.                   *)
(*                                                                         *)
(* A query is a list of instructions.  The Master gives it to a Worker and *)
(* may take it away between two of them; it goes on later, from the PC the *)
(* Worker reported, on that Worker or on another.  Each Worker keeps pages *)
(* in a memory of its own, which outlives the queries that filled it:      *)
(* READ and WRITE go through it, every other instruction goes straight to  *)
(* the Storage, and what was written reaches the Storage when a page is    *)
(* replaced, on FLUSH, on COMMIT and when the query leaves the Worker      *)
(* (flush_all, src/worker/src/worker.c:205).                               *)
(*                                                                         *)
(* Grain: one request to the Storage, or one access to a page in memory,   *)
(* is one action, so the requests of several Workers interleave inside an  *)
(* instruction.  A page is one value.  Of a result, only its sign and its  *)
(* kind are kept.  Any page may be the victim of a replacement, and pages  *)
(* are flushed in any order (MemoriaInterna has both as the code has).     *)
(***************************************************************************)
EXTENDS Integers, Sequences, FiniteSets

CONSTANTS
    Queries,       (* the queries                                          *)
    Workers,       (* the Workers                                          *)
    NULL,          (* no query, no Worker                                  *)
    Archivos,      (* the File:Tags, as pairs <<file, tag>>                *)
    Programas,     (* the assignments of a program to each query           *)
    TamInicial,    (* blocks each File:Tag has at first; -1 if it does not exist *)
    MaxBloques,    (* bound: blocks of a File:Tag                          *)
    Marcos,        (* frames of each Worker                                *)
    MaxDesalojos,  (* bound: times the Master takes a query from a Worker  *)
    Espacio        (* answers of the Storage to a WRITE: whether it has room *)

Ops == {"CREATE", "TRUNCATE", "WRITE", "READ", "TAG", "COMMIT", "FLUSH", "DELETE", "END",
        "UNKNOWN"}
\* WRITE and READ: m pages of a from page n on; TRUNCATE: n blocks; TAG: from a to b.
Instruccion == [op : Ops, a : Archivos, b : Archivos, n : Nat, m : Nat, v : Nat]
Paginas == Archivos \X (0..(MaxBloques - 1))
DeArchivo(A) == {p \in Paginas : p[1] \in A}

ASSUME ConsultasSupuesto ==
    /\ NULL \notin Queries \cup Workers
    /\ Programas \subseteq [Queries -> Seq(Instruccion)]
    /\ \A P \in Programas, q \in Queries : \A k \in DOMAIN P[q] :
          P[q][k].op = "TRUNCATE" => P[q][k].n <= MaxBloques
    /\ TamInicial \in [Archivos -> -1..MaxBloques] /\ MaxBloques \in Nat
    /\ Marcos \in Nat \ {0} /\ MaxDesalojos \in Nat /\ Espacio \subseteq BOOLEAN

VARIABLES
    programa,     \* the file of instructions of each query
    estado,       \* Master: list each query is in
    pc,           \* Master: t_query.pc
    resultado,    \* what the Query Control was told
    desalojos,    \* times the Master took a query away
    query,        \* Worker: id_query, NULL when it has none
    fase,         \* Worker: where its interpreter is
    pc_actual,    \* Worker
    desalojo,     \* Worker: flag_desalojo_query
    parte,        \* Worker: pages of the instruction already done
    res,          \* Worker: result of query_interpreter
    buffer,       \* Worker: what the READ in progress has copied
    tabla,        \* Worker: its present pages, [valor, modificado]
    libres,       \* Worker: free frames
    marco,        \* Worker: whether it holds the frame of a replaced page
    alm,          \* Storage: sizes, blocks and COMMITs
    leido,        \* history: what the Query Control of each query was sent
    debe,         \* history: <<q, w, p>>: q wrote p on w, and the Storage has not taken it
    ultimoWorker, \* history: the Worker each query last ran on
    conRestos     \* history: queries that came back to a Worker with pages of theirs

maestro == <<programa, estado, pc, resultado, desalojos>>
registros == <<query, fase, pc_actual, desalojo, parte, res, buffer>>
memoria == <<tabla, libres, marco>>
historia == <<leido, debe, ultimoWorker, conRestos>>
vars == <<maestro, registros, memoria, alm, historia>>

Init ==
    /\ programa \in Programas
    /\ estado = [q \in Queries |-> "READY"] /\ pc = [q \in Queries |-> 0]
    /\ resultado = [q \in Queries |-> "OK"] /\ desalojos = 0
    /\ query = [w \in Workers |-> NULL] /\ fase = [w \in Workers |-> "libre"]
    /\ pc_actual = [w \in Workers |-> 0] /\ desalojo = [w \in Workers |-> FALSE]
    /\ parte = [w \in Workers |-> 0] /\ res = [w \in Workers |-> "OK"]
    /\ buffer = [w \in Workers |-> << >>]
    /\ tabla = [w \in Workers |-> << >>]
    /\ libres = [w \in Workers |-> Marcos] /\ marco = [w \in Workers |-> FALSE]
    /\ alm = [tam |-> TamInicial, bloque |-> [p \in Paginas |-> 0], com |-> {}]
    /\ leido = [q \in Queries |-> << >>] /\ debe = {}
    /\ ultimoWorker = [q \in Queries |-> NULL] /\ conRestos = {}

-----------------------------------------------------------------------------
(***************************************************************************)
(* The Storage: what it accepts, and what it does then.                    *)
(***************************************************************************)

Existe(s, a) == s.tam[a] >= 0
EnRango(s, p) == p[2] < s.tam[p[1]]
Modificable(s, p) == EnRango(s, p) /\ p[1] \notin s.com

\* The Storage looks at the file of the origin alone: that of the destination is not used.
Destino(i) == <<i.a[1], i.b[2]>>

Acepta(s, i) ==
    CASE i.op = "CREATE" -> ~Existe(s, i.a)
      [] i.op = "TRUNCATE" -> Existe(s, i.a) /\ i.a \notin s.com
      [] i.op = "TAG" -> Existe(s, i.a) /\ ~Existe(s, Destino(i))
      [] OTHER -> Existe(s, i.a)

\* The blocks of a from n on are no longer, or not yet, written.
EnCero(s, a, n) == [p \in Paginas |-> IF p[1] = a /\ p[2] >= n THEN 0 ELSE s.bloque[p]]

Efecto(s, i) ==
    CASE i.op = "CREATE" -> [s EXCEPT !.tam[i.a] = 0]
      [] i.op = "TRUNCATE" -> [s EXCEPT !.tam[i.a] = i.n, !.bloque = EnCero(s, i.a, i.n)]
      [] i.op = "TAG" -> [s EXCEPT !.tam[Destino(i)] = s.tam[i.a],
                                   !.bloque = [p \in Paginas |-> IF p[1] = Destino(i)
                                                  THEN s.bloque[<<i.a, p[2]>>] ELSE @[p]]]
      [] i.op = "COMMIT" -> [s EXCEPT !.com = @ \cup {i.a}]
      [] i.op = "DELETE" -> [s EXCEPT !.tam[i.a] = -1, !.bloque = EnCero(s, i.a, 0),
                                      !.com = @ \ {i.a}]

-----------------------------------------------------------------------------
(***************************************************************************)
(* The life of an instruction.                                             *)
(***************************************************************************)

Largo(q) == Len(programa[q])
Actual(w) == programa[query[w]][pc_actual[w] + 1]
Ejecuta(w, ops) == fase[w] = "ejecuta" /\ Actual(w).op \in ops

\* Mutant: the PC stays where it is when the instruction ends well.
Hecha_Mut(w) ==
    /\ fase' = [fase EXCEPT ![w] = "ciclo"]
    /\ parte' = [parte EXCEPT ![w] = 0] /\ buffer' = [buffer EXCEPT ![w] = << >>]
    /\ UNCHANGED <<query, pc_actual, desalojo, res>>

\* EXEC_OK: on to the next.
Hecha(w) ==
    /\ fase' = [fase EXCEPT ![w] = "ciclo"]
    /\ parte' = [parte EXCEPT ![w] = 0] /\ buffer' = [buffer EXCEPT ![w] = << >>]
    /\ pc_actual' = [pc_actual EXCEPT ![w] = @ + 1]
    /\ UNCHANGED <<query, desalojo, res>>

\* query_interpreter returns r.
Sale(w, r) ==
    /\ fase' = [fase EXCEPT ![w] = "flush"]
    /\ res' = [res EXCEPT ![w] = r]
    /\ parte' = [parte EXCEPT ![w] = 0] /\ buffer' = [buffer EXCEPT ![w] = << >>]
    /\ pc_actual' = [pc_actual EXCEPT ![w] = @ + (IF r = "FIN" THEN 1 ELSE 0)]
    /\ UNCHANGED <<query, desalojo>>

Avanza(w, ok) == IF ok THEN Hecha(w) ELSE Sale(w, "ERROR")

-----------------------------------------------------------------------------
(***************************************************************************)
(* flush_pagina, and the memory.                                           *)
(***************************************************************************)

Sucias(w, A) == {p \in DOMAIN tabla[w] : p[1] \in A /\ tabla[w][p].modificado}

\* The Storage answers to the page p of w.
Responde(p, hay) == Modificable(alm, p) /\ hay

Toma(w, p) ==
    /\ alm' = [alm EXCEPT !.bloque[p] = tabla[w][p].valor]
    /\ debe' = {d \in debe : <<d[2], d[3]>> # <<w, p>>}

Baja(w, p, ok) ==
    IF ok THEN Toma(w, p) /\ tabla' = [tabla EXCEPT ![w][p].modificado = FALSE]
    ELSE UNCHANGED <<alm, debe, tabla>>

\* Mutant: the page keeps its entry, present, without a frame of its own.
Quita_Mut(w, p) == tabla' = tabla

Quita(w, p) == tabla' = [tabla EXCEPT ![w] = [x \in DOMAIN @ \ {p} |-> @[x]]]

\* Mutant: the page is dropped whether it was modified or not.
HayQueBajar_Mut(w, p) == FALSE

HayQueBajar(w, p) == tabla[w][p].modificado

\* The page of the READ or WRITE w is at.
Pagina(w) == <<Actual(w).a, Actual(w).n + parte[w]>>

\* ejecutar_algoritmo_reemplazo: a modified victim is written first, and if the Storage
\* refuses it the instruction of the query that needed its frame fails.  With no page present,
\* every frame lost, LRU fails, and CLOCK-M gives frame -1, which is before the memory (what
\* it overwrites there is not modelled).
Reemplaza(w) ==
    /\ Ejecuta(w, {"READ", "WRITE"})
    /\ Pagina(w) \notin DOMAIN tabla[w] /\ libres[w] = 0 /\ ~marco[w]
    /\ \/ /\ DOMAIN tabla[w] = {}
          /\ \/ Sale(w, "ERROR") /\ UNCHANGED memoria
             \/ marco' = [marco EXCEPT ![w] = TRUE] /\ UNCHANGED <<registros, tabla, libres>>
          /\ UNCHANGED <<alm, debe>>
       \/ \E p \in DOMAIN tabla[w], hay \in Espacio :
             IF HayQueBajar(w, p) /\ ~Responde(p, hay)
             THEN Sale(w, "ERROR") /\ UNCHANGED <<memoria, alm, debe>>
             ELSE /\ IF HayQueBajar(w, p) THEN Toma(w, p) ELSE UNCHANGED <<alm, debe>>
                  /\ Quita(w, p)
                  /\ marco' = [marco EXCEPT ![w] = TRUE]
                  /\ UNCHANGED <<registros, libres>>
    /\ UNCHANGED <<maestro, leido, ultimoWorker, conRestos>>

\* manejar_page_fault, once it has a frame: the frame of a replaced page is lost if the
\* Storage does not give the block.
Trae(w) ==
    /\ Ejecuta(w, {"READ", "WRITE"})
    /\ Pagina(w) \notin DOMAIN tabla[w] /\ (libres[w] > 0 \/ marco[w])
    /\ marco' = [marco EXCEPT ![w] = FALSE]
    /\ IF EnRango(alm, Pagina(w))
       THEN /\ tabla' = [tabla EXCEPT ![w] = [x \in DOMAIN @ \cup {Pagina(w)} |->
                           IF x = Pagina(w)
                           THEN [valor |-> alm.bloque[x], modificado |-> FALSE] ELSE @[x]]]
            /\ libres' = [libres EXCEPT ![w] = @ - (IF marco[w] THEN 0 ELSE 1)]
            /\ UNCHANGED registros
       ELSE Sale(w, "ERROR") /\ UNCHANGED <<tabla, libres>>
    /\ UNCHANGED <<maestro, alm, historia>>

\* One turn of the loop of leer_memoria or escribir_memoria; a READ is sent to the Master
\* when its last page has been copied.
Accede(w) ==
    LET i == Actual(w)
        p == Pagina(w)
        listo == parte[w] + 1 = i.m
        copiado == Append(buffer[w], tabla[w][p].valor)
    IN  /\ Ejecuta(w, {"READ", "WRITE"}) /\ i.m > 0 /\ p \in DOMAIN tabla[w]
        /\ IF i.op = "WRITE"
           THEN /\ tabla' = [tabla EXCEPT ![w][p] = [valor |-> i.v, modificado |-> TRUE]]
                /\ debe' = debe \cup {<<query[w], w, p>>}
                /\ leido' = leido
           ELSE /\ leido' = IF listo THEN [leido EXCEPT ![query[w]] = Append(@, copiado)]
                            ELSE leido
                /\ UNCHANGED <<tabla, debe>>
        /\ IF listo THEN Hecha(w)
           ELSE /\ parte' = [parte EXCEPT ![w] = @ + 1]
                /\ buffer' = [buffer EXCEPT ![w] = IF i.op = "READ" THEN copiado ELSE << >>]
                /\ UNCHANGED <<query, fase, pc_actual, desalojo, res>>
        /\ UNCHANGED <<maestro, libres, marco, alm, ultimoWorker, conRestos>>

\* leer_memoria and escribir_memoria refuse a size of 0; an unknown instruction is an error.
Invalida(w) ==
    /\ fase[w] = "ejecuta"
    /\ Actual(w).op = "UNKNOWN" \/ (Actual(w).op \in {"READ", "WRITE"} /\ Actual(w).m = 0)
    /\ Sale(w, "ERROR")
    /\ UNCHANGED <<maestro, memoria, alm, historia>>

-----------------------------------------------------------------------------
(***************************************************************************)
(* The other instructions.                                                 *)
(***************************************************************************)

\* flush_file_tag: FLUSH stops at the first page refused and fails; the one COMMIT begins
\* with stops too, and its result is not looked at.
FlushPedido(w) == Ejecuta(w, {"FLUSH"}) \/ (Ejecuta(w, {"COMMIT"}) /\ parte[w] = 0)

FlushTermina(w, ok) ==
    IF Actual(w).op = "FLUSH" THEN Avanza(w, ok)
    ELSE /\ parte' = [parte EXCEPT ![w] = 1]
         /\ UNCHANGED <<query, fase, pc_actual, desalojo, res, buffer>>

execute_flush(w) ==
    /\ FlushPedido(w)
    /\ LET S == Sucias(w, {Actual(w).a}) IN
          \/ /\ S = {} /\ FlushTermina(w, TRUE)
             /\ UNCHANGED <<tabla, alm, debe>>
          \/ \E p \in S, hay \in Espacio :
                /\ Baja(w, p, Responde(p, hay))
                /\ IF Responde(p, hay) THEN UNCHANGED registros ELSE FlushTermina(w, FALSE)
    /\ UNCHANGED <<maestro, libres, marco, leido, ultimoWorker, conRestos>>

\* enviar_instruccion and recibir_respuesta_storage.
Pedido(w) == \/ Ejecuta(w, {"CREATE", "TRUNCATE", "TAG", "DELETE"})
             \/ Ejecuta(w, {"COMMIT"}) /\ parte[w] = 1

enviar_instruccion(w) ==
    /\ Pedido(w)
    /\ alm' = IF Acepta(alm, Actual(w)) THEN Efecto(alm, Actual(w)) ELSE alm
    /\ Avanza(w, Acepta(alm, Actual(w)))
    /\ UNCHANGED <<maestro, memoria, historia>>

execute_end(w) ==
    /\ Ejecuta(w, {"END"})
    /\ Sale(w, "FIN")
    /\ UNCHANGED <<maestro, memoria, alm, historia>>

-----------------------------------------------------------------------------
(***************************************************************************)
(* The interpreter's loop, the end of a run, and the Master.               *)
(***************************************************************************)

\* The flag is looked at between two instructions; past the last line, fetch fails.
Ciclo(w) ==
    /\ fase[w] = "ciclo"
    /\ IF desalojo[w] THEN Sale(w, "DESALOJO")
       ELSE IF pc_actual[w] >= Largo(query[w]) THEN Sale(w, "ERROR")
       ELSE /\ fase' = [fase EXCEPT ![w] = "ejecuta"]
            /\ UNCHANGED <<query, pc_actual, desalojo, parte, res, buffer>>
    /\ UNCHANGED <<maestro, memoria, alm, historia>>

\* Mutant: the result of flush_all is not looked at.
ConFlush_Mut(r) == r

\* A refusal of flush_all replaces a result that was not an error.
ConFlush(r) == IF r = "ERROR" THEN r ELSE "ERROR"

\* flush_all: every page of the memory, whatever its query, up to the first refused.
flush_all(w) ==
    /\ fase[w] = "flush"
    /\ LET S == Sucias(w, Archivos)
           fin == fase' = [fase EXCEPT ![w] = "aviso"]
       IN  \/ S = {} /\ fin /\ UNCHANGED <<tabla, alm, debe, res>>
           \/ \E p \in S, hay \in Espacio :
                 /\ Baja(w, p, Responde(p, hay))
                 /\ IF Responde(p, hay) THEN UNCHANGED <<fase, res>>
                    ELSE fin /\ res' = [res EXCEPT ![w] = ConFlush(@)]
    /\ UNCHANGED <<maestro, query, pc_actual, desalojo, parte, buffer, libres, marco, leido,
                   ultimoWorker, conRestos>>

\* Mutant: the Master is sent the PC after desalojar_query has cleared it.
pc_final_Mut(w) == 0

pc_final(w) == pc_actual[w]

\* notificar_resultado_a_master, what the Master does with it, and desalojar_query.
notificar_resultado_a_master(w) ==
    LET q == query[w] IN
    /\ fase[w] = "aviso"
    /\ pc' = [pc EXCEPT ![q] = pc_final(w)]
    /\ IF res[w] = "DESALOJO"
       THEN estado' = [estado EXCEPT ![q] = "READY"] /\ UNCHANGED resultado
       ELSE /\ estado' = [estado EXCEPT ![q] = "EXIT"]
            /\ resultado' = [resultado EXCEPT ![q] = res[w]]
    /\ query' = [query EXCEPT ![w] = NULL] /\ fase' = [fase EXCEPT ![w] = "libre"]
    /\ pc_actual' = [pc_actual EXCEPT ![w] = 0]
    /\ desalojo' = [desalojo EXCEPT ![w] = FALSE]
    /\ res' = [res EXCEPT ![w] = "OK"]
    /\ UNCHANGED <<programa, desalojos, parte, buffer, memoria, alm, historia>>

ArchivosDe(q) == UNION {{i.a} \cup (IF i.op = "TAG" THEN {Destino(i)} ELSE {}) :
                          i \in {programa[q][k] : k \in {k \in 1..Largo(q) :
                                 programa[q][k].op \notin {"END", "UNKNOWN"}}}}

\* OP_ASIGNAR_QUERY: any query of READY, any free Worker.
Asigna(q, w) ==
    /\ estado[q] = "READY" /\ fase[w] = "libre"
    /\ estado' = [estado EXCEPT ![q] = "EXEC"]
    /\ query' = [query EXCEPT ![w] = q] /\ fase' = [fase EXCEPT ![w] = "ciclo"]
    /\ pc_actual' = [pc_actual EXCEPT ![w] = pc[q]]
    /\ ultimoWorker' = [ultimoWorker EXCEPT ![q] = w]
    /\ conRestos' = IF /\ ultimoWorker[q] \notin {NULL, w}
                       /\ DOMAIN tabla[w] \cap DeArchivo(ArchivosDe(q)) # {}
                    THEN conRestos \cup {q} ELSE conRestos
    /\ UNCHANGED <<programa, pc, resultado, desalojos, desalojo, parte, res, buffer, memoria,
                   alm, leido, debe>>

\* OP_DESALOJO_QUERY, at any moment of the query.
Desaloja(w) ==
    /\ fase[w] # "libre" /\ ~desalojo[w] /\ desalojos < MaxDesalojos
    /\ desalojo' = [desalojo EXCEPT ![w] = TRUE]
    /\ desalojos' = desalojos + 1
    /\ UNCHANGED <<programa, estado, pc, resultado, query, fase, pc_actual, parte, res, buffer,
                   memoria, alm, historia>>

Next ==
    \E w \in Workers :
       \/ Reemplaza(w) \/ Trae(w) \/ Accede(w) \/ Invalida(w)
       \/ execute_flush(w) \/ enviar_instruccion(w) \/ execute_end(w)
       \/ Ciclo(w) \/ flush_all(w) \/ notificar_resultado_a_master(w)
       \/ \E q \in Queries : Asigna(q, w)
       \/ Desaloja(w)

Spec == Init /\ [][Next]_vars

-----------------------------------------------------------------------------
(***************************************************************************)
(* Properties.                                                             *)
(***************************************************************************)

\* The variables hold values of their types, and a Worker never has more pages than frames.
TypeOK ==
    /\ estado \in [Queries -> {"READY", "EXEC", "EXIT"}]
    /\ \A q \in Queries : pc[q] \in 0..Largo(q)
    /\ resultado \in [Queries -> {"OK", "FIN", "ERROR"}]
    /\ query \in [Workers -> Queries \cup {NULL}]
    /\ fase \in [Workers -> {"libre", "ciclo", "ejecuta", "flush", "aviso"}]
    /\ \A w \in Workers :
          /\ fase[w] = "libre" <=> query[w] = NULL
          /\ DOMAIN tabla[w] \subseteq Paginas
          /\ libres[w] \in 0..Marcos
          /\ Cardinality(DOMAIN tabla[w]) + libres[w] + (IF marco[w] THEN 1 ELSE 0) <= Marcos
    /\ alm.tam \in [Archivos -> -1..MaxBloques] /\ alm.com \subseteq Archivos
    /\ debe \subseteq Queries \X Workers \X Paginas

\* A query whose Query Control is told that it ended well, and one that is waiting to be
\* resumed, has every page it wrote in the Storage: whichever Workers it ran on, whatever
\* was replaced meanwhile and whatever other queries did to its files (worker.c:205-209).
FinEsVerdad ==
    \A d \in debe : /\ resultado[d[1]] # "FIN"
                    /\ estado[d[1]] # "READY"

\* desalojar_query "Hace flush de todas las paginas modificadas a Storage" (worker.h:83) and
\* flush_all is there to "Asegurar que todo este persistido al finalizar o desalojar"
\* (worker.c:205): a Worker without a query keeps no modified page the Storage would take.
PersistidoAlTerminar ==
    \A w \in Workers : fase[w] = "libre" =>
       \A p \in DOMAIN tabla[w] : tabla[w][p].modificado => ~Modificable(alm, p)
=============================================================================
