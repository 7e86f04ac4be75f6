---------------------------- MODULE ConsultasPruebas ----------------------------
(***************************************************************************)
(* What Consultas promises for every set of queries, Workers and files,    *)
(* every program, every number of frames and of preemptions: a query that  *)
(* is told to have ended well, or that waits to be resumed, has everything *)
(* it wrote in the Storage.                                                *)
(*                                                                         *)
(* FinEsVerdad is not inductive: a step that answers for the query of a    *)
(* Worker must know that no page of that Worker is modified (SinRestos),   *)
(* that what a query owes is on the Worker that runs it (DebeDondeEsta),   *)
(* and that a query is on one Worker at most (UnWorker).                   *)
(*                                                                         *)
(* The second half has the types: the PC a query is resumed at is in its   *)
(* program, pages exist, and frames are not handed out twice.              *)
(***************************************************************************)
EXTENDS Consultas, FiniteSetTheorems, TLAPS

\* A page in memory.
EsPagina(w, p) == /\ p[1] \in Archivos
                  /\ {"valor", "modificado"} \subseteq DOMAIN tabla[w][p]

\* The parts of the types the argument needs.
Tipos ==
    /\ programa \in Programas
    /\ estado \in [Queries -> {"READY", "EXEC", "EXIT"}]
    /\ resultado \in [Queries -> {"OK", "FIN", "ERROR"}]
    /\ pc \in [Queries -> Nat] /\ pc_actual \in [Workers -> Nat]
    /\ query \in [Workers -> Queries \cup {NULL}]
    /\ fase \in [Workers -> {"libre", "ciclo", "ejecuta", "flush", "aviso"}]
    /\ res \in [Workers -> {"OK", "FIN", "DESALOJO", "ERROR"}]
    /\ DOMAIN tabla = Workers
    /\ \A w \in Workers : \A p \in DOMAIN tabla[w] : EsPagina(w, p)

\* A Worker is busy exactly when it has a query, and the line it executes exists.
Ocupado ==
    \A w \in Workers :
       /\ fase[w] # "libre" => query[w] \in Queries
       /\ fase[w] = "libre" => query[w] = NULL
       /\ fase[w] = "ejecuta" => pc_actual[w] < Largo(query[w])
       /\ fase[w] \in {"flush", "aviso"} => res[w] # "OK"

\* A query is on one Worker at most, in EXEC and without a result; one with a result is in EXIT.
UnWorker ==
    /\ \A w \in Workers : query[w] \in Queries =>
          estado[query[w]] = "EXEC" /\ resultado[query[w]] = "OK"
    /\ \A w, x \in Workers : query[w] \in Queries /\ query[w] = query[x] => w = x
    /\ \A q \in Queries : resultado[q] # "OK" => estado[q] = "EXIT"

\* What is owed is a modified page of the Worker it was written on, which still runs the
\* query, unless the query was told of an error.
DebeDondeEsta ==
    \A d \in debe :
       /\ d[1] \in Queries /\ d[2] \in Workers
       /\ d[3] \in Sucias(d[2], Archivos)
       /\ \/ query[d[2]] = d[1]
          \/ estado[d[1]] = "EXIT" /\ resultado[d[1]] = "ERROR"

\* A Worker about to answer anything but an error has no modified page.
SinRestos ==
    \A w \in Workers : fase[w] = "aviso" /\ res[w] # "ERROR" => Sucias(w, Archivos) = {}

IInv == Tipos /\ Ocupado /\ UnWorker /\ DebeDondeEsta /\ SinRestos

-----------------------------------------------------------------------------
(***************************************************************************)
(* Init, and what the steps have in common.                                *)
(***************************************************************************)

\* The initial states satisfy the invariant.
LEMMA Inicial == Init => IInv
<1> SUFFICES ASSUME Init PROVE IInv
  OBVIOUS
<1> USE ConsultasSupuesto DEF Init
<1>1. Tipos
  BY DEF Tipos
<1>2. Ocupado
  BY DEF Ocupado
<1>3. UnWorker
  BY DEF UnWorker
<1>4. DebeDondeEsta
  BY DEF DebeDondeEsta
<1>5. SinRestos
  BY DEF SinRestos
<1> QED BY <1>1, <1>2, <1>3, <1>4, <1>5 DEF IInv

\* A Worker that executes has a query and an instruction of its program.
LEMMA ActualTipo ==
    ASSUME IInv, NEW w \in Workers, fase[w] = "ejecuta"
    PROVE  query[w] \in Queries /\ Actual(w) \in Instruccion
<1>1. query[w] \in Queries /\ pc_actual[w] \in Nat /\ pc_actual[w] < Len(programa[query[w]])
  BY DEF IInv, Tipos, Ocupado, Largo
<1>2. programa[query[w]] \in Seq(Instruccion)
  BY <1>1, ConsultasSupuesto DEF IInv, Tipos
<1> QED BY <1>1, <1>2 DEF Actual

\* The memories and what is owed as they were: only the registers of one Worker that goes on,
\* or leaves the interpreter, change.
Sigue(w) ==
    /\ fase[w] \in {"ciclo", "ejecuta"}
    /\ \/ fase' = fase
       \/ fase' = [fase EXCEPT ![w] = "ciclo"]
       \/ fase' = [fase EXCEPT ![w] = "ejecuta"] /\ pc_actual[w] < Largo(query[w])
       \/ fase' = [fase EXCEPT ![w] = "flush"] /\ res'[w] # "OK"
    /\ \/ pc_actual' = pc_actual
       \/ pc_actual' = [pc_actual EXCEPT ![w] = @ + 1] /\ fase'[w] # "ejecuta"
       \/ pc_actual' = [pc_actual EXCEPT ![w] = @ + 0] /\ fase'[w] # "ejecuta"
    /\ res' = res \/ \E r \in {"FIN", "DESALOJO", "ERROR"} : res' = [res EXCEPT ![w] = r]
    /\ UNCHANGED <<maestro, query, desalojo>>

\* The parts of the invariant that do not look at the memories hold after such a step.
LEMMA SigueInv ==
    ASSUME IInv, NEW w \in Workers, Sigue(w)
    PROVE  /\ programa' \in Programas
           /\ estado' \in [Queries -> {"READY", "EXEC", "EXIT"}]
           /\ resultado' \in [Queries -> {"OK", "FIN", "ERROR"}]
           /\ pc' \in [Queries -> Nat] /\ pc_actual' \in [Workers -> Nat]
           /\ query' \in [Workers -> Queries \cup {NULL}]
           /\ fase' \in [Workers -> {"libre", "ciclo", "ejecuta", "flush", "aviso"}]
           /\ res' \in [Workers -> {"OK", "FIN", "DESALOJO", "ERROR"}]
           /\ Ocupado' /\ UnWorker'
           /\ fase'[w] # "aviso"
           /\ \A x \in Workers \ {w} : fase'[x] = fase[x] /\ res'[x] = res[x]
<1> USE DEF IInv, Sigue, Tipos, maestro
<1>1. /\ pc_actual' \in [Workers -> Nat]
      /\ fase' \in [Workers -> {"libre", "ciclo", "ejecuta", "flush", "aviso"}]
      /\ res' \in [Workers -> {"OK", "FIN", "DESALOJO", "ERROR"}]
      /\ fase'[w] # "aviso" /\ fase'[w] # "libre"
      /\ \A x \in Workers \ {w} : fase'[x] = fase[x] /\ res'[x] = res[x]
                                 /\ pc_actual'[x] = pc_actual[x]
  OBVIOUS
<1>2. fase'[w] = "ejecuta" => pc_actual'[w] < Largo(query[w])
  BY <1>1 DEF Ocupado
<1>3. fase'[w] = "flush" => res'[w] # "OK"
  BY <1>1 DEF Ocupado
<1>4. Ocupado'
  BY <1>1, <1>2, <1>3 DEF Ocupado, Largo
<1>5. UnWorker'
  BY DEF UnWorker
<1> QED BY <1>1, <1>4, <1>5

\* The step also leaves the memories and what is owed as they were.
LEMMA SigueSinMemoria ==
    ASSUME IInv, NEW w \in Workers, Sigue(w), UNCHANGED <<tabla, debe>>
    PROVE  IInv'
<1>1. Tipos'
  BY SigueInv DEF IInv, Tipos, EsPagina
<1>2. DebeDondeEsta'
  BY DEF IInv, DebeDondeEsta, Sucias, Sigue, maestro
<1>3. SinRestos'
  BY SigueInv DEF IInv, SinRestos, Sucias
<1> QED BY <1>1, <1>2, <1>3, SigueInv DEF IInv

\* The step changes the memory of its Worker, and what is owed there is still modified.
LEMMA SigueConMemoria ==
    ASSUME IInv, NEW w \in Workers, Sigue(w),
           DOMAIN tabla' = Workers,
           \A x \in Workers \ {w} : tabla'[x] = tabla[x],
           \A p \in DOMAIN tabla'[w] : EsPagina(w, p)',
           \A d \in debe' : d \in debe \/ (d[1] = query[w] /\ d[2] = w /\ query[w] \in Queries),
           \A d \in debe' : d[2] = w => d[3] \in Sucias(w, Archivos)'
    PROVE  IInv'
<1>1. Tipos'
  BY SigueInv DEF IInv, Tipos, EsPagina
<1>2. query' = query /\ estado' = estado /\ resultado' = resultado
  BY DEF Sigue, maestro
<1>3. \A x \in Workers \ {w} : Sucias(x, Archivos)' = Sucias(x, Archivos)
  BY DEF Sucias
<1>4. DebeDondeEsta'
  <2> SUFFICES ASSUME NEW d \in debe'
               PROVE  /\ d[1] \in Queries /\ d[2] \in Workers
                      /\ d[3] \in Sucias(d[2], Archivos)'
                      /\ \/ query'[d[2]] = d[1]
                         \/ estado'[d[1]] = "EXIT" /\ resultado'[d[1]] = "ERROR"
    BY Zenon DEF DebeDondeEsta
  <2>1. CASE d \in debe
    <3>1. /\ d[1] \in Queries /\ d[2] \in Workers /\ d[3] \in Sucias(d[2], Archivos)
          /\ query[d[2]] = d[1] \/ (estado[d[1]] = "EXIT" /\ resultado[d[1]] = "ERROR")
      BY <2>1 DEF IInv, DebeDondeEsta
    <3>2. d[3] \in Sucias(d[2], Archivos)'
      <4>1. CASE d[2] = w
        <5>1. d[3] \in Sucias(w, Archivos)'
          BY <4>1
        <5> QED BY <4>1, <5>1 DEF Sucias
      <4>2. CASE d[2] # w
        BY <3>1, <4>2, <1>3
      <4> QED BY <4>1, <4>2
    <3> QED BY <3>1, <3>2, <1>2
  <2>2. CASE d \notin debe
    <3>1. d[1] = query[w] /\ d[2] = w /\ query[w] \in Queries
      BY <2>2
    <3>2. d[3] \in Sucias(w, Archivos)'
      BY <3>1
    <3>3. d[3] \in Sucias(d[2], Archivos)'
      BY <3>1, <3>2 DEF Sucias
    <3> QED BY <3>1, <3>3, <1>2
  <2> QED BY <2>1, <2>2
<1>5. SinRestos'
  BY <1>3, SigueInv DEF IInv, SinRestos, Sucias
<1> QED BY <1>1, <1>4, <1>5, SigueInv DEF IInv

\* The ways the registers change inside the interpreter.
LEMMA RegistrosSiguen ==
    ASSUME NEW w \in Workers, fase \in [Workers -> {"libre", "ciclo", "ejecuta", "flush", "aviso"}],
           res \in [Workers -> {"OK", "FIN", "DESALOJO", "ERROR"}],
           fase[w] \in {"ciclo", "ejecuta"}, UNCHANGED maestro
    PROVE  /\ Hecha(w) => Sigue(w)
           /\ \A r \in {"FIN", "DESALOJO", "ERROR"} : Sale(w, r) => Sigue(w)
           /\ UNCHANGED registros => Sigue(w)
           /\ UNCHANGED <<query, fase, pc_actual, desalojo, res>> => Sigue(w)
<1>1. Hecha(w) => Sigue(w)
  BY DEF Hecha, Sigue
<1>2. ASSUME NEW r \in {"FIN", "DESALOJO", "ERROR"}, Sale(w, r) PROVE Sigue(w)
  <2>1. fase'[w] = "flush" /\ res'[w] # "OK"
    BY <1>2 DEF Sale
  <2>2. pc_actual' = [pc_actual EXCEPT ![w] = @ + 1] \/ pc_actual' = [pc_actual EXCEPT ![w] = @ + 0]
    BY <1>2 DEF Sale
  <2> QED BY <1>2, <2>1, <2>2 DEF Sale, Sigue
<1>3. UNCHANGED <<query, fase, pc_actual, desalojo, res>> => Sigue(w)
  BY DEF Sigue
<1>4. UNCHANGED registros => Sigue(w)
  BY <1>3 DEF registros
<1> QED BY <1>1, <1>2, <1>3, <1>4

-----------------------------------------------------------------------------
(***************************************************************************)
(* One lemma per action.                                                   *)
(***************************************************************************)

\* Instructions that fail by themselves, requests, END and the turn of the loop do not
\* touch the memory.
LEMMA SinMemoriaInv ==
    ASSUME IInv, NEW w \in Workers,
           Invalida(w) \/ enviar_instruccion(w) \/ execute_end(w) \/ Ciclo(w)
    PROVE  IInv'
<1>1. UNCHANGED <<tabla, debe>>
  BY DEF Invalida, enviar_instruccion, execute_end, Ciclo, memoria, historia
<1>2. UNCHANGED maestro /\ fase[w] \in {"ciclo", "ejecuta"}
  BY DEF Invalida, enviar_instruccion, Pedido, Ejecuta, execute_end, Ciclo
<1>3. Sigue(w)
  <2>1. CASE Invalida(w)
    BY <2>1, <1>2, RegistrosSiguen DEF Invalida, IInv, Tipos
  <2>2. CASE enviar_instruccion(w)
    BY <2>2, <1>2, RegistrosSiguen DEF enviar_instruccion, Avanza, IInv, Tipos
  <2>3. CASE execute_end(w)
    BY <2>3, <1>2, RegistrosSiguen DEF execute_end, IInv, Tipos
  <2>4. CASE Ciclo(w)
    <3>1. \/ \E r \in {"FIN", "DESALOJO", "ERROR"} : Sale(w, r)
          \/ /\ pc_actual[w] < Largo(query[w])
             /\ fase' = [fase EXCEPT ![w] = "ejecuta"]
             /\ UNCHANGED <<query, pc_actual, desalojo, parte, res, buffer>>
      <4>1. pc_actual[w] \in Nat /\ Largo(query[w]) \in Nat
        <5>1. query[w] \in Queries /\ pc_actual[w] \in Nat
          BY <2>4 DEF Ciclo, IInv, Tipos, Ocupado
        <5>2. programa[query[w]] \in Seq(Instruccion)
          BY <5>1, ConsultasSupuesto DEF IInv, Tipos
        <5> QED BY <5>1, <5>2 DEF Largo
      <4> QED BY <2>4, <4>1 DEF Ciclo
    <3> QED BY <3>1, <1>2, RegistrosSiguen DEF Sigue, IInv, Tipos
  <2> QED BY <2>1, <2>2, <2>3, <2>4
<1> QED BY <1>1, <1>3, SigueSinMemoria

\* What a page taken by the Storage leaves owed.
LEMMA TomaDebe ==
    ASSUME NEW w \in Workers, NEW p, Toma(w, p)
    PROVE  \A d \in debe' : d \in debe /\ ~(d[2] = w /\ d[3] = p)
BY DEF Toma

\* A replaced page was taken by the Storage, or nothing of it was owed.
LEMMA ReemplazaInv ==
    ASSUME IInv, NEW w \in Workers, Reemplaza(w)
    PROVE  IInv'
<1>1. UNCHANGED maestro /\ fase[w] \in {"ciclo", "ejecuta"}
  BY DEF Reemplaza, Ejecuta
<1>2. CASE Sale(w, "ERROR") /\ UNCHANGED <<memoria, alm, debe>>
  <2>1. Sigue(w)
    BY <1>1, <1>2, RegistrosSiguen DEF IInv, Tipos
  <2> QED BY <1>2, <2>1, SigueSinMemoria DEF memoria
<1>3. ASSUME NEW p \in DOMAIN tabla[w],
             HayQueBajar(w, p) => Toma(w, p),
             ~HayQueBajar(w, p) => UNCHANGED <<alm, debe>>,
             Quita(w, p), UNCHANGED registros
      PROVE  IInv'
  <2>1. Sigue(w)
    BY <1>1, <1>3, RegistrosSiguen DEF IInv, Tipos
  <2>2. /\ DOMAIN tabla' = Workers
        /\ \A x \in Workers \ {w} : tabla'[x] = tabla[x]
        /\ DOMAIN tabla'[w] = DOMAIN tabla[w] \ {p}
        /\ \A x \in DOMAIN tabla'[w] : tabla'[w][x] = tabla[w][x]
    BY <1>3 DEF Quita, IInv, Tipos
  <2>3. \A x \in DOMAIN tabla'[w] : EsPagina(w, x)'
    BY <2>2 DEF IInv, Tipos, EsPagina
  <2>4. \A d \in debe' : d \in debe /\ ~(d[2] = w /\ d[3] = p)
    <3>1. CASE HayQueBajar(w, p)
      BY <1>3, <3>1, TomaDebe
    <3>2. CASE ~HayQueBajar(w, p)
      BY <1>3, <3>2 DEF HayQueBajar, IInv, DebeDondeEsta, Sucias
    <3> QED BY <3>1, <3>2
  <2>5. \A d \in debe' : d[2] = w => d[3] \in Sucias(w, Archivos)'
    BY <2>2, <2>4 DEF IInv, DebeDondeEsta, Sucias
  <2> QED BY <2>1, <2>2, <2>3, <2>4, <2>5, SigueConMemoria
<1>4. CASE UNCHANGED <<registros, tabla, libres, alm, debe>>
  <2>1. Sigue(w)
    BY <1>1, <1>4, RegistrosSiguen DEF IInv, Tipos
  <2> QED BY <1>4, <2>1, SigueSinMemoria
<1> QED BY <1>2, <1>3, <1>4 DEF Reemplaza

\* A page that comes is not modified.
LEMMA TraeInv ==
    ASSUME IInv, NEW w \in Workers, Trae(w)
    PROVE  IInv'
<1>1. UNCHANGED <<maestro, debe>> /\ fase[w] = "ejecuta"
  BY DEF Trae, Ejecuta, historia
<1>2. CASE Sale(w, "ERROR") /\ UNCHANGED tabla
  <2>1. Sigue(w)
    BY <1>1, <1>2, RegistrosSiguen DEF IInv, Tipos
  <2> QED BY <1>1, <1>2, <2>1, SigueSinMemoria
<1>3. CASE /\ tabla' = [tabla EXCEPT ![w] = [x \in DOMAIN @ \cup {Pagina(w)} |->
                           IF x = Pagina(w)
                           THEN [valor |-> alm.bloque[x], modificado |-> FALSE] ELSE @[x]]]
           /\ UNCHANGED registros
  <2> DEFINE p == Pagina(w)
  <2>1. Sigue(w)
    BY <1>1, <1>3, RegistrosSiguen DEF IInv, Tipos
  <2>2. p \notin DOMAIN tabla[w] /\ p[1] \in Archivos
    BY <1>1, ActualTipo DEF Trae, Pagina, Instruccion
  <2>3. /\ DOMAIN tabla' = Workers
        /\ \A x \in Workers \ {w} : tabla'[x] = tabla[x]
        /\ DOMAIN tabla'[w] = DOMAIN tabla[w] \cup {p}
        /\ \A x \in DOMAIN tabla[w] : tabla'[w][x] = tabla[w][x]
        /\ tabla'[w][p] = [valor |-> alm.bloque[p], modificado |-> FALSE]
    BY <1>3, <2>2 DEF IInv, Tipos
  <2>4. \A x \in DOMAIN tabla'[w] : EsPagina(w, x)'
    BY <2>2, <2>3 DEF IInv, Tipos, EsPagina
  <2>5. \A d \in debe' : d[2] = w => d[3] \in Sucias(w, Archivos)'
    BY <1>1, <2>3 DEF IInv, DebeDondeEsta, Sucias
  <2> QED BY <1>1, <2>1, <2>3, <2>4, <2>5, SigueConMemoria
<1> QED BY <1>2, <1>3 DEF Trae

\* A page written is modified.
LEMMA AccedeInv ==
    ASSUME IInv, NEW w \in Workers, Accede(w)
    PROVE  IInv'
<1> DEFINE p == Pagina(w)
<1>1. /\ UNCHANGED maestro /\ fase[w] = "ejecuta" /\ p \in DOMAIN tabla[w]
      /\ query[w] \in Queries
  BY ActualTipo DEF Accede, Ejecuta
<1>2. Sigue(w)
  BY <1>1, RegistrosSiguen DEF Accede, IInv, Tipos
<1>3. CASE UNCHANGED <<tabla, debe>>
  BY <1>2, <1>3, SigueSinMemoria
<1>4. CASE /\ tabla' = [tabla EXCEPT ![w][p] = [valor |-> Actual(w).v, modificado |-> TRUE]]
           /\ debe' = debe \cup {<<query[w], w, p>>}
  <2>1. /\ DOMAIN tabla' = Workers
        /\ \A x \in Workers \ {w} : tabla'[x] = tabla[x]
        /\ DOMAIN tabla'[w] = DOMAIN tabla[w]
        /\ \A x \in DOMAIN tabla[w] \ {p} : tabla'[w][x] = tabla[w][x]
        /\ tabla'[w][p] = [valor |-> Actual(w).v, modificado |-> TRUE]
    BY <1>1, <1>4 DEF IInv, Tipos
  <2>2. \A x \in DOMAIN tabla'[w] : EsPagina(w, x)'
    BY <1>1, <2>1 DEF IInv, Tipos, EsPagina
  <2>3. \A d \in debe' : d \in debe \/ (d[1] = query[w] /\ d[2] = w /\ d[3] = p)
    BY <1>4
  <2>4. p \in Sucias(w, Archivos)'
    BY <1>1, <2>1, <2>2 DEF Sucias, EsPagina
  <2>5. \A x \in Sucias(w, Archivos) : x \in Sucias(w, Archivos)'
    BY <1>1, <2>1 DEF Sucias
  <2>6. \A d \in debe' : d[2] = w => d[3] \in Sucias(w, Archivos)'
    <3> SUFFICES ASSUME NEW d \in debe', d[2] = w PROVE d[3] \in Sucias(w, Archivos)'
      OBVIOUS
    <3>1. CASE d[3] = p
      BY <3>1, <2>4
    <3>2. CASE d \in debe
      <4>1. d[3] \in Sucias(w, Archivos)
        BY <3>2 DEF IInv, DebeDondeEsta, Sucias
      <4> QED BY <4>1, <2>5
    <3> QED BY <2>3, <3>1, <3>2
  <2> QED BY <1>1, <1>2, <2>1, <2>2, <2>3, <2>6, SigueConMemoria
<1> QED BY <1>3, <1>4 DEF Accede

\* A page flushed is no longer modified nor owed; one refused stays as it was.
LEMMA BajaMemoria ==
    ASSUME IInv, NEW w \in Workers, NEW p \in Sucias(w, Archivos), NEW ok \in BOOLEAN, Baja(w, p, ok)
    PROVE  /\ DOMAIN tabla' = Workers
           /\ \A x \in Workers \ {w} : tabla'[x] = tabla[x]
           /\ \A x \in DOMAIN tabla'[w] : EsPagina(w, x)'
           /\ \A d \in debe' : d \in debe
           /\ \A d \in debe' : d[2] = w => d[3] \in Sucias(w, Archivos)'
<1>1. CASE ok
  <2>1. Toma(w, p) /\ tabla' = [tabla EXCEPT ![w][p].modificado = FALSE]
    BY <1>1 DEF Baja
  <2>2. /\ DOMAIN tabla' = Workers
        /\ \A x \in Workers \ {w} : tabla'[x] = tabla[x]
        /\ DOMAIN tabla'[w] = DOMAIN tabla[w]
        /\ \A x \in DOMAIN tabla[w] \ {p} : tabla'[w][x] = tabla[w][x]
        /\ DOMAIN tabla'[w][p] = DOMAIN tabla[w][p]
    BY <2>1 DEF Sucias, IInv, Tipos
  <2>3. \A x \in DOMAIN tabla'[w] : EsPagina(w, x)'
    BY <2>2 DEF IInv, Tipos, EsPagina
  <2>4. \A d \in debe' : d \in debe /\ ~(d[2] = w /\ d[3] = p)
    BY <2>1, TomaDebe
  <2>5. \A d \in debe' : d[2] = w => d[3] \in Sucias(w, Archivos)'
    BY <2>2, <2>4 DEF IInv, DebeDondeEsta, Sucias
  <2> QED BY <2>2, <2>3, <2>4, <2>5
<1>2. CASE ~ok
  <2>1. UNCHANGED <<debe, tabla>>
    BY <1>2 DEF Baja
  <2> QED BY <2>1 DEF IInv, Tipos, EsPagina, DebeDondeEsta, Sucias
<1> QED BY <1>1, <1>2

\* FLUSH, and the one COMMIT begins with.
LEMMA FlushInv ==
    ASSUME IInv, NEW w \in Workers, execute_flush(w)
    PROVE  IInv'
<1>1. UNCHANGED maestro /\ fase[w] = "ejecuta"
  BY DEF execute_flush, FlushPedido, Ejecuta
<1>2. ASSUME NEW ok \in BOOLEAN, FlushTermina(w, ok) PROVE Sigue(w)
  BY <1>1, <1>2, RegistrosSiguen DEF FlushTermina, Avanza, IInv, Tipos
<1>3. CASE FlushTermina(w, TRUE) /\ UNCHANGED <<tabla, alm, debe>>
  BY <1>2, <1>3, SigueSinMemoria
<1>4. ASSUME NEW p \in Sucias(w, {Actual(w).a}), NEW hay \in Espacio,
             Baja(w, p, Responde(p, hay)),
             Responde(p, hay) => UNCHANGED registros,
             ~Responde(p, hay) => FlushTermina(w, FALSE)
      PROVE  IInv'
  <2>1. Sigue(w)
    BY <1>1, <1>2, <1>4, RegistrosSiguen DEF IInv, Tipos
  <2>2. p \in Sucias(w, Archivos) /\ Responde(p, hay) \in BOOLEAN
    <3>1. p \in Sucias(w, Archivos)
      BY <1>4 DEF Sucias, IInv, Tipos, EsPagina
    <3>2. Responde(p, hay) \in BOOLEAN
      BY ConsultasSupuesto, Zenon DEF Responde
    <3> QED BY <3>1, <3>2
  <2> QED BY <1>4, <2>1, <2>2, BajaMemoria, SigueConMemoria
<1> QED BY <1>3, <1>4 DEF execute_flush

\* The flush of the whole memory ends without modified pages, or with an error.
LEMMA FlushAllInv ==
    ASSUME IInv, NEW w \in Workers, flush_all(w)
    PROVE  IInv'
<1>1. /\ UNCHANGED <<maestro, query, pc_actual, desalojo>> /\ fase[w] = "flush" /\ query[w] \in Queries
  BY DEF flush_all, IInv, Ocupado
<1>2. CASE /\ Sucias(w, Archivos) = {} /\ fase' = [fase EXCEPT ![w] = "aviso"]
           /\ UNCHANGED <<tabla, alm, debe, res>>
  <2>1. Tipos'
    BY <1>1, <1>2 DEF IInv, Tipos, EsPagina, maestro
  <2>2. Ocupado' /\ UnWorker'
    BY <1>1, <1>2 DEF IInv, Tipos, Ocupado, UnWorker, Largo, maestro
  <2>3. DebeDondeEsta' /\ SinRestos'
    BY <1>1, <1>2 DEF IInv, Tipos, DebeDondeEsta, SinRestos, Sucias, maestro
  <2> QED BY <2>1, <2>2, <2>3 DEF IInv
<1>3. ASSUME NEW p \in Sucias(w, Archivos), NEW hay \in Espacio,
             Baja(w, p, Responde(p, hay)),
             Responde(p, hay) => UNCHANGED <<fase, res>>,
             ~Responde(p, hay) => /\ fase' = [fase EXCEPT ![w] = "aviso"]
                                  /\ res' = [res EXCEPT ![w] = ConFlush(@)]
      PROVE  IInv'
  <2>1. Responde(p, hay) \in BOOLEAN
    BY ConsultasSupuesto, Zenon DEF Responde
  <2>2. /\ DOMAIN tabla' = Workers
        /\ \A x \in Workers \ {w} : tabla'[x] = tabla[x]
        /\ \A x \in DOMAIN tabla'[w] : EsPagina(w, x)'
        /\ \A d \in debe' : d \in debe
        /\ \A d \in debe' : d[2] = w => d[3] \in Sucias(w, Archivos)'
    BY <1>3, <2>1, BajaMemoria
  <2>3. \/ UNCHANGED <<fase, res>>
        \/ fase' = [fase EXCEPT ![w] = "aviso"] /\ res' = [res EXCEPT ![w] = "ERROR"]
    BY <1>3 DEF ConFlush
  <2>4. Tipos'
    <3>1. \A x \in Workers : \A y \in DOMAIN tabla'[x] : EsPagina(x, y)'
      BY <2>2 DEF IInv, Tipos, EsPagina
    <3> QED BY <1>1, <2>2, <2>3, <3>1 DEF IInv, Tipos, maestro
  <2>5. Ocupado' /\ UnWorker'
    BY <1>1, <2>3 DEF IInv, Tipos, Ocupado, UnWorker, Largo, maestro
  <2>6. \A x \in Workers \ {w} : Sucias(x, Archivos)' = Sucias(x, Archivos)
    BY <2>2 DEF Sucias
  <2>7. \A d \in debe' : d[3] \in Sucias(d[2], Archivos)'
    <3> SUFFICES ASSUME NEW d \in debe' PROVE d[3] \in Sucias(d[2], Archivos)'
      OBVIOUS
    <3>1. d \in debe /\ d[2] \in Workers /\ d[3] \in Sucias(d[2], Archivos)
      BY <2>2 DEF IInv, DebeDondeEsta
    <3>2. CASE d[2] = w
      <4>1. d[3] \in Sucias(w, Archivos)'
        BY <2>2, <3>2
      <4> QED BY <3>2, <4>1 DEF Sucias
    <3>3. CASE d[2] # w
      BY <2>6, <3>1, <3>3
    <3> QED BY <3>2, <3>3
  <2>8. DebeDondeEsta'
    <3>1. \A d \in debe' : /\ d[1] \in Queries /\ d[2] \in Workers
                          /\ \/ query[d[2]] = d[1]
                             \/ estado[d[1]] = "EXIT" /\ resultado[d[1]] = "ERROR"
      BY <2>2 DEF IInv, DebeDondeEsta
    <3>2. query' = query /\ estado' = estado /\ resultado' = resultado
      BY <1>1 DEF maestro
    <3> QED BY <2>7, <3>1, <3>2, Zenon DEF DebeDondeEsta
  <2>9. SinRestos'
    BY <1>1, <2>3, <2>6 DEF IInv, Tipos, SinRestos
  <2> QED BY <2>4, <2>5, <2>8, <2>9 DEF IInv
<1> QED BY <1>2, <1>3 DEF flush_all

\* The Worker answers: what its query still owes, it owes as an error.
LEMMA NotificaInv ==
    ASSUME IInv, NEW w \in Workers, notificar_resultado_a_master(w)
    PROVE  IInv'
<1> DEFINE q == query[w]
<1>1. /\ q \in Queries /\ fase[w] = "aviso" /\ res[w] \in {"FIN", "DESALOJO", "ERROR"}
      /\ estado[q] = "EXEC" /\ resultado[q] = "OK"
  BY DEF notificar_resultado_a_master, IInv, Tipos, Ocupado, UnWorker
<1>2. /\ pc' = [pc EXCEPT ![q] = pc_actual[w]]
      /\ query' = [query EXCEPT ![w] = NULL] /\ fase' = [fase EXCEPT ![w] = "libre"]
      /\ pc_actual' = [pc_actual EXCEPT ![w] = 0] /\ res' = [res EXCEPT ![w] = "OK"]
      /\ UNCHANGED <<programa, tabla, debe>>
      /\ \/ /\ res[w] = "DESALOJO" /\ estado' = [estado EXCEPT ![q] = "READY"]
            /\ resultado' = resultado
         \/ /\ res[w] # "DESALOJO" /\ estado' = [estado EXCEPT ![q] = "EXIT"]
            /\ resultado' = [resultado EXCEPT ![q] = res[w]]
  BY DEF notificar_resultado_a_master, pc_final, memoria, historia
<1>3. \A x \in Workers : query[x] = q => x = w
  BY <1>1 DEF IInv, UnWorker
<1>4. Tipos'
  <2>1. resultado' \in [Queries -> {"OK", "FIN", "ERROR"}]
    BY <1>1, <1>2 DEF IInv, Tipos
  <2>2. estado' \in [Queries -> {"READY", "EXEC", "EXIT"}]
    BY <1>1, <1>2 DEF IInv, Tipos
  <2>3. \A x \in Workers : \A y \in DOMAIN tabla'[x] : EsPagina(x, y)'
    BY <1>2 DEF IInv, Tipos, EsPagina
  <2> QED BY <1>1, <1>2, <2>1, <2>2, <2>3 DEF IInv, Tipos
<1>5. Ocupado'
  BY <1>1, <1>2 DEF IInv, Tipos, Ocupado, Largo
<1>6. UnWorker'
  <2>1. \A x \in Workers : query'[x] \in Queries => x # w /\ query'[x] = query[x] /\ query[x] # q
    BY <1>1, <1>2, <1>3, ConsultasSupuesto DEF IInv, Tipos
  <2>2. \A r \in Queries \ {q} : estado'[r] = estado[r] /\ resultado'[r] = resultado[r]
    BY <1>2 DEF IInv, Tipos
  <2>3. resultado'[q] # "OK" => estado'[q] = "EXIT"
    BY <1>1, <1>2 DEF IInv, Tipos
  <2> QED BY <2>1, <2>2, <2>3 DEF IInv, UnWorker
<1>7. DebeDondeEsta'
  <2> SUFFICES ASSUME NEW d \in debe
               PROVE  /\ d[1] \in Queries /\ d[2] \in Workers
                      /\ d[3] \in Sucias(d[2], Archivos)'
                      /\ \/ query'[d[2]] = d[1]
                         \/ estado'[d[1]] = "EXIT" /\ resultado'[d[1]] = "ERROR"
    BY <1>2 DEF DebeDondeEsta
  <2>1. /\ d[1] \in Queries /\ d[2] \in Workers /\ d[3] \in Sucias(d[2], Archivos)
        /\ query[d[2]] = d[1] \/ (estado[d[1]] = "EXIT" /\ resultado[d[1]] = "ERROR")
    BY DEF IInv, DebeDondeEsta
  <2>2. d[3] \in Sucias(d[2], Archivos)'
    BY <1>2, <2>1 DEF Sucias
  <2>3. CASE d[2] = w /\ query[w] = d[1]
    <3>1. res[w] = "ERROR"
      BY <1>1, <2>1, <2>3 DEF IInv, SinRestos
    <3>2. estado'[d[1]] = "EXIT" /\ resultado'[d[1]] = "ERROR"
      BY <1>1, <1>2, <2>3, <3>1 DEF IInv, Tipos
    <3> QED BY <2>1, <2>2, <3>2
  <2>4. CASE d[2] # w /\ query[d[2]] = d[1]
    <3>1. query'[d[2]] = d[1]
      BY <1>2, <2>1, <2>4 DEF IInv, Tipos
    <3> QED BY <2>1, <2>2, <3>1
  <2>5. CASE estado[d[1]] = "EXIT" /\ resultado[d[1]] = "ERROR"
    <3>1. d[1] # q
      BY <1>1, <2>5
    <3>2. estado'[d[1]] = "EXIT" /\ resultado'[d[1]] = "ERROR"
      BY <1>2, <2>1, <2>5, <3>1 DEF IInv, Tipos
    <3> QED BY <2>1, <2>2, <3>2
  <2> QED BY <2>1, <2>3, <2>4, <2>5
<1>8. SinRestos'
  BY <1>2 DEF IInv, Tipos, SinRestos, Sucias
<1> QED BY <1>4, <1>5, <1>6, <1>7, <1>8 DEF IInv

\* A query of READY owes nothing, and a free Worker has no query.
LEMMA AsignaInv ==
    ASSUME IInv, NEW w \in Workers, NEW q \in Queries, Asigna(q, w)
    PROVE  IInv'
<1>1. /\ estado[q] = "READY" /\ fase[w] = "libre" /\ query[w] = NULL
      /\ estado' = [estado EXCEPT ![q] = "EXEC"]
      /\ query' = [query EXCEPT ![w] = q] /\ fase' = [fase EXCEPT ![w] = "ciclo"]
      /\ pc_actual' = [pc_actual EXCEPT ![w] = pc[q]]
      /\ UNCHANGED <<programa, pc, resultado, res, tabla, debe>>
  BY DEF Asigna, memoria, IInv, Ocupado
<1>2. resultado[q] = "OK" /\ \A x \in Workers : query[x] # q
  BY <1>1 DEF IInv, UnWorker, Tipos
<1>3. Tipos'
  BY <1>1 DEF IInv, Tipos, EsPagina
<1>4. Ocupado'
  BY <1>1 DEF IInv, Tipos, Ocupado, Largo
<1>5. UnWorker'
  <2>1. /\ \A x \in Workers \ {w} : query'[x] = query[x] /\ query[x] # q
        /\ query'[w] = q /\ estado'[q] = "EXEC" /\ resultado'[q] = "OK"
        /\ \A r \in Queries \ {q} : estado'[r] = estado[r] /\ resultado'[r] = resultado[r]
    BY <1>1, <1>2 DEF IInv, Tipos
  <2> QED BY <2>1 DEF IInv, UnWorker
<1>6. DebeDondeEsta'
  <2> SUFFICES ASSUME NEW d \in debe
               PROVE  /\ d[1] \in Queries /\ d[2] \in Workers
                      /\ d[3] \in Sucias(d[2], Archivos)'
                      /\ \/ query'[d[2]] = d[1]
                         \/ estado'[d[1]] = "EXIT" /\ resultado'[d[1]] = "ERROR"
    BY <1>1 DEF DebeDondeEsta
  <2>1. /\ d[1] \in Queries /\ d[2] \in Workers /\ d[3] \in Sucias(d[2], Archivos)
        /\ query[d[2]] = d[1] \/ (estado[d[1]] = "EXIT" /\ resultado[d[1]] = "ERROR")
    BY DEF IInv, DebeDondeEsta
  <2>2. d[1] # q
    BY <1>1, <1>2, <2>1
  <2>3. d[2] # w \/ (estado[d[1]] = "EXIT" /\ resultado[d[1]] = "ERROR")
    BY <1>1, <2>1, ConsultasSupuesto
  <2>4. \/ query'[d[2]] = d[1]
        \/ estado'[d[1]] = "EXIT" /\ resultado'[d[1]] = "ERROR"
    BY <1>1, <2>1, <2>2, <2>3 DEF IInv, Tipos
  <2> QED BY <1>1, <2>1, <2>4 DEF Sucias
<1>7. SinRestos'
  BY <1>1 DEF IInv, Tipos, SinRestos, Sucias
<1> QED BY <1>3, <1>4, <1>5, <1>6, <1>7 DEF IInv

\* The flag changes nothing by itself.
LEMMA QuietoInv ==
    ASSUME IInv,
           UNCHANGED <<programa, estado, pc, resultado, query, fase, pc_actual, res, tabla, debe>>
    PROVE  IInv'
BY DEF IInv, Tipos, Ocupado, UnWorker, DebeDondeEsta, SinRestos, Sucias, Largo, EsPagina

-----------------------------------------------------------------------------
(***************************************************************************)
(* The theorem.                                                            *)
(***************************************************************************)

\* Every step preserves the invariant.
LEMMA PasoInv == IInv /\ [Next]_vars => IInv'
<1> SUFFICES ASSUME IInv, [Next]_vars PROVE IInv'
  OBVIOUS
<1>1. CASE UNCHANGED vars
  BY <1>1, QuietoInv DEF vars, maestro, registros, memoria, historia
<1>2. ASSUME NEW w \in Workers, Desaloja(w) PROVE IInv'
  BY <1>2, QuietoInv DEF Desaloja, memoria, historia
<1> QED BY <1>1, <1>2, ReemplazaInv, TraeInv, AccedeInv, SinMemoriaInv, FlushInv, FlushAllInv,
           NotificaInv, AsignaInv DEF Next

\* A query told that it ended well, or waiting to be resumed, owes nothing to the Storage:
\* the result of flush_all replaces every result that was not an error (worker.c:205-209),
\* and a page leaves a memory only once the Storage took it (memoria_interna.c:299-310).
THEOREM FinEsVerdadSiempre == Spec => []FinEsVerdad
<1>1. IInv => FinEsVerdad
  <2> SUFFICES ASSUME IInv, NEW d \in debe
               PROVE  resultado[d[1]] # "FIN" /\ estado[d[1]] # "READY"
    BY DEF FinEsVerdad
  <2>1. /\ d[1] \in Queries /\ d[2] \in Workers
        /\ query[d[2]] = d[1] \/ (estado[d[1]] = "EXIT" /\ resultado[d[1]] = "ERROR")
    BY DEF IInv, DebeDondeEsta
  <2> QED BY <2>1 DEF IInv, UnWorker
<1> QED BY Inicial, PasoInv, <1>1, PTL DEF Spec

-----------------------------------------------------------------------------
(***************************************************************************)
(* The rest of the types: the PC stays in the program, pages are pages of  *)
(* a File:Tag that has them, and no Worker has more pages than frames.     *)
(***************************************************************************)

\* The PC of a query, and the one a Worker goes on from.
Lineas ==
    /\ \A q \in Queries : pc[q] <= Largo(q)
    /\ \A w \in Workers : fase[w] # "libre" => pc_actual[w] <= Largo(query[w])
    /\ parte \in [Workers -> Nat]

\* The Storage.
Bloques ==
    /\ alm = [tam |-> alm.tam, bloque |-> alm.bloque, com |-> alm.com]
    /\ alm.tam \in [Archivos -> -1..MaxBloques] /\ alm.com \subseteq Archivos

\* A frame is free, in use by one page, or in the hands of the Worker that replaced its page.
Usados(w) == Cardinality(DOMAIN tabla[w]) + libres[w] + (IF marco[w] THEN 1 ELSE 0)

Cuadros ==
    /\ libres \in [Workers -> Nat] /\ marco \in [Workers -> BOOLEAN]
    /\ \A w \in Workers : /\ DOMAIN tabla[w] \subseteq Paginas /\ IsFiniteSet(DOMAIN tabla[w])
                          /\ Usados(w) <= Marcos

Deudas == debe \subseteq Queries \X Workers \X Paginas

TInv == IInv /\ Lineas /\ Bloques /\ Cuadros /\ Deudas

LEMMA InicialTipos == Init => TInv
<1> SUFFICES ASSUME Init PROVE TInv
  OBVIOUS
<1>1. Lineas
  <2> SUFFICES ASSUME NEW q \in Queries PROVE 0 <= Largo(q)
    BY DEF Init, Lineas
  <2>1. programa[q] \in Seq(Instruccion)
    BY ConsultasSupuesto DEF Init
  <2> QED BY <2>1 DEF Largo
<1>2. Bloques /\ Deudas
  BY ConsultasSupuesto DEF Init, Bloques, Deudas
<1>3. Cuadros
  <2>1. DOMAIN << >> = {} /\ IsFiniteSet({}) /\ Cardinality({}) = 0
    BY FS_EmptySet
  <2>2. \A w \in Workers : tabla[w] = << >> /\ libres[w] = Marcos /\ marco[w] = FALSE
    BY DEF Init
  <2>3. \A w \in Workers : Usados(w) = Marcos
    BY <2>1, <2>2, ConsultasSupuesto DEF Usados
  <2> QED BY <2>1, <2>2, <2>3, ConsultasSupuesto DEF Init, Cuadros
<1> QED BY <1>1, <1>2, <1>3, Inicial DEF TInv

\* The line a Worker executes is in the program of its query, and so is the next.
LEMMA LineaActual ==
    ASSUME IInv, NEW w \in Workers, fase[w] # "libre"
    PROVE  /\ query[w] \in Queries /\ pc_actual[w] \in Nat /\ Largo(query[w]) \in Nat
           /\ fase[w] = "ejecuta" => pc_actual[w] + 1 <= Largo(query[w])
<1>1. query[w] \in Queries /\ pc_actual[w] \in Nat
  BY DEF IInv, Tipos, Ocupado
<1>2. Largo(query[w]) \in Nat
  BY <1>1, ConsultasSupuesto DEF IInv, Tipos, Largo
<1> QED BY <1>1, <1>2 DEF IInv, Ocupado

\* A step of the interpreter keeps the PC in the program.
LEMMA LineasSigue ==
    ASSUME IInv, Lineas, NEW w \in Workers, NEW n \in {0, 1}, fase[w] # "libre",
           fase[w] = "ejecuta" \/ n = 0,
           UNCHANGED <<maestro, query>>,
           pc_actual' = [pc_actual EXCEPT ![w] = @ + n],
           \A x \in Workers \ {w} : fase'[x] = fase[x], parte' \in [Workers -> Nat]
    PROVE  Lineas'
<1>1. pc' = pc /\ \A q \in Queries : Largo(q)' = Largo(q)
  BY DEF maestro, Largo
<1>2. ASSUME NEW x \in Workers, fase'[x] # "libre" PROVE pc_actual'[x] <= Largo(query[x])
  <2>1. CASE x = w
    <3>1. pc_actual'[w] = pc_actual[w] + n
      BY DEF IInv, Tipos
    <3> QED BY <2>1, <3>1, LineaActual DEF Lineas
  <2>2. CASE x # w
    BY <1>2, <2>2 DEF Lineas, IInv, Tipos
  <2> QED BY <2>1, <2>2
<1> QED BY <1>1, <1>2 DEF Lineas, Largo, maestro

\* The ways the registers change inside an instruction, again.
LEMMA LineasRegistros ==
    ASSUME IInv, Lineas, NEW w \in Workers, fase[w] = "ejecuta", UNCHANGED maestro
    PROVE  /\ Hecha(w) => Lineas'
           /\ \A r \in {"FIN", "ERROR"} : Sale(w, r) => Lineas'
           /\ UNCHANGED registros => Lineas'
           /\ \A n \in Nat : /\ parte' = [parte EXCEPT ![w] = n]
                             /\ UNCHANGED <<query, fase, pc_actual>>
                             => Lineas'
<1>0. /\ parte \in [Workers -> Nat] /\ pc_actual \in [Workers -> Nat]
      /\ fase \in [Workers -> {"libre", "ciclo", "ejecuta", "flush", "aviso"}]
  BY DEF IInv, Tipos, Lineas
<1>1. ASSUME Hecha(w) PROVE Lineas'
  <2>1. /\ pc_actual' = [pc_actual EXCEPT ![w] = @ + 1] /\ query' = query
        /\ \A x \in Workers \ {w} : fase'[x] = fase[x]
        /\ parte' \in [Workers -> Nat]
    BY <1>0, <1>1 DEF Hecha
  <2> QED BY <2>1, LineasSigue
<1>2. ASSUME NEW r \in {"FIN", "ERROR"}, Sale(w, r) PROVE Lineas'
  <2>1. PICK n \in {0, 1} : n = IF r = "FIN" THEN 1 ELSE 0
    OBVIOUS
  <2>2. /\ pc_actual' = [pc_actual EXCEPT ![w] = @ + n] /\ query' = query
        /\ \A x \in Workers \ {w} : fase'[x] = fase[x]
        /\ parte' \in [Workers -> Nat]
    BY <1>0, <1>2, <2>1 DEF Sale
  <2> QED BY <2>2, LineasSigue
<1>3. pc_actual = [pc_actual EXCEPT ![w] = @ + 0]
  BY <1>0
<1>4. ASSUME UNCHANGED registros PROVE Lineas'
  BY <1>0, <1>3, <1>4, LineasSigue DEF registros
<1>5. ASSUME NEW n \in Nat, parte' = [parte EXCEPT ![w] = n], UNCHANGED <<query, fase, pc_actual>>
      PROVE  Lineas'
  <2>1. parte' \in [Workers -> Nat]
    BY <1>0, <1>5
  <2> QED BY <1>3, <1>5, <2>1, LineasSigue
<1> QED BY <1>1, <1>2, <1>4, <1>5

\* The other parts, when what they look at is as it was.
LEMMA CuadrosQuietos ==
    ASSUME Cuadros, UNCHANGED memoria
    PROVE  Cuadros'
BY DEF Cuadros, Usados, memoria

LEMMA BloquesQuietos == Bloques /\ UNCHANGED alm => Bloques'
BY DEF Bloques

\* The registers after each action.
LEMMA LineasPaso ==
    ASSUME IInv, Lineas, NEW w \in Workers,
           \/ Reemplaza(w) \/ Trae(w) \/ Accede(w) \/ Invalida(w)
           \/ execute_flush(w) \/ enviar_instruccion(w) \/ execute_end(w)
           \/ Ciclo(w) \/ flush_all(w) \/ notificar_resultado_a_master(w)
           \/ \E q \in Queries : Asigna(q, w)
           \/ Desaloja(w)
    PROVE  Lineas'
<1>0. /\ parte \in [Workers -> Nat] /\ pc_actual \in [Workers -> Nat] /\ pc \in [Queries -> Nat]
      /\ fase \in [Workers -> {"libre", "ciclo", "ejecuta", "flush", "aviso"}]
      /\ query \in [Workers -> Queries \cup {NULL}]
  BY DEF IInv, Tipos, Lineas
<1>q. pc_actual = [pc_actual EXCEPT ![w] = @ + 0]
  BY <1>0
<1>1. ASSUME fase[w] = "ejecuta", UNCHANGED maestro,
             \/ UNCHANGED registros \/ Hecha(w) \/ Sale(w, "ERROR") \/ Sale(w, "FIN")
             \/ \E n \in Nat : parte' = [parte EXCEPT ![w] = n] /\ UNCHANGED <<query, fase, pc_actual>>
      PROVE  Lineas'
  BY <1>1, LineasRegistros
<1>2. CASE Reemplaza(w)
  <2>1. fase[w] = "ejecuta" /\ UNCHANGED maestro /\ (UNCHANGED registros \/ Sale(w, "ERROR"))
    BY <1>2 DEF Reemplaza, Ejecuta, registros
  <2> QED BY <1>1, <2>1
<1>3. CASE Trae(w)
  BY <1>1, <1>3 DEF Trae, Ejecuta
<1>4. CASE Accede(w)
  <2>1. /\ fase[w] = "ejecuta" /\ UNCHANGED maestro
        /\ \/ Hecha(w)
           \/ parte' = [parte EXCEPT ![w] = parte[w] + 1] /\ UNCHANGED <<query, fase, pc_actual>>
    BY <1>4 DEF Accede, Ejecuta
  <2>2. parte[w] + 1 \in Nat
    BY <1>0
  <2> QED BY <1>1, <2>1, <2>2
<1>5. CASE Invalida(w)
  BY <1>1, <1>5 DEF Invalida
<1>6. CASE execute_flush(w)
  <2>1. /\ fase[w] = "ejecuta" /\ UNCHANGED maestro
        /\ UNCHANGED registros \/ FlushTermina(w, TRUE) \/ FlushTermina(w, FALSE)
    BY <1>6 DEF execute_flush, FlushPedido, Ejecuta
  <2>2. ASSUME NEW ok \in BOOLEAN, FlushTermina(w, ok)
        PROVE  \/ Hecha(w) \/ Sale(w, "ERROR")
               \/ parte' = [parte EXCEPT ![w] = 1] /\ UNCHANGED <<query, fase, pc_actual>>
    BY <2>2 DEF FlushTermina, Avanza
  <2> QED BY <1>1, <2>1, <2>2
<1>7. CASE enviar_instruccion(w)
  <2>1. fase[w] = "ejecuta" /\ UNCHANGED maestro /\ (Hecha(w) \/ Sale(w, "ERROR"))
    BY <1>7 DEF enviar_instruccion, Pedido, Ejecuta, Avanza
  <2> QED BY <1>1, <2>1
<1>8. CASE execute_end(w)
  BY <1>1, <1>8 DEF execute_end, Ejecuta
<1>9. CASE Ciclo(w)
  <2>1. /\ fase[w] # "libre" /\ UNCHANGED <<maestro, query>>
        /\ pc_actual' = [pc_actual EXCEPT ![w] = @ + 0]
        /\ \A x \in Workers \ {w} : fase'[x] = fase[x]
        /\ parte' \in [Workers -> Nat]
    BY <1>0, <1>9, <1>q DEF Ciclo, Sale
  <2> QED BY <2>1, LineasSigue
<1>10. CASE flush_all(w)
  <2>1. /\ fase[w] = "flush" /\ UNCHANGED <<maestro, query, pc_actual, parte>>
        /\ \A x \in Workers \ {w} : fase'[x] = fase[x]
    BY <1>0, <1>10 DEF flush_all
  <2> QED BY <1>0, <1>q, <2>1, LineasSigue
<1>11. CASE notificar_resultado_a_master(w)
  <2>1. /\ fase[w] = "aviso" /\ UNCHANGED <<programa, parte>>
        /\ pc' = [pc EXCEPT ![query[w]] = pc_actual[w]]
        /\ query' = [query EXCEPT ![w] = NULL] /\ fase' = [fase EXCEPT ![w] = "libre"]
        /\ pc_actual' = [pc_actual EXCEPT ![w] = 0]
    BY <1>11 DEF notificar_resultado_a_master, pc_final
  <2>2. query[w] \in Queries /\ pc_actual[w] <= Largo(query[w])
    BY <2>1, LineaActual DEF Lineas
  <2>3. \A q \in Queries : pc'[q] <= Largo(q)
    BY <1>0, <2>1, <2>2 DEF Lineas
  <2>4. \A x \in Workers : fase'[x] # "libre" =>
            fase[x] # "libre" /\ pc_actual'[x] = pc_actual[x] /\ query'[x] = query[x]
    BY <1>0, <2>1
  <2> QED BY <2>1, <2>3, <2>4 DEF Lineas, Largo
<1>12. ASSUME NEW q \in Queries, Asigna(q, w) PROVE Lineas'
  <2>1. /\ UNCHANGED <<programa, pc, parte>>
        /\ query' = [query EXCEPT ![w] = q] /\ fase' = [fase EXCEPT ![w] = "ciclo"]
        /\ pc_actual' = [pc_actual EXCEPT ![w] = pc[q]]
    BY <1>12 DEF Asigna
  <2>2. \A x \in Workers : fase'[x] # "libre" =>
            \/ x = w /\ pc_actual'[x] = pc[q] /\ query'[x] = q
            \/ fase[x] # "libre" /\ pc_actual'[x] = pc_actual[x] /\ query'[x] = query[x]
    BY <1>0, <2>1
  <2> QED BY <2>1, <2>2 DEF Lineas, Largo
<1>13. CASE Desaloja(w)
  <2>1. UNCHANGED <<programa, pc, query, fase, pc_actual, parte>>
    BY <1>13 DEF Desaloja
  <2> QED BY <2>1 DEF Lineas, Largo
<1> QED BY <1>2, <1>3, <1>4, <1>5, <1>6, <1>7, <1>8, <1>9, <1>10, <1>11, <1>12, <1>13

\* A block that is written does not change the size of its File:Tag.
LEMMA TomaBloques ==
    ASSUME Bloques, NEW w, NEW p, Toma(w, p)
    PROVE  Bloques'
<1>1. /\ alm = [tam |-> alm.tam, bloque |-> alm.bloque, com |-> alm.com]
      /\ alm' = [alm EXCEPT !.bloque[p] = tabla[w][p].valor]
  BY DEF Bloques, Toma
<1>2. alm' = [tam |-> alm.tam, bloque |-> [alm.bloque EXCEPT ![p] = tabla[w][p].valor],
              com |-> alm.com]
  BY <1>1
<1>3. alm'.tam = alm.tam /\ alm'.com = alm.com
      /\ alm' = [tam |-> alm'.tam, bloque |-> alm'.bloque, com |-> alm'.com]
  BY <1>2
<1> QED BY <1>3 DEF Bloques

\* A request leaves sizes that a File:Tag can have.
LEMMA EfectoBloques ==
    ASSUME IInv, Bloques, NEW w \in Workers, fase[w] = "ejecuta",
           Actual(w).op \in {"CREATE", "TRUNCATE", "TAG", "DELETE", "COMMIT"},
           alm' = Efecto(alm, Actual(w))
    PROVE  Bloques'
<1> DEFINE i == Actual(w)
           r == Efecto(alm, i)
<1>1. /\ i \in Instruccion /\ i.a \in Archivos /\ i.n \in Nat
      /\ i.op = "TRUNCATE" => i.n <= MaxBloques
  <2>1. i \in Instruccion
    BY ActualTipo
  <2>2. /\ query[w] \in Queries /\ pc_actual[w] + 1 <= Len(programa[query[w]])
        /\ pc_actual[w] \in Nat /\ programa \in Programas
    BY LineaActual DEF Largo, IInv, Tipos
  <2>3. pc_actual[w] + 1 \in DOMAIN programa[query[w]]
    BY <2>2, ConsultasSupuesto
  <2> QED BY <2>1, <2>2, <2>3, ConsultasSupuesto DEF Actual, Instruccion
<1> HIDE DEF i
<1>2. /\ alm = [tam |-> alm.tam, bloque |-> alm.bloque, com |-> alm.com]
      /\ alm.tam \in [Archivos -> -1..MaxBloques] /\ alm.com \subseteq Archivos
      /\ MaxBloques \in Nat
  BY ConsultasSupuesto DEF Bloques
<1>3. /\ r = [tam |-> r.tam, bloque |-> r.bloque, com |-> r.com]
      /\ \/ i.op = "CREATE" /\ r.tam = [alm.tam EXCEPT ![i.a] = 0] /\ r.com = alm.com
         \/ i.op = "TRUNCATE" /\ r.tam = [alm.tam EXCEPT ![i.a] = i.n] /\ r.com = alm.com
         \/ i.op = "TAG" /\ r.tam = [alm.tam EXCEPT ![Destino(i)] = alm.tam[i.a]] /\ r.com = alm.com
         \/ i.op = "COMMIT" /\ r.tam = alm.tam /\ r.com = alm.com \cup {i.a}
         \/ i.op = "DELETE" /\ r.tam = [alm.tam EXCEPT ![i.a] = -1] /\ r.com = alm.com \ {i.a}
  <2>1. i.op \in {"CREATE", "TRUNCATE", "TAG", "DELETE", "COMMIT"}
    BY DEF i
  <2>2. CASE i.op = "CREATE"
    <3>1. r = [alm EXCEPT !.tam[i.a] = 0]
      BY <2>2 DEF Efecto
    <3> QED BY <1>2, <2>2, <3>1
  <2>3. CASE i.op = "TRUNCATE"
    <3>1. r = [alm EXCEPT !.tam[i.a] = i.n, !.bloque = EnCero(alm, i.a, i.n)]
      BY <2>3 DEF Efecto
    <3> QED BY <1>2, <2>3, <3>1
  <2>4. CASE i.op = "TAG"
    <3> DEFINE f == [p \in Paginas |-> IF p[1] = Destino(i)
                                      THEN alm.bloque[<<i.a, p[2]>>] ELSE alm.bloque[p]]
    <3>1. r = [alm EXCEPT !.tam[Destino(i)] = alm.tam[i.a], !.bloque = f]
      BY <1>2, <2>4 DEF Efecto
    <3> HIDE DEF f
    <3> QED BY <1>2, <2>4, <3>1
  <2>5. CASE i.op = "COMMIT"
    <3>1. r = [alm EXCEPT !.com = alm.com \cup {i.a}]
      BY <2>5 DEF Efecto
    <3> QED BY <1>2, <2>5, <3>1
  <2>6. CASE i.op = "DELETE"
    <3>1. r = [alm EXCEPT !.tam[i.a] = -1, !.bloque = EnCero(alm, i.a, 0), !.com = alm.com \ {i.a}]
      BY <2>6 DEF Efecto
    <3> QED BY <1>2, <2>6, <3>1
  <2> QED BY <2>1, <2>2, <2>3, <2>4, <2>5, <2>6
<1>4. alm' = r
  BY DEF i
<1> HIDE DEF r
<1>5. r.tam \in [Archivos -> -1..MaxBloques] /\ r.com \subseteq Archivos
  BY <1>1, <1>2, <1>3
<1> QED BY <1>3, <1>4, <1>5 DEF Bloques

\* The Storage after each action.
LEMMA BloquesPaso ==
    ASSUME IInv, Bloques, NEW w \in Workers,
           \/ Reemplaza(w) \/ Trae(w) \/ Accede(w) \/ Invalida(w)
           \/ execute_flush(w) \/ enviar_instruccion(w) \/ execute_end(w)
           \/ Ciclo(w) \/ flush_all(w) \/ notificar_resultado_a_master(w)
           \/ \E q \in Queries : Asigna(q, w)
           \/ Desaloja(w)
    PROVE  Bloques'
<1>1. CASE Reemplaza(w)
  <2>1. UNCHANGED alm \/ \E p : Toma(w, p)
    BY <1>1 DEF Reemplaza
  <2> QED BY <2>1, BloquesQuietos, TomaBloques
<1>2. CASE execute_flush(w) \/ flush_all(w)
  <2>1. UNCHANGED alm \/ \E p : Toma(w, p)
    BY <1>2 DEF execute_flush, flush_all, Baja
  <2> QED BY <2>1, BloquesQuietos, TomaBloques
<1>3. CASE enviar_instruccion(w)
  <2>1. /\ fase[w] = "ejecuta"
        /\ Actual(w).op \in {"CREATE", "TRUNCATE", "TAG", "DELETE", "COMMIT"}
        /\ UNCHANGED alm \/ alm' = Efecto(alm, Actual(w))
    BY <1>3 DEF enviar_instruccion, Pedido, Ejecuta
  <2> QED BY <2>1, BloquesQuietos, EfectoBloques
<1>4. ASSUME \/ Trae(w) \/ Accede(w) \/ Invalida(w) \/ execute_end(w) \/ Ciclo(w)
             \/ notificar_resultado_a_master(w) \/ (\E q \in Queries : Asigna(q, w)) \/ Desaloja(w)
      PROVE  UNCHANGED alm
  BY <1>4 DEF Trae, Accede, Invalida, execute_end, Ciclo, notificar_resultado_a_master, Asigna,
              Desaloja
<1> QED BY <1>1, <1>2, <1>3, <1>4, BloquesQuietos

\* The page a READ or WRITE brings is one that a File:Tag has.
LEMMA PaginaExiste ==
    ASSUME TInv, NEW w \in Workers, fase[w] = "ejecuta", EnRango(alm, Pagina(w))
    PROVE  Pagina(w) \in Paginas
<1>1. Actual(w).a \in Archivos /\ Actual(w).n \in Nat
  BY ActualTipo DEF TInv, Instruccion
<1>2. parte[w] \in Nat /\ Actual(w).n + parte[w] \in Nat
  BY <1>1 DEF TInv, Lineas
<1>3. Actual(w).n + parte[w] < alm.tam[Actual(w).a] /\ alm.tam[Actual(w).a] \in -1..MaxBloques
  BY <1>1 DEF TInv, Bloques, EnRango, Pagina
<1>4. Actual(w).n + parte[w] \in 0..(MaxBloques - 1)
  BY <1>2, <1>3, ConsultasSupuesto
<1> QED BY <1>1, <1>4 DEF Pagina, Paginas

\* A memory whose pages and frames add up, the others being as they were.
LEMMA CuadrosDe ==
    ASSUME Cuadros, NEW w \in Workers,
           \A x \in Workers \ {w} : tabla'[x] = tabla[x] /\ libres'[x] = libres[x] /\ marco'[x] = marco[x],
           libres' \in [Workers -> Nat], marco' \in [Workers -> BOOLEAN],
           DOMAIN tabla'[w] \subseteq Paginas, IsFiniteSet(DOMAIN tabla'[w]), Usados(w)' <= Marcos
    PROVE  Cuadros'
<1> SUFFICES ASSUME NEW x \in Workers
             PROVE  /\ DOMAIN tabla'[x] \subseteq Paginas /\ IsFiniteSet(DOMAIN tabla'[x])
                    /\ Usados(x)' <= Marcos
  BY DEF Cuadros
<1>1. CASE x = w
  BY <1>1 DEF Usados
<1>2. CASE x # w
  BY <1>2 DEF Cuadros, Usados
<1> QED BY <1>1, <1>2

\* A page goes and its frame stays with the Worker.
LEMMA ReemplazaCuadros ==
    ASSUME IInv, Cuadros, NEW w \in Workers, Reemplaza(w)
    PROVE  Cuadros'
<1>1. CASE UNCHANGED memoria
  BY <1>1, CuadrosQuietos
<1>2. ASSUME NEW p \in DOMAIN tabla[w], Quita(w, p), marco' = [marco EXCEPT ![w] = TRUE],
             UNCHANGED libres
      PROVE  Cuadros'
  <2> DEFINE D == DOMAIN tabla[w]
  <2>1. /\ D \subseteq Paginas /\ IsFiniteSet(D) /\ Usados(w) <= Marcos
        /\ libres[w] = 0 /\ marco[w] = FALSE
        /\ libres \in [Workers -> Nat] /\ marco \in [Workers -> BOOLEAN]
    BY DEF Cuadros, Reemplaza
  <2>2. /\ DOMAIN tabla'[w] = D \ {p} /\ \A x \in Workers \ {w} : tabla'[x] = tabla[x]
    BY <1>2 DEF Quita, IInv, Tipos
  <2>3. IsFiniteSet(D \ {p}) /\ Cardinality(D \ {p}) = Cardinality(D) - 1 /\ Cardinality(D) \in Nat
    BY <1>2, <2>1, FS_RemoveElement, FS_CardinalityType
  <2>4. Usados(w)' = Cardinality(D) - 1 + 0 + 1 /\ Usados(w) = Cardinality(D) + 0 + 0
    <3>1. libres'[w] = 0 /\ marco'[w] = TRUE
      BY <1>2, <2>1
    <3>2. Usados(w)' = Cardinality(D \ {p}) + 0 + 1
      BY <2>2, <3>1 DEF Usados
    <3>3. Usados(w) = Cardinality(D) + 0 + 0
      BY <2>1 DEF Usados
    <3> QED BY <2>3, <3>2, <3>3
  <2>5. Usados(w)' <= Marcos
    BY <2>1, <2>3, <2>4
  <2>6. /\ \A x \in Workers \ {w} : libres'[x] = libres[x] /\ marco'[x] = marco[x]
        /\ libres' \in [Workers -> Nat] /\ marco' \in [Workers -> BOOLEAN]
    BY <1>2, <2>1
  <2> QED BY <2>1, <2>2, <2>3, <2>5, <2>6, CuadrosDe
<1>3. CASE DOMAIN tabla[w] = {} /\ marco' = [marco EXCEPT ![w] = TRUE]
             /\ UNCHANGED <<registros, tabla, libres>>
  <2>1. /\ libres[w] = 0 /\ libres \in [Workers -> Nat] /\ marco \in [Workers -> BOOLEAN]
    BY DEF Cuadros, Reemplaza
  <2>2. /\ libres'[w] = 0 /\ marco'[w] = TRUE /\ tabla'[w] = tabla[w]
        /\ \A x \in Workers \ {w} : /\ tabla'[x] = tabla[x] /\ libres'[x] = libres[x]
                                     /\ marco'[x] = marco[x]
        /\ libres' \in [Workers -> Nat] /\ marco' \in [Workers -> BOOLEAN]
    BY <1>3, <2>1
  <2>3. IsFiniteSet(DOMAIN tabla[w]) /\ Cardinality(DOMAIN tabla[w]) = 0
    BY <1>3, FS_EmptySet
  <2>4. Usados(w)' = 0 + 0 + 1
    BY <2>2, <2>3 DEF Usados
  <2>5. Usados(w)' <= Marcos
    BY <2>4, ConsultasSupuesto
  <2> QED BY <1>3, <2>2, <2>3, <2>5, CuadrosDe
<1> QED BY <1>1, <1>2, <1>3 DEF Reemplaza

\* A page comes, to the frame the Worker had or to a free one; or that frame is lost.
LEMMA TraeCuadros ==
    ASSUME TInv, NEW w \in Workers, Trae(w)
    PROVE  Cuadros'
<1> DEFINE D == DOMAIN tabla[w]
           p == Pagina(w)
           m == IF marco[w] THEN 1 ELSE 0
<1>1. /\ D \subseteq Paginas /\ IsFiniteSet(D) /\ Usados(w) <= Marcos
      /\ libres \in [Workers -> Nat] /\ marco \in [Workers -> BOOLEAN]
      /\ Cuadros /\ Marcos \in Nat
  BY ConsultasSupuesto DEF TInv, Cuadros
<1>2. /\ fase[w] = "ejecuta" /\ p \notin D /\ (libres[w] > 0 \/ marco[w])
      /\ marco' = [marco EXCEPT ![w] = FALSE]
  BY DEF Trae, Ejecuta
<1>3. Cardinality(D) \in Nat /\ libres[w] \in Nat /\ m \in {0, 1} /\ marco[w] \in BOOLEAN
  BY <1>1, FS_CardinalityType
<1>4. Usados(w) = Cardinality(D) + libres[w] + m
  BY DEF Usados
<1>5. marco' \in [Workers -> BOOLEAN] /\ marco'[w] = FALSE
      /\ \A x \in Workers \ {w} : marco'[x] = marco[x]
  BY <1>1, <1>2
<1>6. Usados(w)' = Cardinality(DOMAIN tabla'[w]) + libres'[w] + 0
  BY <1>5 DEF Usados
<1>7. CASE UNCHANGED <<tabla, libres>>
  <2>1. Usados(w)' <= Marcos
    <3>1. Usados(w)' = Cardinality(D) + libres[w] + 0
      BY <1>6, <1>7
    <3> QED BY <1>1, <1>3, <1>4, <3>1
  <2> QED BY <1>1, <1>5, <1>7, <2>1, CuadrosDe
<1>8. CASE /\ EnRango(alm, p)
           /\ tabla' = [tabla EXCEPT ![w] = [x \in DOMAIN @ \cup {p} |->
                           IF x = p
                           THEN [valor |-> alm.bloque[x], modificado |-> FALSE] ELSE @[x]]]
           /\ libres' = [libres EXCEPT ![w] = @ - (IF marco[w] THEN 0 ELSE 1)]
  <2>1. DOMAIN tabla'[w] = D \cup {p} /\ \A x \in Workers \ {w} : tabla'[x] = tabla[x]
    BY <1>8 DEF TInv, IInv, Tipos
  <2>2. IsFiniteSet(D \cup {p}) /\ Cardinality(D \cup {p}) = Cardinality(D) + 1
    BY <1>1, <1>2, FS_AddElement
  <2>3. libres'[w] = libres[w] - (1 - m) /\ libres'[w] \in Nat
        /\ \A x \in Workers \ {w} : libres'[x] = libres[x]
    BY <1>1, <1>2, <1>3, <1>8
  <2>4. libres' \in [Workers -> Nat]
    BY <1>1, <1>8, <2>3
  <2>5. p \in Paginas
    BY <1>2, <1>8, PaginaExiste
  <2>6. Usados(w)' <= Marcos
    <3>1. Usados(w)' = Cardinality(D) + 1 + (libres[w] - (1 - m)) + 0
      BY <1>6, <2>1, <2>2, <2>3
    <3> HIDE DEF m, D
    <3> QED BY <1>1, <1>3, <1>4, <3>1
  <2> QED BY <1>1, <1>5, <2>1, <2>2, <2>3, <2>4, <2>5, <2>6, CuadrosDe
<1> QED BY <1>7, <1>8 DEF Trae

\* The pages are the same ones.
LEMMA MismasPaginas ==
    ASSUME Cuadros, \A x \in Workers : DOMAIN tabla'[x] = DOMAIN tabla[x], UNCHANGED <<libres, marco>>
    PROVE  Cuadros'
<1>1. \A x \in Workers : Usados(x)' = Usados(x)
  BY DEF Usados
<1> QED BY <1>1 DEF Cuadros

\* The memories after each action.
LEMMA CuadrosPaso ==
    ASSUME TInv, NEW w \in Workers,
           \/ Reemplaza(w) \/ Trae(w) \/ Accede(w) \/ Invalida(w)
           \/ execute_flush(w) \/ enviar_instruccion(w) \/ execute_end(w)
           \/ Ciclo(w) \/ flush_all(w) \/ notificar_resultado_a_master(w)
           \/ \E q \in Queries : Asigna(q, w)
           \/ Desaloja(w)
    PROVE  Cuadros'
<1>0. IInv /\ Cuadros /\ DOMAIN tabla = Workers
  BY DEF TInv, IInv, Tipos
<1>1. CASE Reemplaza(w)
  BY <1>0, <1>1, ReemplazaCuadros
<1>2. CASE Trae(w)
  BY <1>2, TraeCuadros
<1>3. CASE Accede(w) \/ execute_flush(w) \/ flush_all(w)
  <2>1. UNCHANGED <<libres, marco>>
    BY <1>3 DEF Accede, execute_flush, flush_all
  <2>2. UNCHANGED tabla \/ \E p, y : tabla' = [tabla EXCEPT ![w][p] = y]
    BY <1>3 DEF Accede, execute_flush, flush_all, Baja
  <2>3. \A x \in Workers : DOMAIN tabla'[x] = DOMAIN tabla[x]
    BY <1>0, <2>2
  <2> QED BY <1>0, <2>1, <2>3, MismasPaginas
<1>4. ASSUME \/ Invalida(w) \/ enviar_instruccion(w) \/ execute_end(w) \/ Ciclo(w)
             \/ notificar_resultado_a_master(w) \/ (\E q \in Queries : Asigna(q, w)) \/ Desaloja(w)
      PROVE  UNCHANGED memoria
  BY <1>4 DEF Invalida, enviar_instruccion, execute_end, Ciclo, notificar_resultado_a_master, Asigna,
              Desaloja
<1> QED BY <1>0, <1>1, <1>2, <1>3, <1>4, CuadrosQuietos

\* What is owed after each action.
LEMMA DeudasPaso ==
    ASSUME TInv, NEW w \in Workers,
           \/ Reemplaza(w) \/ Trae(w) \/ Accede(w) \/ Invalida(w)
           \/ execute_flush(w) \/ enviar_instruccion(w) \/ execute_end(w)
           \/ Ciclo(w) \/ flush_all(w) \/ notificar_resultado_a_master(w)
           \/ \E q \in Queries : Asigna(q, w)
           \/ Desaloja(w)
    PROVE  Deudas'
<1>1. CASE debe' \subseteq debe
  BY <1>1 DEF TInv, Deudas
<1>2. CASE Accede(w)
  <2>1. debe' = debe \/ debe' = debe \cup {<<query[w], w, Pagina(w)>>}
    BY <1>2 DEF Accede
  <2>2. query[w] \in Queries /\ Pagina(w) \in Paginas
    BY <1>2, ActualTipo DEF TInv, Cuadros, Accede, Ejecuta
  <2> QED BY <2>1, <2>2 DEF TInv, Deudas
<1>3. ASSUME NEW p, Toma(w, p) PROVE debe' \subseteq debe
  BY <1>3 DEF Toma
<1>4. CASE Reemplaza(w) \/ execute_flush(w) \/ flush_all(w)
  <2>1. UNCHANGED debe \/ \E p : Toma(w, p)
    BY <1>4 DEF Reemplaza, execute_flush, flush_all, Baja
  <2> QED BY <1>1, <1>3, <2>1
<1>5. ASSUME \/ Trae(w) \/ Invalida(w) \/ enviar_instruccion(w) \/ execute_end(w) \/ Ciclo(w)
             \/ notificar_resultado_a_master(w) \/ (\E q \in Queries : Asigna(q, w)) \/ Desaloja(w)
      PROVE  UNCHANGED debe
  BY <1>5 DEF Trae, Invalida, enviar_instruccion, execute_end, Ciclo, notificar_resultado_a_master,
              Asigna, Desaloja, historia
<1> QED BY <1>1, <1>2, <1>4, <1>5

LEMMA PasoTipos == TInv /\ [Next]_vars => TInv'
<1> SUFFICES ASSUME TInv, [Next]_vars PROVE TInv'
  OBVIOUS
<1>1. IInv'
  BY PasoInv DEF TInv
<1>2. CASE UNCHANGED vars
  <2>1. Lineas' /\ Deudas'
    BY <1>2 DEF TInv, Lineas, Deudas, Largo, vars, maestro, registros, historia
  <2>2. Bloques' /\ Cuadros'
    BY <1>2, BloquesQuietos, CuadrosQuietos DEF TInv, vars
  <2> QED BY <1>1, <2>1, <2>2 DEF TInv
<1>3. CASE Next
  BY <1>1, <1>3, LineasPaso, BloquesPaso, CuadrosPaso, DeudasPaso DEF TInv, Next
<1> QED BY <1>2, <1>3

\* The PC a query is resumed at is one of its program, whichever Worker reported it; and a
\* Worker never has more pages than frames, although an eviction leaves the frame in its hands
\* between two requests and a page the Storage refuses loses it (memoria_interna.c:299-310).
THEOREM ConsultasTipos == Spec => []TypeOK
<1>1. TInv => TypeOK
  <2> SUFFICES ASSUME TInv PROVE TypeOK
    OBVIOUS
  <2>1. /\ estado \in [Queries -> {"READY", "EXEC", "EXIT"}]
        /\ resultado \in [Queries -> {"OK", "FIN", "ERROR"}]
        /\ query \in [Workers -> Queries \cup {NULL}]
        /\ fase \in [Workers -> {"libre", "ciclo", "ejecuta", "flush", "aviso"}]
    BY DEF TInv, IInv, Tipos
  <2>2. \A q \in Queries : pc[q] \in 0..Largo(q)
    <3> SUFFICES ASSUME NEW q \in Queries PROVE pc[q] \in 0..Largo(q)
      OBVIOUS
    <3>1. pc[q] \in Nat /\ pc[q] <= Largo(q) /\ programa[q] \in Seq(Instruccion)
      BY ConsultasSupuesto DEF TInv, IInv, Tipos, Lineas
    <3>2. Largo(q) \in Nat
      BY <3>1 DEF Largo
    <3> QED BY <3>1, <3>2
  <2>3. ASSUME NEW w \in Workers
        PROVE  /\ fase[w] = "libre" <=> query[w] = NULL
               /\ DOMAIN tabla[w] \subseteq Paginas
               /\ libres[w] \in 0..Marcos
               /\ Cardinality(DOMAIN tabla[w]) + libres[w] + (IF marco[w] THEN 1 ELSE 0) <= Marcos
    <3>1. fase[w] = "libre" <=> query[w] = NULL
      BY ConsultasSupuesto DEF TInv, IInv, Ocupado
    <3>2. /\ DOMAIN tabla[w] \subseteq Paginas /\ IsFiniteSet(DOMAIN tabla[w]) /\ Usados(w) <= Marcos
          /\ libres[w] \in Nat /\ Marcos \in Nat
      BY ConsultasSupuesto DEF TInv, Cuadros
    <3>3. Cardinality(DOMAIN tabla[w]) \in Nat
      BY <3>2, FS_CardinalityType
    <3>4. libres[w] <= Marcos
      BY <3>2, <3>3 DEF Usados
    <3> QED BY <3>1, <3>2, <3>4 DEF Usados
  <2>4. /\ alm.tam \in [Archivos -> -1..MaxBloques] /\ alm.com \subseteq Archivos
        /\ debe \subseteq Queries \X Workers \X Paginas
    BY DEF TInv, Bloques, Deudas
  <2> QED BY <2>1, <2>2, <2>3, <2>4 DEF TypeOK
<1> QED BY InicialTipos, PasoTipos, <1>1, PTL DEF Spec
=============================================================================
