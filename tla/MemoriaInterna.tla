---------------------------- MODULE MemoriaInterna ----------------------------
(***************************************************************************)
(* The internal memory of a Worker (src/worker/src/memoria_interna.c): a   *)
(* page table over a fixed set of frames, filled from the Storage on a     *)
(* page fault, written back on FLUSH, on COMMIT, on eviction and at the    *)
(* end of every query, with LRU or CLOCK-M replacement.                    *)
(*                                                                         *)
(* The interpreter is a single thread that waits for every answer of the   *)
(* Storage, so one turn of the loop of leer_memoria or escribir_memoria is *)
(* one action: an instruction that crosses pages is several of them, and   *)
(* stops at the first that fails.  A page is one value.  The Storage is    *)
(* what a Worker sees of it when nobody else uses its files: the blocks,   *)
(* the size and the COMMIT of each File:Tag.                               *)
(***************************************************************************)
EXTENDS Integers, Sequences, FiniteSets

CONSTANTS
    Archivos,      (* the File:Tags                                        *)
    MaxBloques,    (* bound: blocks of each File:Tag                       *)
    Marcos,        (* bound: cantidad_marcos                               *)
    Valores,       (* contents of a page; 0 is that of a new block         *)
    NULL,          (* no value: the access is a READ                       *)
    MaxReloj,      (* bound: seconds time(NULL) advances                   *)
    Algoritmos,    (* values of ALGORITMO_REEMPLAZO to explore             *)
    PuedeAchicar   (* whether a TRUNCATE may shorten a File:Tag            *)

ASSUME MemoriaSupuesto ==
    /\ MaxBloques \in [Archivos -> Nat \ {0}]
    /\ Marcos \in Nat \ {0} /\ MaxReloj \in Nat
    /\ 0 \in Valores /\ NULL \notin Valores
    /\ Algoritmos \subseteq {"LRU", "CLOCK-M"}
    /\ PuedeAchicar \in BOOLEAN

Paginas == UNION {{<<a, n>> : n \in 0..(MaxBloques[a] - 1)} : a \in Archivos}
NumMarcos == 0..(Marcos - 1)

VARIABLES
    algoritmo,      \* worker_configs->algoritmo_reemplazo
    tabla,          \* tabla->entradas
    puntero_clock,  \* tabla->puntero_clock
    marcos_libres,  \* marcos_libres
    memoria,        \* the contents of each frame
    reloj,          \* time(NULL)
    fuera,          \* a frame outside the memory was written: undefined from here on
    tam,            \* Storage: blocks of each File:Tag
    bloque,         \* Storage: the contents of each block
    commiteado,     \* Storage: the File:Tags in state COMMITED
    ultimo          \* history: the last value given to each page

varsTabla == <<tabla, puntero_clock, marcos_libres, memoria>>
varsStorage == <<tam, bloque, commiteado>>
vars == <<algoritmo, varsTabla, reloj, fuera, varsStorage, ultimo>>

Entrada == [pag : Paginas, marco : NumMarcos \cup {-1}, presente : BOOLEAN,
            modificado : BOOLEAN, uso : BOOLEAN, acceso : 0..MaxReloj]

Init ==
    /\ algoritmo \in Algoritmos
    /\ tabla = << >> /\ puntero_clock = 0
    /\ marcos_libres = NumMarcos
    /\ memoria = [m \in NumMarcos |-> 0]
    /\ reloj = 0 /\ fuera = FALSE
    /\ tam = [a \in Archivos |-> 0]
    /\ bloque = [p \in Paginas |-> 0]
    /\ commiteado = {}
    /\ ultimo = [p \in Paginas |-> 0]

-----------------------------------------------------------------------------
(***************************************************************************)
(* The table.                                                              *)
(***************************************************************************)

Presentes(t) == {i \in DOMAIN t : t[i].presente}
Sucias(t, A) == {i \in Presentes(t) : t[i].modificado /\ t[i].pag[1] \in A}
EntradaDe(t, p) == {i \in DOMAIN t : t[i].pag = p}

\* buscar_pagina marks the entry it finds, if its page is present.
Toca(t, I) ==
    [i \in DOMAIN t |-> IF i \in I \cap Presentes(t)
                        THEN [t[i] EXCEPT !.uso = TRUE, !.acceso = reloj] ELSE t[i]]

\* Mutant: the entry the page already had is not looked for.
Carga_Mut(t, p, m) ==
    Append(t, [pag |-> p, marco |-> m, presente |-> TRUE, modificado |-> FALSE,
               uso |-> TRUE, acceso |-> reloj])

\* agregar_entrada_tabla, or the update of the entry the page had.
Carga(t, p, m) ==
    LET e == [pag |-> p, marco |-> m, presente |-> TRUE, modificado |-> FALSE,
              uso |-> TRUE, acceso |-> reloj]
    IN  IF EntradaDe(t, p) = {} THEN Append(t, e)
        ELSE [i \in DOMAIN t |-> IF i \in EntradaDe(t, p) THEN e ELSE t[i]]

\* The victim loses its frame and keeps its entry.
SinMarco(t, v) == [t EXCEPT ![v] = [@ EXCEPT !.presente = FALSE, !.modificado = FALSE,
                                             !.uso = FALSE, !.marco = -1]]

-----------------------------------------------------------------------------
(***************************************************************************)
(* Replacement: the victim, if any, and the table its search leaves.       *)
(***************************************************************************)

\* The oldest access, in seconds; the first of the table among equals.
encontrar_victima_lru(t) ==
    {[v |-> i, t |-> t] : i \in
       {i \in Presentes(t) : \A j \in Presentes(t) :
            t[i].acceso < t[j].acceso \/ (t[i].acceso = t[j].acceso /\ i <= j)}}

\* How far index i is from the hand of the clock.
Vuelta(t, i) == (i - 1 + Len(t) - puntero_clock) % Len(t)
PrimeroDesde(t, S) == {i \in S : \A j \in S : Vuelta(t, i) <= Vuelta(t, j)}
SinUso(t, S) == [i \in DOMAIN t |-> IF i \in S THEN [t[i] EXCEPT !.uso = FALSE] ELSE t[i]]

\* Mutant: the last two passes take the first page, modified or not.
SegundaVuelta_Mut(t) ==
    {[v |-> i, t |-> SinUso(t, Presentes(t))] : i \in PrimeroDesde(t, Presentes(t))}

\* Passes 3 and 4, once every use bit has been cleared.
SegundaVuelta(t) ==
    LET P == Presentes(t)
        Limpias == {i \in P : ~t[i].modificado}
    IN  {[v |-> i, t |-> SinUso(t, P)] : i \in PrimeroDesde(t, IF Limpias # {} THEN Limpias ELSE P)}

\* The four passes; the second clears the use bits it goes by.
encontrar_victima_clock_m(t) ==
    LET P == Presentes(t)
        Libres(m) == {i \in P : ~t[i].uso /\ t[i].modificado = m}
        Antes(v) == {i \in P : Vuelta(t, i) < Vuelta(t, v)}
    IN  IF Libres(FALSE) # {} THEN {[v |-> i, t |-> t] : i \in PrimeroDesde(t, Libres(FALSE))}
        ELSE IF Libres(TRUE) # {}
        THEN {[v |-> i, t |-> SinUso(t, Antes(i))] : i \in PrimeroDesde(t, Libres(TRUE))}
        ELSE SegundaVuelta(t)

Victima == IF algoritmo = "LRU" THEN encontrar_victima_lru(tabla)
           ELSE encontrar_victima_clock_m(tabla)

-----------------------------------------------------------------------------
(***************************************************************************)
(* Access to a page.                                                       *)
(***************************************************************************)

Existe(p) == p[2] < tam[p[1]]
AceptaEscribir(p) == Existe(p) /\ p[1] \notin commiteado

\* The copy from or to the frame: v is NULL for a READ.
Usa(t, p, m, contenido, v) ==
    /\ tabla' = [i \in DOMAIN t |-> IF i \in EntradaDe(t, p)
                    THEN [t[i] EXCEPT !.modificado = @ \/ v # NULL] ELSE t[i]]
    /\ memoria' = [memoria EXCEPT ![m] = IF v = NULL THEN contenido ELSE v]
    /\ ultimo' = IF v = NULL THEN ultimo ELSE [ultimo EXCEPT ![p] = v]

\* The page is in memory.
Acierto(p, v) ==
    /\ \E i \in EntradaDe(tabla, p) \cap Presentes(tabla) :
          Usa(Toca(tabla, {i}), p, tabla[i].marco, memoria[tabla[i].marco], v)
    /\ UNCHANGED <<algoritmo, puntero_clock, marcos_libres, reloj, fuera, varsStorage>>

\* The block is requested into frame m: if the Storage refuses, nothing else is done.
Trae(t, p, m, v) ==
    IF Existe(p)
    THEN /\ Usa(Carga(t, p, m), p, m, bloque[p], v)
         /\ marcos_libres' = marcos_libres \ {m}
    ELSE /\ tabla' = t
         /\ UNCHANGED <<marcos_libres, memoria, ultimo>>

Ausente(p) == EntradaDe(tabla, p) \cap Presentes(tabla) = {}

\* buscar_marco_libre: the lowest free frame.
FalloConMarcoLibre(p, v) ==
    /\ Ausente(p)
    /\ \E m \in marcos_libres :
          /\ \A n \in marcos_libres : m <= n
          /\ Trae(tabla, p, m, v)
    /\ UNCHANGED <<algoritmo, puntero_clock, reloj, fuera, varsStorage>>

\* Mutant: a page that was only written to the memory is not flushed.
HayQueBajar_Mut(e) == e.modificado /\ ~e.uso

HayQueBajar(e) == e.modificado

\* Mutant: the hand is not wrapped.
Siguiente_Mut(v) == v

\* The hand of CLOCK-M goes past the victim; LRU has none.
Siguiente(v) == IF algoritmo = "LRU" THEN puntero_clock ELSE v % Len(tabla)

\* ejecutar_algoritmo_reemplazo: a modified victim goes to the Storage first, and stays
\* where it is when the Storage refuses it.
FalloConReemplazo(p, v) ==
    /\ Ausente(p) /\ marcos_libres = {}
    /\ \E x \in Victima :
          LET e == x.t[x.v] IN
          /\ puntero_clock' = Siguiente(x.v)
          /\ IF HayQueBajar(e) /\ ~AceptaEscribir(e.pag)
             THEN /\ tabla' = Toca(x.t, {x.v})
                  /\ UNCHANGED <<marcos_libres, memoria, bloque, ultimo>>
             ELSE /\ bloque' = IF HayQueBajar(e)
                               THEN [bloque EXCEPT ![e.pag] = memoria[e.marco]] ELSE bloque
                  /\ Trae(SinMarco(x.t, x.v), p, e.marco, v)
    /\ UNCHANGED <<algoritmo, reloj, fuera, tam, commiteado>>

\* No page is present: LRU fails, and CLOCK-M returns an entry without a frame, whose
\* marco, -1, is written if the block comes.
FalloSinVictima(p) ==
    /\ Ausente(p) /\ marcos_libres = {} /\ Victima = {}
    /\ fuera' = (algoritmo = "CLOCK-M" /\ Existe(p))
    /\ UNCHANGED <<algoritmo, varsTabla, reloj, varsStorage, ultimo>>

leer_memoria(p) == \/ Acierto(p, NULL) \/ FalloConMarcoLibre(p, NULL)
                   \/ FalloConReemplazo(p, NULL) \/ FalloSinVictima(p)
escribir_memoria(p, v) == \/ Acierto(p, v) \/ FalloConMarcoLibre(p, v)
                          \/ FalloConReemplazo(p, v) \/ FalloSinVictima(p)

-----------------------------------------------------------------------------
(***************************************************************************)
(* FLUSH, COMMIT, the end of a query, TRUNCATE.                            *)
(***************************************************************************)

\* The entries flush_pagina is called for, in table order up to the first refused.
Rechazadas(A) == {i \in Sucias(tabla, A) : ~AceptaEscribir(tabla[i].pag)}
Intentadas(A) == {i \in Sucias(tabla, A) : \A j \in Rechazadas(A) : i <= j}

\* flush_file_tag for one File:Tag, flush_all for all of them.
Baja(A) ==
    LET hechas == Intentadas(A) \ Rechazadas(A)
        t == Toca(tabla, Intentadas(A))
    IN  /\ tabla' = [i \in DOMAIN t |-> IF i \in hechas THEN [t[i] EXCEPT !.modificado = FALSE]
                                        ELSE t[i]]
        /\ bloque' = [p \in Paginas |-> IF \E i \in hechas : tabla[i].pag = p
                        THEN memoria[(CHOOSE e \in {tabla[i] : i \in hechas} : e.pag = p).marco]
                        ELSE bloque[p]]

execute_flush(a) ==
    /\ Baja({a})
    /\ UNCHANGED <<algoritmo, puntero_clock, marcos_libres, memoria, reloj, fuera, tam,
                   commiteado, ultimo>>

flush_all ==
    /\ Baja(Archivos)
    /\ UNCHANGED <<algoritmo, puntero_clock, marcos_libres, memoria, reloj, fuera, tam,
                   commiteado, ultimo>>

\* Mutant: COMMIT without the implicit flush.
FlushImplicito_Mut(a) == UNCHANGED <<tabla, bloque>>

FlushImplicito(a) == Baja({a})

\* The result of the flush is not looked at.
execute_commit(a) ==
    /\ FlushImplicito(a)
    /\ commiteado' = commiteado \cup {a}
    /\ UNCHANGED <<algoritmo, puntero_clock, marcos_libres, memoria, reloj, fuera, tam, ultimo>>

\* The Storage changes the size; the pages the Worker has stay as they are.
execute_truncate(a, n) ==
    /\ a \notin commiteado
    /\ n > tam[a] \/ (PuedeAchicar /\ n < tam[a])
    /\ tam' = [tam EXCEPT ![a] = n]
    /\ LET nuevas == {p \in Paginas : p[1] = a /\ p[2] \in tam[a]..(n - 1)} IN
          /\ bloque' = [p \in Paginas |-> IF p \in nuevas THEN 0 ELSE bloque[p]]
          /\ ultimo' = [p \in Paginas |-> IF p \in nuevas THEN 0 ELSE ultimo[p]]
    /\ UNCHANGED <<algoritmo, varsTabla, reloj, fuera, commiteado>>

Segundo ==
    /\ reloj < MaxReloj /\ reloj' = reloj + 1
    /\ UNCHANGED <<algoritmo, varsTabla, fuera, varsStorage, ultimo>>

Next ==
    /\ ~fuera
    /\ \/ \E p \in Paginas : leer_memoria(p) \/ \E v \in Valores : escribir_memoria(p, v)
       \/ \E a \in Archivos : \/ execute_flush(a) \/ execute_commit(a)
                              \/ \E n \in 0..MaxBloques[a] : execute_truncate(a, n)
       \/ flush_all \/ Segundo

Spec == Init /\ [][Next]_vars

-----------------------------------------------------------------------------
(***************************************************************************)
(* Properties.                                                             *)
(***************************************************************************)

\* The variables hold values of their types.
TypeOK ==
    /\ algoritmo \in Algoritmos
    /\ tabla \in Seq(Entrada)
    /\ puntero_clock \in Nat /\ (puntero_clock = 0 \/ puntero_clock < Len(tabla))
    /\ marcos_libres \subseteq NumMarcos
    /\ memoria \in [NumMarcos -> Valores]
    /\ reloj \in 0..MaxReloj /\ fuera \in BOOLEAN
    /\ tam \in [Archivos -> Nat] /\ bloque \in [Paginas -> Valores]
    /\ commiteado \subseteq Archivos /\ ultimo \in [Paginas -> Valores]

\* No two present pages share a frame, a free frame is nobody's, and a page has one entry,
\* however pages come, go and fail to come.
MarcosExclusivos ==
    /\ \A i, j \in Presentes(tabla) : tabla[i].marco = tabla[j].marco => i = j
    /\ \A i \in Presentes(tabla) : tabla[i].marco \in NumMarcos \ marcos_libres
    /\ \A i, j \in DOMAIN tabla : tabla[i].pag = tabla[j].pag => i = j

\* A page always shows the last value written to it, in memory or, once evicted, in the
\* Storage; and a present page that is not modified is equal to its block.
SinEscriturasPerdidas ==
    /\ \A p \in Paginas : Ausente(p) => bloque[p] = ultimo[p]
    /\ \A i \in Presentes(tabla) :
          /\ memoria[tabla[i].marco] = ultimo[tabla[i].pag]
          /\ ~tabla[i].modificado => bloque[tabla[i].pag] = ultimo[tabla[i].pag]

\* (0,0) is 0, (0,1) is 1, (1,0) is 2, (1,1) is 3.
Clase(e) == (IF e.uso THEN 2 ELSE 0) + (IF e.modificado THEN 1 ELSE 0)

\* Both searches find a victim whenever some page is present; CLOCK-M's is the first from
\* the hand of the best class (U,M) there is: (0,0), (0,1), (1,0), (1,1).
VictimaDeLaMejorClase ==
    LET P == Presentes(tabla)
        Mejores == {i \in P : \A j \in P : Clase(tabla[i]) <= Clase(tabla[j])}
    IN  P # {} => /\ Cardinality(encontrar_victima_lru(tabla)) = 1
                  /\ {x.v : x \in encontrar_victima_clock_m(tabla)} = PrimeroDesde(tabla, Mejores)

\* "FLUSH implicito antes de COMMIT" (query_interpreter.c:247): after a COMMIT everything
\* written to the File:Tag is in the Storage.
CommitPersisteTodo ==
    [][\A a \in commiteado' \ commiteado : \A p \in Paginas :
          p[1] = a /\ Existe(p) => bloque'[p] = ultimo[p]]_vars
=============================================================================
