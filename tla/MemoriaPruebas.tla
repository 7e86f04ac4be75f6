--------------------------- MODULE MemoriaPruebas ---------------------------
(***************************************************************************)
(* Proofs about MemoriaInterna, for any number of File:Tags, pages and     *)
(* frames and both algorithms: frames are never shared, the victim is of   *)
(* the best class there is, and, while no File:Tag is shortened, nothing   *)
(* written is lost and a COMMIT leaves it all in the Storage.              *)
(***************************************************************************)
EXTENDS MemoriaInterna, SecuenciasPruebas

-----------------------------------------------------------------------------
(***************************************************************************)
(* Entries and tables.                                                     *)
(***************************************************************************)

\* A function over the indices of a sequence is a sequence.
LEMMA SobreIndices ==
    ASSUME NEW S, NEW s \in Seq(S), NEW T, NEW f \in [DOMAIN s -> T]
    PROVE  f \in Seq(T) /\ DOMAIN f = DOMAIN s /\ Len(f) = Len(s)
<1>1. DOMAIN s = 1..Len(s) /\ Len(s) \in Nat
  BY LenProperties
<1>2. f \in Seq(T)
  BY <1>1, SeqDef
<1> QED BY <1>1, <1>2, LenProperties

\* What the code writes in an entry leaves an entry.
LEMMA EntradaTocada ==
    ASSUME NEW e \in Entrada, NEW r \in 0..MaxReloj, NEW f, f = [e EXCEPT !.uso = TRUE, !.acceso = r]
    PROVE  f \in Entrada /\ f.pag = e.pag /\ f.marco = e.marco /\ f.presente = e.presente
           /\ f.modificado = e.modificado
BY DEF Entrada

LEMMA EntradaSinUso ==
    ASSUME NEW e \in Entrada, NEW f, f = [e EXCEPT !.uso = FALSE]
    PROVE  f \in Entrada /\ f.pag = e.pag /\ f.marco = e.marco /\ f.presente = e.presente
           /\ f.modificado = e.modificado
BY DEF Entrada

LEMMA EntradaModificada ==
    ASSUME NEW e \in Entrada, NEW b \in BOOLEAN, NEW f, f = [e EXCEPT !.modificado = b]
    PROVE  f \in Entrada /\ f.pag = e.pag /\ f.marco = e.marco /\ f.presente = e.presente
           /\ f.modificado = b
BY DEF Entrada

LEMMA EntradaSinMarco ==
    ASSUME NEW e \in Entrada,
           NEW f, f = [e EXCEPT !.presente = FALSE, !.modificado = FALSE, !.uso = FALSE, !.marco = -1]
    PROVE  f \in Entrada /\ f.pag = e.pag /\ ~f.presente
BY DEF Entrada

\* The two tables have the same pages in the same frames.
MismasPaginas(t, u) ==
    /\ DOMAIN u = DOMAIN t
    /\ \A i \in DOMAIN t : /\ u[i].pag = t[i].pag /\ u[i].marco = t[i].marco
                           /\ u[i].presente = t[i].presente

\* And the same of them are modified.
MismaTabla(t, u) == MismasPaginas(t, u) /\ \A i \in DOMAIN t : u[i].modificado = t[i].modificado

\* A table keeps its indices.
LEMMA TablaTipo ==
    ASSUME NEW t \in Seq(Entrada)
    PROVE  /\ DOMAIN t = 1..Len(t) /\ Len(t) \in Nat
           /\ \A i \in DOMAIN t : t[i] \in Entrada /\ i \in Nat
           /\ Presentes(t) \subseteq DOMAIN t /\ MismaTabla(t, t)
<1>1. DOMAIN t = 1..Len(t) /\ Len(t) \in Nat
  BY LenProperties
<1>2. \A i \in DOMAIN t : t[i] \in Entrada
  BY <1>1, ElementOfSeq
<1> QED BY <1>1, <1>2 DEF Presentes, MismaTabla, MismasPaginas

\* buscar_pagina changes no more than the use of an entry.
LEMMA TocaTabla ==
    ASSUME NEW t \in Seq(Entrada), reloj \in 0..MaxReloj, NEW I
    PROVE  Toca(t, I) \in Seq(Entrada) /\ Len(Toca(t, I)) = Len(t) /\ MismaTabla(t, Toca(t, I))
<1> DEFINE f == [i \in DOMAIN t |-> IF i \in I \cap Presentes(t)
                        THEN [t[i] EXCEPT !.uso = TRUE, !.acceso = reloj] ELSE t[i]]
<1>3. \A i \in DOMAIN t : f[i] = t[i] \/ f[i] = [t[i] EXCEPT !.uso = TRUE, !.acceso = reloj]
  OBVIOUS
<1>0. DOMAIN f = DOMAIN t /\ f = [i \in DOMAIN t |-> f[i]]
  OBVIOUS
<1> HIDE DEF f
<1>1. \A i \in DOMAIN t : f[i] \in Entrada /\ f[i].pag = t[i].pag /\ f[i].marco = t[i].marco
         /\ f[i].presente = t[i].presente /\ f[i].modificado = t[i].modificado
  <2> SUFFICES ASSUME NEW i \in DOMAIN t
               PROVE  f[i] \in Entrada /\ f[i].pag = t[i].pag /\ f[i].marco = t[i].marco
                      /\ f[i].presente = t[i].presente /\ f[i].modificado = t[i].modificado
    OBVIOUS
  <2>1. t[i] \in Entrada
    BY TablaTipo
  <2>2. CASE f[i] = t[i]
    BY <2>1, <2>2
  <2>3. CASE f[i] = [t[i] EXCEPT !.uso = TRUE, !.acceso = reloj]
    BY <2>1, <2>3 DEF Entrada
  <2> QED BY <1>3, <2>2, <2>3
<1>2. f \in [DOMAIN t -> Entrada]
  BY <1>0, <1>1
<1>4. f \in Seq(Entrada) /\ DOMAIN f = DOMAIN t /\ Len(f) = Len(t)
  BY <1>2, SobreIndices
<1>5. MismaTabla(t, f)
  BY <1>1, <1>4 DEF MismaTabla, MismasPaginas
<1> QED BY <1>4, <1>5 DEF Toca, f

\* So do the passes of CLOCK-M.
LEMMA SinUsoTabla ==
    ASSUME NEW t \in Seq(Entrada), NEW I
    PROVE  SinUso(t, I) \in Seq(Entrada) /\ Len(SinUso(t, I)) = Len(t) /\ MismaTabla(t, SinUso(t, I))
<1> DEFINE f == [i \in DOMAIN t |-> IF i \in I THEN [t[i] EXCEPT !.uso = FALSE] ELSE t[i]]
<1>3. \A i \in DOMAIN t : f[i] = t[i] \/ f[i] = [t[i] EXCEPT !.uso = FALSE]
  OBVIOUS
<1>0. DOMAIN f = DOMAIN t /\ f = [i \in DOMAIN t |-> f[i]]
  OBVIOUS
<1> HIDE DEF f
<1>1. \A i \in DOMAIN t : f[i] \in Entrada /\ f[i].pag = t[i].pag /\ f[i].marco = t[i].marco
         /\ f[i].presente = t[i].presente /\ f[i].modificado = t[i].modificado
  BY <1>3, TablaTipo, EntradaSinUso
<1>2. f \in [DOMAIN t -> Entrada]
  BY <1>0, <1>1
<1>4. f \in Seq(Entrada) /\ DOMAIN f = DOMAIN t /\ Len(f) = Len(t)
  BY <1>2, SobreIndices
<1>5. MismaTabla(t, f)
  BY <1>1, <1>4 DEF MismaTabla, MismasPaginas
<1> QED BY <1>4, <1>5 DEF SinUso, f

\* The victim is a present page of the table its search leaves.
LEMMA VictimaPresente ==
    ASSUME tabla \in Seq(Entrada), NEW x \in Victima
    PROVE  /\ x.v \in Presentes(tabla) /\ x.t \in Seq(Entrada) /\ Len(x.t) = Len(tabla)
           /\ MismaTabla(tabla, x.t)
<1>0. \A I : \A i \in PrimeroDesde(tabla, I) : i \in I
  BY DEF PrimeroDesde
<1>1. CASE algoritmo = "LRU"
  <2>1. PICK i \in Presentes(tabla) : x = [v |-> i, t |-> tabla]
    BY <1>1 DEF Victima, encontrar_victima_lru
  <2> QED BY <2>1, TablaTipo
<1>2. CASE algoritmo # "LRU"
  <2>1. \E i \in Presentes(tabla), u \in {tabla} \cup {SinUso(tabla, I) : I \in SUBSET Presentes(tabla)} :
           x = [v |-> i, t |-> u]
    BY <1>0, <1>2 DEF Victima, encontrar_victima_clock_m, SegundaVuelta
  <2>2. PICK i \in Presentes(tabla), u \in {tabla} \cup {SinUso(tabla, I) : I \in SUBSET Presentes(tabla)} :
           x = [v |-> i, t |-> u]
    BY <2>1
  <2>3. u \in Seq(Entrada) /\ Len(u) = Len(tabla) /\ MismaTabla(tabla, u)
    BY <2>2, TablaTipo, SinUsoTabla
  <2> QED BY <2>2, <2>3
<1> QED BY <1>1, <1>2

\* The victim loses its frame.
LEMMA SinMarcoTabla ==
    ASSUME NEW t \in Seq(Entrada), NEW v \in DOMAIN t
    PROVE  /\ SinMarco(t, v) \in Seq(Entrada) /\ Len(SinMarco(t, v)) = Len(t)
           /\ DOMAIN SinMarco(t, v) = DOMAIN t
           /\ SinMarco(t, v)[v].pag = t[v].pag /\ ~SinMarco(t, v)[v].presente
           /\ \A i \in DOMAIN t \ {v} : SinMarco(t, v)[i] = t[i]
<1> DEFINE e == [t[v] EXCEPT !.presente = FALSE, !.modificado = FALSE, !.uso = FALSE, !.marco = -1]
           u == [t EXCEPT ![v] = e]
<1>1. e \in Entrada /\ e.pag = t[v].pag /\ ~e.presente
  <2>1. t[v] \in Entrada
    BY TablaTipo
  <2> QED BY <2>1, EntradaSinMarco
<1>2. SinMarco(t, v) = u
  BY DEF SinMarco
<1> HIDE DEF e
<1>3. u \in [DOMAIN t -> Entrada] /\ u[v] = e /\ \A i \in DOMAIN t \ {v} : u[i] = t[i]
  BY <1>1, TablaTipo
<1> HIDE DEF u
<1> QED BY <1>1, <1>2, <1>3, SobreIndices

\* The table as the copy from or to the frame of p leaves it.
Marcada(t, p, v) ==
    [i \in DOMAIN t |-> IF i \in EntradaDe(t, p)
                        THEN [t[i] EXCEPT !.modificado = @ \/ v # NULL] ELSE t[i]]

LEMMA MarcadaTabla ==
    ASSUME NEW t \in Seq(Entrada), NEW p, NEW v
    PROVE  /\ Marcada(t, p, v) \in Seq(Entrada) /\ Len(Marcada(t, p, v)) = Len(t)
           /\ MismasPaginas(t, Marcada(t, p, v))
           /\ \A i \in DOMAIN t : IF i \in EntradaDe(t, p)
                 THEN Marcada(t, p, v)[i].modificado <=> t[i].modificado \/ v # NULL
                 ELSE Marcada(t, p, v)[i] = t[i]
<1> DEFINE f == Marcada(t, p, v)
<1>1. DOMAIN f = DOMAIN t /\ f = [i \in DOMAIN t |-> f[i]]
  BY DEF Marcada
<1>2. \A i \in EntradaDe(t, p) : f[i] = [t[i] EXCEPT !.modificado = t[i].modificado \/ v # NULL]
  BY DEF Marcada, EntradaDe
<1>3. \A i \in DOMAIN t \ EntradaDe(t, p) : f[i] = t[i]
  BY DEF Marcada
<1> HIDE DEF f
<1>4. \A i \in DOMAIN t : t[i] \in Entrada
  BY TablaTipo
<1>5. ASSUME NEW i \in EntradaDe(t, p)
      PROVE  /\ f[i] \in Entrada /\ f[i].pag = t[i].pag /\ f[i].marco = t[i].marco
             /\ f[i].presente = t[i].presente /\ (f[i].modificado <=> t[i].modificado \/ v # NULL)
  <2>1. PICK b \in BOOLEAN : b = (t[i].modificado \/ v # NULL)
    OBVIOUS
  <2>2. t[i] \in Entrada /\ f[i] = [t[i] EXCEPT !.modificado = b]
    BY <1>2, <1>4, <2>1 DEF EntradaDe
  <2> QED BY <2>1, <2>2, EntradaModificada
<1>6. f \in [DOMAIN t -> Entrada]
  BY <1>1, <1>3, <1>4, <1>5
<1>7. f \in Seq(Entrada) /\ Len(f) = Len(t)
  BY <1>6, SobreIndices
<1>8. MismasPaginas(t, f)
  BY <1>1, <1>3, <1>5 DEF MismasPaginas
<1> QED BY <1>3, <1>5, <1>7, <1>8 DEF f

\* The table u is t with the page p in the frame m: every other entry stays, and the one
\* of p, k, is the one it had, if it had one.
Agregada(t, p, m, u, k) ==
    /\ DOMAIN u = DOMAIN t \cup {k}
    /\ EntradaDe(t, p) \subseteq {k} /\ (k \in DOMAIN t => k \in EntradaDe(t, p))
    /\ u[k].pag = p /\ u[k].marco = m /\ u[k].presente /\ ~u[k].modificado
    /\ \A i \in DOMAIN t \ {k} : u[i] = t[i]

SinPaginasRepetidas(t) == \A i, j \in DOMAIN t : t[i].pag = t[j].pag => i = j

LEMMA CargaTabla ==
    ASSUME NEW t \in Seq(Entrada), NEW p \in Paginas, NEW m \in NumMarcos, reloj \in 0..MaxReloj,
           SinPaginasRepetidas(t)
    PROVE  /\ Carga(t, p, m) \in Seq(Entrada) /\ Len(Carga(t, p, m)) >= Len(t)
           /\ \E k : Agregada(t, p, m, Carga(t, p, m), k)
<1>1. PICK e : e = [pag |-> p, marco |-> m, presente |-> TRUE, modificado |-> FALSE,
                    uso |-> TRUE, acceso |-> reloj]
  OBVIOUS
<1>2. e \in Entrada /\ e.pag = p /\ e.marco = m /\ e.presente /\ ~e.modificado
  BY <1>1 DEF Entrada
<1>0. DOMAIN t = 1..Len(t) /\ Len(t) \in Nat
  BY TablaTipo
<1> DEFINE u == Carga(t, p, m)
<1>3. CASE EntradaDe(t, p) = {}
  <2>1. u = Append(t, e)
    BY <1>1, <1>3 DEF Carga
  <2>2. /\ u \in Seq(Entrada) /\ Len(u) = Len(t) + 1 /\ u[Len(t) + 1] = e
        /\ \A i \in 1..Len(t) : u[i] = t[i]
    BY <1>2, <2>1, AppendProperties
  <2>3. DOMAIN u = 1..(Len(t) + 1)
    BY <2>2, LenProperties
  <2> HIDE DEF u
  <2>4. DOMAIN u = DOMAIN t \cup {Len(t) + 1} /\ Len(t) + 1 \notin DOMAIN t /\ Len(u) >= Len(t)
    BY <1>0, <2>2, <2>3
  <2>5. Agregada(t, p, m, u, Len(t) + 1)
    BY <1>0, <1>2, <1>3, <2>2, <2>4 DEF Agregada
  <2> QED BY <2>2, <2>4, <2>5 DEF u
<1>4. CASE EntradaDe(t, p) # {}
  <2>1. PICK k \in DOMAIN t : EntradaDe(t, p) = {k}
    BY <1>4 DEF EntradaDe, SinPaginasRepetidas
  <2>2. u = [i \in DOMAIN t |-> IF i = k THEN e ELSE t[i]]
    BY <1>1, <1>4, <2>1 DEF Carga
  <2>3. u \in [DOMAIN t -> Entrada] /\ u[k] = e /\ \A i \in DOMAIN t \ {k} : u[i] = t[i]
    BY <1>2, <2>1, <2>2, TablaTipo
  <2> HIDE DEF u
  <2>4. u \in Seq(Entrada) /\ DOMAIN u = DOMAIN t /\ Len(u) = Len(t)
    BY <2>3, SobreIndices
  <2>5. DOMAIN u = DOMAIN t \cup {k} /\ Len(u) >= Len(t)
    BY <1>0, <2>1, <2>4
  <2>6. Agregada(t, p, m, u, k)
    BY <1>2, <2>1, <2>3, <2>4, <2>5 DEF Agregada
  <2> QED BY <2>4, <2>5, <2>6 DEF u
<1> QED BY <1>3, <1>4

-----------------------------------------------------------------------------
(***************************************************************************)
(* Frames that are not shared, for any table and any set of free frames,   *)
(* and tables that are faithful to the last value given to each page.      *)
(***************************************************************************)

Exclusivos(t, libres) ==
    /\ \A i, j \in Presentes(t) : t[i].marco = t[j].marco => i = j
    /\ \A i \in Presentes(t) : t[i].marco \in NumMarcos \ libres
    /\ SinPaginasRepetidas(t)

\* What SinEscriturasPerdidas says of the present page i.
EntradaFiel(e, mem, blo, ult) ==
    mem[e.marco] = ult[e.pag] /\ (~e.modificado => blo[e.pag] = ult[e.pag])

Fiel(t, mem, blo, ult) ==
    /\ \A p \in Paginas : EntradaDe(t, p) \cap Presentes(t) = {} => blo[p] = ult[p]
    /\ \A i \in Presentes(t) : EntradaFiel(t[i], mem, blo, ult)

Existentes(t) == \A i \in Presentes(t) : Existe(t[i].pag)

\* The present pages exist in the Storage.
PresentesExisten == Existentes(tabla)

LEMMA FielEs == SinEscriturasPerdidas <=> Fiel(tabla, memoria, bloque, ultimo)
BY DEF SinEscriturasPerdidas, Fiel, EntradaFiel, Ausente

\* All of it goes by the pages, the frames and the modified bits.
LEMMA MismasTodo ==
    ASSUME NEW t, NEW u, MismasPaginas(t, u)
    PROVE  /\ Presentes(u) = Presentes(t)
           /\ \A p : EntradaDe(u, p) = EntradaDe(t, p)
           /\ \A L : Exclusivos(t, L) => Exclusivos(u, L)
           /\ Existentes(t) => Existentes(u)
<1>1. Presentes(u) = Presentes(t) /\ \A p : EntradaDe(u, p) = EntradaDe(t, p)
  BY DEF MismasPaginas, Presentes, EntradaDe
<1>2. DOMAIN u = DOMAIN t /\ Presentes(t) \subseteq DOMAIN t
      /\ \A i \in DOMAIN t : u[i].pag = t[i].pag /\ u[i].marco = t[i].marco
  BY DEF MismasPaginas, Presentes
<1>3. \A L : Exclusivos(t, L) => Exclusivos(u, L)
  BY <1>1, <1>2 DEF Exclusivos, SinPaginasRepetidas
<1>4. Existentes(t) => Existentes(u)
  BY <1>1, <1>2 DEF Existentes
<1> QED BY <1>1, <1>3, <1>4

LEMMA MismaFiel ==
    ASSUME NEW t, NEW u, MismaTabla(t, u), NEW mem, NEW blo, NEW ult, Fiel(t, mem, blo, ult)
    PROVE  Fiel(u, mem, blo, ult)
<1>1. Presentes(u) = Presentes(t) /\ \A p : EntradaDe(u, p) = EntradaDe(t, p)
  BY MismasTodo DEF MismaTabla
<1>2. \A i \in Presentes(t) : /\ u[i].pag = t[i].pag /\ u[i].marco = t[i].marco
                              /\ (u[i].modificado <=> t[i].modificado)
  BY DEF MismaTabla, MismasPaginas, Presentes
<1>3. \A i \in Presentes(t) : EntradaFiel(u[i], mem, blo, ult)
  BY <1>2 DEF Fiel, EntradaFiel
<1> QED BY <1>1, <1>3 DEF Fiel

-----------------------------------------------------------------------------
(***************************************************************************)
(* The access to a present page: k is its entry, m its frame.              *)
(***************************************************************************)

LEMMA UsaTipo ==
    ASSUME NEW t \in Seq(Entrada), NEW p \in Paginas, NEW m \in NumMarcos, NEW c \in Valores,
           NEW v \in Valores \cup {NULL}, Usa(t, p, m, c, v),
           memoria \in [NumMarcos -> Valores], ultimo \in [Paginas -> Valores]
    PROVE  /\ tabla' \in Seq(Entrada) /\ Len(tabla') = Len(t) /\ MismasPaginas(t, tabla')
           /\ memoria' \in [NumMarcos -> Valores] /\ ultimo' \in [Paginas -> Valores]
<1>1. tabla' = Marcada(t, p, v)
  BY DEF Usa, Marcada
<1>2. memoria' \in [NumMarcos -> Valores] /\ ultimo' \in [Paginas -> Valores]
  BY DEF Usa
<1> QED BY <1>1, <1>2, MarcadaTabla

\* Every other page stays as it was; this one is left faithful.
LEMMA UsaFiel ==
    ASSUME NEW t \in Seq(Entrada), NEW p \in Paginas, NEW c \in Valores,
           NEW v \in Valores \cup {NULL}, NEW k \in Presentes(t), t[k].pag = p,
           Usa(t, p, t[k].marco, c, v), NEW L, Exclusivos(t, L), NEW b,
           memoria \in [NumMarcos -> Valores], ultimo \in [Paginas -> Valores],
           \A q \in Paginas : EntradaDe(t, q) \cap Presentes(t) = {} => b[q] = ultimo[q],
           \A i \in Presentes(t) \ {k} : EntradaFiel(t[i], memoria, b, ultimo),
           c = ultimo[p], ~t[k].modificado => b[p] = ultimo[p]
    PROVE  Fiel(tabla', memoria', b, ultimo')
<1>1. tabla' = Marcada(t, p, v)
  BY DEF Usa, Marcada
<1>2. /\ MismasPaginas(t, tabla') /\ Presentes(tabla') = Presentes(t)
      /\ \A q : EntradaDe(tabla', q) = EntradaDe(t, q)
  BY <1>1, MarcadaTabla, MismasTodo
<1>3. k \in DOMAIN t /\ Presentes(t) \subseteq DOMAIN t /\ k \in EntradaDe(t, p)
  BY DEF Presentes, EntradaDe
<1>4. \A i \in Presentes(t) \ {k} : t[i].pag # p /\ t[i].marco # t[k].marco
  BY <1>3 DEF Exclusivos, SinPaginasRepetidas
<1>5. \A i \in Presentes(t) : t[i].marco \in NumMarcos
  BY DEF Exclusivos
<1>6. \A i \in Presentes(t) \ {k} : tabla'[i] = t[i]
  <2>1. \A i \in Presentes(t) \ {k} : i \notin EntradaDe(t, p) /\ i \in DOMAIN t
    BY <1>3, <1>4 DEF EntradaDe
  <2> QED BY <1>1, <2>1, MarcadaTabla
<1>7. /\ tabla'[k].pag = p /\ tabla'[k].marco = t[k].marco
      /\ (tabla'[k].modificado <=> t[k].modificado \/ v # NULL)
  BY <1>1, <1>2, <1>3, MarcadaTabla DEF MismasPaginas
<1>8. /\ memoria'[t[k].marco] = IF v = NULL THEN c ELSE v
      /\ \A i \in Presentes(t) \ {k} : memoria'[t[i].marco] = memoria[t[i].marco]
  BY <1>4, <1>5 DEF Usa
<1>9. /\ ultimo'[p] = IF v = NULL THEN ultimo[p] ELSE v
      /\ \A q \in Paginas \ {p} : ultimo'[q] = ultimo[q]
  BY DEF Usa
<1>10. \A i \in Presentes(t) : t[i].pag \in Paginas
  BY <1>3, TablaTipo DEF Entrada
<1>11. EntradaFiel(tabla'[k], memoria', b, ultimo')
  BY <1>7, <1>8, <1>9 DEF EntradaFiel
<1>12. \A i \in Presentes(t) \ {k} : EntradaFiel(tabla'[i], memoria', b, ultimo')
  BY <1>4, <1>6, <1>8, <1>9, <1>10 DEF EntradaFiel
<1>13. \A q \in Paginas : EntradaDe(t, q) \cap Presentes(t) = {} => b[q] = ultimo'[q]
  BY <1>3, <1>9
<1> QED BY <1>2, <1>11, <1>12, <1>13 DEF Fiel

-----------------------------------------------------------------------------
(***************************************************************************)
(* A page comes to frame m, which nobody has; the blocks are b by then.    *)
(***************************************************************************)

LEMMA CargaExclusiva ==
    ASSUME NEW t \in Seq(Entrada), NEW p \in Paginas, NEW m \in NumMarcos, NEW L, m \in L,
           Exclusivos(t, L), NEW u, NEW k, EntradaDe(t, p) \cap Presentes(t) = {},
           Agregada(t, p, m, u, k)
    PROVE  /\ Presentes(u) = Presentes(t) \cup {k} /\ k \notin Presentes(t)
           /\ Exclusivos(u, L \ {m})
           /\ \A q \in Paginas : EntradaDe(u, q) \cap Presentes(u) = {} =>
                 q # p /\ EntradaDe(t, q) \cap Presentes(t) = {}
<1>0. /\ DOMAIN u = DOMAIN t \cup {k} /\ EntradaDe(t, p) \subseteq {k}
      /\ u[k].pag = p /\ u[k].marco = m /\ u[k].presente
      /\ \A i \in DOMAIN t \ {k} : u[i] = t[i]
  BY DEF Agregada
<1>1. Presentes(t) \subseteq DOMAIN t /\ k \notin Presentes(t)
  BY DEF Presentes, Agregada
<1>2. Presentes(u) = Presentes(t) \cup {k}
  BY <1>0, <1>1 DEF Presentes
<1>3. \A i \in DOMAIN t \ {k} : t[i].pag # p
  BY <1>0 DEF EntradaDe
<1>4. \A i \in Presentes(t) : i # k /\ u[i] = t[i] /\ t[i].marco # m /\ t[i].marco \in NumMarcos \ L
  BY <1>0, <1>1 DEF Exclusivos
<1>5. \A i, j \in Presentes(u) : u[i].marco = u[j].marco => i = j
  BY <1>0, <1>2, <1>4 DEF Exclusivos
<1>6. \A i \in Presentes(u) : u[i].marco \in NumMarcos \ (L \ {m})
  BY <1>0, <1>2, <1>4
<1>7. SinPaginasRepetidas(u)
  BY <1>0, <1>3 DEF Exclusivos, SinPaginasRepetidas
<1>8. \A q \in Paginas : EntradaDe(u, q) \cap Presentes(u) = {} =>
         q # p /\ EntradaDe(t, q) \cap Presentes(t) = {}
  BY <1>0, <1>1, <1>2, <1>4 DEF EntradaDe
<1> QED BY <1>1, <1>2, <1>5, <1>6, <1>7, <1>8 DEF Exclusivos

LEMMA TraeInv ==
    ASSUME NEW t \in Seq(Entrada), NEW p \in Paginas, NEW m \in NumMarcos,
           NEW v \in Valores \cup {NULL}, NEW L, m \in L, Exclusivos(t, L),
           EntradaDe(t, p) \cap Presentes(t) = {}, Trae(t, p, m, v), reloj \in 0..MaxReloj,
           NEW b, b[p] = bloque[p], bloque \in [Paginas -> Valores],
           memoria \in [NumMarcos -> Valores], ultimo \in [Paginas -> Valores]
    PROVE  /\ tabla' \in Seq(Entrada) /\ Len(tabla') >= Len(t)
           /\ memoria' \in [NumMarcos -> Valores] /\ ultimo' \in [Paginas -> Valores]
           /\ \/ Exclusivos(tabla', L \ {m}) /\ marcos_libres' = marcos_libres \ {m}
              \/ Exclusivos(tabla', L) /\ marcos_libres' = marcos_libres
           /\ Fiel(t, memoria, b, ultimo) => Fiel(tabla', memoria', b, ultimo')
           /\ Existentes(t) => Existentes(tabla')
<1>0. Len(t) \in Nat
  BY TablaTipo
<1>1. CASE ~Existe(p)
  <2>1. /\ tabla' = t /\ marcos_libres' = marcos_libres /\ memoria' = memoria
        /\ ultimo' = ultimo
    BY <1>1 DEF Trae
  <2> QED BY <1>0, <2>1
<1>2. CASE Existe(p)
  <2>0. PICK c \in Valores : c = bloque[p]
    OBVIOUS
  <2>1. Usa(Carga(t, p, m), p, m, c, v) /\ marcos_libres' = marcos_libres \ {m}
    BY <1>2, <2>0 DEF Trae
  <2>2. PICK u : u = Carga(t, p, m)
    OBVIOUS
  <2>3. u \in Seq(Entrada) /\ Len(u) >= Len(t) /\ \E k : Agregada(t, p, m, u, k)
    BY <2>2, CargaTabla DEF Exclusivos
  <2>4. PICK k : Agregada(t, p, m, u, k)
    BY <2>3
  <2>5. /\ Presentes(u) = Presentes(t) \cup {k} /\ k \notin Presentes(t)
        /\ Exclusivos(u, L \ {m})
        /\ \A q \in Paginas : EntradaDe(u, q) \cap Presentes(u) = {} =>
              q # p /\ EntradaDe(t, q) \cap Presentes(t) = {}
    BY <2>4, CargaExclusiva
  <2>6. Usa(u, p, m, c, v)
    BY <2>1, <2>2
  <2>7. /\ tabla' \in Seq(Entrada) /\ Len(tabla') = Len(u) /\ MismasPaginas(u, tabla')
        /\ memoria' \in [NumMarcos -> Valores] /\ ultimo' \in [Paginas -> Valores]
    BY <2>3, <2>6, UsaTipo
  <2>8. Exclusivos(tabla', L \ {m})
    BY <2>5, <2>7, MismasTodo
  <2>9. \A i \in Presentes(t) : i \in DOMAIN t \ {k} /\ u[i] = t[i]
    BY <2>4, <2>5 DEF Presentes, Agregada
  <2>10. ASSUME Fiel(t, memoria, b, ultimo) PROVE Fiel(tabla', memoria', b, ultimo')
    <3>1. \A q \in Paginas : EntradaDe(u, q) \cap Presentes(u) = {} => b[q] = ultimo[q]
      BY <2>5, <2>10 DEF Fiel
    <3>2. \A i \in Presentes(u) \ {k} : EntradaFiel(u[i], memoria, b, ultimo)
      BY <2>5, <2>9, <2>10 DEF Fiel
    <3>3. b[p] = ultimo[p] /\ c = ultimo[p]
      BY <2>0, <2>10 DEF Fiel
    <3>4. k \in Presentes(u) /\ Usa(u, p, u[k].marco, c, v) /\ u[k].pag = p
      BY <2>4, <2>5, <2>6 DEF Agregada
    <3> QED BY <2>3, <2>5, <3>1, <3>2, <3>3, <3>4, UsaFiel
  <2>11. ASSUME Existentes(t) PROVE Existentes(tabla')
    <3>1. Existentes(u)
      BY <1>2, <2>4, <2>5, <2>9, <2>11 DEF Existentes, Agregada
    <3> QED BY <2>7, <3>1, MismasTodo
  <2>12. Len(u) \in Nat /\ Len(tabla') >= Len(t)
    BY <1>0, <2>3, <2>7, TablaTipo
  <2> QED BY <2>1, <2>7, <2>8, <2>10, <2>11, <2>12
<1> QED BY <1>1, <1>2

-----------------------------------------------------------------------------
(***************************************************************************)
(* One lemma for each action: the frames stay exclusive, and so does what  *)
(* is written while the present pages exist in the Storage.                *)
(***************************************************************************)

\* The inductive invariant of the table.
Sano == TypeOK /\ MarcosExclusivos

\* What is kept of the values, besides.
Fieles == SinEscriturasPerdidas /\ PresentesExisten

LEMMA SanoEs == MarcosExclusivos <=> Exclusivos(tabla, marcos_libres)
BY DEF MarcosExclusivos, Exclusivos, SinPaginasRepetidas

LEMMA AciertoSano ==
    ASSUME Sano, NEW p \in Paginas, NEW v \in Valores \cup {NULL}, Acierto(p, v)
    PROVE  Sano' /\ (Fieles => Fieles')
<1>0. tabla \in Seq(Entrada) /\ reloj \in 0..MaxReloj /\ memoria \in [NumMarcos -> Valores]
      /\ ultimo \in [Paginas -> Valores] /\ Exclusivos(tabla, marcos_libres)
  BY SanoEs DEF Sano, TypeOK
<1>1. /\ UNCHANGED <<algoritmo, puntero_clock, marcos_libres, reloj, fuera, varsStorage>>
      /\ \E i \in EntradaDe(tabla, p) \cap Presentes(tabla) :
            Usa(Toca(tabla, {i}), p, tabla[i].marco, memoria[tabla[i].marco], v)
  BY DEF Acierto
<1>2. PICK k \in EntradaDe(tabla, p) \cap Presentes(tabla) :
         Usa(Toca(tabla, {k}), p, tabla[k].marco, memoria[tabla[k].marco], v)
  BY <1>1
<1>3. PICK t : t = Toca(tabla, {k})
  OBVIOUS
<1>4. t \in Seq(Entrada) /\ Len(t) = Len(tabla) /\ MismaTabla(tabla, t)
  BY <1>0, <1>3, TocaTabla
<1>5. Exclusivos(t, marcos_libres) /\ Presentes(t) = Presentes(tabla)
      /\ (Existentes(tabla) => Existentes(t))
  BY <1>0, <1>4, MismasTodo DEF MismaTabla
<1>6. k \in Presentes(t) /\ t[k].pag = p /\ t[k].marco = tabla[k].marco
  BY <1>2, <1>4, <1>5 DEF MismaTabla, MismasPaginas, EntradaDe
<1>7. t[k].marco \in NumMarcos
  BY <1>5, <1>6 DEF Exclusivos
<1>8. PICK c \in Valores : c = memoria[t[k].marco]
  BY <1>0, <1>7
<1>9. Usa(t, p, t[k].marco, c, v)
  BY <1>2, <1>3, <1>6, <1>8
<1>10. /\ tabla' \in Seq(Entrada) /\ Len(tabla') = Len(t) /\ MismasPaginas(t, tabla')
       /\ memoria' \in [NumMarcos -> Valores] /\ ultimo' \in [Paginas -> Valores]
  BY <1>0, <1>4, <1>7, <1>9, UsaTipo
<1>11. TypeOK'
  BY <1>1, <1>4, <1>10 DEF Sano, TypeOK, varsStorage
<1>12. Exclusivos(tabla', marcos_libres') /\ (Existentes(t) => Existentes(tabla'))
  BY <1>1, <1>5, <1>10, MismasTodo
<1>13. MarcosExclusivos'
  BY <1>12 DEF MarcosExclusivos, Exclusivos, SinPaginasRepetidas
<1>14. ASSUME Fieles PROVE Fieles'
  <2>1. Fiel(tabla, memoria, bloque, ultimo)
    BY <1>14, FielEs DEF Fieles
  <2>2. Fiel(t, memoria, bloque, ultimo)
    BY <1>4, <2>1, MismaFiel
  <2>3. /\ \A q \in Paginas : EntradaDe(t, q) \cap Presentes(t) = {} => bloque[q] = ultimo[q]
        /\ \A i \in Presentes(t) \ {k} : EntradaFiel(t[i], memoria, bloque, ultimo)
    BY <2>2 DEF Fiel
  <2>4. EntradaFiel(t[k], memoria, bloque, ultimo)
    BY <1>6, <2>2 DEF Fiel
  <2>5. c = ultimo[p] /\ (~t[k].modificado => bloque[p] = ultimo[p])
    BY <1>6, <1>8, <2>4 DEF EntradaFiel
  <2>6. Fiel(tabla', memoria', bloque, ultimo')
    BY <1>0, <1>4, <1>5, <1>6, <1>9, <2>3, <2>5, UsaFiel
  <2>7. bloque' = bloque /\ tam' = tam
    BY <1>1 DEF varsStorage
  <2>8. SinEscriturasPerdidas'
    BY <2>6, <2>7 DEF SinEscriturasPerdidas, Fiel, EntradaFiel, Ausente
  <2>9. PresentesExisten'
    BY <1>5, <1>12, <1>14, <2>7 DEF Fieles, PresentesExisten, Existentes, Existe
  <2> QED BY <2>8, <2>9 DEF Fieles
<1> QED BY <1>11, <1>13, <1>14 DEF Sano

LEMMA FalloConMarcoLibreSano ==
    ASSUME Sano, NEW p \in Paginas, NEW v \in Valores \cup {NULL}, FalloConMarcoLibre(p, v)
    PROVE  Sano' /\ (Fieles => Fieles')
<1>0. tabla \in Seq(Entrada) /\ reloj \in 0..MaxReloj /\ memoria \in [NumMarcos -> Valores]
      /\ ultimo \in [Paginas -> Valores] /\ Exclusivos(tabla, marcos_libres)
      /\ marcos_libres \subseteq NumMarcos /\ bloque \in [Paginas -> Valores]
      /\ Len(tabla) \in Nat
  BY SanoEs, LenProperties DEF Sano, TypeOK
<1>1. UNCHANGED <<algoritmo, puntero_clock, reloj, fuera, varsStorage>>
  BY DEF FalloConMarcoLibre
<1>2. EntradaDe(tabla, p) \cap Presentes(tabla) = {}
  BY DEF FalloConMarcoLibre, Ausente
<1>3. PICK m \in marcos_libres : Trae(tabla, p, m, v)
  BY DEF FalloConMarcoLibre
<1>4. PICK b : b = bloque
  OBVIOUS
<1>5. /\ tabla' \in Seq(Entrada) /\ Len(tabla') >= Len(tabla)
      /\ memoria' \in [NumMarcos -> Valores] /\ ultimo' \in [Paginas -> Valores]
      /\ \/ Exclusivos(tabla', marcos_libres \ {m}) /\ marcos_libres' = marcos_libres \ {m}
         \/ Exclusivos(tabla', marcos_libres) /\ marcos_libres' = marcos_libres
      /\ Fiel(tabla, memoria, b, ultimo) => Fiel(tabla', memoria', b, ultimo')
      /\ Existentes(tabla) => Existentes(tabla')
  BY <1>0, <1>2, <1>3, <1>4, TraeInv
<1>6. Exclusivos(tabla', marcos_libres') /\ marcos_libres' \subseteq NumMarcos
  BY <1>0, <1>5
<1>7. Len(tabla') \in Nat
  BY <1>5, LenProperties
<1>8. TypeOK'
  BY <1>0, <1>1, <1>5, <1>6, <1>7 DEF Sano, TypeOK, varsStorage
<1>9. MarcosExclusivos'
  BY <1>6 DEF MarcosExclusivos, Exclusivos, SinPaginasRepetidas
<1>10. ASSUME Fieles PROVE Fieles'
  <2>1. b = bloque' /\ tam' = tam
    BY <1>1, <1>4 DEF varsStorage
  <2>2. Fiel(tabla', memoria', b, ultimo')
    BY <1>4, <1>5, <1>10, FielEs DEF Fieles
  <2>3. SinEscriturasPerdidas'
    BY <2>1, <2>2 DEF SinEscriturasPerdidas, Fiel, EntradaFiel, Ausente
  <2>4. PresentesExisten'
    BY <1>5, <1>10, <2>1 DEF Fieles, PresentesExisten, Existentes, Existe
  <2> QED BY <2>3, <2>4 DEF Fieles
<1> QED BY <1>8, <1>9, <1>10 DEF Sano

\* The table u is t without the victim v, whose frame nobody has now.
Desalojada(t, v, u) ==
    /\ u \in Seq(Entrada) /\ Len(u) = Len(t) /\ Presentes(u) = Presentes(t) \ {v}
    /\ t[v].marco \in NumMarcos /\ t[v].pag \in Paginas
    /\ Exclusivos(u, {t[v].marco}) /\ Exclusivos(u, {})
    /\ (Existentes(t) => Existentes(u))
    /\ \A q : EntradaDe(u, q) = EntradaDe(t, q)
    /\ \A i \in Presentes(u) : u[i] = t[i] /\ t[i].pag # t[v].pag

LEMMA VictimaFuera ==
    ASSUME NEW t \in Seq(Entrada), NEW v \in Presentes(t), Exclusivos(t, {})
    PROVE  Desalojada(t, v, SinMarco(t, v))
<1> DEFINE u == SinMarco(t, v)
<1>0. v \in DOMAIN t /\ Presentes(t) \subseteq DOMAIN t
  BY DEF Presentes
<1>1. /\ u \in Seq(Entrada) /\ Len(u) = Len(t) /\ DOMAIN u = DOMAIN t
      /\ u[v].pag = t[v].pag /\ ~u[v].presente
      /\ \A i \in DOMAIN t \ {v} : u[i] = t[i]
  BY <1>0, SinMarcoTabla
<1> HIDE DEF u
<1>2. Presentes(u) = Presentes(t) \ {v}
  BY <1>0, <1>1 DEF Presentes
<1>3. \A q : EntradaDe(u, q) = EntradaDe(t, q)
  BY <1>0, <1>1 DEF EntradaDe
<1>4. \A i \in Presentes(u) : u[i] = t[i] /\ i \in Presentes(t) /\ i # v
  BY <1>0, <1>1, <1>2
<1>5. \A i \in Presentes(t) \ {v} : t[i].marco # t[v].marco /\ t[i].pag # t[v].pag
  BY <1>0 DEF Exclusivos, SinPaginasRepetidas
<1>6. \A i \in DOMAIN t : u[i].pag = t[i].pag
  BY <1>1
<1>7. SinPaginasRepetidas(u)
  BY <1>1, <1>6 DEF SinPaginasRepetidas, Exclusivos
<1>8. Exclusivos(u, {t[v].marco}) /\ Exclusivos(u, {})
  BY <1>2, <1>4, <1>5, <1>7 DEF Exclusivos
<1>9. Existentes(t) => Existentes(u)
  BY <1>4 DEF Existentes
<1>10. t[v].marco \in NumMarcos /\ t[v].pag \in Paginas
  BY <1>0, TablaTipo DEF Exclusivos, Entrada
<1>11. Desalojada(t, v, u)
  BY <1>1, <1>2, <1>3, <1>4, <1>5, <1>8, <1>9, <1>10 DEF Desalojada
<1> QED BY <1>11 DEF u

\* The blocks once the victim e has been written back, if it had to be.
LEMMA VictimaFiel ==
    ASSUME NEW t \in Seq(Entrada), NEW v \in Presentes(t), Exclusivos(t, {}), NEW u, u = SinMarco(t, v),
           NEW b, NEW B, B \in [Paginas -> Valores],
           b = IF t[v].modificado THEN [B EXCEPT ![t[v].pag] = memoria[t[v].marco]] ELSE B,
           NEW ult, Fiel(t, memoria, B, ult)
    PROVE  Fiel(u, memoria, b, ult)
<1>1. /\ Presentes(u) = Presentes(t) \ {v} /\ t[v].pag \in Paginas
      /\ \A q : EntradaDe(u, q) = EntradaDe(t, q)
      /\ \A i \in Presentes(u) : u[i] = t[i] /\ t[i].pag # t[v].pag
  <2>1. Desalojada(t, v, u)
    BY VictimaFuera
  <2> QED BY <2>1 DEF Desalojada
<1>2. EntradaFiel(t[v], memoria, B, ult) /\ \A i \in Presentes(u) : EntradaFiel(t[i], memoria, B, ult)
  BY <1>1 DEF Fiel
<1>3. b[t[v].pag] = ult[t[v].pag] /\ \A q \in Paginas \ {t[v].pag} : b[q] = B[q]
  BY <1>1, <1>2 DEF EntradaFiel
<1>4. ASSUME NEW q \in Paginas, EntradaDe(u, q) \cap Presentes(u) = {} PROVE b[q] = ult[q]
  <2>1. CASE q = t[v].pag
    BY <1>3, <2>1
  <2>2. CASE q # t[v].pag
    <3>1. EntradaDe(t, q) \cap Presentes(t) = {}
      BY <1>1, <1>4, <2>2 DEF EntradaDe
    <3> QED BY <1>3, <2>2, <3>1 DEF Fiel
  <2> QED BY <2>1, <2>2
<1>5. ASSUME NEW i \in Presentes(u) PROVE EntradaFiel(u[i], memoria, b, ult)
  <2>1. t[i].pag \in Paginas \ {t[v].pag} /\ u[i] = t[i]
    <3>1. i \in DOMAIN t
      BY <1>1 DEF Presentes
    <3> QED BY <1>1, <3>1, TablaTipo DEF Entrada
  <2> QED BY <1>2, <1>3, <2>1 DEF EntradaFiel
<1> QED BY <1>4, <1>5 DEF Fiel

LEMMA FalloConReemplazoSano ==
    ASSUME Sano, NEW p \in Paginas, NEW v \in Valores \cup {NULL}, FalloConReemplazo(p, v)
    PROVE  Sano' /\ (Fieles => Fieles')
<1>0. tabla \in Seq(Entrada) /\ reloj \in 0..MaxReloj /\ memoria \in [NumMarcos -> Valores]
      /\ ultimo \in [Paginas -> Valores] /\ Exclusivos(tabla, marcos_libres)
      /\ marcos_libres \subseteq NumMarcos /\ bloque \in [Paginas -> Valores]
      /\ Len(tabla) \in Nat /\ DOMAIN tabla = 1..Len(tabla)
  BY SanoEs, LenProperties DEF Sano, TypeOK
<1>1. UNCHANGED <<algoritmo, reloj, fuera, tam, commiteado>> /\ marcos_libres = {}
  BY DEF FalloConReemplazo
<1>2. EntradaDe(tabla, p) \cap Presentes(tabla) = {}
  BY DEF FalloConReemplazo, Ausente
<1>3. PICK x \in Victima :
         /\ puntero_clock' = Siguiente(x.v)
         /\ IF HayQueBajar(x.t[x.v]) /\ ~AceptaEscribir(x.t[x.v].pag)
            THEN /\ tabla' = Toca(x.t, {x.v})
                 /\ UNCHANGED <<marcos_libres, memoria, bloque, ultimo>>
            ELSE /\ bloque' = IF HayQueBajar(x.t[x.v])
                              THEN [bloque EXCEPT ![x.t[x.v].pag] = memoria[x.t[x.v].marco]]
                              ELSE bloque
                 /\ Trae(SinMarco(x.t, x.v), p, x.t[x.v].marco, v)
  BY DEF FalloConReemplazo
<1>4. PICK t, k : t = x.t /\ k = x.v
  OBVIOUS
<1>5. k \in Presentes(tabla) /\ t \in Seq(Entrada) /\ Len(t) = Len(tabla) /\ MismaTabla(tabla, t)
  BY <1>0, <1>4, VictimaPresente
<1>6. /\ Exclusivos(t, {}) /\ Presentes(t) = Presentes(tabla) /\ EntradaDe(t, p) = EntradaDe(tabla, p)
      /\ (Existentes(tabla) => Existentes(t))
  BY <1>0, <1>1, <1>5, MismasTodo DEF MismaTabla
<1>7. k \in 1..Len(tabla)
  BY <1>0, <1>5 DEF Presentes
<1>8. puntero_clock' \in Nat /\ (puntero_clock' = 0 \/ puntero_clock' < Len(tabla))
  <2>1. CASE algoritmo = "LRU"
    BY <1>3, <2>1 DEF Siguiente, Sano, TypeOK
  <2>2. CASE algoritmo # "LRU"
    <3>1. puntero_clock' = k % Len(tabla)
      BY <1>3, <1>4, <2>2 DEF Siguiente
    <3>2. Len(tabla) \in Nat \ {0} /\ k \in Nat
      BY <1>0, <1>7
    <3> QED BY <3>1, <3>2
  <2> QED BY <2>1, <2>2
<1>9. CASE HayQueBajar(t[k]) /\ ~AceptaEscribir(t[k].pag)
  <2>1. tabla' = Toca(t, {k}) /\ UNCHANGED <<marcos_libres, memoria, bloque, ultimo>>
    BY <1>3, <1>4, <1>9
  <2>2. tabla' \in Seq(Entrada) /\ Len(tabla') = Len(t) /\ MismaTabla(t, tabla')
    BY <1>0, <1>5, <2>1, TocaTabla
  <2>3. TypeOK'
    BY <1>0, <1>1, <1>5, <1>8, <2>1, <2>2 DEF Sano, TypeOK
  <2>4. Exclusivos(tabla', marcos_libres') /\ (Existentes(tabla) => Existentes(tabla'))
    BY <1>1, <1>6, <2>1, <2>2, MismasTodo DEF MismaTabla
  <2>5. MarcosExclusivos'
    BY <2>4 DEF MarcosExclusivos, Exclusivos, SinPaginasRepetidas
  <2>6. ASSUME Fieles PROVE Fieles'
    <3>1. Fiel(tabla', memoria, bloque, ultimo)
      BY <1>5, <2>2, <2>6, FielEs, MismaFiel DEF Fieles
    <3>2. SinEscriturasPerdidas'
      BY <2>1, <3>1 DEF SinEscriturasPerdidas, Fiel, EntradaFiel, Ausente
    <3>3. PresentesExisten'
      BY <1>1, <2>4, <2>6 DEF Fieles, PresentesExisten, Existentes, Existe
    <3> QED BY <3>2, <3>3 DEF Fieles
  <2> QED BY <2>3, <2>5, <2>6 DEF Sano
<1>10. CASE ~(HayQueBajar(t[k]) /\ ~AceptaEscribir(t[k].pag))
  <2>1. PICK u, m, b : u = SinMarco(t, k) /\ m = t[k].marco
           /\ b = IF t[k].modificado THEN [bloque EXCEPT ![t[k].pag] = memoria[t[k].marco]]
                  ELSE bloque
    OBVIOUS
  <2>2. bloque' = b /\ Trae(u, p, m, v)
    BY <1>3, <1>4, <1>10, <2>1 DEF HayQueBajar
  <2>3. /\ u \in Seq(Entrada) /\ Len(u) = Len(t) /\ Presentes(u) = Presentes(t) \ {k}
        /\ m \in NumMarcos /\ t[k].pag \in Paginas
        /\ Exclusivos(u, {m}) /\ Exclusivos(u, {})
        /\ (Existentes(t) => Existentes(u))
        /\ \A q : EntradaDe(u, q) = EntradaDe(t, q)
    <3>1. Desalojada(t, k, u)
      BY <1>5, <1>6, <2>1, VictimaFuera
    <3> QED BY <2>1, <3>1 DEF Desalojada
  <2>4. EntradaDe(u, p) \cap Presentes(u) = {}
    BY <1>2, <1>6, <2>3
  <2>5. p # t[k].pag
    BY <1>2, <1>5, <1>6 DEF EntradaDe, Presentes
  <2>6. b \in [Paginas -> Valores] /\ b[p] = bloque[p]
    BY <1>0, <2>1, <2>3, <2>5
  <2>7. /\ tabla' \in Seq(Entrada) /\ Len(tabla') >= Len(u)
        /\ memoria' \in [NumMarcos -> Valores] /\ ultimo' \in [Paginas -> Valores]
        /\ \/ Exclusivos(tabla', {m} \ {m}) /\ marcos_libres' = marcos_libres \ {m}
           \/ Exclusivos(tabla', {m}) /\ marcos_libres' = marcos_libres
        /\ Fiel(u, memoria, b, ultimo) => Fiel(tabla', memoria', b, ultimo')
        /\ Existentes(u) => Existentes(tabla')
    BY <1>0, <2>2, <2>3, <2>4, <2>6, TraeInv
  <2>8. marcos_libres' = {}
    BY <1>1, <2>7
  <2>9. Exclusivos(tabla', {})
    BY <2>7 DEF Exclusivos
  <2>10. Len(tabla') \in Nat
    BY <2>7, LenProperties
  <2>11. puntero_clock' = 0 \/ puntero_clock' < Len(tabla')
    BY <1>0, <1>5, <1>8, <2>3, <2>7, <2>10
  <2>12. TypeOK'
    BY <1>0, <1>1, <1>8, <2>2, <2>6, <2>7, <2>8, <2>11 DEF Sano, TypeOK
  <2>13. MarcosExclusivos'
    BY <2>8, <2>9 DEF MarcosExclusivos, Exclusivos, SinPaginasRepetidas
  <2>14. ASSUME Fieles PROVE Fieles'
    <3>1. Fiel(t, memoria, bloque, ultimo)
      BY <1>5, <2>14, FielEs, MismaFiel DEF Fieles
    <3>2. k \in Presentes(t)
      BY <1>5, <1>6
    <3>3. Fiel(u, memoria, b, ultimo)
      BY <1>0, <1>5, <1>6, <2>1, <3>1, <3>2, VictimaFiel
    <3>4. Fiel(tabla', memoria', b, ultimo')
      BY <2>7, <3>3
    <3>5. SinEscriturasPerdidas'
      BY <2>2, <3>4 DEF SinEscriturasPerdidas, Fiel, EntradaFiel, Ausente
    <3>6. Existentes(tabla')
      BY <1>6, <2>3, <2>7, <2>14 DEF Fieles, PresentesExisten
    <3>7. PresentesExisten'
      BY <1>1, <3>6 DEF PresentesExisten, Existentes, Existe
    <3> QED BY <3>5, <3>7 DEF Fieles
  <2> QED BY <2>12, <2>13, <2>14 DEF Sano
<1> QED BY <1>9, <1>10

LEMMA FalloSinVictimaSano ==
    ASSUME Sano, NEW p \in Paginas, FalloSinVictima(p)
    PROVE  Sano' /\ (Fieles => Fieles')
<1>1. UNCHANGED <<algoritmo, varsTabla, reloj, varsStorage, ultimo>> /\ fuera' \in BOOLEAN
  BY DEF FalloSinVictima
<1>2. Sano'
  BY <1>1 DEF Sano, TypeOK, MarcosExclusivos, varsTabla, varsStorage
<1>3. Fieles => Fieles'
  BY <1>1 DEF Fieles, SinEscriturasPerdidas, Ausente, PresentesExisten, Existentes, Existe,
              varsTabla, varsStorage
<1> QED BY <1>2, <1>3

\* What a flush does: the pages of H go to their blocks b and are no longer modified in u.
Bajado(H, b, u) ==
    /\ H \subseteq Presentes(tabla)
    /\ u \in Seq(Entrada) /\ Len(u) = Len(tabla) /\ MismasPaginas(tabla, u)
    /\ \A i \in DOMAIN tabla : u[i].modificado <=> tabla[i].modificado /\ i \notin H
    /\ b \in [Paginas -> Valores]
    /\ \A i \in H : b[tabla[i].pag] = memoria[tabla[i].marco]
    /\ \A q \in Paginas : (\A i \in H : tabla[i].pag # q) => b[q] = bloque[q]

LEMMA BajaEfecto ==
    ASSUME Sano, NEW A, Baja(A)
    PROVE  Bajado(Intentadas(A) \ Rechazadas(A), bloque', tabla')
<1>0. tabla \in Seq(Entrada) /\ reloj \in 0..MaxReloj /\ memoria \in [NumMarcos -> Valores]
      /\ Exclusivos(tabla, marcos_libres) /\ bloque \in [Paginas -> Valores]
  BY SanoEs DEF Sano, TypeOK
<1>1. PICK H : H = Intentadas(A) \ Rechazadas(A)
  OBVIOUS
<1>2. PICK t : t = Toca(tabla, Intentadas(A))
  OBVIOUS
<1>3. /\ tabla' = [i \in DOMAIN t |-> IF i \in H THEN [t[i] EXCEPT !.modificado = FALSE] ELSE t[i]]
      /\ bloque' = [p \in Paginas |-> IF \E i \in H : tabla[i].pag = p
                      THEN memoria[(CHOOSE e \in {tabla[i] : i \in H} : e.pag = p).marco]
                      ELSE bloque[p]]
  BY <1>1, <1>2 DEF Baja
<1>4. H \subseteq Presentes(tabla) /\ Presentes(tabla) \subseteq DOMAIN tabla
  BY <1>1 DEF Intentadas, Sucias, Presentes
<1>5. t \in Seq(Entrada) /\ Len(t) = Len(tabla) /\ MismaTabla(tabla, t) /\ DOMAIN t = DOMAIN tabla
  BY <1>0, <1>2, TocaTabla DEF MismaTabla, MismasPaginas
<1>6. PICK u : u = tabla'
  OBVIOUS
<1>7. /\ DOMAIN u = DOMAIN t /\ u = [i \in DOMAIN t |-> u[i]]
      /\ \A i \in DOMAIN t : u[i] = IF i \in H THEN [t[i] EXCEPT !.modificado = FALSE] ELSE t[i]
  BY <1>3, <1>6
<1>8. ASSUME NEW i \in DOMAIN t
      PROVE  /\ u[i] \in Entrada /\ u[i].pag = t[i].pag /\ u[i].marco = t[i].marco
             /\ u[i].presente = t[i].presente /\ (u[i].modificado <=> t[i].modificado /\ i \notin H)
  <2>1. t[i] \in Entrada
    BY <1>5, TablaTipo
  <2>2. CASE i \in H
    <3>1. u[i] = [t[i] EXCEPT !.modificado = FALSE]
      BY <1>7, <2>2
    <3> QED BY <2>1, <2>2, <3>1, EntradaModificada
  <2>3. CASE i \notin H
    <3>1. u[i] = t[i]
      BY <1>7, <2>3
    <3> QED BY <2>1, <2>3, <3>1
  <2> QED BY <2>2, <2>3
<1>9. u \in [DOMAIN t -> Entrada]
  BY <1>7, <1>8
<1>10. u \in Seq(Entrada) /\ Len(u) = Len(tabla)
  BY <1>5, <1>9, SobreIndices
<1>11. MismasPaginas(tabla, u)
  BY <1>5, <1>7, <1>8 DEF MismasPaginas, MismaTabla
<1>12. \A i \in DOMAIN tabla : u[i].modificado <=> tabla[i].modificado /\ i \notin H
  <2>1. \A i \in DOMAIN tabla : t[i].modificado = tabla[i].modificado
    BY <1>5 DEF MismaTabla
  <2> QED BY <1>5, <1>8, <2>1
<1>13. \A i \in H : tabla[i] \in Entrada /\ tabla[i].marco \in NumMarcos /\ i \in DOMAIN tabla
  BY <1>0, <1>4, TablaTipo DEF Exclusivos
<1>14. ASSUME NEW i \in H
       PROVE  (CHOOSE e \in {tabla[j] : j \in H} : e.pag = tabla[i].pag) = tabla[i]
  <2> DEFINE E == {tabla[j] : j \in H}
             c == CHOOSE e \in E : e.pag = tabla[i].pag
  <2>1. tabla[i] \in E /\ tabla[i].pag = tabla[i].pag
    OBVIOUS
  <2>2. c \in E /\ c.pag = tabla[i].pag
    <3> HIDE DEF E
    <3> QED BY <2>1
  <2>3. PICK j \in H : c = tabla[j]
    BY <2>2
  <2>4. j = i
    BY <1>0, <1>13, <2>2, <2>3 DEF Exclusivos, SinPaginasRepetidas
  <2> QED BY <2>3, <2>4
<1>15. ASSUME NEW i \in H PROVE bloque'[tabla[i].pag] = memoria[tabla[i].marco]
  <2>1. tabla[i].pag \in Paginas
    BY <1>13 DEF Entrada
  <2>2. bloque'[tabla[i].pag]
          = memoria[(CHOOSE e \in {tabla[j] : j \in H} : e.pag = tabla[i].pag).marco]
    BY <1>3, <2>1
  <2> QED BY <1>14, <2>2
<1>16. \A q \in Paginas : (\A i \in H : tabla[i].pag # q) => bloque'[q] = bloque[q]
  BY <1>3
<1>17. bloque' \in [Paginas -> Valores]
  <2>1. ASSUME NEW q \in Paginas PROVE bloque'[q] \in Valores
    <3>1. CASE \E i \in H : tabla[i].pag = q
      BY <1>0, <1>13, <1>15, <3>1
    <3>2. CASE ~\E i \in H : tabla[i].pag = q
      BY <1>0, <1>16, <3>2
    <3> QED BY <3>1, <3>2
  <2>2. bloque' = [q \in Paginas |-> bloque'[q]]
    BY <1>3
  <2> QED BY <2>1, <2>2
<1> QED BY <1>1, <1>4, <1>6, <1>10, <1>11, <1>12, <1>15, <1>16, <1>17 DEF Bajado

\* A flush, of a File:Tag or of all, and a COMMIT.
LEMMA BajaSano ==
    ASSUME Sano, NEW A, Baja(A), commiteado' \subseteq Archivos,
           UNCHANGED <<algoritmo, puntero_clock, marcos_libres, memoria, reloj, fuera, tam, ultimo>>
    PROVE  Sano' /\ (Fieles => Fieles')
<1>0. tabla \in Seq(Entrada) /\ Exclusivos(tabla, marcos_libres)
  BY SanoEs DEF Sano, TypeOK
<1>1. PICK H, b, u : H = Intentadas(A) \ Rechazadas(A) /\ b = bloque' /\ u = tabla'
  OBVIOUS
<1>2. Bajado(H, b, u)
  BY <1>1, BajaEfecto
<1>3. /\ Presentes(u) = Presentes(tabla)
      /\ \A p : EntradaDe(u, p) = EntradaDe(tabla, p)
      /\ Exclusivos(u, marcos_libres)
      /\ (Existentes(tabla) => Existentes(u))
  BY <1>0, <1>2, MismasTodo DEF Bajado
<1>4. TypeOK'
  BY <1>1, <1>2 DEF Bajado, Sano, TypeOK
<1>5. MarcosExclusivos'
  <2>1. Exclusivos(tabla', marcos_libres')
    BY <1>1, <1>3
  <2> QED BY <2>1 DEF MarcosExclusivos, Exclusivos, SinPaginasRepetidas
<1>6. ASSUME Fieles PROVE Fieles'
  <2>1. Fiel(tabla, memoria, bloque, ultimo)
    BY <1>6, FielEs DEF Fieles
  <2>2. ASSUME NEW q \in Paginas, EntradaDe(u, q) \cap Presentes(u) = {} PROVE b[q] = ultimo[q]
    <3>1. EntradaDe(tabla, q) \cap Presentes(tabla) = {}
      BY <1>3, <2>2
    <3>2. \A i \in H : tabla[i].pag # q
      BY <1>2, <3>1 DEF Bajado, EntradaDe, Presentes
    <3> QED BY <1>2, <2>1, <3>1, <3>2 DEF Bajado, Fiel
  <2>3. ASSUME NEW i \in Presentes(u) PROVE EntradaFiel(u[i], memoria, b, ultimo)
    <3>1. i \in DOMAIN tabla /\ i \in Presentes(tabla) /\ EntradaFiel(tabla[i], memoria, bloque, ultimo)
      BY <1>3, <2>1 DEF Fiel, Presentes
    <3>2. /\ u[i].pag = tabla[i].pag /\ u[i].marco = tabla[i].marco
          /\ (u[i].modificado <=> tabla[i].modificado /\ i \notin H)
      BY <1>2, <3>1 DEF Bajado, MismasPaginas
    <3>3. CASE i \in H
      BY <1>2, <3>1, <3>2, <3>3 DEF Bajado, EntradaFiel
    <3>4. CASE i \notin H
      <4>1. tabla[i].pag \in Paginas
        BY <1>0, <3>1, TablaTipo DEF Entrada
      <4>2. \A j \in H : tabla[j].pag # tabla[i].pag
        BY <1>0, <1>2, <3>1, <3>4 DEF Bajado, Presentes, Exclusivos, SinPaginasRepetidas
      <4>3. b[tabla[i].pag] = bloque[tabla[i].pag]
        BY <1>2, <4>1, <4>2 DEF Bajado
      <4> QED BY <3>1, <3>2, <3>4, <4>3 DEF EntradaFiel
    <3> QED BY <3>3, <3>4
  <2>4. Fiel(u, memoria, b, ultimo)
    BY <2>2, <2>3 DEF Fiel
  <2>5. SinEscriturasPerdidas'
    BY <1>1, <2>4 DEF SinEscriturasPerdidas, Fiel, EntradaFiel, Ausente
  <2>6. PresentesExisten'
    BY <1>1, <1>3, <1>6 DEF Fieles, PresentesExisten, Existentes, Existe
  <2> QED BY <2>5, <2>6 DEF Fieles
<1> QED BY <1>4, <1>5, <1>6 DEF Sano

LEMMA TruncateSano ==
    ASSUME Sano, NEW a \in Archivos, NEW n \in 0..MaxBloques[a], execute_truncate(a, n)
    PROVE  Sano' /\ (~PuedeAchicar /\ Fieles => Fieles')
<1> DEFINE nuevas == {p \in Paginas : p[1] = a /\ p[2] \in tam[a]..(n - 1)}
<1>0. /\ tabla \in Seq(Entrada) /\ tam \in [Archivos -> Nat] /\ bloque \in [Paginas -> Valores]
      /\ ultimo \in [Paginas -> Valores] /\ n \in Nat /\ 0 \in Valores
  BY MemoriaSupuesto DEF Sano, TypeOK
<1>1. /\ tam' = [tam EXCEPT ![a] = n] /\ (n > tam[a] \/ (PuedeAchicar /\ n < tam[a]))
      /\ bloque' = [p \in Paginas |-> IF p \in nuevas THEN 0 ELSE bloque[p]]
      /\ ultimo' = [p \in Paginas |-> IF p \in nuevas THEN 0 ELSE ultimo[p]]
  BY DEF execute_truncate
<1>2. UNCHANGED <<algoritmo, varsTabla, reloj, fuera, commiteado>>
  BY DEF execute_truncate
<1>3. TypeOK'
  <2>1. bloque' \in [Paginas -> Valores] /\ ultimo' \in [Paginas -> Valores]
    <3> HIDE DEF nuevas
    <3> QED BY <1>0, <1>1
  <2>2. tam' \in [Archivos -> Nat]
    BY <1>0, <1>1
  <2> QED BY <1>2, <2>1, <2>2 DEF Sano, TypeOK, varsTabla
<1>4. MarcosExclusivos'
  BY <1>2 DEF Sano, MarcosExclusivos, varsTabla
<1>5. ASSUME ~PuedeAchicar, Fieles PROVE Fieles'
  <2>1. Fiel(tabla, memoria, bloque, ultimo) /\ Existentes(tabla)
    BY <1>5, FielEs DEF Fieles, PresentesExisten
  <2>2. n > tam[a]
    BY <1>1, <1>5
  <2>3. ASSUME NEW i \in Presentes(tabla) PROVE tabla[i].pag \in Paginas \ nuevas
    <3>1. i \in DOMAIN tabla /\ tabla[i].pag \in Paginas
      BY <1>0, TablaTipo DEF Presentes, Entrada
    <3>2. tabla[i].pag[2] < tam[tabla[i].pag[1]]
      BY <2>1 DEF Existentes, Existe
    <3> QED BY <1>0, <3>1, <3>2
  <2> HIDE DEF nuevas
  <2>4. \A p \in Paginas : bloque[p] = ultimo[p] => bloque'[p] = ultimo'[p]
    BY <1>1
  <2>5. \A p \in Paginas \ nuevas : bloque'[p] = bloque[p] /\ ultimo'[p] = ultimo[p]
    BY <1>1
  <2>6. \A i \in Presentes(tabla) : EntradaFiel(tabla[i], memoria, bloque', ultimo')
    BY <2>1, <2>3, <2>5 DEF Fiel, EntradaFiel
  <2>7. Fiel(tabla, memoria, bloque', ultimo')
    BY <2>1, <2>4, <2>6 DEF Fiel
  <2>8. SinEscriturasPerdidas'
    BY <1>2, <2>7 DEF SinEscriturasPerdidas, Fiel, EntradaFiel, Ausente, varsTabla
  <2>9. ASSUME NEW i \in Presentes(tabla) PROVE tabla[i].pag[2] < tam'[tabla[i].pag[1]]
    <3>1. i \in DOMAIN tabla /\ tabla[i].pag \in Paginas
      BY <1>0, TablaTipo DEF Presentes, Entrada
    <3>2. tabla[i].pag[1] \in Archivos /\ tabla[i].pag[2] \in Int
      BY <3>1, MemoriaSupuesto DEF Paginas
    <3>3. tabla[i].pag[2] < tam[tabla[i].pag[1]]
      BY <2>1 DEF Existentes, Existe
    <3> QED BY <1>0, <1>1, <2>2, <3>2, <3>3
  <2>10. PresentesExisten'
    BY <1>2, <2>9 DEF PresentesExisten, Existentes, Existe, varsTabla
  <2> QED BY <2>8, <2>10 DEF Fieles
<1> QED BY <1>3, <1>4, <1>5 DEF Sano

-----------------------------------------------------------------------------
(***************************************************************************)
(* The theorems.                                                           *)
(***************************************************************************)

LEMMA PasoSano ==
    ASSUME Sano, Next PROVE Sano' /\ (~PuedeAchicar /\ Fieles => Fieles')
<1>1. ASSUME NEW p \in Paginas, NEW v \in Valores \cup {NULL},
             Acierto(p, v) \/ FalloConMarcoLibre(p, v) \/ FalloConReemplazo(p, v) \/ FalloSinVictima(p)
      PROVE  Sano' /\ (~PuedeAchicar /\ Fieles => Fieles')
  BY <1>1, AciertoSano, FalloConMarcoLibreSano, FalloConReemplazoSano, FalloSinVictimaSano
<1>2. ASSUME NEW p \in Paginas, leer_memoria(p) PROVE Sano' /\ (~PuedeAchicar /\ Fieles => Fieles')
  BY <1>1, <1>2 DEF leer_memoria
<1>3. ASSUME NEW p \in Paginas, NEW v \in Valores, escribir_memoria(p, v)
      PROVE  Sano' /\ (~PuedeAchicar /\ Fieles => Fieles')
  BY <1>1, <1>3 DEF escribir_memoria
<1>4. ASSUME NEW a \in Archivos, execute_flush(a)
      PROVE  Sano' /\ (~PuedeAchicar /\ Fieles => Fieles')
  <2>1. Baja({a}) /\ commiteado' \subseteq Archivos
        /\ UNCHANGED <<algoritmo, puntero_clock, marcos_libres, memoria, reloj, fuera, tam, ultimo>>
    BY <1>4 DEF execute_flush, Sano, TypeOK
  <2> QED BY <2>1, BajaSano
<1>5. ASSUME flush_all PROVE Sano' /\ (~PuedeAchicar /\ Fieles => Fieles')
  <2>1. Baja(Archivos) /\ commiteado' \subseteq Archivos
        /\ UNCHANGED <<algoritmo, puntero_clock, marcos_libres, memoria, reloj, fuera, tam, ultimo>>
    BY <1>5 DEF flush_all, Sano, TypeOK
  <2> QED BY <2>1, BajaSano
<1>6. ASSUME NEW a \in Archivos, execute_commit(a)
      PROVE  Sano' /\ (~PuedeAchicar /\ Fieles => Fieles')
  <2>1. Baja({a}) /\ commiteado' \subseteq Archivos
        /\ UNCHANGED <<algoritmo, puntero_clock, marcos_libres, memoria, reloj, fuera, tam, ultimo>>
    BY <1>6 DEF execute_commit, FlushImplicito, Sano, TypeOK
  <2> QED BY <2>1, BajaSano
<1>7. ASSUME Segundo PROVE Sano' /\ (~PuedeAchicar /\ Fieles => Fieles')
  <2>1. UNCHANGED <<algoritmo, varsTabla, fuera, varsStorage, ultimo>> /\ reloj' \in 0..MaxReloj
    BY <1>7, MemoriaSupuesto DEF Segundo, Sano, TypeOK
  <2>2. Sano'
    BY <2>1 DEF Sano, TypeOK, MarcosExclusivos, varsTabla, varsStorage
  <2>3. Fieles => Fieles'
    BY <2>1 DEF Fieles, SinEscriturasPerdidas, Ausente, PresentesExisten, Existentes, Existe,
                varsTabla, varsStorage
  <2> QED BY <2>2, <2>3
<1> QED BY <1>2, <1>3, <1>4, <1>5, <1>6, <1>7, TruncateSano DEF Next

LEMMA InitSano == Init => Sano
<1> SUFFICES ASSUME Init PROVE Sano
  OBVIOUS
<1>1. tabla = << >> /\ tabla \in Seq(Entrada) /\ DOMAIN tabla = {}
  BY EmptySeq DEF Init
<1>2. TypeOK
  <2>0. 0 \in Valores /\ 0 \in 0..MaxReloj
    BY MemoriaSupuesto
  <2>1. memoria \in [NumMarcos -> Valores] /\ reloj \in 0..MaxReloj /\ fuera \in BOOLEAN
    BY <2>0 DEF Init
  <2>2. tam \in [Archivos -> Nat] /\ bloque \in [Paginas -> Valores]
        /\ ultimo \in [Paginas -> Valores] /\ commiteado \subseteq Archivos
    BY MemoriaSupuesto DEF Init
  <2>3. algoritmo \in Algoritmos /\ puntero_clock = 0 /\ marcos_libres \subseteq NumMarcos
    BY DEF Init
  <2> QED BY <1>1, <2>1, <2>2, <2>3 DEF TypeOK
<1>3. MarcosExclusivos
  BY <1>1 DEF MarcosExclusivos, Presentes
<1> QED BY <1>2, <1>3 DEF Sano

LEMMA InitFieles == Init => Fieles
<1> SUFFICES ASSUME Init PROVE Fieles
  OBVIOUS
<1>1. DOMAIN tabla = {} /\ \A p \in Paginas : bloque[p] = ultimo[p]
  BY EmptySeq DEF Init
<1> QED BY <1>1 DEF Fieles, SinEscriturasPerdidas, PresentesExisten, Existentes, Presentes

LEMMA Invariante == Spec => []Sano
<1>1. Sano /\ [Next]_vars => Sano'
  <2>1. ASSUME Sano, UNCHANGED vars PROVE Sano'
    BY <2>1 DEF vars, varsTabla, varsStorage, Sano, TypeOK, MarcosExclusivos
  <2> QED BY <2>1, PasoSano
<1>2. Spec => Init /\ [][Next]_vars
  BY DEF Spec
<1> QED BY <1>1, <1>2, InitSano, PTL

\* The variables keep their types: whatever the replacement does with the table, the hand
\* of CLOCK-M stays inside it.
THEOREM MemoriaTipos == Spec => []TypeOK
<1>1. Sano => TypeOK
  BY DEF Sano
<1> QED BY <1>1, Invariante, PTL

\* Two present pages never share a frame, and a page has one entry, in every table
\* agregar_entrada_tabla and the replacement leave, the failed loads included.
THEOREM NuncaCompartenMarco == Spec => []MarcosExclusivos
<1>1. Sano => MarcosExclusivos
  BY DEF Sano
<1> QED BY <1>1, Invariante, PTL

LEMMA FielesSiempre == ~PuedeAchicar => (Spec => []Fieles)
<1> SUFFICES ASSUME ~PuedeAchicar PROVE Spec => []Fieles
  OBVIOUS
<1>1. Sano /\ Fieles /\ [Next]_vars => Fieles'
  <2>1. ASSUME Fieles, UNCHANGED vars PROVE Fieles'
    BY <2>1 DEF vars, varsTabla, varsStorage, Fieles, SinEscriturasPerdidas, Ausente,
                PresentesExisten, Existentes, Existe
  <2> QED BY <2>1, PasoSano
<1>2. Spec => Init /\ [][Next]_vars
  BY DEF Spec
<1> QED BY <1>1, <1>2, Invariante, InitFieles, PTL

\* While no File:Tag is shortened, what a page was last given is in its frame, or in its
\* block if it is not in memory or not modified.
THEOREM NadaEscritoSePierde == ~PuedeAchicar => (Spec => []SinEscriturasPerdidas)
<1> SUFFICES ASSUME ~PuedeAchicar PROVE Spec => []SinEscriturasPerdidas
  OBVIOUS
<1>1. Fieles => SinEscriturasPerdidas
  BY DEF Fieles
<1> QED BY <1>1, FielesSiempre, PTL

\* Only execute_commit adds a File:Tag to those committed, after its implicit flush.
LEMMA SoloCommit ==
    ASSUME Next, NEW a \in commiteado' \ commiteado
    PROVE  execute_commit(a)
<1> USE DEF varsStorage
<1>1. \A p \in Paginas : \A v : ~Acierto(p, v) /\ ~FalloConMarcoLibre(p, v)
         /\ ~FalloConReemplazo(p, v) /\ ~FalloSinVictima(p)
  BY DEF Acierto, FalloConMarcoLibre, FalloConReemplazo, FalloSinVictima
<1>2. \A p \in Paginas : ~leer_memoria(p) /\ \A v \in Valores : ~escribir_memoria(p, v)
  BY <1>1 DEF leer_memoria, escribir_memoria
<1>3. \A x \in Archivos : ~execute_flush(x) /\ \A n \in 0..MaxBloques[x] : ~execute_truncate(x, n)
  BY DEF execute_flush, execute_truncate
<1>4. ~flush_all /\ ~Segundo
  BY DEF flush_all, Segundo
<1>5. PICK x \in Archivos : execute_commit(x)
  BY <1>2, <1>3, <1>4 DEF Next
<1>6. x = a
  BY <1>5 DEF execute_commit
<1> QED BY <1>5, <1>6

\* COMMIT leaves in the Storage everything written to the File:Tag: the flush it does not
\* look at cannot be refused, because it comes before the COMMIT and the pages exist.
THEOREM CommitDejaTodo == ~PuedeAchicar => (Spec => CommitPersisteTodo)
<1> DEFINE A == \A a \in commiteado' \ commiteado : \A p \in Paginas :
          p[1] = a /\ Existe(p) => bloque'[p] = ultimo[p]
<1>1. ASSUME Sano, Fieles, Next PROVE A
  <2> SUFFICES ASSUME NEW a \in commiteado' \ commiteado, NEW p \in Paginas, p[1] = a
               PROVE  bloque'[p] = ultimo[p]
    OBVIOUS
  <2>1. Baja({a})
    BY <1>1, SoloCommit DEF execute_commit, FlushImplicito
  <2>2. PICK H, b, u : H = Intentadas({a}) \ Rechazadas({a}) /\ b = bloque' /\ u = tabla'
    OBVIOUS
  <2>3. Bajado(H, b, u)
    BY <1>1, <2>1, <2>2, BajaEfecto
  <2>4. Fiel(tabla, memoria, bloque, ultimo) /\ Existentes(tabla)
    BY <1>1, FielEs DEF Fieles, PresentesExisten
  <2>5. Rechazadas({a}) = {}
    BY <2>4 DEF Rechazadas, Sucias, AceptaEscribir, Existentes
  <2>6. H = Sucias(tabla, {a})
    BY <2>2, <2>5 DEF Intentadas
  <2>7. CASE EntradaDe(tabla, p) \cap Presentes(tabla) = {}
    <3>1. \A i \in H : tabla[i].pag # p
      BY <2>3, <2>7 DEF Bajado, EntradaDe, Presentes
    <3> QED BY <2>2, <2>3, <2>4, <2>7, <3>1 DEF Bajado, Fiel
  <2>8. CASE EntradaDe(tabla, p) \cap Presentes(tabla) # {}
    <3>1. PICK i \in Presentes(tabla) : tabla[i].pag = p /\ i \in DOMAIN tabla
      BY <2>8 DEF EntradaDe
    <3>2. EntradaFiel(tabla[i], memoria, bloque, ultimo)
      BY <2>4, <3>1 DEF Fiel
    <3>3. CASE tabla[i].modificado
      <4>1. i \in H
        BY <2>6, <3>1, <3>3 DEF Sucias
      <4> QED BY <2>2, <2>3, <3>1, <3>2, <4>1 DEF Bajado, EntradaFiel
    <3>4. CASE ~tabla[i].modificado
      <4>1. \A j \in H : tabla[j].pag # p
        BY <1>1, <2>6, <3>1, <3>4 DEF Sucias, Presentes, Sano, MarcosExclusivos
      <4> QED BY <2>2, <2>3, <3>1, <3>2, <3>4, <4>1 DEF Bajado, EntradaFiel
    <3> QED BY <3>3, <3>4
  <2> QED BY <2>7, <2>8
<1> HIDE DEF A
<1>2. ASSUME UNCHANGED vars PROVE [A]_vars
  BY <1>2
<1> SUFFICES ASSUME ~PuedeAchicar PROVE Spec => CommitPersisteTodo
  OBVIOUS
<1>3. Sano /\ Fieles /\ [Next]_vars => [A]_vars
  BY <1>1, <1>2
<1>4. Spec => [][A]_vars
  <2>1. Spec => [][Next]_vars
    BY DEF Spec
  <2>2. Spec => []Fieles
    BY FielesSiempre
  <2> QED BY <1>3, <2>1, <2>2, Invariante, PTL
<1> QED BY <1>4 DEF CommitPersisteTodo, A

-----------------------------------------------------------------------------
(***************************************************************************)
(* The victim.                                                             *)
(***************************************************************************)

\* LRU has exactly one victim when some page is present.
LEMMA VictimaLRU ==
    ASSUME TypeOK, Presentes(tabla) # {}
    PROVE  Cardinality(encontrar_victima_lru(tabla)) = 1
<1> DEFINE P == Presentes(tabla)
           M == {i \in P : \A j \in P : tabla[i].acceso < tabla[j].acceso
                              \/ (tabla[i].acceso = tabla[j].acceso /\ i <= j)}
<1>0. DOMAIN tabla = 1..Len(tabla) /\ Len(tabla) \in Nat /\ P \subseteq DOMAIN tabla
      /\ \A i \in DOMAIN tabla : tabla[i] \in Entrada
  BY TablaTipo DEF TypeOK
<1>1. P \subseteq 1..Len(tabla) /\ Len(tabla) \in Nat /\ \A i \in P : i \in Nat /\ tabla[i].acceso \in 0..MaxReloj
  <2>1. \A e \in Entrada : e.acceso \in 0..MaxReloj
    BY DEF Entrada
  <2> HIDE DEF P
  <2> QED BY <1>0, <2>1
<1>2. IsFiniteSet(P)
  <2>0. 1 \in Int /\ Len(tabla) \in Int
    BY <1>1
  <2> HIDE DEF P
  <2>1. IsFiniteSet(1..Len(tabla))
    BY ONLY <2>0, FS_Interval
  <2> QED BY <1>1, <2>1, FS_Subset
<1>3. PICK i0 \in P : \A j \in P : tabla[i0].acceso <= tabla[j].acceso
  <2> DEFINE T == {tabla[i].acceso : i \in P}
  <2>1. T \subseteq 0..MaxReloj /\ T # {} /\ MaxReloj \in Nat
    BY <1>1, MemoriaSupuesto
  <2>2. T \subseteq Nat /\ T # {} /\ IsFiniteSet(T)
    <3> HIDE DEF T
    <3>1. IsFiniteSet(0..MaxReloj) /\ 0..MaxReloj \subseteq Nat
      BY <2>1, FS_Interval
    <3> QED BY <2>1, <3>1, FS_Subset
  <2>3. PICK x \in T : \A y \in T : x <= y
    <3> HIDE DEF T
    <3> QED BY <2>2, MinimoExiste
  <2> QED BY <2>3
<1>4. PICK k \in P : tabla[k].acceso = tabla[i0].acceso
                     /\ \A j \in P : tabla[j].acceso = tabla[i0].acceso => k <= j
  <2> DEFINE J == {j \in P : tabla[j].acceso = tabla[i0].acceso}
  <2>1. J \subseteq Nat /\ J # {} /\ IsFiniteSet(J)
    BY <1>1, <1>2, FS_Subset
  <2>2. PICK x \in J : \A y \in J : x <= y
    <3> HIDE DEF J
    <3> QED BY <2>1, MinimoExiste
  <2> QED BY <2>2
<1>5. M = {k}
  <2>1. k \in M
    BY <1>1, <1>3, <1>4
  <2>2. \A i \in M : i = k
    BY <1>1, <1>3, <1>4
  <2> QED BY <2>1, <2>2
<1>6. encontrar_victima_lru(tabla) = {[v |-> i, t |-> tabla] : i \in M}
  BY DEF encontrar_victima_lru
<1> HIDE DEF M
<1>7. encontrar_victima_lru(tabla) = {[v |-> k, t |-> tabla]}
  BY <1>5, <1>6
<1> QED BY <1>7, FS_Singleton

\* CLOCK-M's victim is the first, from the hand, of the best class there is.
LEMMA VictimaClockM ==
    ASSUME TypeOK, Presentes(tabla) # {}
    PROVE  {x.v : x \in encontrar_victima_clock_m(tabla)}
             = PrimeroDesde(tabla, {i \in Presentes(tabla) :
                  \A j \in Presentes(tabla) : Clase(tabla[i]) <= Clase(tabla[j])})
<1> DEFINE P == Presentes(tabla)
           Mejores == {i \in P : \A j \in P : Clase(tabla[i]) <= Clase(tabla[j])}
           Libres(m) == {i \in P : ~tabla[i].uso /\ tabla[i].modificado = m}
           Limpias == {i \in P : ~tabla[i].modificado}
           Antes(v) == {i \in P : Vuelta(tabla, i) < Vuelta(tabla, v)}
<1>1. \A i \in P : tabla[i].uso \in BOOLEAN /\ tabla[i].modificado \in BOOLEAN
  BY TablaTipo DEF TypeOK, Presentes, Entrada
<1>2. \A i \in P : /\ (~tabla[i].uso /\ ~tabla[i].modificado => Clase(tabla[i]) = 0)
                   /\ (~tabla[i].uso /\ tabla[i].modificado => Clase(tabla[i]) = 1)
                   /\ (tabla[i].uso /\ ~tabla[i].modificado => Clase(tabla[i]) = 2)
                   /\ (tabla[i].uso /\ tabla[i].modificado => Clase(tabla[i]) = 3)
  BY <1>1 DEF Clase
<1>3. \A i \in P : /\ (i \in Libres(FALSE) <=> ~tabla[i].uso /\ ~tabla[i].modificado)
                   /\ (i \in Libres(TRUE) <=> ~tabla[i].uso /\ tabla[i].modificado)
  BY <1>1
<1>4. Libres(FALSE) \subseteq P /\ Libres(TRUE) \subseteq P /\ Limpias \subseteq P /\ P # {}
      /\ \A i \in P : i \in Limpias <=> ~tabla[i].modificado
  OBVIOUS
<1>5. encontrar_victima_clock_m(tabla) =
        IF Libres(FALSE) # {} THEN {[v |-> i, t |-> tabla] : i \in PrimeroDesde(tabla, Libres(FALSE))}
        ELSE IF Libres(TRUE) # {}
        THEN {[v |-> i, t |-> SinUso(tabla, Antes(i))] : i \in PrimeroDesde(tabla, Libres(TRUE))}
        ELSE {[v |-> i, t |-> SinUso(tabla, P)] :
                 i \in PrimeroDesde(tabla, IF Limpias # {} THEN Limpias ELSE P)}
  BY DEF encontrar_victima_clock_m, SegundaVuelta
<1>6. PICK D : D = IF Libres(FALSE) # {} THEN Libres(FALSE)
                   ELSE IF Libres(TRUE) # {} THEN Libres(TRUE)
                   ELSE IF Limpias # {} THEN Limpias ELSE P
  OBVIOUS
<1>7. \A i : i \in Mejores <=> i \in P /\ \A j \in P : Clase(tabla[i]) <= Clase(tabla[j])
  OBVIOUS
<1>8. PICK L0, L1 : L0 = Libres(FALSE) /\ L1 = Libres(TRUE)
  OBVIOUS
<1> HIDE DEF Libres, Limpias, Antes, P, Mejores
<1>9. {x.v : x \in encontrar_victima_clock_m(tabla)} = PrimeroDesde(tabla, D)
  <2>1. PICK V : V = encontrar_victima_clock_m(tabla)
    OBVIOUS
  <2>2. \A x \in V : x.v \in PrimeroDesde(tabla, D)
    <3>1. CASE Libres(FALSE) # {}
      <4>1. V = {[v |-> i, t |-> tabla] : i \in PrimeroDesde(tabla, D)}
        BY <1>5, <1>6, <2>1, <3>1
      <4> QED BY <4>1
    <3>2. CASE Libres(FALSE) = {} /\ Libres(TRUE) # {}
      <4>1. V = {[v |-> i, t |-> SinUso(tabla, Antes(i))] : i \in PrimeroDesde(tabla, D)}
        BY <1>5, <1>6, <2>1, <3>2
      <4> QED BY <4>1
    <3>3. CASE Libres(FALSE) = {} /\ Libres(TRUE) = {}
      <4>1. V = {[v |-> i, t |-> SinUso(tabla, P)] : i \in PrimeroDesde(tabla, D)}
        BY <1>5, <1>6, <2>1, <3>3
      <4> QED BY <4>1
    <3> QED BY <3>1, <3>2, <3>3
  <2>3. \A i \in PrimeroDesde(tabla, D) : \E x \in V : x.v = i
    <3> SUFFICES ASSUME NEW i \in PrimeroDesde(tabla, D) PROVE \E x \in V : x.v = i
      OBVIOUS
    <3>1. \E r : [v |-> i, t |-> r] \in V
      BY <1>5, <1>6, <2>1
    <3> QED BY <3>1
  <2>4. {x.v : x \in V} = PrimeroDesde(tabla, D)
    BY <2>2, <2>3
  <2> QED BY <2>1, <2>4
<1>10. Mejores = D
  <2>0. L0 \subseteq P /\ L1 \subseteq P /\ Limpias \subseteq P /\ P # {} /\ Mejores \subseteq P
        /\ D \subseteq P
    BY <1>4, <1>6, <1>7, <1>8
  <2>1. \A i \in P : /\ (i \in L0 <=> Clase(tabla[i]) = 0) /\ (i \in L1 <=> Clase(tabla[i]) = 1)
                     /\ (i \in L0 \/ i \in L1 => (i \in Limpias <=> Clase(tabla[i]) = 0))
                     /\ (i \notin L0 /\ i \notin L1 => (i \in Limpias <=> Clase(tabla[i]) = 2))
                     /\ Clase(tabla[i]) \in 0..3
    <3> SUFFICES ASSUME NEW i \in P
                 PROVE  /\ (i \in L0 <=> Clase(tabla[i]) = 0) /\ (i \in L1 <=> Clase(tabla[i]) = 1)
                        /\ (i \in L0 \/ i \in L1 => (i \in Limpias <=> Clase(tabla[i]) = 0))
                        /\ (i \notin L0 /\ i \notin L1 => (i \in Limpias <=> Clase(tabla[i]) = 2))
                        /\ Clase(tabla[i]) \in 0..3
      OBVIOUS
    <3>1. /\ (i \in L0 <=> ~tabla[i].uso /\ ~tabla[i].modificado)
          /\ (i \in L1 <=> ~tabla[i].uso /\ tabla[i].modificado)
          /\ (i \in Limpias <=> ~tabla[i].modificado)
      BY <1>3, <1>4, <1>8
    <3>2. /\ (~tabla[i].uso /\ ~tabla[i].modificado => Clase(tabla[i]) = 0)
          /\ (~tabla[i].uso /\ tabla[i].modificado => Clase(tabla[i]) = 1)
          /\ (tabla[i].uso /\ ~tabla[i].modificado => Clase(tabla[i]) = 2)
          /\ (tabla[i].uso /\ tabla[i].modificado => Clase(tabla[i]) = 3)
      BY <1>2
    <3> QED BY <3>1, <3>2
  <2>2. \A i \in P : i \in Mejores <=> \A j \in P : Clase(tabla[i]) <= Clase(tabla[j])
    BY <1>7
  <2>3. SUFFICES ASSUME NEW i \in P PROVE i \in Mejores <=> i \in D
    BY <2>0
  <2>4. CASE L0 # {}
    <3>1. PICK k \in L0 : Clase(tabla[k]) = 0 /\ k \in P
      BY <2>0, <2>1, <2>4
    <3>2. D = L0
      BY <1>6, <1>8, <2>4
    <3>3. CASE i \in L0
      BY <2>1, <2>2, <3>2, <3>3
    <3>4. CASE i \notin L0
      <4>1. ~(Clase(tabla[i]) <= Clase(tabla[k]))
        BY <2>1, <3>1, <3>4
      <4> QED BY <2>2, <3>1, <3>2, <3>4, <4>1
    <3> QED BY <3>3, <3>4
  <2>5. CASE L0 = {} /\ L1 # {}
    <3>1. PICK k \in L1 : Clase(tabla[k]) = 1 /\ k \in P
      BY <2>0, <2>1, <2>5
    <3>2. D = L1
      BY <1>6, <1>8, <2>5
    <3>3. \A j \in P : Clase(tabla[j]) \in 1..3
      BY <2>1, <2>5
    <3>4. CASE i \in L1
      BY <2>1, <2>2, <3>2, <3>3, <3>4
    <3>5. CASE i \notin L1
      <4>1. ~(Clase(tabla[i]) <= Clase(tabla[k]))
        BY <2>1, <3>1, <3>3, <3>5
      <4> QED BY <2>2, <3>1, <3>2, <3>5, <4>1
    <3> QED BY <3>4, <3>5
  <2>6. CASE L0 = {} /\ L1 = {} /\ Limpias # {}
    <3>1. PICK k \in Limpias : Clase(tabla[k]) = 2 /\ k \in P
      BY <2>0, <2>1, <2>6
    <3>2. D = Limpias
      BY <1>6, <1>8, <2>6
    <3>3. \A j \in P : Clase(tabla[j]) \in 2..3
      BY <2>1, <2>6
    <3>4. CASE i \in Limpias
      BY <2>1, <2>2, <2>6, <3>2, <3>3, <3>4
    <3>5. CASE i \notin Limpias
      <4>1. ~(Clase(tabla[i]) <= Clase(tabla[k]))
        BY <2>1, <2>6, <3>1, <3>3, <3>5
      <4> QED BY <2>2, <3>1, <3>2, <3>5, <4>1
    <3> QED BY <3>4, <3>5
  <2>7. CASE L0 = {} /\ L1 = {} /\ Limpias = {}
    <3>1. D = P
      BY <1>6, <1>8, <2>7
    <3>2. \A j \in P : Clase(tabla[j]) = 3
      BY <2>1, <2>7
    <3> QED BY <2>2, <3>1, <3>2
  <2> QED BY <2>4, <2>5, <2>6, <2>7
<1> QED BY <1>9, <1>10 DEF Mejores, P

\* Whatever the table, LRU finds one victim and CLOCK-M's is of the best class there is.
THEOREM SiempreLaMejorVictima == Spec => []VictimaDeLaMejorClase
<1>1. TypeOK => VictimaDeLaMejorClase
  BY VictimaLRU, VictimaClockM DEF VictimaDeLaMejorClase
<1> QED BY <1>1, MemoriaTipos, PTL
=============================================================================
