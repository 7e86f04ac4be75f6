-------------------------- MODULE StoragePruebas --------------------------
(***************************************************************************)
(* Proofs about the Storage, for any number of threads, File:Tags and      *)
(* blocks.  First, of Storage: while TAG copies COMMITED File:Tags only    *)
(* and DELETE leaves those alone, no block in use is freed, deduplication  *)
(* is exact, and the operations are those of Almacen.  Then, of Montaje,   *)
(* for any kills and failures: until an operation that gives blocks up is  *)
(* left half done, no File:Tag is on a block that is free or about to be   *)
(* freed, and no other File:Tag is touched.                                *)
(***************************************************************************)
EXTENDS Montaje, SecuenciasPruebas

-----------------------------------------------------------------------------
(***************************************************************************)
(* The invariant.  First, the locks: an operation has that of its file     *)
(* from its first step to its last, and its File:Tag is the one it needs.  *)
(***************************************************************************)

\* Where a thread is, the visits to liberarBloqueSiEsNecesario aside.
Fase(h) == IF h.paso = "libera" THEN h.sigue ELSE h.paso

Escribiendo == {"reserva", "copia", "enlaza", "sobrescribe"}

\* The thread has a list of blocks of its own to go through.
ConLista(h) == Fase(h) \in {"achica", "borra", "hash", "indice"}

Commiteando(h) == Fase(h) \in {"hash", "indice"}

SinCandado(h) == h.paso \in {"libre", "lee"}

Cerrojos ==
    /\ \A t \in Hilos : ~SinCandado(hilo[t]) => candado[Archivo(hilo[t].e)] = t
    /\ \A a \in Archivos : candado[a] # NULL =>
          ~SinCandado(hilo[candado[a]]) /\ Archivo(hilo[candado[a]].e) = a

\* What each thread is in the middle of.
EnPaso(m, h) ==
    /\ h.paso = "libera" => h.sigue \in {"achica", "borra", "hash"}
    /\ h.paso # "libera" => h.sigue = "libre"
    /\ Fase(h) \in Escribiendo => h.i \in DOMAIN m[h.e].bloques /\ h.v \in Valores
    /\ Fase(h) = "achica" => h.i <= Len(h.lista)
    /\ Fase(h) = "hash" => h.i \in 1..(Len(h.lista) + 1)
    /\ Fase(h) = "indice" => h.i \in DOMAIN h.lista /\ h.v \in Valores
    /\ Fase(h) = "borra" => m[h.e].estado = "NO_EXISTE"
    /\ ~SinCandado(h) /\ Fase(h) # "borra" => m[h.e].estado = "WORK_IN_PROGRESS"

\* The operation in course on e, if any, has the blocks of e in its list.
ListaEn(m, c, h, e) ==
    LET t == c[Archivo(e)]
    IN  IF t # NULL /\ h[t].e = e /\ ConLista(h[t]) THEN h[t].lista ELSE m[e].bloques

ListaDe(e) == ListaEn(meta, candado, hilo, e)

Borrando(c, h, e) ==
    LET t == c[Archivo(e)] IN t # NULL /\ h[t].e = e /\ Fase(h[t]) = "borra"

\* The logical blocks z are as many as the list s says, and links to what it says or
\* copies of it.
Enlazada(m, z, s, borrando) ==
    /\ Len(s) <= MaxTam
    /\ borrando => z = << >>
    /\ ~borrando => Len(z) = Len(s)
    /\ \A i \in DOMAIN z : z[i] \in {COPIA, s[i]}
    /\ m.estado = "NO_EXISTE" => m.bloques = << >>

Enlazados(e) == Enlazada(meta[e], enlace[e], ListaDe(e), Borrando(candado, hilo, e))

Estructura ==
    /\ TypeOK /\ Cerrojos
    /\ \A t \in Hilos : EnPaso(meta, hilo[t])
    /\ \A e \in Etiquetas : Enlazados(e)

-----------------------------------------------------------------------------
(***************************************************************************)
(* Then, who uses each block.  A place <<e, i>> is settled once COMMIT has *)
(* gone past it; a block is anchored when a settled place is a link to it, *)
(* and is never freed or written again.  Any other block has one user at   *)
(* most: a place, a WRITE that has reserved it or a thread about to free   *)
(* it.                                                                     *)
(***************************************************************************)

FijaEn(m, c, h, e, i) ==
    \/ m[e].estado = "COMMITED"
    \/ LET t == c[Archivo(e)] IN t # NULL /\ h[t].e = e /\ Commiteando(h[t]) /\ i < h[t].i

Lista == [e \in Etiquetas |-> ListaDe(e)]
Fijas == {x \in Etiquetas \X (1..MaxTam) :
             x[2] \in DOMAIN ListaDe(x[1]) /\ FijaEn(meta, candado, hilo, x[1], x[2])}

\* The blocks that a thread has reserved or is about to free.
Apartado(h) == h.paso \in {"copia", "enlaza", "libera"}
Apartados == {<<t, hilo[t].b>> : t \in {t \in Hilos : Apartado(hilo[t])}}

Anclado(en, F, b) == \E x \in F : x[2] \in DOMAIN en[x[1]] /\ en[x[1]][x[2]] = b

\* The place is settled or has no link of its own.
Ancladas(L, en, F) ==
    \A e \in Etiquetas : \A i \in DOMAIN en[e] :
        en[e][i] = COPIA \/ <<e, i>> \in F => Anclado(en, F, L[e][i])

UnSoloLugar(L, en, F) ==
    \A e, d \in Etiquetas : \A i \in DOMAIN L[e], j \in DOMAIN L[d] :
        L[e][i] = L[d][j] => (e = d /\ i = j) \/ Anclado(en, F, L[e][i])

Ocupados(L, bm) == \A e \in Etiquetas : \A i \in DOMAIN L[e] : L[e][i] \in bm

SinLugar(L, b) == \A e \in Etiquetas : \A i \in DOMAIN L[e] : L[e][i] # b

DeUnHilo(L, bm, P) ==
    /\ \A x \in P : x[2] \in bm /\ SinLugar(L, x[2])
    /\ \A x, y \in P : x[2] = y[2] => x = y

Bloqueo(L, en, F, bm, P) ==
    /\ Ancladas(L, en, F) /\ UnSoloLugar(L, en, F)
    /\ Ocupados(L, bm) /\ DeUnHilo(L, bm, P)

\* What the index names is anchored and has the contents it says.
IndiceFiel == \A v \in Valores : indice[v] # NULL =>
                 Anclado(enlace, Fijas, indice[v]) /\ contenido[indice[v]] = v

\* BASE is on block 0, always, so that block 0 is always zeros.
EnBase ==
    /\ meta[BASE] = [bloques |-> <<0>>, estado |-> "COMMITED"] /\ enlace[BASE] = <<0>>
    /\ contenido[0] = 0

IInv ==
    /\ Estructura
    /\ Bloqueo(Lista, enlace, Fijas, bitmap, Apartados)
    /\ EnBase /\ IndiceFiel
    /\ \A t \in Hilos : hilo[t].paso # "sobrescribe"

\* And what is read and compared.
Leido(cont, en, F, h) ==
    /\ h.paso = "indice" => cont[h.lista[h.i]] = h.v
    /\ h.paso = "enlaza" => cont[h.b] = h.v
    /\ h.paso = "lee" /\ h.v # NULL => Anclado(en, F, h.b) /\ cont[h.b] = h.v

Indexado(b) == indice[contenido[b]] = b

Contenidos ==
    /\ \A x \in Fijas : Indexado(Lista[x[1]][x[2]])
    /\ \A t \in Hilos : Leido(contenido, enlace, Fijas, hilo[t])

-----------------------------------------------------------------------------
(***************************************************************************)
(* Lists of blocks.                                                        *)
(***************************************************************************)

LEMMA ListaTipo ==
    ASSUME NEW S, NEW s \in Seq(S)
    PROVE  /\ Len(s) \in Nat /\ DOMAIN s = 1..Len(s)
           /\ \A i \in DOMAIN s : s[i] \in S /\ i \in Nat \ {0} /\ i <= Len(s)
           /\ (DOMAIN s = {} <=> s = << >>) /\ (Len(s) = 0 <=> s = << >>)
<1>1. Len(s) \in Nat /\ DOMAIN s = 1..Len(s) /\ s \in [1..Len(s) -> S]
  BY LenProperties
<1>2. \A i \in DOMAIN s : s[i] \in S /\ i \in Nat \ {0} /\ i <= Len(s)
  BY <1>1
<1>3. s # << >> => Len(s) \in Nat \ {0}
  BY EmptySeq
<1>4. s = << >> => Len(s) = 0
  BY EmptySeq
<1> QED BY <1>1, <1>2, <1>3, <1>4

LEMMA FrontTipo ==
    ASSUME NEW S, NEW s \in Seq(S), Len(s) > 0
    PROVE  /\ Front(s) \in Seq(S) /\ Len(Front(s)) = Len(s) - 1 /\ Last(s) = s[Len(s)]
           /\ Last(s) \in S /\ Len(s) \in DOMAIN s
           /\ \A i \in DOMAIN Front(s) : i \in DOMAIN s /\ i < Len(s) /\ Front(s)[i] = s[i]
<1>1. Len(s) \in Nat /\ DOMAIN s = 1..Len(s) /\ \A i \in 1..Len(s) : s[i] \in S
  BY ListaTipo
<1>2. /\ Front(s) \in Seq(S) /\ Len(Front(s)) = Len(s) - 1
      /\ \A i \in 1..(Len(s) - 1) : Front(s)[i] = s[i]
  <2>1. Front(s) = SubSeq(s, 1, Len(s) - 1) /\ 1 \in Int /\ Len(s) - 1 \in Int
        /\ \A i \in 1..(Len(s) - 1) : s[i] \in S
    BY <1>1 DEF Front
  <2>2. /\ SubSeq(s, 1, Len(s) - 1) \in Seq(S)
        /\ Len(SubSeq(s, 1, Len(s) - 1)) = IF 1 <= Len(s) - 1 THEN Len(s) - 1 - 1 + 1 ELSE 0
        /\ \A i \in 1..(Len(s) - 1 - 1 + 1) : SubSeq(s, 1, Len(s) - 1)[i] = s[1 + i - 1]
    BY <2>1, SubSeqProperties
  <2> QED BY <1>1, <2>1, <2>2
<1>3. DOMAIN Front(s) = 1..(Len(s) - 1)
  BY <1>2, LenProperties
<1> QED BY <1>1, <1>2, <1>3 DEF Last

LEMMA TailTipo ==
    ASSUME NEW S, NEW s \in Seq(S), s # << >>
    PROVE  /\ Tail(s) \in Seq(S) /\ Len(Tail(s)) = Len(s) - 1 /\ Head(s) \in S
           /\ Head(s) = s[1] /\ 1 \in DOMAIN s
           /\ \A i \in DOMAIN Tail(s) : i + 1 \in DOMAIN s /\ i + 1 # 1 /\ Tail(s)[i] = s[i + 1]
<1>1. Len(s) \in Nat \ {0} /\ DOMAIN s = 1..Len(s)
  BY ListaTipo
<1>2. /\ Head(s) \in S /\ Tail(s) \in Seq(S) /\ Len(Tail(s)) = Len(s) - 1
      /\ \A i \in 1..Len(Tail(s)) : Tail(s)[i] = s[i + 1]
  BY HeadTailProperties
<1>3. DOMAIN Tail(s) = 1..(Len(s) - 1)
  BY <1>2, LenProperties
<1>4. Head(s) = s[1]
  OBVIOUS
<1> QED BY <1>1, <1>2, <1>3, <1>4

LEMMA PrefijoTipo ==
    ASSUME NEW S, NEW s \in Seq(S), NEW n \in Nat, n <= Len(s)
    PROVE  /\ SubSeq(s, 1, n) \in Seq(S) /\ Len(SubSeq(s, 1, n)) = n
           /\ DOMAIN SubSeq(s, 1, n) = 1..n
           /\ \A i \in DOMAIN SubSeq(s, 1, n) : i \in DOMAIN s /\ SubSeq(s, 1, n)[i] = s[i]
<1>1. Len(s) \in Nat /\ DOMAIN s = 1..Len(s) /\ \A i \in 1..Len(s) : s[i] \in S
  BY ListaTipo
<1>2. \A i \in 1..n : s[i] \in S /\ i \in DOMAIN s
  BY <1>1
<1>3. 1 \in Int /\ n \in Int
  OBVIOUS
<1>4. /\ SubSeq(s, 1, n) \in Seq(S)
      /\ Len(SubSeq(s, 1, n)) = IF 1 <= n THEN n - 1 + 1 ELSE 0
      /\ \A i \in 1..(n - 1 + 1) : SubSeq(s, 1, n)[i] = s[1 + i - 1]
  BY <1>2, <1>3, SubSeqProperties
<1>5. Len(SubSeq(s, 1, n)) = n /\ \A i \in 1..n : SubSeq(s, 1, n)[i] = s[i]
  BY <1>4
<1>6. DOMAIN SubSeq(s, 1, n) = 1..n
  BY <1>4, <1>5, LenProperties
<1> QED BY <1>2, <1>4, <1>5, <1>6

LEMMA CambiaUno ==
    ASSUME NEW S, NEW s \in Seq(S), NEW i \in DOMAIN s, NEW x \in S, NEW z, z = [s EXCEPT ![i] = x]
    PROVE  /\ z \in Seq(S) /\ Len(z) = Len(s) /\ DOMAIN z = DOMAIN s
           /\ z[i] = x /\ \A j \in DOMAIN s \ {i} : z[j] = s[j]
<1>1. i \in 1..Len(s) /\ DOMAIN s = 1..Len(s)
  BY LenProperties
<1>2. z \in Seq(S) /\ Len(z) = Len(s)
  BY <1>1, ExceptSeq
<1> QED BY <1>1, <1>2

\* TRUNCATE: d new blocks at the end, all of them x.
LEMMA AlargaTipo ==
    ASSUME NEW S, NEW s \in Seq(S), NEW d \in Nat, NEW x \in S,
           NEW y, y = [k \in 1..d |-> x]
    PROVE  /\ s \o y \in Seq(S) /\ Len(s \o y) = Len(s) + d
           /\ \A i \in DOMAIN (s \o y) : (s \o y)[i] = IF i \in DOMAIN s THEN s[i] ELSE x
<1>1. y \in Seq(S) /\ Len(y) = d
  <2>1. y \in [1..d -> S]
    OBVIOUS
  <2>2. y \in Seq(S)
    BY <2>1, SeqDef
  <2> QED BY <2>1, <2>2, LenProperties
<1>2. \A k \in 1..d : y[k] = x
  OBVIOUS
<1>3. DOMAIN s = 1..Len(s) /\ Len(s) \in Nat
  BY LenProperties
<1>4. /\ s \o y \in Seq(S) /\ Len(s \o y) = Len(s) + d
      /\ \A i \in 1..(Len(s) + d) : (s \o y)[i] = IF i <= Len(s) THEN s[i] ELSE y[i - Len(s)]
  BY <1>1, ConcatProperties
<1>5. DOMAIN (s \o y) = 1..(Len(s) + d)
  BY <1>4, LenProperties
<1>6. \A i \in 1..(Len(s) + d) : (s \o y)[i] = IF i \in DOMAIN s THEN s[i] ELSE x
  BY <1>2, <1>3, <1>4
<1> QED BY <1>4, <1>5, <1>6

-----------------------------------------------------------------------------
(***************************************************************************)
(* The steps of a thread, by what they do with the lock of their file: it  *)
(* is taken, kept, released, or there is none.  The thread is left as r.   *)
(***************************************************************************)

Registro == [paso : Pasos, e : Etiquetas, i : Nat, v : Valores \cup {NULL},
             b : Bloques, lista : Seq(Bloques), sigue : Pasos]

Toma(t, e, r) ==
    /\ SinCandado(hilo[t]) /\ ~SinCandado(r) /\ r.e = e
    /\ candado[Archivo(e)] = NULL /\ candado' = [candado EXCEPT ![Archivo(e)] = t]

Dentro(t, e, r) ==
    /\ ~SinCandado(hilo[t]) /\ ~SinCandado(r) /\ hilo[t].e = e /\ r.e = e
    /\ candado' = candado

Suelta(t, e, r) ==
    /\ ~SinCandado(hilo[t]) /\ SinCandado(r) /\ hilo[t].e = e
    /\ candado' = [candado EXCEPT ![Archivo(e)] = NULL]

Fuera(t, e, r) ==
    /\ SinCandado(hilo[t]) /\ SinCandado(r) /\ candado[Archivo(e)] = NULL
    /\ candado' = candado

Paso(t, e, r) ==
    /\ hilo' = [hilo EXCEPT ![t] = r]
    /\ Toma(t, e, r) \/ Dentro(t, e, r) \/ Suelta(t, e, r) \/ Fuera(t, e, r)

LEMMA ArchivoTipo == \A e \in Etiquetas : Archivo(e) \in Archivos
BY StorageSupuesto DEF Archivo

LEMMA HiloTipo ==
    ASSUME TypeOK, NEW t \in Hilos
    PROVE  /\ hilo[t] \in Registro
           /\ hilo[t].paso \in Pasos /\ hilo[t].e \in Etiquetas /\ hilo[t].i \in Nat
           /\ hilo[t].v \in Valores \cup {NULL} /\ hilo[t].b \in Bloques
           /\ hilo[t].lista \in Seq(Bloques) /\ hilo[t].sigue \in Pasos
<1>1. hilo[t] \in Registro
  BY DEF TypeOK, Registro
<1> QED BY <1>1 DEF Registro

LEMMA LibreTipo == Libre \in Registro /\ Libre.paso = "libre" /\ Libre.sigue = "libre"
                   /\ Libre.v = NULL /\ Libre.b = 0 /\ Libre.i = 0
BY EmptySeq, StorageSupuesto DEF Libre, Registro, Pasos

LEMMA PasoHilo ==
    ASSUME TypeOK, NEW t \in Hilos, NEW e, NEW r \in Registro, Paso(t, e, r)
    PROVE  /\ hilo' \in [Hilos -> Registro] /\ hilo'[t] = r
           /\ \A u \in Hilos \ {t} : hilo'[u] = hilo[u]
BY DEF TypeOK, Paso, Registro

\* The lock of each file, after the step.
LEMMA PasoCandado ==
    ASSUME TypeOK, NEW t \in Hilos, NEW e \in Etiquetas, NEW r, Paso(t, e, r)
    PROVE  /\ candado' \in [Archivos -> Hilos \cup {NULL}]
           /\ \A a \in Archivos \ {Archivo(e)} : candado'[a] = candado[a]
           /\ Toma(t, e, r) => candado'[Archivo(e)] = t
           /\ Dentro(t, e, r) \/ Fuera(t, e, r) => candado'[Archivo(e)] = candado[Archivo(e)]
           /\ Suelta(t, e, r) => candado'[Archivo(e)] = NULL
<1>1. Archivo(e) \in Archivos /\ candado \in [Archivos -> Hilos \cup {NULL}]
  BY ArchivoTipo DEF TypeOK
<1> QED BY <1>1 DEF Paso, Toma, Dentro, Suelta, Fuera

LEMMA PasoCerrojos ==
    ASSUME TypeOK, Cerrojos, NEW t \in Hilos, NEW e \in Etiquetas, NEW r \in Registro, Paso(t, e, r)
    PROVE  Cerrojos'
<1>0. /\ hilo'[t] = r /\ \A u \in Hilos \ {t} : hilo'[u] = hilo[u]
      /\ NULL \notin Hilos /\ Archivo(e) \in Archivos
      /\ \A a \in Archivos : candado[a] \in Hilos \cup {NULL}
      /\ \A u \in Hilos : Archivo(hilo[u].e) \in Archivos
  BY PasoHilo, StorageSupuesto, ArchivoTipo, HiloTipo DEF TypeOK
<1>1. /\ \A a \in Archivos \ {Archivo(e)} : candado'[a] = candado[a]
      /\ Toma(t, e, r) => candado'[Archivo(e)] = t
      /\ Dentro(t, e, r) \/ Fuera(t, e, r) => candado'[Archivo(e)] = candado[Archivo(e)]
      /\ Suelta(t, e, r) => candado'[Archivo(e)] = NULL
  BY PasoCandado
<1>2. /\ \A u \in Hilos : ~SinCandado(hilo[u]) => candado[Archivo(hilo[u].e)] = u
      /\ \A a \in Archivos : candado[a] # NULL =>
            ~SinCandado(hilo[candado[a]]) /\ Archivo(hilo[candado[a]].e) = a
  BY DEF Cerrojos
<1>3. CASE Toma(t, e, r)
  BY <1>0, <1>1, <1>2, <1>3 DEF Toma, Cerrojos
<1>4. CASE Dentro(t, e, r)
  BY <1>0, <1>1, <1>2, <1>4 DEF Dentro, Cerrojos
<1>5. CASE Suelta(t, e, r)
  BY <1>0, <1>1, <1>2, <1>5 DEF Suelta, Cerrojos
<1>6. CASE Fuera(t, e, r)
  BY <1>0, <1>1, <1>2, <1>6 DEF Fuera, Cerrojos
<1> QED BY <1>3, <1>4, <1>5, <1>6 DEF Paso

\* Whoever operates on another File:Tag goes on operating on it, and is not t.
LEMMA OtroOperador ==
    ASSUME TypeOK, Cerrojos, NEW t \in Hilos, NEW e \in Etiquetas, NEW r \in Registro, Paso(t, e, r),
           NEW d \in Etiquetas \ {e}
    PROVE  \/ /\ candado[Archivo(d)] # NULL /\ hilo[candado[Archivo(d)]].e = d
              /\ candado'[Archivo(d)] = candado[Archivo(d)]
              /\ hilo'[candado[Archivo(d)]] = hilo[candado[Archivo(d)]]
           \/ /\ ~(candado[Archivo(d)] # NULL /\ hilo[candado[Archivo(d)]].e = d)
              /\ ~(candado'[Archivo(d)] # NULL /\ hilo'[candado'[Archivo(d)]].e = d)
<1>0. /\ hilo'[t] = r /\ \A u \in Hilos \ {t} : hilo'[u] = hilo[u]
      /\ NULL \notin Hilos /\ Archivo(e) \in Archivos /\ Archivo(d) \in Archivos
      /\ \A a \in Archivos : candado[a] \in Hilos \cup {NULL}
  BY PasoHilo, StorageSupuesto, ArchivoTipo DEF TypeOK
<1>1. /\ \A a \in Archivos \ {Archivo(e)} : candado'[a] = candado[a]
      /\ Toma(t, e, r) => candado'[Archivo(e)] = t
      /\ Dentro(t, e, r) \/ Fuera(t, e, r) => candado'[Archivo(e)] = candado[Archivo(e)]
      /\ Suelta(t, e, r) => candado'[Archivo(e)] = NULL
  BY PasoCandado
<1>2. /\ \A u \in Hilos : ~SinCandado(hilo[u]) => candado[Archivo(hilo[u].e)] = u
      /\ \A a \in Archivos : candado[a] # NULL =>
            ~SinCandado(hilo[candado[a]]) /\ Archivo(hilo[candado[a]].e) = a
  BY DEF Cerrojos
<1>3. CASE Toma(t, e, r)
  BY <1>0, <1>1, <1>2, <1>3 DEF Toma
<1>4. CASE Dentro(t, e, r)
  BY <1>0, <1>1, <1>2, <1>4 DEF Dentro
<1>5. CASE Suelta(t, e, r)
  BY <1>0, <1>1, <1>2, <1>5 DEF Suelta
<1>6. CASE Fuera(t, e, r)
  BY <1>0, <1>1, <1>2, <1>6 DEF Fuera
<1> QED BY <1>3, <1>4, <1>5, <1>6 DEF Paso

\* So nothing of the other File:Tags changes.
LEMMA Ajenas ==
    ASSUME TypeOK, Cerrojos, NEW t \in Hilos, NEW e \in Etiquetas, NEW r \in Registro, Paso(t, e, r),
           NEW d \in Etiquetas \ {e}, meta'[d] = meta[d]
    PROVE  /\ ListaDe(d)' = ListaDe(d)
           /\ Borrando(candado', hilo', d) <=> Borrando(candado, hilo, d)
           /\ \A i : FijaEn(meta', candado', hilo', d, i) <=> FijaEn(meta, candado, hilo, d, i)
<1>1. CASE /\ candado[Archivo(d)] # NULL /\ hilo[candado[Archivo(d)]].e = d
           /\ candado'[Archivo(d)] = candado[Archivo(d)]
           /\ hilo'[candado[Archivo(d)]] = hilo[candado[Archivo(d)]]
  BY <1>1 DEF ListaDe, ListaEn, Borrando, FijaEn
<1>2. CASE /\ ~(candado[Archivo(d)] # NULL /\ hilo[candado[Archivo(d)]].e = d)
           /\ ~(candado'[Archivo(d)] # NULL /\ hilo'[candado'[Archivo(d)]].e = d)
  BY <1>2 DEF ListaDe, ListaEn, Borrando, FijaEn
<1> QED BY <1>1, <1>2, OtroOperador

\* And its own, before and after.
LEMMA PropiaAntes ==
    ASSUME TypeOK, Cerrojos, NEW t \in Hilos, NEW e \in Etiquetas, NEW r \in Registro, Paso(t, e, r)
    PROVE  /\ Toma(t, e, r) \/ Fuera(t, e, r) =>
                 /\ ListaDe(e) = meta[e].bloques /\ ~Borrando(candado, hilo, e)
                 /\ \A i : FijaEn(meta, candado, hilo, e, i) <=> meta[e].estado = "COMMITED"
           /\ Dentro(t, e, r) \/ Suelta(t, e, r) =>
                 /\ ListaDe(e) = IF ConLista(hilo[t]) THEN hilo[t].lista ELSE meta[e].bloques
                 /\ Borrando(candado, hilo, e) <=> Fase(hilo[t]) = "borra"
                 /\ \A i : FijaEn(meta, candado, hilo, e, i) <=>
                       meta[e].estado = "COMMITED" \/ (Commiteando(hilo[t]) /\ i < hilo[t].i)
<1>0. NULL \notin Hilos
  BY StorageSupuesto
<1>1. Toma(t, e, r) \/ Fuera(t, e, r) => candado[Archivo(e)] = NULL
  BY DEF Toma, Fuera
<1>2. Dentro(t, e, r) \/ Suelta(t, e, r) => candado[Archivo(e)] = t /\ hilo[t].e = e
  BY DEF Dentro, Suelta, Cerrojos
<1>3. ASSUME candado[Archivo(e)] = NULL
      PROVE  /\ ListaDe(e) = meta[e].bloques /\ ~Borrando(candado, hilo, e)
             /\ \A i : FijaEn(meta, candado, hilo, e, i) <=> meta[e].estado = "COMMITED"
  BY <1>3 DEF ListaDe, ListaEn, Borrando, FijaEn
<1>4. ASSUME candado[Archivo(e)] = t, hilo[t].e = e
      PROVE  /\ ListaDe(e) = IF ConLista(hilo[t]) THEN hilo[t].lista ELSE meta[e].bloques
             /\ Borrando(candado, hilo, e) <=> Fase(hilo[t]) = "borra"
             /\ \A i : FijaEn(meta, candado, hilo, e, i) <=>
                   meta[e].estado = "COMMITED" \/ (Commiteando(hilo[t]) /\ i < hilo[t].i)
  BY <1>0, <1>4 DEF ListaDe, ListaEn, Borrando, FijaEn
<1> QED BY <1>1, <1>2, <1>3, <1>4

LEMMA PropiaDespues ==
    ASSUME TypeOK, Cerrojos, NEW t \in Hilos, NEW e \in Etiquetas, NEW r \in Registro, Paso(t, e, r)
    PROVE  /\ Toma(t, e, r) \/ Dentro(t, e, r) =>
                 /\ ListaDe(e)' = IF ConLista(r) THEN r.lista ELSE meta'[e].bloques
                 /\ Borrando(candado', hilo', e) <=> Fase(r) = "borra"
                 /\ \A i : FijaEn(meta', candado', hilo', e, i) <=>
                       meta'[e].estado = "COMMITED" \/ (Commiteando(r) /\ i < r.i)
           /\ Suelta(t, e, r) \/ Fuera(t, e, r) =>
                 /\ ListaDe(e)' = meta'[e].bloques /\ ~Borrando(candado', hilo', e)
                 /\ \A i : FijaEn(meta', candado', hilo', e, i) <=> meta'[e].estado = "COMMITED"
<1>0. NULL \notin Hilos /\ hilo'[t] = r
  BY StorageSupuesto, PasoHilo
<1>1. Suelta(t, e, r) \/ Fuera(t, e, r) => candado'[Archivo(e)] = NULL
  BY PasoCandado DEF Fuera
<1>2. Toma(t, e, r) \/ Dentro(t, e, r) => candado'[Archivo(e)] = t /\ r.e = e
  BY PasoCandado DEF Dentro, Toma, Cerrojos
<1>3. ASSUME candado'[Archivo(e)] = NULL
      PROVE  /\ ListaDe(e)' = meta'[e].bloques /\ ~Borrando(candado', hilo', e)
             /\ \A i : FijaEn(meta', candado', hilo', e, i) <=> meta'[e].estado = "COMMITED"
  BY <1>3 DEF ListaDe, ListaEn, Borrando, FijaEn
<1>4. ASSUME candado'[Archivo(e)] = t, r.e = e
      PROVE  /\ ListaDe(e)' = IF ConLista(r) THEN r.lista ELSE meta'[e].bloques
             /\ Borrando(candado', hilo', e) <=> Fase(r) = "borra"
             /\ \A i : FijaEn(meta', candado', hilo', e, i) <=>
                   meta'[e].estado = "COMMITED" \/ (Commiteando(r) /\ i < r.i)
  BY <1>0, <1>4 DEF ListaDe, ListaEn, Borrando, FijaEn
<1> QED BY <1>1, <1>2, <1>3, <1>4

-----------------------------------------------------------------------------
(***************************************************************************)
(* What a step has to show to keep the structure: its own thread and its   *)
(* own File:Tag are in order.                                              *)
(***************************************************************************)

LEMMA PasoEstructura ==
    ASSUME Estructura, NEW t \in Hilos, NEW e \in Etiquetas, NEW r \in Registro, Paso(t, e, r),
           meta' \in [Etiquetas -> [bloques : Seq(Bloques), estado : Estados]],
           enlace' \in [Etiquetas -> Seq(Bloques \cup {COPIA})],
           contenido' \in [Bloques -> Valores], bitmap' \subseteq Bloques,
           indice' \in [Valores -> Bloques \cup {NULL}], mutexHash' \in Hilos \cup {NULL},
           \A d \in Etiquetas \ {e} : meta'[d] = meta[d] /\ enlace'[d] = enlace[d],
           EnPaso(meta', r), Enlazados(e)'
    PROVE  Estructura'
<1>0. TypeOK /\ Cerrojos
  BY DEF Estructura
<1>1. TypeOK'
  BY <1>0, PasoHilo, PasoCandado DEF TypeOK, Registro
<1>2. Cerrojos'
  BY <1>0, PasoCerrojos
<1>3. ASSUME NEW u \in Hilos PROVE EnPaso(meta', hilo'[u])
  <2>1. CASE u = t
    BY <1>0, <2>1, PasoHilo
  <2>2. CASE u # t /\ SinCandado(hilo[u])
    <3>1. hilo'[u] = hilo[u] /\ EnPaso(meta, hilo[u])
      BY <1>0, <2>2, PasoHilo DEF Estructura
    <3> QED BY <2>2, <3>1 DEF EnPaso, SinCandado, Fase, Escribiendo
  <2>3. CASE u # t /\ ~SinCandado(hilo[u])
    <3>1. hilo'[u] = hilo[u] /\ EnPaso(meta, hilo[u]) /\ hilo[u].e \in Etiquetas
      BY <1>0, <2>3, PasoHilo, HiloTipo DEF Estructura
    <3>2. candado[Archivo(hilo[u].e)] = u /\ NULL \notin Hilos
      BY <1>0, <2>3, StorageSupuesto DEF Cerrojos
    <3>3. hilo[u].e # e
      BY <1>0, <2>3, <3>2 DEF Paso, Toma, Dentro, Suelta, Fuera, Cerrojos
    <3>4. meta'[hilo[u].e] = meta[hilo[u].e]
      BY <3>1, <3>3
    <3> QED BY <3>1, <3>4 DEF EnPaso
  <2> QED BY <2>1, <2>2, <2>3
<1>4. ASSUME NEW d \in Etiquetas PROVE Enlazados(d)'
  <2>1. CASE d = e
    BY <2>1
  <2>2. CASE d # e
    <3>1. meta'[d] = meta[d] /\ enlace'[d] = enlace[d] /\ Enlazados(d)
      BY <2>2 DEF Estructura
    <3>2. ListaDe(d)' = ListaDe(d) /\ (Borrando(candado', hilo', d) <=> Borrando(candado, hilo, d))
      BY <1>0, <2>2, <3>1, Ajenas
    <3>3. Enlazada(meta'[d], enlace'[d], ListaDe(d)', Borrando(candado', hilo', d))
      BY <3>1, <3>2 DEF Enlazados, Enlazada
    <3> QED BY <3>3 DEF Enlazados
  <2> QED BY <2>1, <2>2
<1> QED BY <1>1, <1>2, <1>3, <1>4 DEF Estructura

-----------------------------------------------------------------------------
(***************************************************************************)
(* Blocks and their users, for any lists L and links en.                   *)
(***************************************************************************)

Lugares == Etiquetas \X (1..MaxTam)

Encaja(L, en, F) ==
    /\ L \in [Etiquetas -> Seq(Bloques)] /\ en \in [Etiquetas -> Seq(Bloques \cup {COPIA})]
    /\ \A e \in Etiquetas : Len(L[e]) <= MaxTam
    /\ \A e \in Etiquetas : \A i \in DOMAIN en[e] : i \in DOMAIN L[e] /\ en[e][i] \in {COPIA, L[e][i]}
    /\ F \subseteq Lugares

LEMMA LugarTipo ==
    ASSUME NEW L, NEW en, NEW F, Encaja(L, en, F), NEW e \in Etiquetas
    PROVE  /\ L[e] \in Seq(Bloques) /\ Len(L[e]) \in Nat /\ DOMAIN L[e] = 1..Len(L[e])
           /\ \A i \in DOMAIN L[e] : L[e][i] \in Bloques /\ i \in Nat /\ <<e, i>> \in Lugares
<1>1. L[e] \in Seq(Bloques) /\ Len(L[e]) <= MaxTam
  BY DEF Encaja
<1>2. /\ Len(L[e]) \in Nat /\ DOMAIN L[e] = 1..Len(L[e])
      /\ \A i \in DOMAIN L[e] : L[e][i] \in Bloques
  BY <1>1, ListaTipo
<1> QED BY <1>1, <1>2, StorageSupuesto DEF Lugares

\* An anchored block has a place.
LEMMA AncladoLugar ==
    ASSUME NEW L, NEW en, NEW F, Encaja(L, en, F), NEW b \in Bloques, Anclado(en, F, b)
    PROVE  ~SinLugar(L, b)
<1>1. PICK x \in F : x[2] \in DOMAIN en[x[1]] /\ en[x[1]][x[2]] = b
  BY DEF Anclado
<1>2. x[1] \in Etiquetas
  BY DEF Encaja, Lugares
<1>3. b # COPIA
  BY StorageSupuesto
<1> QED BY <1>1, <1>2, <1>3 DEF Encaja, SinLugar

\* What st_nlink tells.
LEMMA EnlacesDe ==
    ASSUME NEW L, NEW en, NEW F, Encaja(L, en, F), NEW b
    PROVE  /\ SoloElFisico(en, b) => \A e \in Etiquetas : \A i \in DOMAIN en[e] : en[e][i] # b
           /\ (\E e \in Etiquetas : \E i \in DOMAIN en[e] : en[e][i] = b) => nlink(en, b) > 1
<1> DEFINE S == {x \in Etiquetas \X (1..MaxTam) : x[2] \in DOMAIN en[x[1]] /\ en[x[1]][x[2]] = b}
<1>1. IsFiniteSet(S)
  <2>1. IsFiniteSet(1..MaxTam) /\ IsFiniteSet(Etiquetas)
    BY StorageSupuesto, FS_Interval
  <2>2. IsFiniteSet(Etiquetas \X (1..MaxTam))
    BY <2>1, FS_Product
  <2> QED BY <2>2, FS_Subset
<1>2. \A e \in Etiquetas : \A i \in DOMAIN en[e] : en[e][i] = b => <<e, i>> \in S
  <2> SUFFICES ASSUME NEW e \in Etiquetas, NEW i \in DOMAIN en[e], en[e][i] = b PROVE <<e, i>> \in S
    OBVIOUS
  <2>1. i \in DOMAIN L[e]
    BY DEF Encaja
  <2>2. <<e, i>> \in Lugares
    BY <2>1, LugarTipo
  <2> QED BY <2>2 DEF Lugares
<1>3. nlink(en, b) = 1 + Cardinality(S)
  BY DEF nlink
<1> HIDE DEF S
<1>4. Cardinality(S) \in Nat /\ (Cardinality(S) = 0 <=> S = {})
  BY <1>1, FS_CardinalityType, FS_EmptySet
<1>5. SoloElFisico(en, b) => S = {}
  BY <1>3, <1>4 DEF SoloElFisico
<1>6. S # {} => nlink(en, b) > 1
  BY <1>3, <1>4
<1> QED BY <1>2, <1>5, <1>6

LEMMA SinAncla ==
    ASSUME NEW L, NEW en, NEW F, Encaja(L, en, F), NEW b, SoloElFisico(en, b)
    PROVE  ~Anclado(en, F, b)
<1>1. \A e \in Etiquetas : \A i \in DOMAIN en[e] : en[e][i] # b
  BY EnlacesDe
<1>2. \A x \in F : x[1] \in Etiquetas
  BY DEF Encaja, Lugares
<1> QED BY <1>1, <1>2 DEF Anclado

\* The links of the settled places of e stay: every anchored block stays anchored.
FijasQuedan(en, F, e, z, en2, F2) ==
    /\ en2 = [en EXCEPT ![e] = z] /\ \A x \in F : x \in F2
    /\ \A i \in DOMAIN en[e] : <<e, i>> \in F => i \in DOMAIN z /\ z[i] = en[e][i]

LEMMA AnclaSigue ==
    ASSUME NEW L, NEW en, NEW F, Encaja(L, en, F), NEW e \in Etiquetas, NEW z, NEW en2, NEW F2,
           FijasQuedan(en, F, e, z, en2, F2), NEW b, Anclado(en, F, b)
    PROVE  Anclado(en2, F2, b)
<1>1. PICK x \in F : x[2] \in DOMAIN en[x[1]] /\ en[x[1]][x[2]] = b
  BY DEF Anclado
<1>2. x[1] \in Etiquetas /\ x = <<x[1], x[2]>>
  BY DEF Encaja, Lugares
<1>3. en2[e] = z /\ \A d \in Etiquetas \ {e} : en2[d] = en[d]
  BY DEF Encaja, FijasQuedan
<1>4. x[2] \in DOMAIN en2[x[1]] /\ en2[x[1]][x[2]] = b
  BY <1>1, <1>2, <1>3 DEF FijasQuedan
<1> QED BY <1>1, <1>4 DEF Anclado, FijasQuedan

\* A step that changes the list of e to s, and its links to z: each place of s is one that
\* e had (m further on) or has a block that is anchored, and used already.
Cambio(L, en, F, e, m, s, z, L2, en2, F2) ==
    /\ L2 = [L EXCEPT ![e] = s] /\ en2 = [en EXCEPT ![e] = z]
    /\ \A x \in F2 : x \in F \/ x[1] = e
    /\ \A b : Anclado(en, F, b) => Anclado(en2, F2, b)
    /\ \A i \in DOMAIN z : z[i] = COPIA \/ <<e, i>> \in F2 => Anclado(en2, F2, s[i])
    /\ \A i \in DOMAIN s : \/ i + m \in DOMAIN L[e] /\ s[i] = L[e][i + m]
                           \/ Anclado(en2, F2, s[i]) /\ ~SinLugar(L, s[i])

LEMMA CambioAncladas ==
    ASSUME NEW L, NEW en, NEW F, Encaja(L, en, F), NEW e \in Etiquetas, NEW m, NEW s, NEW z,
           NEW L2, NEW en2, NEW F2, Cambio(L, en, F, e, m, s, z, L2, en2, F2), Ancladas(L, en, F)
    PROVE  Ancladas(L2, en2, F2)
<1>1. /\ L2[e] = s /\ en2[e] = z
      /\ \A d \in Etiquetas \ {e} : L2[d] = L[d] /\ en2[d] = en[d]
  BY DEF Cambio, Encaja
<1>2. ASSUME NEW d \in Etiquetas, NEW i \in DOMAIN en2[d], en2[d][i] = COPIA \/ <<d, i>> \in F2
      PROVE  Anclado(en2, F2, L2[d][i])
  <2>1. CASE d = e
    BY <1>1, <1>2, <2>1 DEF Cambio
  <2>2. CASE d # e
    <3>1. <<d, i>> \in F2 => <<d, i>> \in F
      BY <2>2 DEF Cambio
    <3>2. Anclado(en, F, L[d][i])
      BY <1>1, <1>2, <2>2, <3>1 DEF Ancladas
    <3> QED BY <1>1, <2>2, <3>2 DEF Cambio
  <2> QED BY <2>1, <2>2
<1> QED BY <1>2 DEF Ancladas

\* The place that (d, i) had before, unless its block is anchored.
LEMMA CambioLugar ==
    ASSUME NEW L, NEW en, NEW F, Encaja(L, en, F), NEW e \in Etiquetas, NEW m \in {0, 1},
           NEW s \in Seq(Bloques), NEW z,
           NEW L2, NEW en2, NEW F2, Cambio(L, en, F, e, m, s, z, L2, en2, F2),
           NEW d \in Etiquetas, NEW i \in DOMAIN L2[d], ~Anclado(en2, F2, L2[d][i])
    PROVE  \E j \in DOMAIN L[d] : j = (IF d = e THEN i + m ELSE i) /\ L2[d][i] = L[d][j]
<1>1. L2[e] = s /\ \A x \in Etiquetas \ {e} : L2[x] = L[x]
  BY DEF Cambio, Encaja
<1>2. CASE d = e
  BY <1>1, <1>2 DEF Cambio
<1>3. CASE d # e
  BY <1>1, <1>3
<1> QED BY <1>2, <1>3

LEMMA CambioBloqueo ==
    ASSUME NEW L, NEW en, NEW F, Encaja(L, en, F), NEW e \in Etiquetas, NEW m \in {0, 1},
           NEW s \in Seq(Bloques), NEW z,
           NEW L2, NEW en2, NEW F2, Cambio(L, en, F, e, m, s, z, L2, en2, F2),
           NEW bm, NEW P, Bloqueo(L, en, F, bm, P)
    PROVE  Bloqueo(L2, en2, F2, bm, P)
<1>1. L2[e] = s /\ \A d \in Etiquetas \ {e} : L2[d] = L[d]
  BY DEF Cambio, Encaja
<1>2. \A i \in DOMAIN s : i \in Nat
  BY ListaTipo
<1>3. \A b : SinLugar(L, b) => SinLugar(L2, b)
  <2> SUFFICES ASSUME NEW b, SinLugar(L, b), NEW d \in Etiquetas, NEW i \in DOMAIN L2[d]
               PROVE  L2[d][i] # b
    BY DEF SinLugar
  <2>1. CASE d = e
    BY <1>1, <2>1 DEF Cambio, SinLugar
  <2>2. CASE d # e
    BY <1>1, <2>2 DEF SinLugar
  <2> QED BY <2>1, <2>2
<1>4. Ancladas(L2, en2, F2)
  BY CambioAncladas DEF Bloqueo
<1>5. UnSoloLugar(L2, en2, F2)
  <2> SUFFICES ASSUME NEW d \in Etiquetas, NEW c \in Etiquetas,
                      NEW i \in DOMAIN L2[d], NEW j \in DOMAIN L2[c], L2[d][i] = L2[c][j],
                      ~Anclado(en2, F2, L2[d][i])
               PROVE  d = c /\ i = j
    BY DEF UnSoloLugar
  <2>1. PICK k \in DOMAIN L[d] : k = (IF d = e THEN i + m ELSE i) /\ L2[d][i] = L[d][k]
    BY CambioLugar
  <2>2. PICK l \in DOMAIN L[c] : l = (IF c = e THEN j + m ELSE j) /\ L2[c][j] = L[c][l]
    BY CambioLugar
  <2>3. ~Anclado(en, F, L[d][k])
    BY <2>1 DEF Cambio
  <2>4. d = c /\ k = l
    BY <2>1, <2>2, <2>3 DEF Bloqueo, UnSoloLugar
  <2>5. CASE d = e
    <3>1. i \in Nat /\ j \in Nat /\ i + m = j + m
      BY <1>1, <1>2, <2>1, <2>2, <2>4, <2>5
    <3> QED BY <2>4, <3>1
  <2>6. CASE d # e
    BY <2>1, <2>2, <2>4, <2>6
  <2> QED BY <2>5, <2>6
<1>6. Ocupados(L2, bm)
  <2> SUFFICES ASSUME NEW d \in Etiquetas, NEW i \in DOMAIN L2[d] PROVE L2[d][i] \in bm
    BY DEF Ocupados
  <2>1. ~SinLugar(L, L2[d][i])
    BY <1>3 DEF SinLugar
  <2> QED BY <2>1 DEF Bloqueo, Ocupados, SinLugar
<1>7. DeUnHilo(L2, bm, P)
  BY <1>3 DEF Bloqueo, DeUnHilo
<1> QED BY <1>4, <1>5, <1>6, <1>7 DEF Bloqueo

\* No place of the new list s is place k of the old one of e, whose block has no link left.
Vacia(L, en, F, e, m, s, z, L2, en2, F2, bm, P, k) ==
    /\ Encaja(L, en, F) /\ e \in Etiquetas /\ m \in {0, 1} /\ s \in Seq(Bloques)
    /\ Cambio(L, en, F, e, m, s, z, L2, en2, F2) /\ Encaja(L2, en2, F2)
    /\ Bloqueo(L, en, F, bm, P)
    /\ k \in DOMAIN L[e] /\ \A i \in DOMAIN s : i + m # k \/ s[i] # L[e][k]
    /\ SoloElFisico(en2, L[e][k])

LEMMA CambioLibera ==
    ASSUME NEW L, NEW en, NEW F, NEW e, NEW m, NEW s, NEW z, NEW L2, NEW en2, NEW F2,
           NEW bm, NEW P, NEW k, Vacia(L, en, F, e, m, s, z, L2, en2, F2, bm, P, k)
    PROVE  \A t : Bloqueo(L2, en2, F2, bm, P \cup {<<t, L[e][k]>>})
<1>0. /\ Encaja(L, en, F) /\ e \in Etiquetas /\ m \in {0, 1} /\ s \in Seq(Bloques)
      /\ Cambio(L, en, F, e, m, s, z, L2, en2, F2) /\ Encaja(L2, en2, F2)
      /\ Bloqueo(L, en, F, bm, P)
      /\ k \in DOMAIN L[e] /\ \A i \in DOMAIN s : i + m # k \/ s[i] # L[e][k]
      /\ SoloElFisico(en2, L[e][k])
  BY DEF Vacia
<1> DEFINE b == L[e][k]
<1>1. L2[e] = s /\ \A d \in Etiquetas \ {e} : L2[d] = L[d]
  BY <1>0 DEF Cambio, Encaja
<1>2. ~Anclado(en2, F2, b) /\ ~Anclado(en, F, b)
  <2>1. ~Anclado(en2, F2, b)
    BY <1>0, SinAncla
  <2> QED BY <1>0, <2>1 DEF Cambio
<1>3. SinLugar(L2, b)
  <2> SUFFICES ASSUME NEW d \in Etiquetas, NEW i \in DOMAIN L2[d], L2[d][i] = b
               PROVE  FALSE
    BY DEF SinLugar
  <2>1. PICK j \in DOMAIN L[d] : j = (IF d = e THEN i + m ELSE i) /\ L2[d][i] = L[d][j]
    BY <1>0, <1>2, CambioLugar
  <2>2. d = e /\ j = k
    BY <1>0, <1>2, <2>1 DEF Bloqueo, UnSoloLugar
  <2> QED BY <1>0, <1>1, <2>1, <2>2
<1>4. Bloqueo(L2, en2, F2, bm, P)
  BY <1>0, CambioBloqueo
<1>5. b \in bm /\ ~SinLugar(L, b)
  BY <1>0 DEF Bloqueo, Ocupados, SinLugar
<1>6. \A y \in P : y[2] # b
  BY <1>0, <1>5 DEF Bloqueo, DeUnHilo
<1> HIDE DEF b
<1>7. \A t : DeUnHilo(L2, bm, P \cup {<<t, b>>})
  BY <1>3, <1>4, <1>5, <1>6 DEF Bloqueo, DeUnHilo
<1> QED BY <1>4, <1>7 DEF Bloqueo, b

\* A WRITE has reserved a block that was free.
LEMMA Reserva ==
    ASSUME NEW L, NEW en, NEW F, NEW bm, NEW P, Bloqueo(L, en, F, bm, P),
           NEW t, NEW b, b \notin bm
    PROVE  Bloqueo(L, en, F, bm \cup {b}, P \cup {<<t, b>>})
<1>1. SinLugar(L, b)
  BY DEF Bloqueo, Ocupados, SinLugar
<1>2. \A y \in P : y[2] # b
  BY DEF Bloqueo, DeUnHilo
<1>3. DeUnHilo(L, bm \cup {b}, P \cup {<<t, b>>})
  BY <1>1, <1>2 DEF Bloqueo, DeUnHilo
<1> QED BY <1>3 DEF Bloqueo, Ocupados

\* The bit of a block that had no users is cleared.
LEMMA Suelto ==
    ASSUME NEW L, NEW en, NEW F, NEW bm, NEW P, Bloqueo(L, en, F, bm, P),
           NEW t, NEW b, <<t, b>> \in P
    PROVE  Bloqueo(L, en, F, bm \ {b}, P \ {<<t, b>>})
<1>1. SinLugar(L, b)
  BY DEF Bloqueo, DeUnHilo
<1>2. \A y \in P \ {<<t, b>>} : y[2] # b
  BY DEF Bloqueo, DeUnHilo
<1>3. Ocupados(L, bm \ {b})
  BY <1>1 DEF Bloqueo, Ocupados, SinLugar
<1>4. DeUnHilo(L, bm \ {b}, P \ {<<t, b>>})
  BY <1>2 DEF Bloqueo, DeUnHilo
<1> QED BY <1>3, <1>4 DEF Bloqueo

\* A WRITE gives place k of e the block it had reserved.
Reemplazo(L, en, F, e, k, b, L2, en2) ==
    /\ k \in DOMAIN en[e] /\ \A i \in DOMAIN en[e] : <<e, i>> \notin F
    /\ L2 = [L EXCEPT ![e] = [L[e] EXCEPT ![k] = b]]
    /\ en2 = [en EXCEPT ![e] = [en[e] EXCEPT ![k] = b]]

LEMMA Reemplaza ==
    ASSUME NEW L, NEW en, NEW F, Encaja(L, en, F), NEW e \in Etiquetas, NEW k,
           NEW bm, NEW P, Bloqueo(L, en, F, bm, P),
           NEW t, NEW b \in Bloques, <<t, b>> \in P, NEW L2, NEW en2,
           Reemplazo(L, en, F, e, k, b, L2, en2)
    PROVE  /\ Bloqueo(L2, en2, F, bm, P \ {<<t, b>>})
           /\ \A c : Anclado(en, F, c) => Anclado(en2, F, c)
<1>0. /\ k \in DOMAIN en[e] /\ \A i \in DOMAIN en[e] : <<e, i>> \notin F
      /\ L2 = [L EXCEPT ![e] = [L[e] EXCEPT ![k] = b]]
      /\ en2 = [en EXCEPT ![e] = [en[e] EXCEPT ![k] = b]]
  BY DEF Reemplazo
<1> DEFINE s == [L[e] EXCEPT ![k] = b]
           z == [en[e] EXCEPT ![k] = b]
<1>1. /\ L[e] \in Seq(Bloques) /\ en[e] \in Seq(Bloques \cup {COPIA}) /\ k \in DOMAIN L[e]
      /\ b # COPIA
  BY <1>0, StorageSupuesto DEF Encaja
<1>2. DOMAIN s = DOMAIN L[e] /\ s[k] = b /\ \A j \in DOMAIN L[e] \ {k} : s[j] = L[e][j]
  BY <1>1, CambiaUno
<1>3. DOMAIN z = DOMAIN en[e] /\ z[k] = b /\ \A j \in DOMAIN en[e] \ {k} : z[j] = en[e][j]
  BY <1>0, <1>1, CambiaUno
<1>4. /\ L2[e] = s /\ \A d \in Etiquetas \ {e} : L2[d] = L[d]
      /\ en2[e] = z /\ \A d \in Etiquetas \ {e} : en2[d] = en[d]
  BY <1>0 DEF Encaja
<1>5. en2 = [en EXCEPT ![e] = z]
  BY <1>0
<1> HIDE DEF s, z
<1>6. \A c : Anclado(en, F, c) => Anclado(en2, F, c)
  <2>1. FijasQuedan(en, F, e, z, en2, F)
    BY <1>0, <1>5 DEF FijasQuedan
  <2> QED BY <2>1, AnclaSigue
<1>7. SinLugar(L, b)
  BY DEF Bloqueo, DeUnHilo
<1>8. ASSUME NEW d \in Etiquetas, NEW i \in DOMAIN L2[d]
      PROVE  /\ i \in DOMAIN L[d]
             /\ \/ d = e /\ i = k /\ L2[d][i] = b
                \/ L2[d][i] = L[d][i] /\ L2[d][i] # b
  <2>1. CASE d = e
    BY <1>2, <1>4, <1>7, <2>1 DEF SinLugar
  <2>2. CASE d # e
    BY <1>4, <1>7, <2>2 DEF SinLugar
  <2> QED BY <2>1, <2>2
<1>9. Ancladas(L2, en2, F)
  <2> SUFFICES ASSUME NEW d \in Etiquetas, NEW i \in DOMAIN en2[d],
                      en2[d][i] = COPIA \/ <<d, i>> \in F
               PROVE  Anclado(en2, F, L2[d][i])
    BY DEF Ancladas
  <2>1. ~(d = e /\ i = k)
    BY <1>0, <1>1, <1>3, <1>4
  <2>2. i \in DOMAIN en[d] /\ en2[d][i] = en[d][i]
    BY <1>3, <1>4, <2>1
  <2>3. i \in DOMAIN L[d] /\ L2[d][i] = L[d][i]
    BY <1>2, <1>4, <2>1, <2>2 DEF Encaja
  <2>4. Anclado(en, F, L[d][i])
    BY <2>2 DEF Bloqueo, Ancladas
  <2> QED BY <1>6, <2>3, <2>4
<1>10. UnSoloLugar(L2, en2, F)
  <2>1. ASSUME NEW d \in Etiquetas, NEW c \in Etiquetas, NEW i \in DOMAIN L2[d],
               NEW j \in DOMAIN L2[c], L2[d][i] = L2[c][j]
        PROVE  (d = c /\ i = j) \/ Anclado(en2, F, L2[d][i])
    <3>1. CASE L2[d][i] = b
      <4>1. d = e /\ i = k
        BY <1>8, <3>1
      <4>2. c = e /\ j = k
        BY <1>8, <2>1, <3>1
      <4> QED BY <4>1, <4>2
    <3>2. CASE L2[d][i] # b
      <4>1. i \in DOMAIN L[d] /\ L2[d][i] = L[d][i] /\ j \in DOMAIN L[c] /\ L2[c][j] = L[c][j]
        BY <1>8, <2>1, <3>2
      <4>2. (d = c /\ i = j) \/ Anclado(en, F, L[d][i])
        BY <2>1, <4>1 DEF Bloqueo, UnSoloLugar
      <4>3. Anclado(en, F, L[d][i]) => Anclado(en2, F, L[d][i])
        BY <1>6
      <4> QED BY <4>1, <4>2, <4>3
    <3> QED BY <3>1, <3>2
  <2> QED BY ONLY <2>1 DEF UnSoloLugar
<1>11. Ocupados(L2, bm)
  <2>1. b \in bm
    BY DEF Bloqueo, DeUnHilo
  <2> QED BY <1>8, <2>1 DEF Bloqueo, Ocupados
<1>12. DeUnHilo(L2, bm, P \ {<<t, b>>})
  <2>1. ASSUME NEW y \in P \ {<<t, b>>} PROVE y[2] \in bm /\ SinLugar(L2, y[2])
    <3>1. y[2] # b /\ y[2] \in bm /\ SinLugar(L, y[2])
      BY DEF Bloqueo, DeUnHilo
    <3> QED BY <1>8, <3>1 DEF SinLugar
  <2> QED BY <2>1 DEF Bloqueo, DeUnHilo
<1> QED BY <1>6, <1>9, <1>10, <1>11, <1>12 DEF Bloqueo

-----------------------------------------------------------------------------
(***************************************************************************)
(* What a step leaves of lists, links, settled places and reserved blocks. *)
(***************************************************************************)

Encajan == Encaja(Lista, enlace, Fijas)

LEMMA EncajanSiempre == Estructura => Encajan
<1> SUFFICES ASSUME Estructura PROVE Encaja(Lista, enlace, Fijas)
  BY DEF Encajan
<1>1. /\ meta \in [Etiquetas -> [bloques : Seq(Bloques), estado : Estados]]
      /\ enlace \in [Etiquetas -> Seq(Bloques \cup {COPIA})] /\ TypeOK
      /\ candado \in [Archivos -> Hilos \cup {NULL}]
  BY DEF Estructura, TypeOK
<1>2. ASSUME NEW e \in Etiquetas
      PROVE  /\ Lista[e] = ListaDe(e) /\ ListaDe(e) \in Seq(Bloques) /\ Len(ListaDe(e)) <= MaxTam
             /\ \A i \in DOMAIN enlace[e] : i \in DOMAIN ListaDe(e)
                                            /\ enlace[e][i] \in {COPIA, ListaDe(e)[i]}
  <2>1. candado[Archivo(e)] \in Hilos \cup {NULL} /\ meta[e].bloques \in Seq(Bloques)
        /\ enlace[e] \in Seq(Bloques \cup {COPIA})
    BY <1>1, ArchivoTipo
  <2>2. candado[Archivo(e)] # NULL => hilo[candado[Archivo(e)]].lista \in Seq(Bloques)
    BY <1>1, <2>1, HiloTipo
  <2>3. ListaDe(e) \in Seq(Bloques)
    BY <2>1, <2>2 DEF ListaDe, ListaEn
  <2>4. Enlazados(e)
    BY DEF Estructura
  <2>5. DOMAIN enlace[e] = {} \/ Len(enlace[e]) = Len(ListaDe(e))
    BY <2>1, <2>4, ListaTipo DEF Enlazados, Enlazada
  <2>6. DOMAIN enlace[e] = 1..Len(enlace[e]) /\ DOMAIN ListaDe(e) = 1..Len(ListaDe(e))
    BY <2>1, <2>3, LenProperties
  <2>7. \A i \in DOMAIN enlace[e] : i \in DOMAIN ListaDe(e)
    BY <2>5, <2>6
  <2> QED BY <2>3, <2>4, <2>7 DEF Enlazados, Enlazada, Lista
<1>3. Lista \in [Etiquetas -> Seq(Bloques)]
  <2>1. \A e \in Etiquetas : ListaDe(e) \in Seq(Bloques)
    BY <1>2
  <2> QED BY <2>1 DEF Lista
<1>4. Fijas \subseteq Lugares
  BY DEF Fijas, Lugares
<1> QED BY <1>1, <1>2, <1>3, <1>4 DEF Encaja

LEMMA EncajanDespues == Estructura' => Encaja(Lista', enlace', Fijas')
<1>1. Estructura' => Encajan'
  BY EncajanSiempre, PTL
<1> QED BY <1>1 DEF Encajan

LEMMA FijaDe == \A x : x \in Fijas <=>
                   /\ x \in Lugares /\ x[2] \in DOMAIN ListaDe(x[1])
                   /\ FijaEn(meta, candado, hilo, x[1], x[2])
BY DEF Fijas, Lugares

LEMMA FijaDespues == \A x : x \in Fijas' <=>
                   /\ x \in Lugares /\ x[2] \in DOMAIN ListaDe(x[1])'
                   /\ FijaEn(meta', candado', hilo', x[1], x[2])
BY DEF Fijas, Lugares

\* The File:Tags other than e stay as they are.
Aparte(e) == \A d \in Etiquetas \ {e} :
    /\ meta'[d] = meta[d] /\ enlace'[d] = enlace[d] /\ ListaDe(d)' = ListaDe(d)
    /\ \A i : FijaEn(meta', candado', hilo', d, i) <=> FijaEn(meta, candado, hilo, d, i)

LEMMA PasoAparte ==
    ASSUME TypeOK, Cerrojos, NEW t \in Hilos, NEW e \in Etiquetas, NEW r \in Registro, Paso(t, e, r),
           \A d \in Etiquetas \ {e} : meta'[d] = meta[d] /\ enlace'[d] = enlace[d]
    PROVE  Aparte(e)
<1> SUFFICES ASSUME NEW d \in Etiquetas \ {e}
             PROVE  /\ ListaDe(d)' = ListaDe(d)
                    /\ \A i : FijaEn(meta', candado', hilo', d, i) <=>
                                FijaEn(meta, candado, hilo, d, i)
  BY DEF Aparte
<1> QED BY Ajenas

LEMMA AparteFijas ==
    ASSUME NEW e \in Etiquetas, Aparte(e)
    PROVE  \A x : x[1] # e => (x \in Fijas' <=> x \in Fijas)
<1> SUFFICES ASSUME NEW x, x[1] # e PROVE x \in Fijas' <=> x \in Fijas
  OBVIOUS
<1>1. CASE x \in Lugares
  <2>1. x[1] \in Etiquetas \ {e}
    BY <1>1 DEF Lugares
  <2> QED BY <1>1, <2>1, FijaDe, FijaDespues DEF Aparte
<1>2. CASE x \notin Lugares
  BY <1>2, FijaDe, FijaDespues
<1> QED BY <1>1, <1>2

LEMMA AparteListas ==
    ASSUME Estructura, Estructura', NEW e \in Etiquetas, Aparte(e)
    PROVE  /\ Lista' = [Lista EXCEPT ![e] = ListaDe(e)'] /\ enlace' = [enlace EXCEPT ![e] = enlace'[e]]
           /\ Lista[e] = ListaDe(e) /\ Lista'[e] = ListaDe(e)' /\ ListaDe(e)' \in Seq(Bloques)
           /\ \A x \in Fijas' : x \in Fijas \/ x[1] = e
<1>1. Encaja(Lista, enlace, Fijas) /\ Encaja(Lista', enlace', Fijas')
  BY EncajanSiempre, EncajanDespues DEF Encajan
<1>2. \A d \in Etiquetas : Lista[d] = ListaDe(d) /\ Lista'[d] = ListaDe(d)'
  BY DEF Lista
<1>3. \A d \in Etiquetas \ {e} : Lista'[d] = Lista[d] /\ enlace'[d] = enlace[d]
  BY <1>2 DEF Aparte
<1>4. Lista' = [Lista EXCEPT ![e] = ListaDe(e)'] /\ enlace' = [enlace EXCEPT ![e] = enlace'[e]]
  <2>1. /\ Lista \in [Etiquetas -> Seq(Bloques)] /\ Lista' \in [Etiquetas -> Seq(Bloques)]
        /\ enlace \in [Etiquetas -> Seq(Bloques \cup {COPIA})]
        /\ enlace' \in [Etiquetas -> Seq(Bloques \cup {COPIA})]
    BY <1>1 DEF Encaja
  <2>2. Lista'[e] = ListaDe(e)'
    BY <1>2
  <2> QED BY <1>3, <2>1, <2>2
<1>5. ListaDe(e)' \in Seq(Bloques)
  BY <1>1, <1>2 DEF Encaja
<1>6. \A x \in Fijas' : x \in Fijas \/ x[1] = e
  BY AparteFijas
<1> QED BY <1>2, <1>4, <1>5, <1>6

\* The blocks the threads have apart, after t is left as r.
LEMMA ApartadosDespues ==
    ASSUME TypeOK, NEW t \in Hilos, NEW r, hilo' = [hilo EXCEPT ![t] = r]
    PROVE  /\ \A x : x \in Apartados' <=> \/ x \in Apartados /\ x[1] # t
                                          \/ Apartado(r) /\ x = <<t, r.b>>
           /\ \A x : x \in Apartados /\ x[1] = t <=> Apartado(hilo[t]) /\ x = <<t, hilo[t].b>>
<1>1. hilo'[t] = r /\ \A u \in Hilos \ {t} : hilo'[u] = hilo[u]
  BY DEF TypeOK
<1>2. \A x : x \in Apartados <=> \E u \in Hilos : Apartado(hilo[u]) /\ x = <<u, hilo[u].b>>
  BY DEF Apartados
<1>3. \A x : x \in Apartados' <=> \E u \in Hilos : Apartado(hilo'[u]) /\ x = <<u, hilo'[u].b>>
  BY DEF Apartados
<1>4. ASSUME NEW x PROVE x \in Apartados' <=> \/ x \in Apartados /\ x[1] # t
                                              \/ Apartado(r) /\ x = <<t, r.b>>
  BY <1>1, <1>2, <1>3
<1>5. ASSUME NEW x PROVE x \in Apartados /\ x[1] = t <=> Apartado(hilo[t]) /\ x = <<t, hilo[t].b>>
  BY <1>2
<1> QED BY <1>4, <1>5

LEMMA MismosApartados ==
    ASSUME TypeOK, NEW t \in Hilos, NEW r, hilo' = [hilo EXCEPT ![t] = r]
    PROVE  /\ ~Apartado(hilo[t]) /\ ~Apartado(r) => Apartados' = Apartados
           /\ Apartado(hilo[t]) /\ Apartado(r) /\ hilo[t].b = r.b => Apartados' = Apartados
           /\ ~Apartado(hilo[t]) /\ Apartado(r) => Apartados' = Apartados \cup {<<t, r.b>>}
           /\ Apartado(hilo[t]) /\ ~Apartado(r) =>
                 Apartados' = Apartados \ {<<t, hilo[t].b>>} /\ <<t, hilo[t].b>> \in Apartados
<1>1. /\ \A x : x \in Apartados' <=> \/ x \in Apartados /\ x[1] # t
                                     \/ Apartado(r) /\ x = <<t, r.b>>
      /\ \A x : x \in Apartados /\ x[1] = t <=> Apartado(hilo[t]) /\ x = <<t, hilo[t].b>>
  BY ApartadosDespues
<1>2. ~Apartado(hilo[t]) /\ ~Apartado(r) => Apartados' = Apartados
  <2> SUFFICES ASSUME ~Apartado(hilo[t]), ~Apartado(r)
               PROVE  \A x : x \in Apartados' <=> x \in Apartados
    OBVIOUS
  <2> QED BY <1>1
<1>3. Apartado(hilo[t]) /\ Apartado(r) /\ hilo[t].b = r.b => Apartados' = Apartados
  <2> SUFFICES ASSUME Apartado(hilo[t]), Apartado(r), hilo[t].b = r.b
               PROVE  \A x : x \in Apartados' <=> x \in Apartados
    OBVIOUS
  <2> QED BY <1>1
<1>4. ~Apartado(hilo[t]) /\ Apartado(r) => Apartados' = Apartados \cup {<<t, r.b>>}
  <2> SUFFICES ASSUME ~Apartado(hilo[t]), Apartado(r)
               PROVE  \A x : x \in Apartados' <=> x \in Apartados \/ x = <<t, r.b>>
    OBVIOUS
  <2> QED BY <1>1
<1>5. Apartado(hilo[t]) /\ ~Apartado(r) =>
         Apartados' = Apartados \ {<<t, hilo[t].b>>} /\ <<t, hilo[t].b>> \in Apartados
  <2> SUFFICES ASSUME Apartado(hilo[t]), ~Apartado(r)
               PROVE  /\ \A x : x \in Apartados' <=> x \in Apartados /\ x # <<t, hilo[t].b>>
                      /\ <<t, hilo[t].b>> \in Apartados
    OBVIOUS
  <2> QED BY <1>1
<1> QED BY <1>2, <1>3, <1>4, <1>5

Metadatos == [bloques : Seq(Bloques), estado : Estados]

LEMMA MetaTipo ==
    ASSUME TypeOK, NEW e \in Etiquetas
    PROVE  /\ meta \in [Etiquetas -> Metadatos] /\ meta[e] \in Metadatos
           /\ meta[e].bloques \in Seq(Bloques) /\ meta[e].estado \in Estados
           /\ enlace \in [Etiquetas -> Seq(Bloques \cup {COPIA})]
           /\ enlace[e] \in Seq(Bloques \cup {COPIA})
           /\ contenido \in [Bloques -> Valores] /\ bitmap \subseteq Bloques
           /\ indice \in [Valores -> Bloques \cup {NULL}] /\ mutexHash \in Hilos \cup {NULL}
<1>1. meta \in [Etiquetas -> Metadatos]
  BY DEF TypeOK, Metadatos
<1>2. meta[e] \in Metadatos
  BY <1>1
<1> QED BY <1>1, <1>2 DEF TypeOK, Metadatos

\* Nobody operates on a COMMITED File:Tag.
LEMMA CommiteadoQuieto ==
    ASSUME Estructura, NEW e \in Etiquetas, meta[e].estado = "COMMITED"
    PROVE  /\ ListaDe(e) = meta[e].bloques /\ ~Borrando(candado, hilo, e)
           /\ DOMAIN enlace[e] = DOMAIN meta[e].bloques
           /\ \A i \in DOMAIN meta[e].bloques : <<e, i>> \in Fijas
<1>1. TypeOK /\ Enlazados(e) /\ Archivo(e) \in Archivos
  BY ArchivoTipo DEF Estructura
<1>2. ListaDe(e) = meta[e].bloques /\ ~Borrando(candado, hilo, e)
  <2>1. CASE candado[Archivo(e)] # NULL /\ hilo[candado[Archivo(e)]].e = e
    <3>1. PICK u \in Hilos : u = candado[Archivo(e)]
      BY <1>1, <2>1 DEF TypeOK
    <3>2. EnPaso(meta, hilo[u]) /\ ~SinCandado(hilo[u])
      BY <1>1, <2>1, <3>1 DEF Estructura, Cerrojos
    <3> QED BY <2>1, <3>1, <3>2 DEF EnPaso
  <2>2. CASE ~(candado[Archivo(e)] # NULL /\ hilo[candado[Archivo(e)]].e = e)
    BY <2>2 DEF ListaDe, ListaEn, Borrando
  <2> QED BY <2>1, <2>2
<1>3. Len(enlace[e]) = Len(meta[e].bloques)
  BY <1>1, <1>2 DEF Enlazados, Enlazada
<1>4. DOMAIN enlace[e] = DOMAIN meta[e].bloques
  BY <1>1, <1>3, MetaTipo, ListaTipo
<1>5. Encaja(Lista, enlace, Fijas) /\ Lista[e] = ListaDe(e)
  BY EncajanSiempre DEF Encajan, Lista
<1>6. \A i \in DOMAIN meta[e].bloques : <<e, i>> \in Lugares
  BY <1>2, <1>5, LugarTipo
<1>7. \A i \in DOMAIN meta[e].bloques : <<e, i>> \in Fijas
  BY <1>2, <1>6, FijaDe DEF FijaEn
<1> QED BY <1>2, <1>4, <1>7

\* What a step has to show, besides the structure, to keep the rest.
Fiel(t, e, r) ==
    /\ hilo' = [hilo EXCEPT ![t] = r] /\ Aparte(e) /\ r.paso # "sobrescribe"
    /\ meta[e].estado = "COMMITED" => meta'[e] = meta[e] /\ enlace'[e] = enlace[e]
    /\ \A b : Anclado(enlace, Fijas, b) => Anclado(enlace', Fijas', b)
    /\ \A b \in Bloques : contenido'[b] = contenido[b] \/ <<t, b>> \in Apartados
    /\ \A v \in Valores : indice'[v] = indice[v] \/
          (/\ indice[v] = NULL
           /\ Anclado(enlace', Fijas', indice'[v]) /\ contenido'[indice'[v]] = v)
    /\ \A i : <<e, i>> \in Fijas' => \/ <<e, i>> \in Fijas /\ ListaDe(e)'[i] = ListaDe(e)[i]
                                     \/ indice'[contenido'[ListaDe(e)'[i]]] = ListaDe(e)'[i]
    /\ Leido(contenido', enlace', Fijas', r)

LEMMA PasoFiel ==
    ASSUME IInv, Contenidos, Estructura', NEW t \in Hilos, NEW e \in Etiquetas, NEW r,
           Fiel(t, e, r), Bloqueo(Lista', enlace', Fijas', bitmap', Apartados')
    PROVE  IInv' /\ Contenidos'
<1>1. Estructura /\ TypeOK /\ Bloqueo(Lista, enlace, Fijas, bitmap, Apartados)
  BY DEF IInv, Estructura
<1>2. Encaja(Lista, enlace, Fijas)
  BY <1>1, EncajanSiempre DEF Encajan
<1>3. \A d \in Etiquetas : Lista[d] = ListaDe(d) /\ Lista'[d] = ListaDe(d)'
  BY DEF Lista
<1>4. hilo'[t] = r /\ \A u \in Hilos \ {t} : hilo'[u] = hilo[u]
  BY <1>1 DEF TypeOK, Fiel
<1>5. \A b \in Bloques : ~SinLugar(Lista, b) => contenido'[b] = contenido[b]
  BY <1>1 DEF Fiel, Bloqueo, DeUnHilo
<1>6. \A b \in Bloques : Anclado(enlace, Fijas, b) => contenido'[b] = contenido[b]
  BY <1>2, <1>5, AncladoLugar
<1>7. \A v \in Valores : indice[v] \in Bloques \cup {NULL} /\ NULL \notin Bloques
  BY <1>1, StorageSupuesto DEF TypeOK
<1>8. \A d \in Etiquetas : \A i \in DOMAIN ListaDe(d) :
         /\ ListaDe(d)[i] \in Bloques /\ contenido[ListaDe(d)[i]] \in Valores
         /\ contenido'[ListaDe(d)[i]] = contenido[ListaDe(d)[i]]
  <2> SUFFICES ASSUME NEW d \in Etiquetas, NEW i \in DOMAIN ListaDe(d)
               PROVE  /\ ListaDe(d)[i] \in Bloques /\ contenido[ListaDe(d)[i]] \in Valores
                      /\ contenido'[ListaDe(d)[i]] = contenido[ListaDe(d)[i]]
    OBVIOUS
  <2>1. ListaDe(d)[i] \in Bloques
    BY <1>2, <1>3, LugarTipo
  <2>2. ~SinLugar(Lista, ListaDe(d)[i])
    BY <1>3 DEF SinLugar
  <2> QED BY <1>1, <1>5, <2>1, <2>2 DEF TypeOK
<1>9. EnBase'
  <2>1. EnBase /\ BASE \in Etiquetas
    BY StorageSupuesto DEF IInv
  <2>2. contenido'[0] = 0
    <3>1. ListaDe(BASE) = <<0>>
      BY <1>1, <2>1, CommiteadoQuieto DEF EnBase
    <3> QED BY <1>8, <2>1, <3>1 DEF EnBase
  <2>3. CASE BASE = e
    BY <2>1, <2>2, <2>3 DEF EnBase, Fiel
  <2>4. CASE BASE # e
    <3>1. meta'[BASE] = meta[BASE] /\ enlace'[BASE] = enlace[BASE]
      BY <2>1, <2>4 DEF Fiel, Aparte
    <3> QED BY <2>1, <2>2, <3>1 DEF EnBase
  <2> QED BY <2>3, <2>4
<1>10. IndiceFiel'
  <2>1. ASSUME NEW v \in Valores, indice'[v] # NULL
        PROVE  Anclado(enlace', Fijas', indice'[v]) /\ contenido'[indice'[v]] = v
    <3>1. CASE indice'[v] = indice[v]
      <4>1. Anclado(enlace, Fijas, indice[v]) /\ contenido[indice[v]] = v
        BY <2>1, <3>1 DEF IInv, IndiceFiel
      <4> QED BY <1>6, <1>7, <2>1, <3>1, <4>1 DEF Fiel
    <3>2. CASE indice'[v] # indice[v]
      BY <3>2 DEF Fiel
    <3> QED BY <3>1, <3>2
  <2> QED BY <2>1 DEF IndiceFiel
<1>11. \A u \in Hilos : hilo'[u].paso # "sobrescribe"
  BY <1>4 DEF IInv, Fiel
<1>12. ASSUME NEW x \in Fijas' PROVE indice'[contenido'[Lista'[x[1]][x[2]]]] = Lista'[x[1]][x[2]]
  <2> DEFINE d == x[1]
             i == x[2]
  <2>1. d \in Etiquetas /\ x = <<d, i>>
    BY FijaDespues DEF Lugares
  <2> HIDE DEF d, i
  <2>2. ASSUME <<d, i>> \in Fijas, ListaDe(d)'[i] = ListaDe(d)[i]
        PROVE  indice'[contenido'[ListaDe(d)'[i]]] = ListaDe(d)'[i]
    <3>1. i \in DOMAIN ListaDe(d)
      BY <2>2, FijaDe
    <3>2. indice[contenido[ListaDe(d)[i]]] = ListaDe(d)[i]
      BY <1>3, <2>1, <2>2 DEF Contenidos, Indexado
    <3>3. /\ ListaDe(d)[i] \in Bloques /\ contenido[ListaDe(d)[i]] \in Valores
          /\ contenido'[ListaDe(d)[i]] = contenido[ListaDe(d)[i]]
      BY <1>8, <2>1, <3>1
    <3>4. indice'[contenido[ListaDe(d)[i]]] = indice[contenido[ListaDe(d)[i]]]
      BY <1>7, <3>2, <3>3 DEF Fiel
    <3> QED BY <2>2, <3>2, <3>3, <3>4
  <2>3. CASE d = e
    BY <2>1, <2>2, <2>3, <1>3 DEF Fiel, d, i
  <2>4. CASE d # e
    <3>1. <<d, i>> \in Fijas
      BY <2>1, <2>4, AparteFijas DEF Fiel, d
    <3>2. ListaDe(d)' = ListaDe(d)
      BY <2>1, <2>4 DEF Fiel, Aparte
    <3> QED BY <1>3, <2>1, <2>2, <3>1, <3>2 DEF d, i
  <2> QED BY <2>3, <2>4
<1>13. ASSUME NEW u \in Hilos PROVE Leido(contenido', enlace', Fijas', hilo'[u])
  <2>1. CASE u = t
    BY <1>4, <2>1 DEF Fiel
  <2>2. CASE u # t
    <3> DEFINE h == hilo[u]
    <3>1. hilo'[u] = h /\ Leido(contenido, enlace, Fijas, h) /\ h.b \in Bloques
      BY <1>1, <1>4, <2>2, HiloTipo DEF Contenidos
    <3>2. h.paso = "indice" => contenido'[h.lista[h.i]] = h.v
      <4> SUFFICES ASSUME h.paso = "indice" PROVE contenido'[h.lista[h.i]] = h.v
        OBVIOUS
      <4>1. candado[Archivo(h.e)] = u /\ h.i \in DOMAIN h.lista /\ h.e \in Etiquetas
            /\ NULL \notin Hilos
        BY <1>1, HiloTipo, StorageSupuesto DEF Estructura, Cerrojos, SinCandado, EnPaso, Fase
      <4>2. ListaDe(h.e) = h.lista
        BY <4>1 DEF ListaDe, ListaEn, ConLista, Fase
      <4>3. contenido'[h.lista[h.i]] = contenido[h.lista[h.i]]
        BY <1>8, <4>1, <4>2
      <4> QED BY <3>1, <4>3 DEF Leido
    <3>3. h.paso = "enlaza" => contenido'[h.b] = h.v
      <4> SUFFICES ASSUME h.paso = "enlaza" PROVE contenido'[h.b] = h.v
        OBVIOUS
      <4>1. <<u, h.b>> \in Apartados
        BY DEF Apartados, Apartado
      <4>2. <<t, h.b>> \notin Apartados
        BY <1>1, <2>2, <4>1 DEF Bloqueo, DeUnHilo
      <4> QED BY <3>1, <4>2 DEF Fiel, Leido
    <3>4. h.paso = "lee" /\ h.v # NULL => Anclado(enlace', Fijas', h.b) /\ contenido'[h.b] = h.v
      BY <1>6, <3>1 DEF Leido, Fiel
    <3> QED BY <3>1, <3>2, <3>3, <3>4 DEF Leido
  <2> QED BY <2>1, <2>2
<1>14. Contenidos'
  BY <1>12, <1>13 DEF Contenidos, Indexado
<1>15. IInv'
  BY <1>9, <1>10, <1>11 DEF IInv
<1> QED BY <1>14, <1>15

LEMMA MismasListas ==
    ASSUME NEW e \in Etiquetas, Aparte(e), ListaDe(e)' = ListaDe(e),
           \A i : FijaEn(meta', candado', hilo', e, i) <=> FijaEn(meta, candado, hilo, e, i)
    PROVE  Lista' = Lista /\ Fijas' = Fijas
<1>1. Lista' = Lista
  <2>1. \A d \in Etiquetas : ListaDe(d)' = ListaDe(d)
    BY DEF Aparte
  <2> QED BY <2>1 DEF Lista
<1>2. Fijas' = Fijas
  <2> SUFFICES ASSUME NEW x PROVE x \in Fijas' <=> x \in Fijas
    OBVIOUS
  <2>1. CASE x[1] = e
    BY <2>1, FijaDe, FijaDespues
  <2>2. CASE x[1] # e
    BY <2>2, AparteFijas
  <2> QED BY <2>1, <2>2
<1> QED BY <1>1, <1>2

\* A step after which every File:Tag has the blocks and links it had.
Quieto(t, e, r) ==
    /\ hilo' = [hilo EXCEPT ![t] = r] /\ Aparte(e) /\ r.paso # "sobrescribe"
    /\ meta[e].estado = "COMMITED" => meta'[e] = meta[e]
    /\ ListaDe(e)' = ListaDe(e) /\ enlace' = enlace /\ bitmap' = bitmap /\ indice' = indice
    /\ \A i \in DOMAIN ListaDe(e) : FijaEn(meta', candado', hilo', e, i) <=>
                                       FijaEn(meta, candado, hilo, e, i)
    /\ Apartados' = Apartados
    /\ \A b \in Bloques : contenido'[b] = contenido[b] \/ <<t, b>> \in Apartados
    /\ Leido(contenido', enlace, Fijas, r)

LEMMA PasoQuieto ==
    ASSUME IInv, Contenidos, Estructura', NEW t \in Hilos, NEW e \in Etiquetas, NEW r,
           Quieto(t, e, r)
    PROVE  IInv' /\ Contenidos'
<1>1. Lista' = Lista
  <2>1. \A d \in Etiquetas : ListaDe(d)' = ListaDe(d)
    BY DEF Quieto, Aparte
  <2> QED BY <2>1 DEF Lista
<1>2. Fijas' = Fijas
  <2> SUFFICES ASSUME NEW x PROVE x \in Fijas' <=> x \in Fijas
    OBVIOUS
  <2>1. CASE x[1] = e
    BY <2>1, FijaDe, FijaDespues DEF Quieto
  <2>2. CASE x[1] # e
    BY <2>2, AparteFijas DEF Quieto
  <2> QED BY <2>1, <2>2
<1>3. Bloqueo(Lista', enlace', Fijas', bitmap', Apartados')
  BY <1>1, <1>2 DEF Quieto, IInv
<1>4. Fiel(t, e, r)
  BY <1>2 DEF Quieto, Fiel
<1> QED BY <1>3, <1>4, PasoFiel

\* A step after which each place of e is one that it had, m further on, or has a block that
\* is anchored.
Cambia(e, m) ==
    /\ Aparte(e)
    /\ \A i : <<e, i>> \in Fijas =>
          /\ <<e, i>> \in Fijas'
          /\ i \in DOMAIN enlace[e] => i \in DOMAIN enlace'[e] /\ enlace'[e][i] = enlace[e][i]
    /\ \A i \in DOMAIN enlace'[e] :
          enlace'[e][i] = COPIA \/ <<e, i>> \in Fijas' => Anclado(enlace', Fijas', ListaDe(e)'[i])
    /\ \A i \in DOMAIN ListaDe(e)' :
          \/ i + m \in DOMAIN ListaDe(e) /\ ListaDe(e)'[i] = ListaDe(e)[i + m]
          \/ Anclado(enlace', Fijas', ListaDe(e)'[i]) /\ ~SinLugar(Lista, ListaDe(e)'[i])

AnclasQuedan == \A b : Anclado(enlace, Fijas, b) => Anclado(enlace', Fijas', b)

LEMMA PasoAnclas ==
    ASSUME Estructura, Estructura', NEW e \in Etiquetas, Aparte(e),
           \A i : <<e, i>> \in Fijas =>
              /\ <<e, i>> \in Fijas'
              /\ i \in DOMAIN enlace[e] => i \in DOMAIN enlace'[e] /\ enlace'[e][i] = enlace[e][i]
    PROVE  AnclasQuedan
<1>1. Encaja(Lista, enlace, Fijas) /\ enlace' = [enlace EXCEPT ![e] = enlace'[e]]
  BY EncajanSiempre, AparteListas DEF Encajan
<1>2. \A x \in Fijas : x \in Fijas'
  <2> SUFFICES ASSUME NEW x \in Fijas PROVE x \in Fijas'
    OBVIOUS
  <2>1. x = <<x[1], x[2]>>
    BY FijaDe DEF Lugares
  <2>2. CASE x[1] = e
    BY <2>1, <2>2
  <2>3. CASE x[1] # e
    BY <2>3, AparteFijas
  <2> QED BY <2>2, <2>3
<1>3. FijasQuedan(enlace, Fijas, e, enlace'[e], enlace', Fijas')
  BY <1>1, <1>2 DEF FijasQuedan
<1> QED BY <1>1, <1>3, AnclaSigue DEF AnclasQuedan

LEMMA PasoCambio ==
    ASSUME Estructura, Estructura', NEW e \in Etiquetas, NEW m, Cambia(e, m)
    PROVE  /\ Cambio(Lista, enlace, Fijas, e, m, ListaDe(e)', enlace'[e], Lista', enlace', Fijas')
           /\ AnclasQuedan
<1>1. AnclasQuedan
  BY PasoAnclas DEF Cambia
<1>2. /\ Lista' = [Lista EXCEPT ![e] = ListaDe(e)'] /\ enlace' = [enlace EXCEPT ![e] = enlace'[e]]
      /\ Lista[e] = ListaDe(e) /\ \A x \in Fijas' : x \in Fijas \/ x[1] = e
  BY AparteListas DEF Cambia
<1> QED BY <1>1, <1>2 DEF Cambio, Cambia, AnclasQuedan

LEMMA CommiteadoAnclado ==
    ASSUME IInv, NEW e \in Etiquetas, meta[e].estado = "COMMITED",
           NEW i \in DOMAIN meta[e].bloques
    PROVE  Anclado(enlace, Fijas, meta[e].bloques[i]) /\ ~SinLugar(Lista, meta[e].bloques[i])
<1>1. /\ ListaDe(e) = meta[e].bloques /\ Lista[e] = ListaDe(e)
      /\ i \in DOMAIN enlace[e] /\ <<e, i>> \in Fijas
  BY CommiteadoQuieto DEF IInv, Lista
<1> QED BY <1>1 DEF IInv, Bloqueo, Ancladas, SinLugar

-----------------------------------------------------------------------------
(***************************************************************************)
(* The steps.                                                              *)
(***************************************************************************)

Guarda ==
    /\ Estructura'
    /\ ~TagDeWIP /\ ~BorraCommiteado /\ IInv /\ Contenidos => IInv' /\ Contenidos'

\* A thread without the lock of its file: the rest does not see it move.
LEMMA SinCandadoPasa ==
    ASSUME Estructura, NEW t \in Hilos, NEW r \in Registro, hilo' = [hilo EXCEPT ![t] = r],
           SinCandado(hilo[t]), SinCandado(r), r.sigue = "libre",
           meta' = meta, enlace' = enlace, contenido' = contenido, bitmap' = bitmap,
           indice' = indice, candado' = candado, mutexHash' = mutexHash
    PROVE  /\ Estructura'
           /\ \A d \in Etiquetas : /\ ListaDe(d)' = ListaDe(d)
                                   /\ \A i : FijaEn(meta', candado', hilo', d, i) <=>
                                                FijaEn(meta, candado, hilo, d, i)
<1>1. /\ TypeOK /\ Cerrojos /\ NULL \notin Hilos
      /\ hilo'[t] = r /\ \A u \in Hilos \ {t} : hilo'[u] = hilo[u]
  BY StorageSupuesto DEF Estructura, TypeOK
<1>2. \A a \in Archivos : candado[a] # t
  BY <1>1 DEF Cerrojos
<1>3. \A d \in Etiquetas : candado[Archivo(d)] = NULL \/ candado[Archivo(d)] \in Hilos \ {t}
  BY <1>1, <1>2, ArchivoTipo DEF TypeOK
<1>4. \A d \in Etiquetas : /\ ListaDe(d)' = ListaDe(d)
                           /\ Borrando(candado', hilo', d) <=> Borrando(candado, hilo, d)
                           /\ \A i : FijaEn(meta', candado', hilo', d, i) <=>
                                        FijaEn(meta, candado, hilo, d, i)
  BY <1>1, <1>3 DEF ListaDe, ListaEn, Borrando, FijaEn
<1>5. Cerrojos'
  BY <1>1, <1>2 DEF Cerrojos, TypeOK
<1>6. TypeOK'
  BY <1>1 DEF TypeOK, Registro
<1>7. \A u \in Hilos : EnPaso(meta', hilo'[u])
  <2>1. EnPaso(meta, r)
    BY DEF EnPaso, SinCandado, Fase, Escribiendo
  <2> QED BY <1>1, <2>1 DEF Estructura
<1>8. \A d \in Etiquetas : Enlazados(d)'
  <2> SUFFICES ASSUME NEW d \in Etiquetas PROVE Enlazados(d)'
    OBVIOUS
  <2>1. Enlazada(meta'[d], enlace'[d], ListaDe(d)', Borrando(candado', hilo', d))
    BY <1>4 DEF Estructura, Enlazados, Enlazada
  <2> QED BY <2>1 DEF Enlazados
<1> QED BY <1>4, <1>5, <1>6, <1>7, <1>8 DEF Estructura

LEMMA CreateGuarda ==
    ASSUME Estructura, NEW t \in Hilos, NEW e \in Etiquetas, create(t, e)
    PROVE  Guarda
<1> DEFINE r == hilo[t]
           m == [bloques |-> << >>, estado |-> "WORK_IN_PROGRESS"]
<1>1. /\ TypeOK /\ Cerrojos /\ r \in Registro /\ EnPaso(meta, r) /\ Enlazados(e)
      /\ meta \in [Etiquetas -> Metadatos] /\ m \in Metadatos
  <2>1. TypeOK /\ Cerrojos /\ EnPaso(meta, r) /\ Enlazados(e)
    BY DEF Estructura
  <2>2. m \in Metadatos
    BY EmptySeq DEF Metadatos, Estados
  <2> QED BY <2>1, <2>2, HiloTipo, MetaTipo
<1>2. /\ r.paso = "libre" /\ candado[Archivo(e)] = NULL /\ meta[e].estado = "NO_EXISTE"
      /\ meta' = [meta EXCEPT ![e] = m] /\ enlace' = enlace /\ contenido' = contenido
      /\ bitmap' = bitmap /\ indice' = indice /\ candado' = candado /\ mutexHash' = mutexHash
      /\ hilo' = hilo
  BY DEF create, Excluye
<1> HIDE DEF m
<1>3. hilo' = [hilo EXCEPT ![t] = r]
  BY <1>1, <1>2 DEF TypeOK
<1> HIDE DEF r
<1>4. Fuera(t, e, r) /\ Paso(t, e, r)
  BY <1>2, <1>3 DEF Fuera, Paso, SinCandado, r
<1>5. /\ meta'[e] = m /\ meta' \in [Etiquetas -> Metadatos]
      /\ \A d \in Etiquetas \ {e} : meta'[d] = meta[d] /\ enlace'[d] = enlace[d]
  BY <1>1, <1>2
<1>6. m.bloques = << >> /\ m.estado = "WORK_IN_PROGRESS"
  BY DEF m
<1>7. /\ ListaDe(e) = meta[e].bloques /\ ~Borrando(candado, hilo, e)
      /\ ListaDe(e)' = << >> /\ ~Borrando(candado', hilo', e)
      /\ \A i : ~FijaEn(meta', candado', hilo', e, i) /\ ~FijaEn(meta, candado, hilo, e, i)
  BY <1>1, <1>2, <1>4, <1>5, <1>6, PropiaAntes, PropiaDespues
<1>8. meta[e].bloques = << >> /\ Len(enlace[e]) = 0
  BY <1>1, <1>2, <1>7, EmptySeq DEF Enlazados, Enlazada
<1>9. Enlazados(e)'
  BY <1>1, <1>2, <1>5, <1>6, <1>7, <1>8 DEF Enlazados, Enlazada
<1>10. Estructura'
  <2>1. EnPaso(meta', r)
    BY <1>1, <1>2 DEF EnPaso, Fase, SinCandado, r, Escribiendo
  <2> QED BY <1>1, <1>2, <1>4, <1>5, <1>9, <2>1, PasoEstructura, MetaTipo DEF Metadatos
<1>11. ASSUME IInv, Contenidos PROVE IInv' /\ Contenidos'
  <2>1. Aparte(e)
    BY <1>1, <1>4, <1>5, PasoAparte
  <2>2. Apartados' = Apartados
    BY <1>1, <1>2, <1>3, MismosApartados DEF Apartado, r
  <2>3. Leido(contenido', enlace, Fijas, r) /\ r.paso # "sobrescribe"
    BY <1>2 DEF Leido, r
  <2>4. Quieto(t, e, r)
    BY <1>2, <1>3, <1>7, <1>8, <2>1, <2>2, <2>3 DEF Quieto
  <2> QED BY <1>10, <1>11, <2>4, PasoQuieto
<1> QED BY <1>10, <1>11 DEF Guarda

LEMMA LeerGuarda ==
    ASSUME Estructura, NEW t \in Hilos, NEW e \in Etiquetas, NEW i, leer(t, e, i)
    PROVE  Guarda
<1> DEFINE b == meta[e].bloques[i]
           w == IF meta[e].estado = "COMMITED" THEN contenido[b] ELSE NULL
           r == [Libre EXCEPT !.paso = "lee", !.e = e, !.i = i, !.b = b, !.v = w]
<1>1. /\ hilo[t].paso = "libre" /\ candado[Archivo(e)] = NULL /\ i \in DOMAIN meta[e].bloques
      /\ hilo' = [hilo EXCEPT ![t] = r]
      /\ meta' = meta /\ enlace' = enlace /\ contenido' = contenido /\ bitmap' = bitmap
      /\ indice' = indice /\ candado' = candado /\ mutexHash' = mutexHash
  BY DEF leer, Excluye, Va
<1>2. TypeOK /\ Enlazados(e)
  BY DEF Estructura
<1>3. b \in Bloques /\ i \in Nat
  BY <1>1, <1>2, MetaTipo, ListaTipo
<1>4. w \in Valores \cup {NULL}
  BY <1>2, <1>3 DEF TypeOK
<1> HIDE DEF b, w
<1>5. /\ r \in Registro /\ r.paso = "lee" /\ r.sigue = "libre" /\ r.b = b /\ r.v = w
  BY <1>3, <1>4, LibreTipo DEF Registro, Pasos
<1> HIDE DEF r
<1>6. /\ Estructura'
      /\ \A d \in Etiquetas : /\ ListaDe(d)' = ListaDe(d)
                              /\ \A j : FijaEn(meta', candado', hilo', d, j) <=>
                                           FijaEn(meta, candado, hilo, d, j)
  BY <1>1, <1>5, SinCandadoPasa DEF SinCandado
<1>7. ASSUME IInv, Contenidos PROVE IInv' /\ Contenidos'
  <2>1. Aparte(e)
    BY <1>1, <1>6 DEF Aparte
  <2>2. Apartados' = Apartados
    BY <1>1, <1>2, <1>5, MismosApartados DEF Apartado
  <2>3. w # NULL => Anclado(enlace, Fijas, b) /\ contenido[b] = w
    <3> SUFFICES ASSUME meta[e].estado = "COMMITED" PROVE Anclado(enlace, Fijas, b)
      BY DEF w
    <3> QED BY <1>1, <1>7, CommiteadoAnclado DEF b
  <2>4. Leido(contenido', enlace, Fijas, r)
    BY <1>1, <1>5, <2>3 DEF Leido
  <2>5. Quieto(t, e, r)
    BY <1>1, <1>5, <1>6, <2>1, <2>2, <2>4 DEF Quieto
  <2> QED BY <1>6, <1>7, <2>5, PasoQuieto
<1> QED BY <1>6, <1>7 DEF Guarda

LEMMA LeerBloqueGuarda ==
    ASSUME Estructura, NEW t \in Hilos, leerBloqueFisico(t)
    PROVE  Guarda
<1>1. /\ hilo[t].paso = "lee" /\ hilo' = [hilo EXCEPT ![t] = Libre]
      /\ meta' = meta /\ enlace' = enlace /\ contenido' = contenido /\ bitmap' = bitmap
      /\ indice' = indice /\ candado' = candado /\ mutexHash' = mutexHash
  BY DEF leerBloqueFisico, Va
<1>2. TypeOK /\ BASE \in Etiquetas
  BY StorageSupuesto DEF Estructura
<1>3. /\ Estructura'
      /\ \A d \in Etiquetas : /\ ListaDe(d)' = ListaDe(d)
                              /\ \A j : FijaEn(meta', candado', hilo', d, j) <=>
                                           FijaEn(meta, candado, hilo, d, j)
  BY <1>1, LibreTipo, SinCandadoPasa DEF SinCandado
<1>4. ASSUME IInv, Contenidos PROVE IInv' /\ Contenidos'
  <2>1. Aparte(BASE)
    BY <1>1, <1>3 DEF Aparte
  <2>2. Apartados' = Apartados
    BY <1>1, <1>2, LibreTipo, MismosApartados DEF Apartado
  <2>3. Quieto(t, BASE, Libre)
    BY <1>1, <1>2, <1>3, <2>1, <2>2, LibreTipo DEF Quieto, Leido
  <2> QED BY <1>2, <1>3, <1>4, <2>3, PasoQuieto
<1> QED BY <1>3, <1>4 DEF Guarda

LEMMA TagGuarda ==
    ASSUME Estructura, NEW t \in Hilos, NEW o \in Etiquetas, NEW e \in Etiquetas, tag(t, o, e)
    PROVE  Guarda
<1> DEFINE r == hilo[t]
           m == [meta[o] EXCEPT !.estado = "WORK_IN_PROGRESS"]
           z == [i \in DOMAIN enlace[o] |-> COPIA]
<1>1. /\ TypeOK /\ Cerrojos /\ r \in Registro /\ EnPaso(meta, r) /\ Enlazados(e) /\ Enlazados(o)
      /\ meta \in [Etiquetas -> Metadatos] /\ m \in Metadatos
      /\ enlace \in [Etiquetas -> Seq(Bloques \cup {COPIA})]
  <2>1. TypeOK /\ Cerrojos /\ EnPaso(meta, r) /\ Enlazados(e) /\ Enlazados(o)
    BY DEF Estructura
  <2>2. m \in Metadatos
    BY <2>1, MetaTipo DEF Metadatos, Estados
  <2> QED BY <2>1, <2>2, HiloTipo, MetaTipo
<1>2. /\ r.paso = "libre" /\ candado[Archivo(e)] = NULL /\ candado[Archivo(o)] = NULL
      /\ meta[o].estado # "NO_EXISTE" /\ (~TagDeWIP => meta[o].estado = "COMMITED")
      /\ meta[e].estado = "NO_EXISTE"
      /\ meta' = [meta EXCEPT ![e] = m] /\ enlace' = [enlace EXCEPT ![e] = z]
      /\ contenido' = contenido
      /\ bitmap' = bitmap /\ indice' = indice /\ candado' = candado /\ mutexHash' = mutexHash
      /\ hilo' = hilo
  BY DEF tag, Excluye
<1>3. m.bloques = meta[o].bloques /\ m.estado = "WORK_IN_PROGRESS"
  BY <1>1, MetaTipo DEF Metadatos
<1>4. z \in Seq(Bloques \cup {COPIA}) /\ Len(z) = Len(enlace[o]) /\ \A i \in DOMAIN z : z[i] = COPIA
  <2>1. Len(enlace[o]) \in Nat /\ DOMAIN enlace[o] = 1..Len(enlace[o])
    BY <1>1, LenProperties
  <2>2. z \in [1..Len(enlace[o]) -> Bloques \cup {COPIA}]
    BY <2>1
  <2>3. z \in Seq(Bloques \cup {COPIA})
    BY <2>1, <2>2, SeqDef
  <2> QED BY <2>1, <2>2, <2>3, LenProperties
<1> HIDE DEF m, z
<1>5. hilo' = [hilo EXCEPT ![t] = r]
  BY <1>1, <1>2 DEF TypeOK
<1> HIDE DEF r
<1>6. Fuera(t, e, r) /\ Paso(t, e, r)
  BY <1>2, <1>5 DEF Fuera, Paso, SinCandado, r
<1>7. /\ meta'[e] = m /\ meta' \in [Etiquetas -> Metadatos]
      /\ enlace'[e] = z /\ enlace' \in [Etiquetas -> Seq(Bloques \cup {COPIA})]
      /\ \A d \in Etiquetas \ {e} : meta'[d] = meta[d] /\ enlace'[d] = enlace[d]
  BY <1>1, <1>2, <1>4
<1>8. /\ ListaDe(e) = meta[e].bloques /\ ~Borrando(candado, hilo, e)
      /\ ListaDe(e)' = meta[o].bloques /\ ~Borrando(candado', hilo', e)
      /\ \A i : ~FijaEn(meta', candado', hilo', e, i) /\ ~FijaEn(meta, candado, hilo, e, i)
  BY <1>1, <1>2, <1>3, <1>6, <1>7, PropiaAntes, PropiaDespues
<1>9. ListaDe(o) = meta[o].bloques /\ ~Borrando(candado, hilo, o)
  BY <1>2 DEF ListaDe, ListaEn, Borrando
<1>10. Len(z) = Len(meta[o].bloques) /\ Len(meta[o].bloques) <= MaxTam
  BY <1>1, <1>4, <1>9 DEF Enlazados, Enlazada
<1>11. Enlazados(e)'
  <2>1. Enlazada(m, z, meta[o].bloques, FALSE)
    BY <1>3, <1>4, <1>10 DEF Enlazada
  <2> QED BY <1>7, <1>8, <2>1 DEF Enlazados, Enlazada
<1>12. Estructura'
  <2>1. EnPaso(meta', r)
    BY <1>1, <1>2 DEF EnPaso, Fase, SinCandado, r, Escribiendo
  <2> QED BY <1>1, <1>2, <1>6, <1>7, <1>11, <2>1, PasoEstructura, MetaTipo DEF Metadatos
<1>13. ASSUME ~TagDeWIP, IInv, Contenidos PROVE IInv' /\ Contenidos'
  <2>1. Aparte(e)
    BY <1>1, <1>6, <1>7, PasoAparte
  <2>2. Apartados' = Apartados
    BY <1>1, <1>2, <1>5, MismosApartados DEF Apartado, r
  <2>3. \A i : <<e, i>> \notin Fijas /\ <<e, i>> \notin Fijas'
    BY <1>8, FijaDe, FijaDespues
  <2>4. AnclasQuedan
    BY <1>12, <2>1, <2>3, PasoAnclas
  <2>5. \A i \in DOMAIN meta[o].bloques : /\ Anclado(enlace', Fijas', meta[o].bloques[i])
                                          /\ ~SinLugar(Lista, meta[o].bloques[i])
    BY <1>2, <1>13, <2>4, CommiteadoAnclado DEF AnclasQuedan
  <2>6. \A i \in DOMAIN enlace'[e] : i \in DOMAIN meta[o].bloques
    BY <1>1, <1>4, <1>7, <1>10, MetaTipo, ListaTipo
  <2>7. Cambia(e, 0)
    BY <1>8, <2>1, <2>3, <2>5, <2>6 DEF Cambia
  <2>8. Cambio(Lista, enlace, Fijas, e, 0, ListaDe(e)', enlace'[e], Lista', enlace', Fijas')
    BY <1>12, <2>7, PasoCambio
  <2>9. Encaja(Lista, enlace, Fijas) /\ ListaDe(e)' \in Seq(Bloques)
    BY <1>12, <2>1, EncajanSiempre, AparteListas DEF Encajan
  <2>10. Bloqueo(Lista', enlace', Fijas', bitmap', Apartados')
    <3>1. Bloqueo(Lista', enlace', Fijas', bitmap, Apartados)
      BY <1>13, <2>8, <2>9, CambioBloqueo DEF IInv
    <3> QED BY <1>2, <2>2, <3>1
  <2>11. Fiel(t, e, r)
    <3>1. Leido(contenido', enlace', Fijas', r) /\ r.paso # "sobrescribe"
      BY <1>2 DEF Leido, r
    <3> QED BY <1>2, <1>5, <2>1, <2>3, <2>4, <3>1 DEF Fiel, AnclasQuedan
  <2> QED BY <1>12, <1>13, <2>10, <2>11, PasoFiel
<1> QED BY <1>12, <1>13 DEF Guarda

LEMMA EscribirGuarda ==
    ASSUME Estructura, NEW t \in Hilos, NEW e \in Etiquetas, NEW i, NEW v \in Valores,
           escribirBloque(t, e, i, v)
    PROVE  Guarda
<1> DEFINE b == meta[e].bloques[i]
           p == IF nlink(enlace, b) > 1 THEN "reserva" ELSE "sobrescribe"
           r == [Libre EXCEPT !.paso = p, !.e = e, !.i = i, !.v = v, !.b = b]
<1>1. /\ TypeOK /\ Cerrojos /\ Enlazados(e)
  BY DEF Estructura
<1>2. /\ hilo[t].paso = "libre" /\ candado[Archivo(e)] = NULL
      /\ candado' = [candado EXCEPT ![Archivo(e)] = t]
      /\ meta[e].estado = "WORK_IN_PROGRESS" /\ i \in DOMAIN meta[e].bloques
      /\ hilo' = [hilo EXCEPT ![t] = r]
      /\ meta' = meta /\ enlace' = enlace /\ contenido' = contenido /\ bitmap' = bitmap
      /\ indice' = indice /\ mutexHash' = mutexHash
  BY DEF escribirBloque, lock_file_metadata, Modificable, Va
<1>3. b \in Bloques /\ i \in Nat
  BY <1>1, <1>2, MetaTipo, ListaTipo
<1>4. p \in {"reserva", "sobrescribe"}
  OBVIOUS
<1> HIDE DEF b, p
<1>5. /\ r \in Registro /\ r.paso = p /\ r.sigue = "libre" /\ r.e = e /\ r.i = i /\ r.v = v
  BY <1>3, <1>4, LibreTipo DEF Registro, Pasos
<1> HIDE DEF r
<1>6. Toma(t, e, r) /\ Paso(t, e, r)
  BY <1>2, <1>4, <1>5 DEF Toma, Paso, SinCandado
<1>7. Fase(r) = p /\ ~ConLista(r) /\ ~Commiteando(r) /\ ~Apartado(r)
  BY <1>4, <1>5 DEF Fase, ConLista, Commiteando, Apartado
<1>8. /\ ListaDe(e) = meta[e].bloques /\ ~Borrando(candado, hilo, e)
      /\ ListaDe(e)' = meta[e].bloques /\ ~Borrando(candado', hilo', e)
      /\ \A j : ~FijaEn(meta', candado', hilo', e, j) /\ ~FijaEn(meta, candado, hilo, e, j)
  BY <1>1, <1>2, <1>4, <1>5, <1>6, <1>7, PropiaAntes, PropiaDespues
<1>9. Enlazados(e)'
  BY <1>1, <1>2, <1>8 DEF Enlazados, Enlazada
<1>10. Estructura'
  <2>1. EnPaso(meta', r)
    BY <1>2, <1>4, <1>5, <1>7 DEF EnPaso
  <2> QED BY <1>1, <1>2, <1>5, <1>6, <1>9, <2>1, PasoEstructura, MetaTipo DEF Metadatos
<1>11. ASSUME IInv, Contenidos PROVE IInv' /\ Contenidos'
  <2>1. Aparte(e)
    BY <1>1, <1>2, <1>5, <1>6, PasoAparte
  <2>2. Apartados' = Apartados
    BY <1>1, <1>2, <1>7, MismosApartados DEF Apartado
  <2>3. Encaja(Lista, enlace, Fijas) /\ Lista[e] = ListaDe(e) /\ i \in DOMAIN enlace[e]
    <3>1. Len(enlace[e]) = Len(meta[e].bloques)
      BY <1>1, <1>8 DEF Enlazados, Enlazada
    <3> QED BY <1>1, <1>2, <3>1, EncajanSiempre, MetaTipo, ListaTipo DEF Encajan, Lista
  <2>4. p = "reserva"
    <3>1. \E d \in Etiquetas : \E j \in DOMAIN enlace[d] : enlace[d][j] = b
      <4>1. CASE enlace[e][i] = COPIA
        <5>1. Anclado(enlace, Fijas, b)
          BY <1>8, <1>11, <2>3, <4>1 DEF IInv, Bloqueo, Ancladas, b
        <5>2. PICK x \in Fijas : x[2] \in DOMAIN enlace[x[1]] /\ enlace[x[1]][x[2]] = b
          BY <5>1 DEF Anclado
        <5>3. x[1] \in Etiquetas
          BY FijaDe DEF Lugares
        <5> QED BY <5>2, <5>3
      <4>2. CASE enlace[e][i] # COPIA
        BY <1>8, <2>3, <4>2 DEF Encaja, b
      <4> QED BY <4>1, <4>2
    <3> QED BY <2>3, <3>1, EnlacesDe DEF p
  <2>5. Leido(contenido', enlace, Fijas, r) /\ r.paso # "sobrescribe"
    BY <1>5, <2>4 DEF Leido
  <2>6. Quieto(t, e, r)
    BY <1>2, <1>8, <2>1, <2>2, <2>5 DEF Quieto
  <2> QED BY <1>10, <1>11, <2>6, PasoQuieto
<1> QED BY <1>10, <1>11 DEF Guarda

\* An operation of t in the middle of its steps.
LEMMA EnCurso ==
    ASSUME Estructura, NEW t \in Hilos, ~SinCandado(hilo[t])
    PROVE  /\ TypeOK /\ Cerrojos /\ hilo[t] \in Registro /\ hilo[t].e \in Etiquetas
           /\ EnPaso(meta, hilo[t]) /\ Enlazados(hilo[t].e) /\ candado[Archivo(hilo[t].e)] = t
           /\ candado = [candado EXCEPT ![Archivo(hilo[t].e)] = t]
<1>1. TypeOK /\ Cerrojos /\ EnPaso(meta, hilo[t]) /\ hilo[t].e \in Etiquetas
  BY HiloTipo DEF Estructura
<1>2. Enlazados(hilo[t].e) /\ candado[Archivo(hilo[t].e)] = t
  BY <1>1 DEF Estructura, Cerrojos
<1>3. candado = [candado EXCEPT ![Archivo(hilo[t].e)] = t]
  BY <1>1, <1>2 DEF TypeOK
<1> QED BY <1>1, <1>2, <1>3, HiloTipo

\* The same, when BLOCKS and links of its File:Tag stay as they are, and so does its list.
MismaLista(t, e, r) ==
    /\ Dentro(t, e, r) \/ Suelta(t, e, r)
    /\ ConLista(hilo[t]) => hilo[t].lista = IF ConLista(r) THEN r.lista ELSE meta[e].bloques
    /\ ~ConLista(hilo[t]) => ~ConLista(r)
    /\ Suelta(t, e, r) => ~ConLista(r) /\ Len(enlace[e]) = Len(meta[e].bloques)
    /\ Dentro(t, e, r) => (Fase(hilo[t]) = "borra" <=> Fase(r) = "borra")

LEMMA PasoSinCambios ==
    ASSUME Estructura, NEW t \in Hilos, NEW e \in Etiquetas, NEW r \in Registro,
           hilo' = [hilo EXCEPT ![t] = r], MismaLista(t, e, r), EnPaso(meta', r),
           meta' = meta, enlace' = enlace, contenido' \in [Bloques -> Valores],
           bitmap' \subseteq Bloques, indice' \in [Valores -> Bloques \cup {NULL}],
           mutexHash' \in Hilos \cup {NULL}
    PROVE  Estructura' /\ Aparte(e) /\ ListaDe(e)' = ListaDe(e)
<1>1. TypeOK /\ Cerrojos /\ Enlazados(e) /\ Paso(t, e, r)
  BY EnCurso DEF MismaLista, Dentro, Suelta, Paso
<1>2. ListaDe(e) = IF ConLista(hilo[t]) THEN hilo[t].lista ELSE meta[e].bloques
  BY <1>1, PropiaAntes DEF MismaLista
<1>3. CASE Dentro(t, e, r)
  <2>1. ListaDe(e)' = IF ConLista(r) THEN r.lista ELSE meta[e].bloques
    BY <1>1, <1>3, PropiaDespues
  <2>2. Borrando(candado', hilo', e) <=> Borrando(candado, hilo, e)
    BY <1>1, <1>3, PropiaAntes, PropiaDespues DEF MismaLista
  <2>3. ListaDe(e)' = ListaDe(e)
    BY <1>2, <2>1 DEF MismaLista
  <2>4. Enlazada(meta'[e], enlace'[e], ListaDe(e)', Borrando(candado', hilo', e))
    BY <1>1, <2>2, <2>3 DEF Enlazados, Enlazada
  <2>5. Enlazados(e)'
    BY <2>4 DEF Enlazados
  <2> QED BY <1>1, <2>3, <2>5, PasoAparte, PasoEstructura, MetaTipo DEF Metadatos
<1>4. CASE Suelta(t, e, r)
  <2>1. ListaDe(e)' = meta[e].bloques /\ ~Borrando(candado', hilo', e)
    BY <1>1, <1>4, PropiaDespues
  <2>2. ListaDe(e)' = ListaDe(e)
    BY <1>2, <1>4, <2>1 DEF MismaLista
  <2>3. Enlazada(meta'[e], enlace'[e], ListaDe(e)', Borrando(candado', hilo', e))
    BY <1>1, <1>4, <2>1, <2>2 DEF Enlazados, Enlazada, MismaLista
  <2>4. Enlazados(e)'
    BY <2>3 DEF Enlazados
  <2> QED BY <1>1, <2>2, <2>4, PasoAparte, PasoEstructura, MetaTipo DEF Metadatos
<1> QED BY <1>3, <1>4 DEF MismaLista

LEMMA ReservarGuarda ==
    ASSUME Estructura, NEW t \in Hilos, reservarBloqueLibre(t)
    PROVE  Guarda
<1> DEFINE libres == Bloques \ bitmap
           b == Elegido(libres)
           s == [hilo[t] EXCEPT !.paso = "copia", !.b = b]
<1>0. PICK e \in Etiquetas : e = hilo[t].e
  BY HiloTipo DEF Estructura
<1>1. hilo[t].paso = "reserva" /\ ~SinCandado(hilo[t])
  BY DEF reservarBloqueLibre, SinCandado
<1>2. /\ TypeOK /\ Cerrojos /\ hilo[t] \in Registro /\ EnPaso(meta, hilo[t]) /\ Enlazados(e)
  BY <1>0, <1>1, EnCurso
<1>3. /\ meta' = meta /\ enlace' = enlace /\ contenido' = contenido
      /\ indice' = indice /\ mutexHash' = mutexHash
      /\ \/ /\ libres = {} /\ bitmap' = bitmap /\ hilo' = [hilo EXCEPT ![t] = Libre]
            /\ candado' = [candado EXCEPT ![Archivo(e)] = NULL]
         \/ /\ libres # {} /\ bitmap' = bitmap \cup {b} /\ hilo' = [hilo EXCEPT ![t] = s]
            /\ candado' = candado
  BY <1>0 DEF reservarBloqueLibre, Termina, unlock_file_metadata, Va, Marca
<1>4. /\ Fase(hilo[t]) = "reserva" /\ ~ConLista(hilo[t]) /\ ~Commiteando(hilo[t])
      /\ ~Apartado(hilo[t]) /\ meta[e].estado = "WORK_IN_PROGRESS"
      /\ hilo[t].i \in DOMAIN meta[e].bloques /\ hilo[t].v \in Valores /\ hilo[t].sigue = "libre"
  BY <1>0, <1>1, <1>2 DEF Fase, ConLista, Commiteando, Apartado, EnPaso, Escribiendo
<1>5. CASE libres = {}
  <2>1. /\ bitmap' = bitmap /\ hilo' = [hilo EXCEPT ![t] = Libre]
        /\ candado' = [candado EXCEPT ![Archivo(e)] = NULL]
    BY <1>3, <1>5
  <2>2. Suelta(t, e, Libre) /\ ~ConLista(Libre) /\ ~Commiteando(Libre) /\ ~Apartado(Libre)
    BY <1>0, <1>1, <2>1, LibreTipo DEF Suelta, SinCandado, ConLista, Fase, Commiteando, Apartado
  <2>3. Len(enlace[e]) = Len(meta[e].bloques)
    <3>1. Paso(t, e, Libre)
      BY <2>1, <2>2 DEF Paso
    <3> QED BY <1>2, <1>4, <2>2, <3>1, LibreTipo, PropiaAntes DEF Enlazados, Enlazada
  <2>4. MismaLista(t, e, Libre)
    BY <1>4, <2>2, <2>3 DEF MismaLista, Suelta, Dentro
  <2>5. EnPaso(meta', Libre)
    BY LibreTipo DEF EnPaso, Fase, SinCandado, Escribiendo
  <2>6. Estructura' /\ Aparte(e) /\ ListaDe(e)' = ListaDe(e)
    BY <1>2, <1>3, <2>1, <2>4, <2>5, LibreTipo, PasoSinCambios DEF TypeOK
  <2>7. ASSUME IInv, Contenidos PROVE IInv' /\ Contenidos'
    <3>1. Paso(t, e, Libre)
      BY <2>1, <2>2 DEF Paso
    <3>2. \A i : ~FijaEn(meta', candado', hilo', e, i) /\ ~FijaEn(meta, candado, hilo, e, i)
      BY <1>2, <1>3, <1>4, <2>2, <3>1, LibreTipo, PropiaAntes, PropiaDespues
    <3>3. Apartados' = Apartados
      BY <1>2, <1>4, <2>1, <2>2, MismosApartados
    <3>4. Quieto(t, e, Libre)
      BY <1>3, <1>4, <2>1, <2>6, <3>2, <3>3, LibreTipo DEF Quieto, Leido
    <3> QED BY <2>6, <2>7, <3>4, PasoQuieto
  <2> QED BY <2>6, <2>7 DEF Guarda
<1>6. CASE libres # {}
  <2>1. /\ bitmap' = bitmap \cup {b} /\ hilo' = [hilo EXCEPT ![t] = s] /\ candado' = candado
    BY <1>3, <1>6
  <2>2. b \in Bloques /\ b \notin bitmap
    <3>1. libres \subseteq Nat /\ IsFiniteSet(libres)
      BY StorageSupuesto, FS_Subset
    <3> QED BY <1>6, <3>1, MinEsMinimo DEF Elegido
  <2> HIDE DEF b, libres
  <2>3. /\ s \in Registro /\ s.paso = "copia" /\ s.b = b /\ s.e = e /\ s.i = hilo[t].i
        /\ s.v = hilo[t].v /\ s.sigue = "libre"
    BY <1>0, <1>2, <1>4, <2>2 DEF Registro, Pasos
  <2> HIDE DEF s
  <2>4. Dentro(t, e, s) /\ ~ConLista(s) /\ ~Commiteando(s) /\ Apartado(s) /\ Fase(s) = "copia"
    BY <1>0, <1>1, <2>1, <2>3 DEF Dentro, SinCandado, ConLista, Fase, Commiteando, Apartado
  <2>5. MismaLista(t, e, s)
    BY <1>4, <2>4 DEF MismaLista, Suelta, Dentro
  <2>6. EnPaso(meta', s)
    BY <1>3, <1>4, <2>3, <2>4 DEF EnPaso, SinCandado, Escribiendo
  <2>7. Estructura' /\ Aparte(e) /\ ListaDe(e)' = ListaDe(e)
    <3>1. bitmap' \subseteq Bloques
      BY <1>2, <2>1, <2>2 DEF TypeOK
    <3> QED BY <1>2, <1>3, <2>1, <2>3, <2>5, <2>6, <3>1, PasoSinCambios DEF TypeOK
  <2>8. ASSUME IInv, Contenidos PROVE IInv' /\ Contenidos'
    <3>1. Paso(t, e, s)
      BY <2>1, <2>4 DEF Paso
    <3>2. \A i : ~FijaEn(meta', candado', hilo', e, i) /\ ~FijaEn(meta, candado, hilo, e, i)
      BY <1>2, <1>3, <1>4, <2>3, <2>4, <3>1, PropiaAntes, PropiaDespues
    <3>3. Apartados' = Apartados \cup {<<t, b>>}
      BY <1>2, <1>4, <2>1, <2>3, <2>4, MismosApartados
    <3>4. Lista' = Lista /\ Fijas' = Fijas
      BY <2>7, <3>2, MismasListas
    <3>5. Bloqueo(Lista', enlace', Fijas', bitmap', Apartados')
      BY <1>3, <2>1, <2>2, <2>8, <3>3, <3>4, Reserva DEF IInv
    <3>6. Fiel(t, e, s)
      BY <1>3, <1>4, <2>1, <2>3, <2>7, <3>2, <3>4, FijaDespues DEF Fiel, Leido
    <3> QED BY <2>7, <2>8, <3>5, <3>6, PasoFiel
  <2> QED BY <2>7, <2>8 DEF Guarda
<1> QED BY <1>5, <1>6

LEMMA EscribirFisicoGuarda ==
    ASSUME Estructura, NEW t \in Hilos, escribirFisicoDirecto(t)
    PROVE  Guarda
<1> DEFINE b == hilo[t].b
           s == [hilo[t] EXCEPT !.paso = "enlaza"]
<1>0. PICK e \in Etiquetas : e = hilo[t].e
  BY HiloTipo DEF Estructura
<1>1. hilo[t].paso \in {"copia", "sobrescribe"} /\ ~SinCandado(hilo[t])
  BY DEF escribirFisicoDirecto, SinCandado
<1>2. /\ TypeOK /\ Cerrojos /\ hilo[t] \in Registro /\ EnPaso(meta, hilo[t]) /\ Enlazados(e)
  BY <1>0, <1>1, EnCurso
<1>3. /\ meta' = meta /\ enlace' = enlace /\ bitmap' = bitmap
      /\ indice' = indice /\ mutexHash' = mutexHash
      /\ contenido' = [contenido EXCEPT ![b] = hilo[t].v]
      /\ \/ /\ hilo[t].paso = "sobrescribe" /\ hilo' = [hilo EXCEPT ![t] = Libre]
            /\ candado' = [candado EXCEPT ![Archivo(e)] = NULL]
         \/ /\ hilo[t].paso = "copia" /\ hilo' = [hilo EXCEPT ![t] = s]
            /\ candado' = candado
  BY <1>0, <1>1 DEF escribirFisicoDirecto, Termina, unlock_file_metadata, Va
<1>4. /\ Fase(hilo[t]) = hilo[t].paso /\ ~ConLista(hilo[t]) /\ ~Commiteando(hilo[t])
      /\ meta[e].estado = "WORK_IN_PROGRESS" /\ b \in Bloques
      /\ hilo[t].i \in DOMAIN meta[e].bloques /\ hilo[t].v \in Valores /\ hilo[t].sigue = "libre"
  BY <1>0, <1>1, <1>2, HiloTipo DEF Fase, ConLista, Commiteando, EnPaso, Escribiendo
<1>5. contenido' \in [Bloques -> Valores]
  BY <1>2, <1>3, <1>4 DEF TypeOK
<1>6. CASE hilo[t].paso = "sobrescribe"
  <2>1. /\ hilo' = [hilo EXCEPT ![t] = Libre]
        /\ candado' = [candado EXCEPT ![Archivo(e)] = NULL]
    BY <1>3, <1>6
  <2>2. Suelta(t, e, Libre) /\ ~ConLista(Libre)
    BY <1>0, <1>1, <2>1, LibreTipo DEF Suelta, SinCandado, ConLista, Fase
  <2>3. Len(enlace[e]) = Len(meta[e].bloques)
    <3>1. Paso(t, e, Libre)
      BY <2>1, <2>2 DEF Paso
    <3> QED BY <1>2, <1>4, <1>6, <2>2, <3>1, LibreTipo, PropiaAntes DEF Enlazados, Enlazada
  <2>4. MismaLista(t, e, Libre)
    BY <1>4, <2>2, <2>3 DEF MismaLista, Suelta, Dentro
  <2>5. EnPaso(meta', Libre)
    BY LibreTipo DEF EnPaso, Fase, SinCandado, Escribiendo
  <2>6. Estructura'
    BY <1>2, <1>3, <1>5, <2>1, <2>4, <2>5, LibreTipo, PasoSinCambios DEF TypeOK
  <2> QED BY <1>6, <2>6 DEF Guarda, IInv
<1>7. CASE hilo[t].paso = "copia"
  <2>1. hilo' = [hilo EXCEPT ![t] = s] /\ candado' = candado
    BY <1>3, <1>7
  <2>2. /\ s \in Registro /\ s.paso = "enlaza" /\ s.b = b /\ s.e = e /\ s.i = hilo[t].i
        /\ s.v = hilo[t].v /\ s.sigue = "libre"
    BY <1>0, <1>2, <1>4 DEF Registro, Pasos
  <2> HIDE DEF s
  <2>3. Dentro(t, e, s) /\ ~ConLista(s) /\ ~Commiteando(s) /\ Apartado(s) /\ Fase(s) = "enlaza"
        /\ Apartado(hilo[t])
    BY <1>0, <1>1, <1>7, <2>1, <2>2 DEF Dentro, SinCandado, ConLista, Fase, Commiteando, Apartado
  <2>4. MismaLista(t, e, s)
    BY <1>4, <1>7, <2>3 DEF MismaLista, Suelta, Dentro
  <2>5. EnPaso(meta', s)
    BY <1>3, <1>4, <2>2, <2>3 DEF EnPaso, SinCandado, Escribiendo
  <2>6. Estructura' /\ Aparte(e) /\ ListaDe(e)' = ListaDe(e)
    BY <1>2, <1>3, <1>5, <2>1, <2>2, <2>4, <2>5, PasoSinCambios DEF TypeOK
  <2>7. ASSUME IInv, Contenidos PROVE IInv' /\ Contenidos'
    <3>1. Paso(t, e, s)
      BY <2>1, <2>3 DEF Paso
    <3>2. \A i : ~FijaEn(meta', candado', hilo', e, i) /\ ~FijaEn(meta, candado, hilo, e, i)
      BY <1>2, <1>3, <1>4, <2>2, <2>3, <3>1, PropiaAntes, PropiaDespues
    <3>3. Apartados' = Apartados /\ <<t, b>> \in Apartados
      BY <1>2, <2>1, <2>2, <2>3, MismosApartados, ApartadosDespues
    <3>4. \A c \in Bloques : contenido'[c] = contenido[c] \/ <<t, c>> \in Apartados
      BY <1>2, <1>3, <3>3 DEF TypeOK
    <3>5. Leido(contenido', enlace, Fijas, s)
      BY <1>2, <1>3, <1>4, <2>2 DEF Leido, TypeOK
    <3>6. Quieto(t, e, s)
      BY <1>3, <1>4, <2>1, <2>2, <2>6, <3>2, <3>3, <3>4, <3>5 DEF Quieto
    <3> QED BY <2>6, <2>7, <3>6, PasoQuieto
  <2> QED BY <2>6, <2>7 DEF Guarda
<1> QED BY <1>1, <1>6, <1>7

LEMMA EnlazaCopiaGuarda ==
    ASSUME Estructura, NEW t \in Hilos, EnlazaCopia(t)
    PROVE  Guarda
<1> DEFINE b == hilo[t].b
           i == hilo[t].i
<1>0. PICK e \in Etiquetas : e = hilo[t].e
  BY HiloTipo DEF Estructura
<1> DEFINE s == [meta[e].bloques EXCEPT ![i] = b]
           z == [enlace[e] EXCEPT ![i] = b]
           m == [meta[e] EXCEPT !.bloques = s]
<1>1. hilo[t].paso = "enlaza" /\ ~SinCandado(hilo[t])
  BY DEF EnlazaCopia, SinCandado
<1>2. /\ TypeOK /\ Cerrojos /\ hilo[t] \in Registro /\ EnPaso(meta, hilo[t]) /\ Enlazados(e)
  BY <1>0, <1>1, EnCurso
<1>3. /\ meta' = [meta EXCEPT ![e] = m] /\ enlace' = [enlace EXCEPT ![e] = z]
      /\ contenido' = contenido /\ bitmap' = bitmap
      /\ indice' = indice /\ mutexHash' = mutexHash /\ hilo' = [hilo EXCEPT ![t] = Libre]
      /\ candado' = [candado EXCEPT ![Archivo(e)] = NULL]
  BY <1>0, <1>1 DEF EnlazaCopia, Termina, unlock_file_metadata, Va
<1>4. /\ Fase(hilo[t]) = "enlaza" /\ ~ConLista(hilo[t]) /\ ~Commiteando(hilo[t]) /\ Apartado(hilo[t])
      /\ meta[e].estado = "WORK_IN_PROGRESS" /\ b \in Bloques
      /\ i \in DOMAIN meta[e].bloques /\ hilo[t].v \in Valores
  BY <1>0, <1>1, <1>2, HiloTipo DEF Fase, ConLista, Commiteando, Apartado, EnPaso, Escribiendo
<1>5. Suelta(t, e, Libre) /\ Paso(t, e, Libre) /\ ~Apartado(Libre)
  BY <1>0, <1>1, <1>3, LibreTipo DEF Suelta, SinCandado, Paso, Apartado
<1>6. ListaDe(e) = meta[e].bloques /\ ~Borrando(candado, hilo, e)
      /\ \A j : ~FijaEn(meta, candado, hilo, e, j)
  BY <1>2, <1>4, <1>5, LibreTipo, PropiaAntes
<1>7. Len(enlace[e]) = Len(meta[e].bloques) /\ Len(meta[e].bloques) <= MaxTam
      /\ i \in DOMAIN enlace[e] /\ \A j \in DOMAIN enlace[e] : enlace[e][j] \in {COPIA, meta[e].bloques[j]}
  <2>1. Len(enlace[e]) = Len(meta[e].bloques)
    BY <1>2, <1>6 DEF Enlazados, Enlazada
  <2>2. DOMAIN enlace[e] = DOMAIN meta[e].bloques
    BY <1>2, <2>1, MetaTipo, LenProperties
  <2> QED BY <1>2, <1>4, <1>6, <2>1, <2>2 DEF Enlazados, Enlazada
<1>8. /\ s \in Seq(Bloques) /\ Len(s) = Len(meta[e].bloques) /\ DOMAIN s = DOMAIN meta[e].bloques
      /\ s[i] = b /\ \A j \in DOMAIN meta[e].bloques \ {i} : s[j] = meta[e].bloques[j]
  BY <1>2, <1>4, MetaTipo, CambiaUno
<1>9. /\ z \in Seq(Bloques \cup {COPIA}) /\ Len(z) = Len(enlace[e]) /\ DOMAIN z = DOMAIN enlace[e]
      /\ z[i] = b /\ \A j \in DOMAIN enlace[e] \ {i} : z[j] = enlace[e][j]
  BY <1>2, <1>4, <1>7, MetaTipo, CambiaUno
<1> HIDE DEF s, z
<1>10. m \in Metadatos /\ m.bloques = s /\ m.estado = "WORK_IN_PROGRESS"
  BY <1>2, <1>4, <1>8, MetaTipo DEF Metadatos
<1> HIDE DEF m
<1>11. /\ meta'[e] = m /\ meta' \in [Etiquetas -> Metadatos]
       /\ enlace'[e] = z /\ enlace' \in [Etiquetas -> Seq(Bloques \cup {COPIA})]
       /\ \A d \in Etiquetas \ {e} : meta'[d] = meta[d] /\ enlace'[d] = enlace[d]
  BY <1>2, <1>3, <1>9, <1>10, MetaTipo
<1>12. ListaDe(e)' = s /\ ~Borrando(candado', hilo', e) /\ \A j : ~FijaEn(meta', candado', hilo', e, j)
  BY <1>2, <1>5, <1>10, <1>11, LibreTipo, PropiaDespues
<1>13. Enlazados(e)'
  <2>1. \A j \in DOMAIN z : z[j] \in {COPIA, s[j]}
    <3> SUFFICES ASSUME NEW j \in DOMAIN z PROVE z[j] \in {COPIA, s[j]}
      OBVIOUS
    <3>1. j \in DOMAIN enlace[e] /\ j \in DOMAIN meta[e].bloques
      BY <1>2, <1>7, <1>9, MetaTipo, LenProperties
    <3> QED BY <1>7, <1>8, <1>9, <3>1
  <2>2. Enlazada(m, z, s, FALSE)
    BY <1>7, <1>8, <1>9, <1>10, <2>1 DEF Enlazada
  <2> QED BY <1>11, <1>12, <2>2 DEF Enlazados, Enlazada
<1>14. Estructura'
  <2>1. EnPaso(meta', Libre)
    BY LibreTipo DEF EnPaso, Fase, SinCandado, Escribiendo
  <2> QED BY <1>2, <1>3, <1>5, <1>11, <1>13, <2>1, LibreTipo, PasoEstructura, MetaTipo DEF Metadatos
<1>15. ASSUME IInv, Contenidos PROVE IInv' /\ Contenidos'
  <2>1. Aparte(e)
    BY <1>2, <1>5, <1>11, LibreTipo, PasoAparte
  <2>2. Fijas' = Fijas /\ \A j : <<e, j>> \notin Fijas
    <3> SUFFICES \A x : x \in Fijas' <=> x \in Fijas
      BY <1>6, FijaDe
    <3>1. ASSUME NEW x PROVE x \in Fijas' <=> x \in Fijas
      <4>1. CASE x[1] = e
        BY <1>6, <1>12, <4>1, FijaDe, FijaDespues
      <4>2. CASE x[1] # e
        BY <2>1, <4>2, AparteFijas
      <4> QED BY <4>1, <4>2
    <3> QED BY <3>1
  <2>3. Apartados' = Apartados \ {<<t, b>>} /\ <<t, b>> \in Apartados
    BY <1>2, <1>3, <1>4, <1>5, MismosApartados
  <2>4. /\ Lista' = [Lista EXCEPT ![e] = s] /\ Lista[e] = meta[e].bloques
        /\ Encaja(Lista, enlace, Fijas)
    BY <1>6, <1>12, <1>14, <2>1, AparteListas, EncajanSiempre DEF Encajan
  <2>5. /\ Bloqueo(Lista', enlace', Fijas, bitmap, Apartados \ {<<t, b>>})
        /\ \A c : Anclado(enlace, Fijas, c) => Anclado(enlace', Fijas, c)
    <3>1. /\ Lista' = [Lista EXCEPT ![e] = [Lista[e] EXCEPT ![i] = b]]
          /\ enlace' = [enlace EXCEPT ![e] = [enlace[e] EXCEPT ![i] = b]]
      BY <1>3, <2>4 DEF s, z
    <3>2. Bloqueo(Lista, enlace, Fijas, bitmap, Apartados)
      BY <1>15 DEF IInv
    <3>3. Reemplazo(Lista, enlace, Fijas, e, i, b, Lista', enlace')
      BY <1>7, <2>2, <3>1 DEF Reemplazo
    <3> QED BY <1>4, <2>3, <2>4, <3>2, <3>3, Reemplaza
  <2>6. Fiel(t, e, Libre)
    BY <1>3, <1>4, <2>1, <2>2, <2>5, LibreTipo DEF Fiel, Leido
  <2> QED BY <1>3, <1>14, <1>15, <2>2, <2>3, <2>5, <2>6, PasoFiel
<1> QED BY <1>14, <1>15 DEF Guarda

LEMMA LimpiaGuarda ==
    ASSUME Estructura, NEW t \in Hilos, LimpiaBit(t)
    PROVE  Guarda
<1> DEFINE b == hilo[t].b
           s == [hilo[t] EXCEPT !.paso = hilo[t].sigue, !.sigue = "libre"]
<1>0. PICK e \in Etiquetas : e = hilo[t].e
  BY HiloTipo DEF Estructura
<1>1. hilo[t].paso = "libera" /\ ~SinCandado(hilo[t])
  BY DEF LimpiaBit, SinCandado
<1>2. /\ TypeOK /\ Cerrojos /\ hilo[t] \in Registro /\ EnPaso(meta, hilo[t]) /\ Enlazados(e)
  BY <1>0, <1>1, EnCurso
<1>3. /\ meta' = meta /\ enlace' = enlace /\ contenido' = contenido /\ indice' = indice
      /\ bitmap' = bitmap \ {b} /\ mutexHash' = (IF mutexHash = t THEN NULL ELSE mutexHash)
      /\ hilo' = [hilo EXCEPT ![t] = s] /\ candado' = candado
  BY <1>1 DEF LimpiaBit, Va
<1>4. hilo[t].sigue \in {"achica", "borra", "hash"} /\ Fase(hilo[t]) = hilo[t].sigue
      /\ Apartado(hilo[t])
  BY <1>1, <1>2 DEF EnPaso, Fase, Apartado
<1>5. /\ s \in Registro /\ s.paso = hilo[t].sigue /\ s.e = e /\ s.i = hilo[t].i
      /\ s.lista = hilo[t].lista /\ s.v = hilo[t].v /\ s.sigue = "libre"
  BY <1>0, <1>2, <1>4 DEF Registro, Pasos
<1> HIDE DEF s
<1>6. Dentro(t, e, s) /\ Fase(s) = Fase(hilo[t]) /\ ~Apartado(s) /\ ConLista(s) /\ ConLista(hilo[t])
  BY <1>0, <1>1, <1>3, <1>4, <1>5 DEF Dentro, SinCandado, ConLista, Fase, Apartado
<1>7. MismaLista(t, e, s)
  BY <1>5, <1>6 DEF MismaLista, Suelta, Dentro
<1>8. EnPaso(meta', s)
  BY <1>0, <1>1, <1>2, <1>3, <1>4, <1>5, <1>6 DEF EnPaso, SinCandado, Escribiendo
<1>9. Estructura' /\ Aparte(e) /\ ListaDe(e)' = ListaDe(e)
  <2>1. bitmap' \subseteq Bloques /\ mutexHash' \in Hilos \cup {NULL}
    BY <1>2, <1>3 DEF TypeOK
  <2> QED BY <1>2, <1>3, <1>5, <1>7, <1>8, <2>1, PasoSinCambios DEF TypeOK
<1>10. ASSUME IInv, Contenidos PROVE IInv' /\ Contenidos'
  <2>1. Paso(t, e, s)
    BY <1>3, <1>6 DEF Paso
  <2>2. \A i : FijaEn(meta', candado', hilo', e, i) <=> FijaEn(meta, candado, hilo, e, i)
    <3>1. Commiteando(s) <=> Commiteando(hilo[t])
      BY <1>6 DEF Commiteando
    <3> QED BY <1>2, <1>3, <1>5, <1>6, <2>1, <3>1, PropiaAntes, PropiaDespues
  <2>3. Apartados' = Apartados \ {<<t, b>>} /\ <<t, b>> \in Apartados
    BY <1>2, <1>3, <1>4, <1>6, MismosApartados
  <2>4. Lista' = Lista /\ Fijas' = Fijas
    BY <1>9, <2>2, MismasListas
  <2>5. Bloqueo(Lista', enlace', Fijas', bitmap', Apartados')
    BY <1>3, <1>10, <2>3, <2>4, Suelto DEF IInv
  <2>6. Fiel(t, e, s)
    BY <1>3, <1>4, <1>5, <1>9, <2>4 DEF Fiel, Leido
  <2> QED BY <1>9, <1>10, <2>5, <2>6, PasoFiel
<1> QED BY <1>9, <1>10 DEF Guarda

\* Links as many as blocks, while no DELETE is in course.
LEMMA EnlazadosTipo ==
    ASSUME TypeOK, NEW e \in Etiquetas, Enlazados(e), ListaDe(e) \in Seq(Bloques),
           ~Borrando(candado, hilo, e)
    PROVE  /\ Len(enlace[e]) = Len(ListaDe(e)) /\ DOMAIN enlace[e] = DOMAIN ListaDe(e)
           /\ Len(ListaDe(e)) <= MaxTam /\ Len(ListaDe(e)) \in Nat
           /\ \A i \in DOMAIN enlace[e] : enlace[e][i] \in {COPIA, ListaDe(e)[i]}
<1>1. Len(enlace[e]) = Len(ListaDe(e)) /\ Len(ListaDe(e)) <= MaxTam
      /\ \A i \in DOMAIN enlace[e] : enlace[e][i] \in {COPIA, ListaDe(e)[i]}
  BY DEF Enlazados, Enlazada
<1> QED BY <1>1, MetaTipo, LenProperties

LEMMA AgrandaGuarda ==
    ASSUME Estructura, NEW t \in Hilos, NEW e \in Etiquetas, NEW n \in 0..MaxTam,
           truncate_agranda(t, e, n)
    PROVE  Guarda
<1> DEFINE r == hilo[t]
           l == Len(meta[e].bloques)
           nuevos == [k \in 1..(n - l) |-> 0]
           s == meta[e].bloques \o nuevos
           z == enlace[e] \o nuevos
           m == [meta[e] EXCEPT !.bloques = s]
<1>1. /\ TypeOK /\ Cerrojos /\ r \in Registro /\ EnPaso(meta, r) /\ Enlazados(e)
  BY HiloTipo DEF Estructura
<1>2. /\ r.paso = "libre" /\ candado[Archivo(e)] = NULL /\ meta[e].estado = "WORK_IN_PROGRESS"
      /\ n > l /\ meta' = [meta EXCEPT ![e] = m] /\ enlace' = [enlace EXCEPT ![e] = z]
      /\ contenido' = contenido
      /\ bitmap' = bitmap /\ indice' = indice /\ candado' = candado /\ mutexHash' = mutexHash
      /\ hilo' = hilo
  BY DEF truncate_agranda, Excluye, Modificable
<1>3. hilo' = [hilo EXCEPT ![t] = r]
  BY <1>1, <1>2 DEF TypeOK
<1>4. ListaDe(e) = meta[e].bloques /\ ~Borrando(candado, hilo, e)
      /\ \A i : ~FijaEn(meta, candado, hilo, e, i)
  BY <1>2 DEF ListaDe, ListaEn, Borrando, FijaEn
<1>5. /\ Len(enlace[e]) = l /\ l \in Nat /\ DOMAIN enlace[e] = DOMAIN meta[e].bloques
      /\ \A i \in DOMAIN enlace[e] : enlace[e][i] \in {COPIA, meta[e].bloques[i]}
  BY <1>1, <1>4, EnlazadosTipo, MetaTipo
<1>6. 0 \in Bloques /\ 0 # COPIA /\ n - l \in Nat /\ n \in Nat /\ n <= MaxTam
  BY <1>2, <1>5, StorageSupuesto
<1>7. PICK d \in Nat : nuevos = [k \in 1..d |-> 0] /\ l + d = n
  <2>1. \E d \in Nat : d = n - l
    BY <1>6
  <2>2. PICK d \in Nat : d = n - l
    BY <2>1
  <2>3. nuevos = [k \in 1..d |-> 0]
    BY <2>2
  <2>4. l + d = n
    BY ONLY <2>2, <1>5, <1>6
  <2> QED BY <2>3, <2>4
<1> HIDE DEF nuevos
<1>8. /\ s \in Seq(Bloques) /\ Len(s) = n
      /\ \A i \in DOMAIN s : s[i] = IF i \in DOMAIN meta[e].bloques THEN meta[e].bloques[i] ELSE 0
  <2>1. meta[e].bloques \in Seq(Bloques)
    BY <1>1, MetaTipo
  <2> QED BY <1>6, <1>7, <2>1, AlargaTipo
<1>9. /\ z \in Seq(Bloques \cup {COPIA}) /\ Len(z) = n
       /\ \A i \in DOMAIN z : z[i] = IF i \in DOMAIN enlace[e] THEN enlace[e][i] ELSE 0
  <2> DEFINE S == Bloques \cup {COPIA}
  <2>1. enlace[e] \in Seq(S) /\ 0 \in S
    BY <1>1, <1>6, MetaTipo
  <2> HIDE DEF S
  <2>2. /\ z \in Seq(S) /\ Len(z) = Len(enlace[e]) + d
        /\ \A i \in DOMAIN z : z[i] = IF i \in DOMAIN enlace[e] THEN enlace[e][i] ELSE 0
    BY <1>7, <2>1, AlargaTipo
  <2> QED BY <1>5, <1>7, <2>2 DEF S
<1> HIDE DEF s, z
<1>10. m \in Metadatos /\ m.bloques = s /\ m.estado = "WORK_IN_PROGRESS"
  BY <1>1, <1>2, <1>8, MetaTipo DEF Metadatos
<1> HIDE DEF m, l, r
<1>11. Fuera(t, e, r) /\ Paso(t, e, r)
  BY <1>2, <1>3 DEF Fuera, Paso, SinCandado, r
<1>12. /\ meta'[e] = m /\ meta' \in [Etiquetas -> Metadatos]
       /\ enlace'[e] = z /\ enlace' \in [Etiquetas -> Seq(Bloques \cup {COPIA})]
       /\ \A c \in Etiquetas \ {e} : meta'[c] = meta[c] /\ enlace'[c] = enlace[c]
  BY <1>1, <1>2, <1>9, <1>10, MetaTipo
<1>13. ListaDe(e)' = s /\ ~Borrando(candado', hilo', e) /\ \A i : ~FijaEn(meta', candado', hilo', e, i)
  BY <1>2, <1>10, <1>12 DEF ListaDe, ListaEn, Borrando, FijaEn
<1>14. DOMAIN z = DOMAIN s
  BY <1>8, <1>9, LenProperties
<1>15. Enlazados(e)'
  <2>1. \A i \in DOMAIN z : z[i] \in {COPIA, s[i]}
    BY <1>5, <1>8, <1>9, <1>14
  <2>2. Enlazada(m, z, s, FALSE)
    BY <1>6, <1>8, <1>9, <1>10, <2>1 DEF Enlazada
  <2> QED BY <1>12, <1>13, <2>2 DEF Enlazados, Enlazada
<1>16. Estructura'
  <2>1. EnPaso(meta', r)
    BY <1>1, <1>2 DEF EnPaso, Fase, SinCandado, r, Escribiendo
  <2> QED BY <1>1, <1>2, <1>11, <1>12, <1>15, <2>1, PasoEstructura, MetaTipo DEF Metadatos
<1>17. ASSUME IInv, Contenidos PROVE IInv' /\ Contenidos'
  <2>1. Aparte(e)
    BY <1>1, <1>11, <1>12, PasoAparte
  <2>2. Apartados' = Apartados
    BY <1>1, <1>2, <1>3, MismosApartados DEF Apartado, r
  <2>3. \A i : <<e, i>> \notin Fijas /\ <<e, i>> \notin Fijas'
    BY <1>4, <1>13, FijaDe, FijaDespues
  <2>4. AnclasQuedan
    BY <1>16, <2>1, <2>3, PasoAnclas
  <2>5. Anclado(enlace', Fijas', 0) /\ ~SinLugar(Lista, 0)
    <3>1. meta[BASE].estado = "COMMITED" /\ 1 \in DOMAIN meta[BASE].bloques
          /\ meta[BASE].bloques[1] = 0 /\ BASE \in Etiquetas
      BY <1>17, StorageSupuesto DEF IInv, EnBase
    <3> QED BY <1>17, <2>4, <3>1, CommiteadoAnclado DEF AnclasQuedan
  <2>6. ASSUME NEW i \in DOMAIN z, z[i] = COPIA PROVE Anclado(enlace', Fijas', s[i])
    <3>1. i \in DOMAIN enlace[e] /\ enlace[e][i] = COPIA /\ s[i] = meta[e].bloques[i]
      BY <1>5, <1>6, <1>8, <1>9, <1>14, <2>6
    <3>2. Lista[e] = meta[e].bloques
      BY <1>4 DEF Lista
    <3>3. Anclado(enlace, Fijas, s[i])
      BY <1>17, <3>1, <3>2 DEF IInv, Bloqueo, Ancladas
    <3> QED BY <2>4, <3>3 DEF AnclasQuedan
  <2>7. Cambia(e, 0)
    <3>1. \A i \in DOMAIN s : \/ i + 0 \in DOMAIN meta[e].bloques /\ s[i] = meta[e].bloques[i + 0]
                              \/ s[i] = 0
      <4>1. \A i \in DOMAIN s : i + 0 = i
        BY <1>8, ListaTipo
      <4> QED BY <1>8, <4>1
    <3> QED BY <1>4, <1>12, <1>13, <2>1, <2>3, <2>5, <2>6, <3>1 DEF Cambia
  <2>8. Cambio(Lista, enlace, Fijas, e, 0, ListaDe(e)', enlace'[e], Lista', enlace', Fijas')
    BY <1>16, <2>7, PasoCambio
  <2>9. Encaja(Lista, enlace, Fijas) /\ ListaDe(e)' \in Seq(Bloques)
    BY <1>16, <2>1, EncajanSiempre, AparteListas DEF Encajan
  <2>10. Bloqueo(Lista', enlace', Fijas', bitmap', Apartados')
    <3>1. Bloqueo(Lista', enlace', Fijas', bitmap, Apartados)
      BY <1>17, <2>8, <2>9, CambioBloqueo DEF IInv
    <3> QED BY <1>2, <2>2, <3>1
  <2>11. Fiel(t, e, r)
    <3>1. Leido(contenido', enlace', Fijas', r) /\ r.paso # "sobrescribe"
      BY <1>2 DEF Leido, r
    <3> QED BY <1>2, <1>3, <2>1, <2>3, <2>4, <3>1 DEF Fiel, AnclasQuedan
  <2> QED BY <1>16, <1>17, <2>10, <2>11, PasoFiel
<1> QED BY <1>16, <1>17 DEF Guarda

LEMMA AchicaGuarda ==
    ASSUME Estructura, NEW t \in Hilos, NEW e \in Etiquetas, NEW n \in 0..MaxTam,
           truncate_achica(t, e, n)
    PROVE  Guarda
<1> DEFINE r == [Libre EXCEPT !.paso = "achica", !.e = e, !.i = n, !.lista = meta[e].bloques]
<1>1. /\ TypeOK /\ Cerrojos /\ Enlazados(e)
  BY DEF Estructura
<1>2. /\ hilo[t].paso = "libre" /\ candado[Archivo(e)] = NULL
      /\ candado' = [candado EXCEPT ![Archivo(e)] = t]
      /\ meta[e].estado = "WORK_IN_PROGRESS" /\ n < Len(meta[e].bloques)
      /\ hilo' = [hilo EXCEPT ![t] = r]
      /\ meta' = meta /\ enlace' = enlace /\ contenido' = contenido /\ bitmap' = bitmap
      /\ indice' = indice /\ mutexHash' = mutexHash
  BY DEF truncate_achica, lock_file_metadata, Modificable, Va
<1>3. n \in Nat /\ n <= Len(meta[e].bloques)
  BY <1>1, <1>2, StorageSupuesto, MetaTipo, LenProperties
<1>4. /\ r \in Registro /\ r.paso = "achica" /\ r.sigue = "libre" /\ r.e = e /\ r.i = n
      /\ r.lista = meta[e].bloques
  BY <1>1, <1>3, LibreTipo, MetaTipo DEF Registro, Pasos
<1> HIDE DEF r
<1>5. Toma(t, e, r) /\ Paso(t, e, r)
  BY <1>2, <1>4 DEF Toma, Paso, SinCandado
<1>6. Fase(r) = "achica" /\ ConLista(r) /\ ~Commiteando(r) /\ ~Apartado(r)
  BY <1>4 DEF Fase, ConLista, Commiteando, Apartado
<1>7. /\ ListaDe(e) = meta[e].bloques /\ ~Borrando(candado, hilo, e)
      /\ ListaDe(e)' = meta[e].bloques /\ ~Borrando(candado', hilo', e)
      /\ \A j : ~FijaEn(meta', candado', hilo', e, j) /\ ~FijaEn(meta, candado, hilo, e, j)
  BY <1>1, <1>2, <1>4, <1>5, <1>6, PropiaAntes, PropiaDespues
<1>8. Enlazados(e)'
  BY <1>1, <1>2, <1>7 DEF Enlazados, Enlazada
<1>9. Estructura'
  <2>1. EnPaso(meta', r)
    BY <1>2, <1>3, <1>4, <1>6 DEF EnPaso, Escribiendo
  <2> QED BY <1>1, <1>2, <1>4, <1>5, <1>8, <2>1, PasoEstructura, MetaTipo DEF Metadatos
<1>10. ASSUME IInv, Contenidos PROVE IInv' /\ Contenidos'
  <2>1. Aparte(e)
    BY <1>1, <1>2, <1>4, <1>5, PasoAparte
  <2>2. Apartados' = Apartados
    BY <1>1, <1>2, <1>6, MismosApartados DEF Apartado
  <2>3. Quieto(t, e, r)
    BY <1>2, <1>4, <1>7, <2>1, <2>2 DEF Quieto, Leido
  <2> QED BY <1>9, <1>10, <2>3, PasoQuieto
<1> QED BY <1>9, <1>10 DEF Guarda

\* The thread that has looked at the links of the block of r goes on from u.
Visto(en, r, u) ==
    /\ u \in Registro /\ u.e = r.e /\ u.i = r.i /\ u.v = r.v /\ u.b = r.b /\ u.lista = r.lista
    /\ Fase(u) = r.paso /\ (Apartado(u) <=> SoloElFisico(en, r.b)) /\ ~SinCandado(u)
    /\ u.paso \in {"libera", r.paso}
    /\ u.paso = "libera" => u.sigue \in {"achica", "borra", "hash"}
    /\ u.paso # "libera" => u.sigue = "libre"

LEMMA LiberaVisto ==
    ASSUME NEW t, NEW en, NEW r \in Registro, Libera(t, en, r),
           r.paso \in {"achica", "borra", "hash"}, r.sigue = "libre"
    PROVE  \E u : hilo' = [hilo EXCEPT ![t] = u] /\ Visto(en, r, u)
<1> DEFINE l == [r EXCEPT !.paso = "libera", !.sigue = r.paso]
<1>1. CASE SoloElFisico(en, r.b)
  <2>1. hilo' = [hilo EXCEPT ![t] = l]
    BY <1>1 DEF Libera, Va
  <2>2. /\ l \in Registro /\ l.e = r.e /\ l.i = r.i /\ l.v = r.v /\ l.b = r.b /\ l.lista = r.lista
        /\ l.paso = "libera" /\ l.sigue = r.paso
    BY DEF Registro, Pasos
  <2> HIDE DEF l
  <2>3. Visto(en, r, l)
    BY <1>1, <2>2 DEF Visto, Fase, Apartado, SinCandado
  <2> QED BY <2>1, <2>3
<1>2. CASE ~SoloElFisico(en, r.b)
  <2>1. hilo' = [hilo EXCEPT ![t] = r]
    BY <1>2 DEF Libera, Va
  <2>2. Visto(en, r, r)
    BY <1>2 DEF Visto, Fase, Apartado, SinCandado
  <2> QED BY <2>1, <2>2
<1> QED BY <1>1, <1>2

\* No place of the new list is place k of the old one, whose block is b.
Sobra(e, m, k, b) ==
    /\ k \in DOMAIN ListaDe(e) /\ b = ListaDe(e)[k]
    /\ \A i \in DOMAIN ListaDe(e)' : i + m # k \/ ListaDe(e)'[i] # ListaDe(e)[k]

LEMMA PasoLibera ==
    ASSUME IInv, Estructura', NEW t \in Hilos, NEW e \in Etiquetas, NEW r, NEW u,
           hilo' = [hilo EXCEPT ![t] = u], Visto(enlace', r, u), ~Apartado(hilo[t]),
           NEW m \in {0, 1}, Cambia(e, m), bitmap' = bitmap,
           NEW k, Sobra(e, m, k, r.b)
    PROVE  Bloqueo(Lista', enlace', Fijas', bitmap', Apartados') /\ AnclasQuedan
<1>1. /\ Cambio(Lista, enlace, Fijas, e, m, ListaDe(e)', enlace'[e], Lista', enlace', Fijas')
      /\ AnclasQuedan
  BY PasoCambio DEF IInv
<1>2. /\ Encaja(Lista, enlace, Fijas) /\ Encaja(Lista', enlace', Fijas')
      /\ ListaDe(e)' \in Seq(Bloques) /\ Lista[e] = ListaDe(e) /\ TypeOK
  BY EncajanSiempre, EncajanDespues, AparteListas DEF Encajan, Cambia, IInv, Estructura
<1>3. Bloqueo(Lista, enlace, Fijas, bitmap, Apartados)
  BY DEF IInv
<1>4. CASE ~Apartado(u)
  <2>1. Apartados' = Apartados
    BY <1>2, <1>4, MismosApartados
  <2>2. Bloqueo(Lista', enlace', Fijas', bitmap, Apartados)
    BY <1>1, <1>2, <1>3, CambioBloqueo
  <2> QED BY <1>1, <2>1, <2>2
<1>5. CASE Apartado(u)
  <2>1. u.b = Lista[e][k] /\ SoloElFisico(enlace', Lista[e][k])
    BY <1>2, <1>5 DEF Visto, Sobra
  <2>2. Apartados' = Apartados \cup {<<t, Lista[e][k]>>}
    BY <1>2, <1>5, <2>1, MismosApartados
  <2>3. Vacia(Lista, enlace, Fijas, e, m, ListaDe(e)', enlace'[e], Lista', enlace', Fijas',
              bitmap, Apartados, k)
    BY <1>1, <1>2, <1>3, <2>1 DEF Vacia, Sobra
  <2>4. Bloqueo(Lista', enlace', Fijas', bitmap, Apartados \cup {<<t, Lista[e][k]>>})
    BY <2>3, CambioLibera
  <2> QED BY <1>1, <2>2, <2>4
<1> QED BY <1>4, <1>5

LEMMA DesenlazaGuarda ==
    ASSUME Estructura, NEW t \in Hilos, DesenlazaUltimo(t)
    PROVE  Guarda
<1> DEFINE l == hilo[t].lista
           r == [hilo[t] EXCEPT !.b = Last(l), !.lista = Front(l)]
<1>0. PICK e \in Etiquetas : e = hilo[t].e
  BY HiloTipo DEF Estructura
<1> DEFINE z == Front(enlace[e])
<1>1. hilo[t].paso = "achica" /\ ~SinCandado(hilo[t]) /\ Len(l) > hilo[t].i
  BY DEF DesenlazaUltimo, SinCandado
<1>2. /\ TypeOK /\ Cerrojos /\ hilo[t] \in Registro /\ EnPaso(meta, hilo[t]) /\ Enlazados(e)
  BY <1>0, <1>1, EnCurso
<1>3. /\ meta' = meta /\ enlace' = [enlace EXCEPT ![e] = z] /\ contenido' = contenido
      /\ indice' = indice /\ mutexHash' = mutexHash /\ bitmap' = bitmap
      /\ Libera(t, enlace', r) /\ candado' = candado
  BY <1>0, <1>1 DEF DesenlazaUltimo
<1>4. /\ Fase(hilo[t]) = "achica" /\ ConLista(hilo[t]) /\ ~Commiteando(hilo[t])
      /\ ~Apartado(hilo[t]) /\ meta[e].estado = "WORK_IN_PROGRESS" /\ hilo[t].sigue = "libre"
      /\ l \in Seq(Bloques) /\ Len(l) \in Nat /\ hilo[t].i \in Nat /\ Len(l) > 0
  BY <1>0, <1>1, <1>2, HiloTipo, LenProperties DEF Fase, ConLista, Commiteando, Apartado, EnPaso
<1>5. /\ Front(l) \in Seq(Bloques) /\ Len(Front(l)) = Len(l) - 1 /\ Last(l) = l[Len(l)]
      /\ Last(l) \in Bloques /\ Len(l) \in DOMAIN l
      /\ \A i \in DOMAIN Front(l) : i \in DOMAIN l /\ i < Len(l) /\ Front(l)[i] = l[i]
  BY <1>4, FrontTipo
<1>6. /\ r \in Registro /\ r.paso = "achica" /\ r.sigue = "libre" /\ r.e = e
      /\ r.i = hilo[t].i /\ r.b = Last(l) /\ r.lista = Front(l)
  BY <1>0, <1>1, <1>2, <1>4, <1>5 DEF Registro
<1> HIDE DEF r
<1>7. PICK u : hilo' = [hilo EXCEPT ![t] = u] /\ Visto(enlace', r, u)
  BY <1>3, <1>6, LiberaVisto
<1>8. /\ u \in Registro /\ u.e = e /\ u.i = hilo[t].i /\ u.lista = Front(l) /\ u.b = Last(l)
      /\ Fase(u) = "achica" /\ ~SinCandado(u) /\ ConLista(u) /\ ~Commiteando(u)
      /\ u.paso \in {"libera", "achica"}
  BY <1>6, <1>7 DEF Visto, ConLista, Commiteando
<1>9. Dentro(t, e, u) /\ Paso(t, e, u)
  BY <1>0, <1>1, <1>3, <1>7, <1>8 DEF Dentro, Paso
<1>10. /\ ListaDe(e) = l /\ ~Borrando(candado, hilo, e)
       /\ ListaDe(e)' = Front(l) /\ ~Borrando(candado', hilo', e)
       /\ \A j : ~FijaEn(meta', candado', hilo', e, j) /\ ~FijaEn(meta, candado, hilo, e, j)
  BY <1>2, <1>3, <1>4, <1>8, <1>9, PropiaAntes, PropiaDespues
<1>11. Len(enlace[e]) = Len(l) /\ Len(l) <= MaxTam
       /\ \A j \in DOMAIN enlace[e] : enlace[e][j] \in {COPIA, l[j]}
  BY <1>2, <1>4, <1>10, EnlazadosTipo
<1>12. /\ z \in Seq(Bloques \cup {COPIA}) /\ Len(z) = Len(l) - 1
       /\ \A j \in DOMAIN z : j \in DOMAIN enlace[e] /\ z[j] = enlace[e][j]
  BY <1>2, <1>4, <1>11, MetaTipo, FrontTipo
<1>13. DOMAIN z = DOMAIN Front(l)
  BY <1>5, <1>12, LenProperties
<1> HIDE DEF z
<1>14. /\ enlace'[e] = z /\ enlace' \in [Etiquetas -> Seq(Bloques \cup {COPIA})]
       /\ \A d \in Etiquetas \ {e} : meta'[d] = meta[d] /\ enlace'[d] = enlace[d]
  BY <1>2, <1>3, <1>12, MetaTipo
<1>15. Enlazados(e)'
  <2>1. \A j \in DOMAIN z : z[j] \in {COPIA, Front(l)[j]}
    BY <1>5, <1>11, <1>12, <1>13
  <2>2. Len(Front(l)) <= MaxTam
    BY <1>4, <1>5, <1>11, StorageSupuesto
  <2>3. Enlazada(meta[e], z, Front(l), FALSE)
    BY <1>4, <1>5, <1>12, <2>1, <2>2 DEF Enlazada
  <2> QED BY <1>3, <1>10, <1>14, <2>3 DEF Enlazados, Enlazada
<1>16. Estructura'
  <2>1. EnPaso(meta', u)
    <3>1. u.i <= Len(u.lista)
      BY <1>1, <1>4, <1>5, <1>8
    <3> QED BY <1>0, <1>2, <1>3, <1>4, <1>6, <1>7, <1>8, <3>1 DEF EnPaso, Visto, Escribiendo
  <2> QED BY <1>2, <1>3, <1>8, <1>9, <1>14, <1>15, <2>1, PasoEstructura, MetaTipo DEF Metadatos
<1>17. ASSUME IInv, Contenidos PROVE IInv' /\ Contenidos'
  <2>1. Aparte(e)
    BY <1>2, <1>8, <1>9, <1>14, PasoAparte
  <2>2. \A i : <<e, i>> \notin Fijas /\ <<e, i>> \notin Fijas'
    BY <1>10, FijaDe, FijaDespues
  <2>3. AnclasQuedan
    BY <1>16, <2>1, <2>2, PasoAnclas
  <2>4. ASSUME NEW i \in DOMAIN z, z[i] = COPIA PROVE Anclado(enlace', Fijas', Front(l)[i])
    <3>1. i \in DOMAIN enlace[e] /\ enlace[e][i] = COPIA /\ Front(l)[i] = l[i]
      BY <1>5, <1>12, <1>13, <2>4
    <3>2. Lista[e] = l
      BY <1>10 DEF Lista
    <3>3. Anclado(enlace, Fijas, l[i])
      BY <1>17, <3>1, <3>2 DEF IInv, Bloqueo, Ancladas
    <3> QED BY <2>3, <3>1, <3>3 DEF AnclasQuedan
  <2>5. \A i \in DOMAIN Front(l) : i + 0 = i /\ i + 0 # Len(l)
    <3>1. \A i \in DOMAIN Front(l) : i \in Nat
      BY <1>5, ListaTipo
    <3> QED BY <1>4, <1>5, <3>1
  <2>6. Cambia(e, 0)
    BY <1>5, <1>10, <1>14, <2>1, <2>2, <2>4, <2>5 DEF Cambia
  <2>7. Bloqueo(Lista', enlace', Fijas', bitmap', Apartados')
    <3>1. Len(l) \in DOMAIN ListaDe(e) /\ r.b = ListaDe(e)[Len(l)]
      BY <1>5, <1>6, <1>10
    <3>2. \A i \in DOMAIN ListaDe(e)' : i + 0 # Len(l)
      BY <1>10, <2>5
    <3>3. Sobra(e, 0, Len(l), r.b)
      BY <3>1, <3>2 DEF Sobra
    <3> QED BY <1>3, <1>4, <1>7, <1>16, <1>17, <2>6, <3>3, PasoLibera
  <2>8. Fiel(t, e, u)
    BY <1>3, <1>4, <1>7, <1>8, <2>1, <2>2, <2>3 DEF Fiel, Leido, AnclasQuedan
  <2> QED BY <1>16, <1>17, <2>7, <2>8, PasoFiel
<1> QED BY <1>16, <1>17 DEF Guarda

LEMMA TerminaTruncateGuarda ==
    ASSUME Estructura, NEW t \in Hilos, TerminaTruncate(t)
    PROVE  Guarda
<1> DEFINE l == hilo[t].lista
<1>0. PICK e \in Etiquetas : e = hilo[t].e
  BY HiloTipo DEF Estructura
<1> DEFINE m == [meta[e] EXCEPT !.bloques = l]
<1>1. hilo[t].paso = "achica" /\ ~SinCandado(hilo[t])
  BY DEF TerminaTruncate, SinCandado
<1>2. /\ TypeOK /\ Cerrojos /\ hilo[t] \in Registro /\ EnPaso(meta, hilo[t]) /\ Enlazados(e)
  BY <1>0, <1>1, EnCurso
<1>3. /\ meta' = [meta EXCEPT ![e] = m] /\ enlace' = enlace /\ contenido' = contenido
      /\ bitmap' = bitmap /\ indice' = indice /\ mutexHash' = mutexHash
      /\ hilo' = [hilo EXCEPT ![t] = Libre] /\ candado' = [candado EXCEPT ![Archivo(e)] = NULL]
  BY <1>0, <1>1 DEF TerminaTruncate, Termina, unlock_file_metadata, Va
<1>4. /\ Fase(hilo[t]) = "achica" /\ ConLista(hilo[t]) /\ ~Commiteando(hilo[t])
      /\ ~Apartado(hilo[t]) /\ meta[e].estado = "WORK_IN_PROGRESS" /\ l \in Seq(Bloques)
  BY <1>0, <1>1, <1>2, HiloTipo DEF Fase, ConLista, Commiteando, Apartado, EnPaso
<1>5. Suelta(t, e, Libre) /\ Paso(t, e, Libre) /\ ~Apartado(Libre)
  BY <1>0, <1>1, <1>3, LibreTipo DEF Suelta, SinCandado, Paso, Apartado
<1>6. m \in Metadatos /\ m.bloques = l /\ m.estado = "WORK_IN_PROGRESS"
  BY <1>2, <1>4, MetaTipo DEF Metadatos
<1> HIDE DEF m
<1>7. /\ meta'[e] = m /\ meta' \in [Etiquetas -> Metadatos]
      /\ \A d \in Etiquetas \ {e} : meta'[d] = meta[d] /\ enlace'[d] = enlace[d]
  BY <1>2, <1>3, <1>6, MetaTipo
<1>8. /\ ListaDe(e) = l /\ ~Borrando(candado, hilo, e)
      /\ ListaDe(e)' = l /\ ~Borrando(candado', hilo', e)
      /\ \A j : ~FijaEn(meta', candado', hilo', e, j) /\ ~FijaEn(meta, candado, hilo, e, j)
  BY <1>2, <1>4, <1>5, <1>6, <1>7, LibreTipo, PropiaAntes, PropiaDespues
<1>9. Enlazados(e)'
  <2>1. Enlazada(m, enlace[e], l, FALSE)
    BY <1>2, <1>6, <1>8 DEF Enlazados, Enlazada
  <2> QED BY <1>3, <1>7, <1>8, <2>1 DEF Enlazados, Enlazada
<1>10. Estructura'
  <2>1. EnPaso(meta', Libre)
    BY LibreTipo DEF EnPaso, Fase, SinCandado, Escribiendo
  <2> QED BY <1>2, <1>3, <1>5, <1>7, <1>9, <2>1, LibreTipo, PasoEstructura, MetaTipo DEF Metadatos
<1>11. ASSUME IInv, Contenidos PROVE IInv' /\ Contenidos'
  <2>1. Aparte(e)
    BY <1>2, <1>5, <1>7, LibreTipo, PasoAparte
  <2>2. Apartados' = Apartados
    BY <1>2, <1>3, <1>4, <1>5, MismosApartados
  <2>3. Quieto(t, e, Libre)
    BY <1>3, <1>4, <1>8, <2>1, <2>2, LibreTipo DEF Quieto, Leido
  <2> QED BY <1>10, <1>11, <2>3, PasoQuieto
<1> QED BY <1>10, <1>11 DEF Guarda

LEMMA EliminarGuarda ==
    ASSUME Estructura, NEW t \in Hilos, NEW e \in Etiquetas, eliminarTag(t, e)
    PROVE  Guarda
<1> DEFINE l == meta[e].bloques
           r == [Libre EXCEPT !.paso = "borra", !.e = e, !.lista = l]
<1>1. TypeOK /\ Cerrojos /\ Enlazados(e)
  BY DEF Estructura
<1>2. /\ SinCandado(hilo[t]) /\ ~Apartado(hilo[t]) /\ meta[e].estado # "NO_EXISTE"
      /\ candado[Archivo(e)] = NULL /\ candado' = [candado EXCEPT ![Archivo(e)] = t]
      /\ meta' = [meta EXCEPT ![e] = NoExiste] /\ enlace' = [enlace EXCEPT ![e] = << >>]
      /\ contenido' = contenido /\ bitmap' = bitmap /\ indice' = indice
      /\ mutexHash' = mutexHash /\ hilo' = [hilo EXCEPT ![t] = r]
  BY DEF eliminarTag, lock_file_metadata, Va, SinCandado, Apartado
<1>3. l \in Seq(Bloques) /\ r \in Registro /\ r.paso = "borra" /\ r.sigue = "libre" /\ r.e = e
      /\ r.lista = l
  BY <1>1, LibreTipo, MetaTipo DEF Registro, Pasos
<1> HIDE DEF r
<1>4. Toma(t, e, r) /\ Paso(t, e, r)
  BY <1>2, <1>3 DEF Toma, Paso, SinCandado
<1>5. Fase(r) = "borra" /\ ConLista(r) /\ ~Commiteando(r) /\ ~Apartado(r)
  BY <1>3 DEF Fase, ConLista, Commiteando, Apartado
<1>6. /\ NoExiste \in Metadatos /\ NoExiste.bloques = << >> /\ NoExiste.estado = "NO_EXISTE"
      /\ << >> \in Seq(Bloques \cup {COPIA})
  BY EmptySeq DEF Metadatos, NoExiste, Estados
<1>7. /\ meta'[e] = NoExiste /\ meta' \in [Etiquetas -> Metadatos]
      /\ enlace'[e] = << >> /\ enlace' \in [Etiquetas -> Seq(Bloques \cup {COPIA})]
      /\ \A d \in Etiquetas \ {e} : meta'[d] = meta[d] /\ enlace'[d] = enlace[d]
  BY <1>1, <1>2, <1>6, MetaTipo
<1>8. /\ ListaDe(e) = l /\ ~Borrando(candado, hilo, e)
      /\ \A j : FijaEn(meta, candado, hilo, e, j) <=> meta[e].estado = "COMMITED"
  BY <1>1, <1>3, <1>4, PropiaAntes
<1>9. /\ ListaDe(e)' = l /\ Borrando(candado', hilo', e)
      /\ \A j : ~FijaEn(meta', candado', hilo', e, j)
  BY <1>1, <1>3, <1>4, <1>5, <1>6, <1>7, PropiaDespues
<1>10. Enlazados(e)'
  <2>1. Enlazada(NoExiste, << >>, l, TRUE)
    BY <1>1, <1>6, <1>8 DEF Enlazados, Enlazada
  <2> QED BY <1>7, <1>9, <2>1 DEF Enlazados, Enlazada
<1>11. Estructura'
  <2>1. EnPaso(meta', r)
    BY <1>3, <1>5, <1>6, <1>7 DEF EnPaso, Escribiendo
  <2> QED BY <1>1, <1>2, <1>3, <1>4, <1>7, <1>10, <2>1, PasoEstructura, MetaTipo DEF Metadatos
<1>12. ASSUME ~BorraCommiteado, IInv, Contenidos PROVE IInv' /\ Contenidos'
  <2>1. meta[e].estado = "WORK_IN_PROGRESS"
    BY <1>12 DEF eliminarTag
  <2>2. Aparte(e)
    BY <1>1, <1>3, <1>4, <1>7, PasoAparte
  <2>3. \A i : <<e, i>> \notin Fijas /\ <<e, i>> \notin Fijas'
    BY <1>8, <1>9, <2>1, FijaDe, FijaDespues
  <2>4. AnclasQuedan
    BY <1>11, <2>2, <2>3, PasoAnclas
  <2>5. Cambia(e, 0)
    <3>1. \A i \in DOMAIN l : i + 0 = i
      BY <1>3, ListaTipo
    <3> QED BY <1>7, <1>8, <1>9, <2>2, <2>3, <3>1 DEF Cambia
  <2>6. Bloqueo(Lista', enlace', Fijas', bitmap', Apartados')
    <3>1. Apartados' = Apartados
      BY <1>1, <1>2, <1>5, MismosApartados
    <3>2. /\ Cambio(Lista, enlace, Fijas, e, 0, ListaDe(e)', enlace'[e], Lista', enlace', Fijas')
          /\ Encaja(Lista, enlace, Fijas) /\ Bloqueo(Lista, enlace, Fijas, bitmap, Apartados)
      BY <1>11, <1>12, <2>5, PasoCambio, EncajanSiempre DEF Encajan, IInv
    <3> QED BY <1>2, <1>3, <1>9, <3>1, <3>2, CambioBloqueo
  <2>7. Fiel(t, e, r)
    BY <1>2, <1>3, <2>1, <2>2, <2>3, <2>4 DEF Fiel, Leido, AnclasQuedan
  <2> QED BY <1>11, <1>12, <2>6, <2>7, PasoFiel
<1> QED BY <1>11, <1>12 DEF Guarda

LEMMA BloqueBorradoGuarda ==
    ASSUME Estructura, NEW t \in Hilos, BloqueBorrado(t)
    PROVE  Guarda
<1> DEFINE l == hilo[t].lista
           r == [hilo[t] EXCEPT !.b = Head(l), !.lista = Tail(l)]
<1>0. PICK e \in Etiquetas : e = hilo[t].e
  BY HiloTipo DEF Estructura
<1>1. hilo[t].paso = "borra" /\ ~SinCandado(hilo[t]) /\ l # << >>
  BY DEF BloqueBorrado, SinCandado
<1>2. /\ TypeOK /\ Cerrojos /\ hilo[t] \in Registro /\ EnPaso(meta, hilo[t]) /\ Enlazados(e)
  BY <1>0, <1>1, EnCurso
<1>3. /\ meta' = meta /\ enlace' = enlace /\ contenido' = contenido
      /\ indice' = indice /\ mutexHash' = mutexHash /\ bitmap' = bitmap
      /\ candado' = candado
  BY DEF BloqueBorrado
<1>4. Libera(t, enlace, r)
  BY DEF BloqueBorrado
<1>5. /\ Fase(hilo[t]) = "borra" /\ ConLista(hilo[t]) /\ ~Commiteando(hilo[t])
      /\ ~Apartado(hilo[t]) /\ meta[e].estado = "NO_EXISTE" /\ hilo[t].sigue = "libre"
      /\ l \in Seq(Bloques)
  BY <1>0, <1>1, <1>2, HiloTipo DEF Fase, ConLista, Commiteando, Apartado, EnPaso
<1>6. /\ Tail(l) \in Seq(Bloques) /\ Len(Tail(l)) = Len(l) - 1 /\ Head(l) \in Bloques
      /\ Head(l) = l[1] /\ 1 \in DOMAIN l
      /\ \A i \in DOMAIN Tail(l) : i + 1 \in DOMAIN l /\ i + 1 # 1 /\ Tail(l)[i] = l[i + 1]
  BY <1>1, <1>5, TailTipo
<1>7. /\ r \in Registro /\ r.paso = "borra" /\ r.sigue = "libre" /\ r.e = e
      /\ r.i = hilo[t].i /\ r.b = Head(l) /\ r.lista = Tail(l)
  BY <1>0, <1>1, <1>2, <1>5, <1>6 DEF Registro
<1> HIDE DEF r
<1>8. PICK u : hilo' = [hilo EXCEPT ![t] = u] /\ Visto(enlace, r, u)
  BY <1>4, <1>7, LiberaVisto
<1>9. /\ u \in Registro /\ u.e = e /\ u.lista = Tail(l) /\ u.b = Head(l)
      /\ Fase(u) = "borra" /\ ~SinCandado(u) /\ ConLista(u) /\ ~Commiteando(u)
      /\ u.paso \in {"libera", "borra"}
  BY <1>7, <1>8 DEF Visto, ConLista, Commiteando
<1>10. Dentro(t, e, u) /\ Paso(t, e, u)
  BY <1>0, <1>1, <1>3, <1>8, <1>9 DEF Dentro, Paso
<1>11. /\ ListaDe(e) = l /\ Borrando(candado, hilo, e)
       /\ ListaDe(e)' = Tail(l) /\ Borrando(candado', hilo', e)
       /\ \A j : ~FijaEn(meta', candado', hilo', e, j) /\ ~FijaEn(meta, candado, hilo, e, j)
  BY <1>2, <1>3, <1>5, <1>9, <1>10, PropiaAntes, PropiaDespues
<1>12. enlace[e] = << >> /\ DOMAIN enlace[e] = {} /\ Len(l) <= MaxTam
  BY <1>2, <1>11, MetaTipo, ListaTipo DEF Enlazados, Enlazada
<1>13. Enlazados(e)'
  <2>1. Len(Tail(l)) <= MaxTam
    BY <1>5, <1>6, <1>12, StorageSupuesto, LenProperties
  <2>2. Enlazada(meta[e], enlace[e], Tail(l), TRUE)
    BY <1>2, <1>12, <2>1 DEF Enlazados, Enlazada
  <2> QED BY <1>3, <1>11, <2>2 DEF Enlazados, Enlazada
<1>14. Estructura'
  <2>1. EnPaso(meta', u)
    BY <1>3, <1>5, <1>7, <1>8, <1>9 DEF EnPaso, Visto, Escribiendo
  <2> QED BY <1>2, <1>3, <1>9, <1>10, <1>13, <2>1, PasoEstructura, MetaTipo DEF Metadatos
<1>15. ASSUME IInv, Contenidos PROVE IInv' /\ Contenidos'
  <2>1. Aparte(e)
    BY <1>2, <1>3, <1>9, <1>10, PasoAparte
  <2>2. \A i : <<e, i>> \notin Fijas /\ <<e, i>> \notin Fijas'
    BY <1>11, FijaDe, FijaDespues
  <2>3. AnclasQuedan
    BY <1>14, <2>1, <2>2, PasoAnclas
  <2>4. Cambia(e, 1)
    BY <1>3, <1>6, <1>11, <1>12, <2>1, <2>2 DEF Cambia
  <2>5. Bloqueo(Lista', enlace', Fijas', bitmap', Apartados')
    <3>1. Sobra(e, 1, 1, r.b)
      BY <1>6, <1>7, <1>11 DEF Sobra
    <3> QED BY <1>3, <1>5, <1>8, <1>14, <1>15, <2>4, <3>1, PasoLibera
  <2>6. Fiel(t, e, u)
    BY <1>3, <1>5, <1>8, <1>9, <2>1, <2>2, <2>3 DEF Fiel, Leido, AnclasQuedan
  <2> QED BY <1>14, <1>15, <2>5, <2>6, PasoFiel
<1> QED BY <1>14, <1>15 DEF Guarda

LEMMA TerminaDeleteGuarda ==
    ASSUME Estructura, NEW t \in Hilos, TerminaDelete(t)
    PROVE  Guarda
<1>0. PICK e \in Etiquetas : e = hilo[t].e
  BY HiloTipo DEF Estructura
<1>1. hilo[t].paso = "borra" /\ ~SinCandado(hilo[t]) /\ hilo[t].lista = << >>
  BY DEF TerminaDelete, SinCandado
<1>2. /\ TypeOK /\ Cerrojos /\ hilo[t] \in Registro /\ EnPaso(meta, hilo[t]) /\ Enlazados(e)
  BY <1>0, <1>1, EnCurso
<1>3. /\ meta' = meta /\ enlace' = enlace /\ contenido' = contenido
      /\ bitmap' = bitmap /\ indice' = indice /\ mutexHash' = mutexHash
      /\ hilo' = [hilo EXCEPT ![t] = Libre] /\ candado' = [candado EXCEPT ![Archivo(e)] = NULL]
  BY <1>0, <1>1 DEF TerminaDelete, Termina, unlock_file_metadata, Va
<1>4. /\ Fase(hilo[t]) = "borra" /\ ConLista(hilo[t]) /\ ~Commiteando(hilo[t])
      /\ ~Apartado(hilo[t]) /\ meta[e].estado = "NO_EXISTE"
  BY <1>0, <1>1, <1>2 DEF Fase, ConLista, Commiteando, Apartado, EnPaso
<1>5. /\ Suelta(t, e, Libre) /\ Paso(t, e, Libre) /\ ~Apartado(Libre) /\ ~ConLista(Libre)
      /\ ~SinCandado(hilo[t]) /\ SinCandado(Libre)
  BY <1>0, <1>1, <1>3, LibreTipo DEF Suelta, SinCandado, Paso, Apartado, ConLista, Fase
<1>6. Borrando(candado, hilo, e) /\ \A j : ~FijaEn(meta, candado, hilo, e, j)
  BY <1>2, <1>4, <1>5, LibreTipo, PropiaAntes
<1>7. \A j : ~FijaEn(meta', candado', hilo', e, j)
  BY <1>2, <1>3, <1>4, <1>5, LibreTipo, PropiaDespues
<1>8. meta[e].bloques = << >> /\ enlace[e] = << >>
  BY <1>2, <1>4, <1>6 DEF Enlazados, Enlazada
<1>9. MismaLista(t, e, Libre)
  BY <1>1, <1>4, <1>5, <1>8 DEF MismaLista, Dentro
<1>10. Estructura' /\ Aparte(e) /\ ListaDe(e)' = ListaDe(e)
  <2>1. EnPaso(meta', Libre)
    BY LibreTipo DEF EnPaso, Fase, SinCandado, Escribiendo
  <2>2. bitmap' \subseteq Bloques /\ mutexHash' \in Hilos \cup {NULL}
        /\ contenido' \in [Bloques -> Valores] /\ indice' \in [Valores -> Bloques \cup {NULL}]
    BY <1>2, <1>3 DEF TypeOK
  <2> QED BY <1>3, <1>9, <2>1, <2>2, LibreTipo, PasoSinCambios
<1>11. ASSUME IInv, Contenidos PROVE IInv' /\ Contenidos'
  <2>1. Apartados' = Apartados
    BY <1>2, <1>3, <1>4, <1>5, MismosApartados
  <2>2. Quieto(t, e, Libre)
    BY <1>3, <1>6, <1>7, <1>10, <2>1, LibreTipo DEF Quieto, Leido
  <2> QED BY <1>10, <1>11, <2>2, PasoQuieto
<1> QED BY <1>10, <1>11 DEF Guarda

LEMMA CommitGuarda ==
    ASSUME Estructura, NEW t \in Hilos, NEW e \in Etiquetas, commitFile(t, e)
    PROVE  Guarda
<1> DEFINE l == meta[e].bloques
           r == [Libre EXCEPT !.paso = "hash", !.e = e, !.i = 1, !.lista = l]
<1>1. TypeOK /\ Cerrojos /\ Enlazados(e)
  BY DEF Estructura
<1>2. /\ SinCandado(hilo[t]) /\ ~Apartado(hilo[t]) /\ meta[e].estado = "WORK_IN_PROGRESS"
      /\ candado[Archivo(e)] = NULL /\ candado' = [candado EXCEPT ![Archivo(e)] = t]
      /\ hilo' = [hilo EXCEPT ![t] = r]
      /\ meta' = meta /\ enlace' = enlace /\ contenido' = contenido /\ bitmap' = bitmap
      /\ indice' = indice /\ mutexHash' = mutexHash
  BY DEF commitFile, lock_file_metadata, Va, SinCandado, Apartado
<1>3. /\ l \in Seq(Bloques) /\ r \in Registro /\ r.paso = "hash" /\ r.sigue = "libre" /\ r.e = e
      /\ r.i = 1 /\ r.lista = l
  BY <1>1, LibreTipo, MetaTipo DEF Registro, Pasos
<1> HIDE DEF r
<1>4. Toma(t, e, r) /\ Paso(t, e, r)
  BY <1>2, <1>3 DEF Toma, Paso, SinCandado
<1>5. Fase(r) = "hash" /\ ConLista(r) /\ Commiteando(r) /\ ~Apartado(r)
  BY <1>3 DEF Fase, ConLista, Commiteando, Apartado
<1>6. /\ ListaDe(e) = l /\ ~Borrando(candado, hilo, e)
      /\ ListaDe(e)' = l /\ ~Borrando(candado', hilo', e)
      /\ \A j : ~FijaEn(meta, candado, hilo, e, j)
      /\ \A j : FijaEn(meta', candado', hilo', e, j) <=> j < 1
  BY <1>1, <1>2, <1>3, <1>4, <1>5, PropiaAntes, PropiaDespues
<1>7. Enlazados(e)'
  BY <1>1, <1>2, <1>6 DEF Enlazados, Enlazada
<1>8. Estructura'
  <2>1. Len(l) \in Nat
    BY <1>3, LenProperties
  <2>2. EnPaso(meta', r)
    BY <1>2, <1>3, <1>5, <2>1 DEF EnPaso, Escribiendo
  <2> QED BY <1>1, <1>2, <1>3, <1>4, <1>7, <2>2, PasoEstructura, MetaTipo DEF Metadatos
<1>9. ASSUME IInv, Contenidos PROVE IInv' /\ Contenidos'
  <2>1. Aparte(e)
    BY <1>1, <1>2, <1>3, <1>4, PasoAparte
  <2>2. Apartados' = Apartados
    BY <1>1, <1>2, <1>5, MismosApartados
  <2>3. \A j \in DOMAIN l : ~(j < 1)
    BY <1>3, ListaTipo
  <2>4. Quieto(t, e, r)
    BY <1>2, <1>3, <1>6, <2>1, <2>2, <2>3 DEF Quieto, Leido
  <2> QED BY <1>8, <1>9, <2>4, PasoQuieto
<1> QED BY <1>8, <1>9 DEF Guarda

LEMMA HashGuarda ==
    ASSUME Estructura, NEW t \in Hilos, obtener_hash_bloque(t)
    PROVE  Guarda
<1> DEFINE l == hilo[t].lista
           i == hilo[t].i
           r == [hilo[t] EXCEPT !.paso = "indice", !.v = contenido[l[i]]]
<1>0. PICK e \in Etiquetas : e = hilo[t].e
  BY HiloTipo DEF Estructura
<1>1. hilo[t].paso = "hash" /\ ~SinCandado(hilo[t]) /\ i <= Len(l)
  BY DEF obtener_hash_bloque, SinCandado
<1>2. /\ TypeOK /\ Cerrojos /\ hilo[t] \in Registro /\ EnPaso(meta, hilo[t]) /\ Enlazados(e)
  BY <1>0, <1>1, EnCurso
<1>3. /\ meta' = meta /\ enlace' = enlace /\ contenido' = contenido /\ bitmap' = bitmap
      /\ indice' = indice /\ mutexHash' = mutexHash /\ candado' = candado
      /\ hilo' = [hilo EXCEPT ![t] = r]
  BY DEF obtener_hash_bloque, Va
<1>4. /\ Fase(hilo[t]) = "hash" /\ ConLista(hilo[t]) /\ Commiteando(hilo[t])
      /\ ~Apartado(hilo[t]) /\ meta[e].estado = "WORK_IN_PROGRESS" /\ hilo[t].sigue = "libre"
      /\ l \in Seq(Bloques) /\ Len(l) \in Nat /\ i \in Nat /\ i \in 1..(Len(l) + 1)
  BY <1>0, <1>1, <1>2, HiloTipo, LenProperties DEF Fase, ConLista, Commiteando, Apartado, EnPaso
<1>5. i \in DOMAIN l /\ l[i] \in Bloques /\ contenido[l[i]] \in Valores
  <2>1. i \in 1..Len(l)
    BY <1>1, <1>4
  <2>2. i \in DOMAIN l /\ l[i] \in Bloques
    BY <1>4, <2>1, ListaTipo
  <2> QED BY <1>2, <2>2 DEF TypeOK
<1>6. /\ r \in Registro /\ r.paso = "indice" /\ r.sigue = "libre" /\ r.e = e
      /\ r.i = i /\ r.lista = l /\ r.v = contenido[l[i]] /\ r.b = hilo[t].b
  BY <1>0, <1>2, <1>4, <1>5 DEF Registro, Pasos
<1> HIDE DEF r
<1>7. /\ Dentro(t, e, r) /\ Fase(r) = "indice" /\ ConLista(r) /\ Commiteando(r) /\ ~Apartado(r)
      /\ SinCandado(r) = FALSE
  BY <1>0, <1>1, <1>3, <1>6 DEF Dentro, SinCandado, Fase, ConLista, Commiteando, Apartado
<1>8. MismaLista(t, e, r)
  BY <1>4, <1>6, <1>7 DEF MismaLista, Suelta
<1>9. Estructura' /\ Aparte(e) /\ ListaDe(e)' = ListaDe(e)
  <2>1. EnPaso(meta', r)
    BY <1>3, <1>4, <1>5, <1>6, <1>7 DEF EnPaso, Escribiendo
  <2>2. bitmap' \subseteq Bloques /\ mutexHash' \in Hilos \cup {NULL}
        /\ contenido' \in [Bloques -> Valores] /\ indice' \in [Valores -> Bloques \cup {NULL}]
    BY <1>2, <1>3 DEF TypeOK
  <2> QED BY <1>3, <1>6, <1>8, <2>1, <2>2, PasoSinCambios
<1>10. ASSUME IInv, Contenidos PROVE IInv' /\ Contenidos'
  <2>1. Paso(t, e, r)
    BY <1>3, <1>7 DEF Paso
  <2>2. \A j : FijaEn(meta', candado', hilo', e, j) <=> FijaEn(meta, candado, hilo, e, j)
    BY <1>2, <1>3, <1>4, <1>6, <1>7, <2>1, PropiaAntes, PropiaDespues
  <2>3. Apartados' = Apartados
    BY <1>2, <1>3, <1>4, <1>7, MismosApartados
  <2>4. Quieto(t, e, r)
    BY <1>3, <1>4, <1>6, <1>9, <2>2, <2>3 DEF Quieto, Leido
  <2> QED BY <1>9, <1>10, <2>4, PasoQuieto
<1> QED BY <1>9, <1>10 DEF Guarda

\* What a COMMIT knows of the block it compares with the index.
LEMMA EnIndice ==
    ASSUME Estructura, NEW t \in Hilos, hilo[t].paso = "indice", NEW e \in Etiquetas, e = hilo[t].e
    PROVE  /\ TypeOK /\ Cerrojos /\ hilo[t] \in Registro /\ EnPaso(meta, hilo[t]) /\ Enlazados(e)
           /\ ~SinCandado(hilo[t]) /\ Fase(hilo[t]) = "indice" /\ ConLista(hilo[t])
           /\ Commiteando(hilo[t]) /\ ~Apartado(hilo[t])
           /\ meta[e].estado = "WORK_IN_PROGRESS" /\ hilo[t].sigue = "libre"
           /\ hilo[t].lista \in Seq(Bloques) /\ hilo[t].i \in DOMAIN hilo[t].lista
           /\ hilo[t].i \in Nat \ {0} /\ hilo[t].i + 1 \in Nat
           /\ hilo[t].i + 1 \in 1..(Len(hilo[t].lista) + 1)
           /\ hilo[t].lista[hilo[t].i] \in Bloques /\ hilo[t].v \in Valores
           /\ indice[hilo[t].v] \in Bloques \cup {NULL}
<1>1. ~SinCandado(hilo[t])
  BY DEF SinCandado
<1>2. /\ TypeOK /\ Cerrojos /\ hilo[t] \in Registro /\ EnPaso(meta, hilo[t]) /\ Enlazados(e)
  BY <1>1, EnCurso
<1>3. /\ Fase(hilo[t]) = "indice" /\ ConLista(hilo[t]) /\ Commiteando(hilo[t])
      /\ ~Apartado(hilo[t]) /\ meta[e].estado = "WORK_IN_PROGRESS" /\ hilo[t].sigue = "libre"
      /\ hilo[t].lista \in Seq(Bloques) /\ hilo[t].i \in DOMAIN hilo[t].lista /\ hilo[t].v \in Valores
  BY <1>1, <1>2, HiloTipo DEF Fase, ConLista, Commiteando, Apartado, EnPaso
<1>4. /\ hilo[t].i \in Nat \ {0} /\ hilo[t].i <= Len(hilo[t].lista) /\ Len(hilo[t].lista) \in Nat
      /\ hilo[t].lista[hilo[t].i] \in Bloques
  BY <1>3, ListaTipo
<1>5. hilo[t].i + 1 \in Nat /\ hilo[t].i + 1 \in 1..(Len(hilo[t].lista) + 1)
  BY <1>4
<1> QED BY <1>1, <1>2, <1>3, <1>4, <1>5, MetaTipo

LEMMA ConservaGuarda ==
    ASSUME Estructura, NEW t \in Hilos, Conserva(t)
    PROVE  Guarda
<1> DEFINE l == hilo[t].lista
           i == hilo[t].i
           v == hilo[t].v
           k == i + 1
           r == [hilo[t] EXCEPT !.paso = "hash", !.i = k]
<1>0. PICK e \in Etiquetas : e = hilo[t].e
  BY HiloTipo DEF Estructura
<1>1. hilo[t].paso = "indice"
  BY DEF Conserva
<1>2. /\ TypeOK /\ Cerrojos /\ hilo[t] \in Registro /\ EnPaso(meta, hilo[t]) /\ Enlazados(e)
      /\ ~SinCandado(hilo[t]) /\ Fase(hilo[t]) = "indice" /\ ConLista(hilo[t])
      /\ Commiteando(hilo[t]) /\ ~Apartado(hilo[t])
      /\ meta[e].estado = "WORK_IN_PROGRESS" /\ hilo[t].sigue = "libre"
      /\ l \in Seq(Bloques) /\ i \in DOMAIN l /\ i \in Nat \ {0} /\ k \in Nat /\ k \in 1..(Len(l) + 1)
      /\ l[i] \in Bloques /\ v \in Valores /\ indice[v] \in Bloques \cup {NULL}
  BY <1>0, <1>1, EnIndice
<1>3. /\ meta' = meta /\ enlace' = enlace /\ contenido' = contenido /\ bitmap' = bitmap
      /\ mutexHash' = mutexHash /\ candado' = candado /\ hilo' = [hilo EXCEPT ![t] = r]
  BY DEF Conserva, Va
<1>4. /\ indice[v] \in {NULL, l[i]}
      /\ indice[v] = NULL => indice' = [indice EXCEPT ![v] = l[i]]
      /\ indice[v] # NULL => indice' = indice
  BY DEF Conserva, Registra
<1> HIDE DEF k
<1>5. /\ r \in Registro /\ r.paso = "hash" /\ r.sigue = "libre" /\ r.e = e
      /\ r.i = k /\ r.lista = l
  BY <1>0, <1>2 DEF Registro, Pasos
<1> HIDE DEF r
<1>6. /\ Dentro(t, e, r) /\ Fase(r) = "hash" /\ ConLista(r) /\ Commiteando(r) /\ ~Apartado(r)
  BY <1>0, <1>2, <1>3, <1>5 DEF Dentro, SinCandado, Fase, ConLista, Commiteando, Apartado
<1>7. MismaLista(t, e, r)
  BY <1>2, <1>5, <1>6 DEF MismaLista, Suelta, Dentro
<1>8. /\ indice' \in [Valores -> Bloques \cup {NULL}] /\ indice'[v] = l[i]
      /\ \A x \in Valores \ {v} : indice'[x] = indice[x]
      /\ indice[v] # NULL => indice'[v] = indice[v]
  <2>1. indice \in [Valores -> Bloques \cup {NULL}]
    BY <1>2 DEF TypeOK
  <2> QED BY <1>2, <1>4, <2>1
<1>9. Estructura' /\ Aparte(e) /\ ListaDe(e)' = ListaDe(e)
  <2>1. EnPaso(meta', r)
    BY <1>2, <1>3, <1>5, <1>6 DEF EnPaso, Escribiendo
  <2>2. bitmap' \subseteq Bloques /\ mutexHash' \in Hilos \cup {NULL}
        /\ contenido' \in [Bloques -> Valores]
    BY <1>2, <1>3 DEF TypeOK
  <2> QED BY <1>3, <1>5, <1>7, <1>8, <2>1, <2>2, PasoSinCambios
<1>10. ASSUME IInv, Contenidos PROVE IInv' /\ Contenidos'
  <2>1. Paso(t, e, r)
    BY <1>3, <1>6 DEF Paso
  <2>2. /\ ListaDe(e) = l /\ Lista[e] = l
        /\ \A j : FijaEn(meta, candado, hilo, e, j) <=> j < i
        /\ \A j : FijaEn(meta', candado', hilo', e, j) <=> j < k
    <3>1. ListaDe(e) = l /\ \A j : FijaEn(meta, candado, hilo, e, j) <=> j < i
      BY <1>2, <1>5, <1>6, <2>1, PropiaAntes
    <3>2. \A j : FijaEn(meta', candado', hilo', e, j) <=> j < k
      BY <1>2, <1>3, <1>5, <1>6, <2>1, PropiaDespues
    <3> QED BY <3>1, <3>2 DEF Lista
  <2>3. /\ \A j \in DOMAIN l : j \in Nat /\ <<e, j>> \in Lugares /\ j + 0 = j
        /\ Encaja(Lista, enlace, Fijas)
    <3>1. Encaja(Lista, enlace, Fijas)
      BY EncajanSiempre DEF Encajan
    <3>2. \A j \in DOMAIN l : j \in Nat /\ <<e, j>> \in Lugares
      BY <2>2, <3>1, LugarTipo
    <3> QED BY <3>1, <3>2
  <2>4. \A j : <<e, j>> \in Fijas' <=> <<e, j>> \in Fijas \/ j = i
    <3>1. \A j : <<e, j>> \in Fijas <=> j \in DOMAIN l /\ j < i
      BY <2>2, <2>3, FijaDe
    <3>2. \A j : <<e, j>> \in Fijas' <=> j \in DOMAIN l /\ j < k
      BY <1>9, <2>2, <2>3, FijaDespues
    <3>3. \A j \in DOMAIN l : j < k <=> j < i \/ j = i
      BY <1>2, <2>3 DEF k
    <3> QED BY <1>2, <3>1, <3>2, <3>3
  <2>5. AnclasQuedan
    BY <1>3, <1>9, <2>4, PasoAnclas
  <2>6. ASSUME NEW j \in DOMAIN enlace[e], enlace[e][j] = COPIA \/ <<e, j>> \in Fijas'
        PROVE  Anclado(enlace', Fijas', l[j])
    <3>1. CASE enlace[e][j] = COPIA \/ <<e, j>> \in Fijas
      <4>1. Anclado(enlace, Fijas, l[j])
        BY <1>10, <2>2, <3>1 DEF IInv, Bloqueo, Ancladas
      <4> QED BY <2>5, <4>1 DEF AnclasQuedan
    <3>2. CASE enlace[e][j] # COPIA /\ <<e, j>> \notin Fijas
      <4>1. enlace[e][j] = l[j]
        BY <2>2, <2>3, <3>2 DEF Encaja
      <4>2. <<e, j>> \in Fijas' /\ <<e, j>>[1] = e /\ <<e, j>>[2] = j
        BY <2>6, <3>2
      <4> QED BY <1>3, <4>1, <4>2 DEF Anclado
    <3> QED BY <3>1, <3>2
  <2>7. Cambia(e, 0)
    BY <1>3, <1>9, <2>2, <2>3, <2>4, <2>6 DEF Cambia
  <2>8. Bloqueo(Lista', enlace', Fijas', bitmap', Apartados')
    <3>1. Apartados' = Apartados
      BY <1>2, <1>3, <1>6, MismosApartados
    <3>2. /\ Cambio(Lista, enlace, Fijas, e, 0, ListaDe(e)', enlace'[e], Lista', enlace', Fijas')
          /\ Bloqueo(Lista, enlace, Fijas, bitmap, Apartados)
      BY <1>9, <1>10, <2>7, PasoCambio DEF IInv
    <3> QED BY <1>2, <1>3, <1>9, <2>2, <2>3, <3>1, <3>2, CambioBloqueo
  <2>9. contenido[l[i]] = v
    BY <1>1, <1>10 DEF Contenidos, Leido
  <2>10. Anclado(enlace', Fijas', l[i])
    <3>1. ~Borrando(candado, hilo, e)
      BY <1>2, <1>5, <1>6, <2>1, PropiaAntes
    <3>2. i \in DOMAIN enlace[e]
      BY <1>2, <2>2, <3>1, EnlazadosTipo
    <3> QED BY <2>4, <2>6, <3>2
  <2>11. \A x \in Valores : indice'[x] = indice[x] \/
            (/\ indice[x] = NULL
             /\ Anclado(enlace', Fijas', indice'[x]) /\ contenido'[indice'[x]] = x)
    BY <1>3, <1>4, <1>8, <2>9, <2>10
  <2>12. \A j : <<e, j>> \in Fijas' => \/ <<e, j>> \in Fijas /\ ListaDe(e)'[j] = ListaDe(e)[j]
                                       \/ indice'[contenido'[ListaDe(e)'[j]]] = ListaDe(e)'[j]
    BY <1>3, <1>8, <1>9, <2>2, <2>4, <2>9
  <2>13. Fiel(t, e, r)
    BY <1>2, <1>3, <1>5, <1>9, <2>5, <2>11, <2>12 DEF Fiel, Leido, AnclasQuedan
  <2> QED BY <1>9, <1>10, <2>8, <2>13, PasoFiel
<1> QED BY <1>9, <1>10 DEF Guarda

LEMMA DeduplicaGuarda ==
    ASSUME Estructura, NEW t \in Hilos, Deduplica(t)
    PROVE  Guarda
<1> DEFINE l == hilo[t].lista
           i == hilo[t].i
           v == hilo[t].v
           k == i + 1
           o == indice[v]
           s == [l EXCEPT ![i] = o]
           r == [hilo[t] EXCEPT !.paso = "hash", !.i = k, !.b = l[i], !.lista = s]
<1>0. PICK e \in Etiquetas : e = hilo[t].e
  BY HiloTipo DEF Estructura
<1> DEFINE z == [enlace[e] EXCEPT ![i] = o]
<1>1. hilo[t].paso = "indice" /\ o # NULL /\ o # l[i]
  BY DEF Deduplica
<1>2. /\ TypeOK /\ Cerrojos /\ hilo[t] \in Registro /\ EnPaso(meta, hilo[t]) /\ Enlazados(e)
      /\ ~SinCandado(hilo[t]) /\ Fase(hilo[t]) = "indice" /\ ConLista(hilo[t])
      /\ Commiteando(hilo[t]) /\ ~Apartado(hilo[t])
      /\ meta[e].estado = "WORK_IN_PROGRESS" /\ hilo[t].sigue = "libre"
      /\ l \in Seq(Bloques) /\ i \in DOMAIN l /\ i \in Nat \ {0} /\ k \in Nat /\ k \in 1..(Len(l) + 1)
      /\ l[i] \in Bloques /\ v \in Valores /\ o \in Bloques
  BY <1>0, <1>1, EnIndice
<1>3. /\ meta' = meta /\ enlace' = [enlace EXCEPT ![e] = z] /\ contenido' = contenido
      /\ bitmap' = bitmap /\ indice' = indice /\ candado' = candado
      /\ mutexHash' \in {t, NULL}
  BY <1>0 DEF Deduplica
<1>4. Libera(t, enlace', r)
  BY DEF Deduplica
<1>5. /\ s \in Seq(Bloques) /\ Len(s) = Len(l) /\ DOMAIN s = DOMAIN l
      /\ s[i] = o /\ \A j \in DOMAIN l \ {i} : s[j] = l[j]
  BY <1>2, CambiaUno
<1> HIDE DEF k, s
<1>6. /\ r \in Registro /\ r.paso = "hash" /\ r.sigue = "libre" /\ r.e = e
      /\ r.i = k /\ r.b = l[i] /\ r.lista = s
  BY <1>0, <1>2, <1>5 DEF Registro, Pasos
<1> HIDE DEF r
<1>7. PICK u : hilo' = [hilo EXCEPT ![t] = u] /\ Visto(enlace', r, u)
  BY <1>4, <1>6, LiberaVisto
<1>8. /\ u \in Registro /\ u.e = e /\ u.i = k /\ u.lista = s /\ u.b = l[i]
      /\ Fase(u) = "hash" /\ ~SinCandado(u) /\ ConLista(u) /\ Commiteando(u)
      /\ u.paso \in {"libera", "hash"}
  BY <1>6, <1>7 DEF Visto, ConLista, Commiteando
<1>9. Dentro(t, e, u) /\ Paso(t, e, u)
  BY <1>0, <1>2, <1>3, <1>7, <1>8 DEF Dentro, Paso
<1>10. /\ ListaDe(e) = l /\ ~Borrando(candado, hilo, e)
       /\ \A j : FijaEn(meta, candado, hilo, e, j) <=> j < i
  BY <1>2, <1>8, <1>9, PropiaAntes
<1>11. /\ ListaDe(e)' = s /\ ~Borrando(candado', hilo', e)
       /\ \A j : FijaEn(meta', candado', hilo', e, j) <=> j < k
  BY <1>2, <1>3, <1>8, <1>9, PropiaDespues
<1>12. /\ Len(enlace[e]) = Len(l) /\ DOMAIN enlace[e] = DOMAIN l /\ Len(l) <= MaxTam
       /\ \A j \in DOMAIN enlace[e] : enlace[e][j] \in {COPIA, l[j]}
  BY <1>2, <1>10, EnlazadosTipo
<1>13. /\ z \in Seq(Bloques \cup {COPIA}) /\ Len(z) = Len(enlace[e]) /\ DOMAIN z = DOMAIN enlace[e]
       /\ z[i] = o /\ \A j \in DOMAIN enlace[e] \ {i} : z[j] = enlace[e][j]
  BY <1>2, <1>12, MetaTipo, CambiaUno
<1> HIDE DEF z
<1>14. /\ enlace'[e] = z /\ enlace' \in [Etiquetas -> Seq(Bloques \cup {COPIA})]
       /\ \A d \in Etiquetas \ {e} : meta'[d] = meta[d] /\ enlace'[d] = enlace[d]
  BY <1>2, <1>3, <1>13, MetaTipo
<1>15. Enlazados(e)'
  <2>1. \A j \in DOMAIN z : z[j] \in {COPIA, s[j]}
    BY <1>5, <1>12, <1>13
  <2>2. Enlazada(meta[e], z, s, FALSE)
    BY <1>2, <1>5, <1>12, <1>13, <2>1 DEF Enlazada
  <2> QED BY <1>3, <1>11, <1>14, <2>2 DEF Enlazados, Enlazada
<1>16. Estructura'
  <2>1. EnPaso(meta', u)
    BY <1>2, <1>3, <1>5, <1>6, <1>7, <1>8 DEF EnPaso, Visto, Escribiendo
  <2>2. mutexHash' \in Hilos \cup {NULL}
    BY <1>3
  <2> QED BY <1>2, <1>3, <1>8, <1>9, <1>14, <1>15, <2>1, <2>2, PasoEstructura, MetaTipo
          DEF Metadatos
<1>17. ASSUME IInv, Contenidos PROVE IInv' /\ Contenidos'
  <2>1. Aparte(e)
    BY <1>2, <1>8, <1>9, <1>14, PasoAparte
  <2>2. /\ Lista[e] = l /\ Encaja(Lista, enlace, Fijas)
        /\ \A j \in DOMAIN l : j \in Nat /\ <<e, j>> \in Lugares /\ j + 0 = j
    <3>1. Lista[e] = l /\ Encaja(Lista, enlace, Fijas)
      BY <1>10, EncajanSiempre DEF Encajan, Lista
    <3>2. \A j \in DOMAIN l : j \in Nat /\ <<e, j>> \in Lugares
      BY <3>1, LugarTipo
    <3> QED BY <3>1, <3>2
  <2>3. /\ \A j : <<e, j>> \in Fijas' <=> <<e, j>> \in Fijas \/ j = i
        /\ <<e, i>> \notin Fijas
    <3>1. \A j : <<e, j>> \in Fijas <=> j \in DOMAIN l /\ j < i
      BY <1>10, <2>2, FijaDe
    <3>2. \A j : <<e, j>> \in Fijas' <=> j \in DOMAIN l /\ j < k
      BY <1>5, <1>11, <2>2, FijaDespues
    <3>3. ~(i < i) /\ \A j \in DOMAIN l : j < k <=> j < i \/ j = i
      BY <1>2, <2>2 DEF k
    <3> QED BY <1>2, <3>1, <3>2, <3>3
  <2>4. \A j \in DOMAIN enlace[e] : <<e, j>> \in Fijas => z[j] = enlace[e][j] /\ j \in DOMAIN z
    BY <1>13, <2>3
  <2>5. AnclasQuedan
    BY <1>14, <1>16, <2>1, <2>3, <2>4, PasoAnclas
  <2>6. Anclado(enlace, Fijas, o) /\ contenido[o] = v /\ Anclado(enlace', Fijas', o)
    <3>1. Anclado(enlace, Fijas, o) /\ contenido[o] = v
      BY <1>1, <1>2, <1>17 DEF IInv, IndiceFiel
    <3> QED BY <2>5, <3>1 DEF AnclasQuedan
  <2>7. ~SinLugar(Lista, o)
    BY <1>2, <2>2, <2>6, AncladoLugar
  <2>8. ASSUME NEW j \in DOMAIN z, z[j] = COPIA \/ <<e, j>> \in Fijas'
        PROVE  Anclado(enlace', Fijas', s[j])
    <3>1. CASE j = i
      BY <1>5, <2>6, <3>1
    <3>2. CASE j # i
      <4>1. j \in DOMAIN enlace[e] /\ (enlace[e][j] = COPIA \/ <<e, j>> \in Fijas) /\ s[j] = l[j]
        BY <1>5, <1>12, <1>13, <2>3, <2>8, <3>2
      <4>2. Anclado(enlace, Fijas, l[j])
        BY <1>17, <2>2, <4>1 DEF IInv, Bloqueo, Ancladas
      <4> QED BY <2>5, <4>1, <4>2 DEF AnclasQuedan
    <3> QED BY <3>1, <3>2
  <2>9. \A j \in DOMAIN s : \/ j + 0 \in DOMAIN l /\ s[j] = l[j + 0]
                            \/ Anclado(enlace', Fijas', s[j]) /\ ~SinLugar(Lista, s[j])
    <3> SUFFICES ASSUME NEW j \in DOMAIN s
                 PROVE  \/ j \in DOMAIN l /\ s[j] = l[j]
                        \/ Anclado(enlace', Fijas', s[j]) /\ ~SinLugar(Lista, s[j])
      BY <1>5, <2>2
    <3> QED BY <1>5, <2>6, <2>7
  <2>10. Cambia(e, 0)
    BY <1>10, <1>11, <1>14, <2>1, <2>3, <2>4, <2>8, <2>9 DEF Cambia
  <2>11. Bloqueo(Lista', enlace', Fijas', bitmap', Apartados')
    <3>1. \A j \in DOMAIN s : j + 0 # i \/ s[j] # l[i]
      BY <1>1, <1>5, <2>2
    <3>2. Sobra(e, 0, i, r.b)
      BY <1>2, <1>6, <1>10, <1>11, <3>1 DEF Sobra
    <3> QED BY <1>2, <1>3, <1>7, <1>16, <1>17, <2>10, <3>2, PasoLibera
  <2>12. \A j : <<e, j>> \in Fijas' => \/ <<e, j>> \in Fijas /\ ListaDe(e)'[j] = ListaDe(e)[j]
                                       \/ indice'[contenido'[ListaDe(e)'[j]]] = ListaDe(e)'[j]
    <3> SUFFICES ASSUME NEW j, <<e, j>> \in Fijas'
                 PROVE  \/ <<e, j>> \in Fijas /\ s[j] = l[j]
                        \/ indice[contenido[s[j]]] = s[j]
      BY <1>3, <1>10, <1>11
    <3>1. CASE j = i
      BY <1>5, <2>6, <3>1
    <3>2. CASE j # i
      <4>1. <<e, j>> \in Fijas /\ j \in DOMAIN l
        BY <1>10, <2>3, <3>2, FijaDe
      <4> QED BY <1>5, <3>2, <4>1
    <3> QED BY <3>1, <3>2
  <2>13. Fiel(t, e, u)
    BY <1>2, <1>3, <1>7, <1>8, <2>1, <2>5, <2>12 DEF Fiel, Leido, AnclasQuedan
  <2> QED BY <1>16, <1>17, <2>11, <2>13, PasoFiel
<1> QED BY <1>16, <1>17 DEF Guarda

LEMMA TerminaCommitGuarda ==
    ASSUME Estructura, NEW t \in Hilos, TerminaCommit(t)
    PROVE  Guarda
<1> DEFINE l == hilo[t].lista
           m == [bloques |-> l, estado |-> "COMMITED"]
<1>0. PICK e \in Etiquetas : e = hilo[t].e
  BY HiloTipo DEF Estructura
<1>1. hilo[t].paso = "hash" /\ ~SinCandado(hilo[t]) /\ hilo[t].i > Len(l)
  BY DEF TerminaCommit, SinCandado
<1>2. /\ TypeOK /\ Cerrojos /\ hilo[t] \in Registro /\ EnPaso(meta, hilo[t]) /\ Enlazados(e)
  BY <1>0, <1>1, EnCurso
<1>3. /\ meta' = [meta EXCEPT ![e] = m] /\ enlace' = enlace /\ contenido' = contenido
      /\ bitmap' = bitmap /\ indice' = indice /\ mutexHash' = mutexHash
      /\ hilo' = [hilo EXCEPT ![t] = Libre] /\ candado' = [candado EXCEPT ![Archivo(e)] = NULL]
  BY <1>0, <1>1 DEF TerminaCommit, Termina, unlock_file_metadata, Va
<1>4. /\ Fase(hilo[t]) = "hash" /\ ConLista(hilo[t]) /\ Commiteando(hilo[t])
      /\ ~Apartado(hilo[t]) /\ meta[e].estado = "WORK_IN_PROGRESS"
      /\ l \in Seq(Bloques) /\ hilo[t].i \in Nat
  BY <1>0, <1>1, <1>2, HiloTipo DEF Fase, ConLista, Commiteando, Apartado, EnPaso
<1>5. Suelta(t, e, Libre) /\ Paso(t, e, Libre) /\ ~Apartado(Libre)
  BY <1>0, <1>1, <1>3, LibreTipo DEF Suelta, SinCandado, Paso, Apartado
<1>6. m \in Metadatos /\ m.bloques = l /\ m.estado = "COMMITED"
  BY <1>4 DEF Metadatos, Estados
<1> HIDE DEF m
<1>7. /\ meta'[e] = m /\ meta' \in [Etiquetas -> Metadatos]
      /\ \A d \in Etiquetas \ {e} : meta'[d] = meta[d] /\ enlace'[d] = enlace[d]
  BY <1>2, <1>3, <1>6, MetaTipo
<1>8. /\ ListaDe(e) = l /\ ~Borrando(candado, hilo, e)
      /\ \A j : FijaEn(meta, candado, hilo, e, j) <=> j < hilo[t].i
  BY <1>2, <1>4, <1>5, LibreTipo, PropiaAntes
<1>9. /\ ListaDe(e)' = l /\ ~Borrando(candado', hilo', e)
      /\ \A j : FijaEn(meta', candado', hilo', e, j)
  BY <1>2, <1>5, <1>6, <1>7, LibreTipo, PropiaDespues
<1>10. Enlazados(e)'
  <2>1. Enlazada(m, enlace[e], l, FALSE)
    BY <1>2, <1>6, <1>8 DEF Enlazados, Enlazada
  <2> QED BY <1>3, <1>7, <1>9, <2>1 DEF Enlazados, Enlazada
<1>11. Estructura'
  <2>1. EnPaso(meta', Libre)
    BY LibreTipo DEF EnPaso, Fase, SinCandado, Escribiendo
  <2> QED BY <1>2, <1>3, <1>5, <1>7, <1>10, <2>1, LibreTipo, PasoEstructura, MetaTipo DEF Metadatos
<1>12. ASSUME IInv, Contenidos PROVE IInv' /\ Contenidos'
  <2>1. Aparte(e)
    BY <1>2, <1>5, <1>7, LibreTipo, PasoAparte
  <2>2. Apartados' = Apartados
    BY <1>2, <1>3, <1>4, <1>5, MismosApartados
  <2>3. \A j \in DOMAIN l : j < hilo[t].i
    BY <1>1, <1>4, ListaTipo
  <2>4. Quieto(t, e, Libre)
    BY <1>3, <1>4, <1>8, <1>9, <2>1, <2>2, <2>3, LibreTipo DEF Quieto, Leido
  <2> QED BY <1>11, <1>12, <2>4, PasoQuieto
<1> QED BY <1>11, <1>12 DEF Guarda

LEMMA SiguienteGuarda ==
    ASSUME Estructura, [Next]_vars
    PROVE  Guarda
<1>1. CASE Next
  <2>1. PICK t \in Hilos : Pide(t) \/ Sigue(t)
    BY <1>1 DEF Next
  <2>2. CASE Pide(t)
    <3>1. PICK e \in Etiquetas :
             \/ create(t, e) \/ eliminarTag(t, e) \/ commitFile(t, e)
             \/ \E d \in Pedibles : tag(t, e, d)
             \/ \E i \in 1..MaxTam : leer(t, e, i) \/ \E v \in Valores : escribirBloque(t, e, i, v)
             \/ \E n \in 0..MaxTam : truncate_agranda(t, e, n) \/ truncate_achica(t, e, n)
      BY <2>2, StorageSupuesto DEF Pide
    <3>2. CASE \E d \in Pedibles : tag(t, e, d)
      <4>1. PICK d \in Etiquetas : tag(t, e, d)
        BY <3>2, StorageSupuesto
      <4> QED BY <4>1, TagGuarda
    <3>3. CASE \E i \in 1..MaxTam : leer(t, e, i) \/ \E v \in Valores : escribirBloque(t, e, i, v)
      BY <3>3, LeerGuarda, EscribirGuarda
    <3>4. CASE \E n \in 0..MaxTam : truncate_agranda(t, e, n) \/ truncate_achica(t, e, n)
      BY <3>4, AgrandaGuarda, AchicaGuarda
    <3> QED BY <3>1, <3>2, <3>3, <3>4, CreateGuarda, EliminarGuarda, CommitGuarda
  <2>3. CASE Sigue(t)
    BY <2>3, LeerBloqueGuarda, ReservarGuarda, EscribirFisicoGuarda, EnlazaCopiaGuarda,
       LimpiaGuarda, DesenlazaGuarda, TerminaTruncateGuarda, BloqueBorradoGuarda,
       TerminaDeleteGuarda, HashGuarda, ConservaGuarda, DeduplicaGuarda, TerminaCommitGuarda
       DEF Sigue
  <2> QED BY <2>1, <2>2, <2>3
<1>2. CASE UNCHANGED vars
  <2>1. /\ meta' = meta /\ enlace' = enlace /\ contenido' = contenido /\ bitmap' = bitmap
        /\ indice' = indice /\ candado' = candado /\ mutexHash' = mutexHash /\ hilo' = hilo
    BY <1>2 DEF vars
  <2>2. Lista' = Lista /\ Fijas' = Fijas /\ Apartados' = Apartados
        /\ \A e \in Etiquetas : Enlazados(e)' <=> Enlazados(e)
    BY <2>1 DEF Lista, ListaDe, Fijas, Apartados, Enlazados
  <2>3. Estructura'
    BY <2>1, <2>2 DEF Estructura, TypeOK, Cerrojos
  <2>4. IInv => IInv'
    BY <2>1, <2>2, <2>3 DEF IInv, EnBase, IndiceFiel
  <2>5. Contenidos => Contenidos'
    BY <2>1, <2>2 DEF Contenidos, Indexado
  <2> QED BY <2>3, <2>4, <2>5 DEF Guarda
<1> QED BY <1>1, <1>2

\* The fresh start.
LEMMA Fresco ==
    ASSUME Init
    PROVE  IInv /\ Contenidos
<1>0. /\ 0 \in Bloques /\ 0 \in Valores /\ BASE \in Etiquetas /\ NULL \notin Bloques
      /\ NULL \notin Hilos /\ MaxTam \in Nat \ {0} /\ 0 # COPIA /\ 0 # NULL
  BY StorageSupuesto
<1>1. /\ \A e \in Etiquetas : meta[e] = IF e = BASE THEN [bloques |-> <<0>>, estado |-> "COMMITED"]
                                        ELSE NoExiste
      /\ \A e \in Etiquetas : enlace[e] = meta[e].bloques
      /\ contenido = [b \in Bloques |-> 0] /\ bitmap = {0}
      /\ indice = [v \in Valores |-> IF v = 0 THEN 0 ELSE NULL]
      /\ candado = [f \in Archivos |-> NULL] /\ mutexHash = NULL
      /\ hilo = [t \in Hilos |-> Libre]
  BY DEF Init
<1>2. /\ <<0>> \in Seq(Bloques) /\ Len(<<0>>) = 1 /\ DOMAIN <<0>> = {1} /\ <<0>>[1] = 0
      /\ << >> \in Seq(Bloques) /\ Len(<< >>) = 0 /\ DOMAIN << >> = {}
      /\ <<0>> \in Seq(Bloques \cup {COPIA}) /\ << >> \in Seq(Bloques \cup {COPIA})
  BY <1>0
<1>3. \A e \in Etiquetas : \/ /\ e = BASE /\ meta[e].bloques = <<0>> /\ meta[e].estado = "COMMITED"
                              /\ enlace[e] = <<0>>
                           \/ /\ e # BASE /\ meta[e].bloques = << >> /\ meta[e].estado = "NO_EXISTE"
                              /\ enlace[e] = << >>
  BY <1>1 DEF NoExiste
<1>4. TypeOK
  <2>1. meta \in [Etiquetas -> [bloques : Seq(Bloques), estado : Estados]]
    <3>1. /\ [bloques |-> <<0>>, estado |-> "COMMITED"] \in [bloques : Seq(Bloques), estado : Estados]
          /\ NoExiste \in [bloques : Seq(Bloques), estado : Estados]
      BY <1>2 DEF NoExiste, Estados
    <3> QED BY <3>1 DEF Init
  <2>2. enlace \in [Etiquetas -> Seq(Bloques \cup {COPIA})]
    <3>1. \A e \in Etiquetas : meta[e].bloques \in Seq(Bloques \cup {COPIA})
      BY <1>2, <1>3
    <3> QED BY <3>1 DEF Init
  <2>3. hilo \in [Hilos -> Registro]
    BY <1>1, LibreTipo
  <2> QED BY <1>0, <1>1, <2>1, <2>2, <2>3 DEF TypeOK, Registro
<1>5. \A e \in Etiquetas : /\ ListaDe(e) = meta[e].bloques /\ ~Borrando(candado, hilo, e)
                           /\ \A i : FijaEn(meta, candado, hilo, e, i) <=> e = BASE
  <2>1. \A e \in Etiquetas : candado[Archivo(e)] = NULL
    BY <1>1, ArchivoTipo
  <2> QED BY <1>3, <2>1 DEF ListaDe, ListaEn, Borrando, FijaEn
<1>6. Estructura
  <2>1. Cerrojos
    BY <1>1, LibreTipo DEF Cerrojos, SinCandado
  <2>2. EnPaso(meta, Libre)
    BY LibreTipo DEF EnPaso, Fase, SinCandado, Escribiendo
  <2>3. \A t \in Hilos : EnPaso(meta, hilo[t])
    BY <1>1, <2>2
  <2>4. ASSUME NEW e \in Etiquetas PROVE Enlazados(e)
    <3>1. 0 <= MaxTam /\ 1 <= MaxTam
      BY <1>0
    <3>2. CASE meta[e].bloques = <<0>> /\ meta[e].estado = "COMMITED" /\ enlace[e] = <<0>>
      <4>1. Enlazada(meta[e], <<0>>, <<0>>, FALSE)
        BY <1>2, <3>1, <3>2 DEF Enlazada
      <4> QED BY <1>5, <3>2, <4>1 DEF Enlazados, Enlazada
    <3>3. CASE meta[e].bloques = << >> /\ meta[e].estado = "NO_EXISTE" /\ enlace[e] = << >>
      <4>1. Enlazada(meta[e], << >>, << >>, FALSE)
        BY <1>2, <3>1, <3>3 DEF Enlazada
      <4> QED BY <1>5, <3>3, <4>1 DEF Enlazados, Enlazada
    <3> QED BY <1>3, <3>2, <3>3
  <2> QED BY <1>4, <2>1, <2>3, <2>4 DEF Estructura
<1>7. \A e \in Etiquetas : \A i \in DOMAIN ListaDe(e) : e = BASE /\ i = 1 /\ ListaDe(e)[i] = 0
  BY <1>2, <1>3, <1>5
<1>8. \A e \in Etiquetas : \A i \in DOMAIN enlace[e] : e = BASE /\ i = 1 /\ enlace[e][i] = 0
  BY <1>2, <1>3
<1>9. \A x : x \in Fijas <=> x = <<BASE, 1>>
  <2>1. ASSUME NEW x \in Fijas PROVE x = <<BASE, 1>>
    <3>1. x = <<x[1], x[2]>> /\ x[1] \in Etiquetas /\ x[2] \in DOMAIN ListaDe(x[1])
      BY FijaDe DEF Lugares
    <3> QED BY <1>7, <3>1
  <2>2. <<BASE, 1>> \in Fijas
    <3>1. <<BASE, 1>> \in Lugares /\ 1 \in DOMAIN ListaDe(BASE)
      BY <1>0, <1>2, <1>3, <1>5 DEF Lugares
    <3> QED BY <1>0, <1>5, <3>1, FijaDe
  <2> QED BY <2>1, <2>2
<1>10. Anclado(enlace, Fijas, 0)
  <2>1. 1 \in DOMAIN enlace[BASE] /\ enlace[BASE][1] = 0
    BY <1>0, <1>2, <1>3
  <2>2. <<BASE, 1>> \in Fijas /\ <<BASE, 1>>[1] = BASE /\ <<BASE, 1>>[2] = 1
    BY <1>9
  <2> QED BY <2>1, <2>2 DEF Anclado
<1>11. \A e \in Etiquetas : Lista[e] = ListaDe(e)
  BY DEF Lista
<1>12. Bloqueo(Lista, enlace, Fijas, bitmap, Apartados)
  <2>1. Ancladas(Lista, enlace, Fijas)
    <3> SUFFICES ASSUME NEW e \in Etiquetas, NEW i \in DOMAIN enlace[e]
                 PROVE  Anclado(enlace, Fijas, Lista[e][i])
      BY DEF Ancladas
    <3>1. e = BASE /\ i = 1
      BY <1>8
    <3>2. Lista[e][i] = 0
      BY <1>0, <1>2, <1>3, <1>5, <1>11, <3>1
    <3> QED BY <1>10, <3>2
  <2>2. UnSoloLugar(Lista, enlace, Fijas)
    BY <1>7, <1>10, <1>11 DEF UnSoloLugar
  <2>3. Ocupados(Lista, bitmap)
    BY <1>1, <1>7, <1>11 DEF Ocupados
  <2>4. Apartados = {}
    BY <1>1, LibreTipo DEF Apartados, Apartado
  <2>5. DeUnHilo(Lista, bitmap, Apartados)
    BY <2>4 DEF DeUnHilo
  <2> QED BY <2>1, <2>2, <2>3, <2>5 DEF Bloqueo
<1>13. EnBase
  BY <1>0, <1>1, <1>3 DEF EnBase
<1>14. IndiceFiel
  BY <1>0, <1>1, <1>10 DEF IndiceFiel
<1>15. Contenidos
  <2>1. ASSUME NEW x \in Fijas PROVE Indexado(Lista[x[1]][x[2]])
    <3>1. x[1] = BASE /\ x[2] = 1 /\ Lista[BASE][1] = 0
      BY <1>0, <1>2, <1>3, <1>5, <1>9, <1>11
    <3> QED BY <1>0, <1>1, <3>1 DEF Indexado
  <2>2. \A t \in Hilos : Leido(contenido, enlace, Fijas, hilo[t])
    BY <1>1, LibreTipo DEF Leido
  <2> QED BY <2>1, <2>2 DEF Contenidos
<1>16. \A t \in Hilos : hilo[t].paso # "sobrescribe"
  BY <1>1, LibreTipo
<1> QED BY <1>6, <1>12, <1>13, <1>14, <1>15, <1>16 DEF IInv

LEMMA Invariante == ~TagDeWIP /\ ~BorraCommiteado => (Spec => [](IInv /\ Contenidos))
<1> SUFFICES ASSUME ~TagDeWIP, ~BorraCommiteado PROVE Spec => [](IInv /\ Contenidos)
  OBVIOUS
<1>1. IInv /\ Contenidos /\ [Next]_vars => (IInv /\ Contenidos)'
  <2> SUFFICES ASSUME IInv, Contenidos, [Next]_vars PROVE (IInv /\ Contenidos)'
    OBVIOUS
  <2>1. Guarda
    BY SiguienteGuarda DEF IInv
  <2> QED BY <2>1 DEF Guarda
<1>2. Init => IInv /\ Contenidos
  BY Fresco
<1>3. Spec => Init /\ [][Next]_vars
  BY DEF Spec
<1> QED BY <1>1, <1>2, <1>3, PTL

LEMMA EstructuraSiempre == Spec => []Estructura
<1>1. Estructura /\ [Next]_vars => Estructura'
  BY SiguienteGuarda DEF Guarda
<1>2. Init => Estructura
  BY Fresco DEF IInv
<1>3. Spec => Init /\ [][Next]_vars
  BY DEF Spec
<1> QED BY <1>1, <1>2, <1>3, PTL

-----------------------------------------------------------------------------
(***************************************************************************)
(* What the properties look at: BlocksDe(e) by the lock of its file.       *)
(***************************************************************************)

\* The operation of the thread h is going to leave its list in BLOCKS.
VaADejar(h) == Fase(h) \in {"achica", "hash", "indice"}

Dejados(h) == IF Fase(h) = "achica" THEN SubSeq(h.lista, 1, h.i) ELSE h.lista

BloquesEn(m, c, h, e) ==
    LET t == c[Archivo(e)]
    IN  IF t # NULL /\ h[t].e = e /\ VaADejar(h[t]) THEN Dejados(h[t]) ELSE m[e].bloques

LEMMA BloquesConCandado ==
    ASSUME Cerrojos, NEW e \in Etiquetas, candado[Archivo(e)] \in Hilos \cup {NULL},
           \A t \in Hilos : /\ hilo[t].paso = "libera" => hilo[t].sigue \in {"achica", "borra", "hash"}
                            /\ hilo[t].paso # "libera" => hilo[t].sigue = "libre"
    PROVE  BloquesDe(e) = BloquesEn(meta, candado, hilo, e)
<1> DEFINE en == {t \in Hilos : /\ hilo[t].e = e
                                /\ {hilo[t].paso, hilo[t].sigue} \cap {"achica", "hash", "indice"} # {}}
           Deja(h) == IF "achica" \in {h.paso, h.sigue} THEN SubSeq(h.lista, 1, h.i) ELSE h.lista
<1>1. BloquesDe(e) = IF en = {} THEN meta[e].bloques ELSE Deja(hilo[CHOOSE t \in en : TRUE])
  BY DEF BloquesDe
<1>2. ASSUME NEW t \in Hilos
      PROVE  /\ {hilo[t].paso, hilo[t].sigue} \cap {"achica", "hash", "indice"} # {}
                   <=> VaADejar(hilo[t])
             /\ VaADejar(hilo[t]) => ~SinCandado(hilo[t]) /\ Deja(hilo[t]) = Dejados(hilo[t])
  <2>1. /\ hilo[t].paso = "libera" => hilo[t].sigue \in {"achica", "borra", "hash"}
        /\ hilo[t].paso # "libera" => hilo[t].sigue = "libre"
    OBVIOUS
  <2> QED BY <2>1 DEF VaADejar, Dejados, Fase, SinCandado
<1>3. \A t \in en : t \in Hilos /\ candado[Archivo(e)] = t /\ hilo[t].e = e /\ VaADejar(hilo[t])
  BY <1>2 DEF Cerrojos
<1>4. CASE en = {}
  <2>1. ~(candado[Archivo(e)] # NULL /\ hilo[candado[Archivo(e)]].e = e
             /\ VaADejar(hilo[candado[Archivo(e)]]))
    BY <1>2, <1>4
  <2> QED BY <1>1, <1>4, <2>1 DEF BloquesEn
<1>5. CASE en # {}
  <2>1. PICK t \in en : t = CHOOSE u \in en : TRUE
    BY <1>5
  <2>2. /\ t \in Hilos /\ candado[Archivo(e)] = t /\ hilo[t].e = e /\ VaADejar(hilo[t])
        /\ t # NULL
    BY <1>3, StorageSupuesto
  <2>3. BloquesDe(e) = Deja(hilo[t])
    BY <1>1, <1>5, <2>1
  <2> QED BY <1>2, <2>2, <2>3 DEF BloquesEn
<1> QED BY <1>4, <1>5

LEMMA BloquesPorCandado ==
    ASSUME Estructura, NEW e \in Etiquetas
    PROVE  BloquesDe(e) = BloquesEn(meta, candado, hilo, e)
<1>1. Cerrojos /\ candado[Archivo(e)] \in Hilos \cup {NULL}
  BY ArchivoTipo DEF Estructura, TypeOK
<1>2. \A t \in Hilos : /\ hilo[t].paso = "libera" => hilo[t].sigue \in {"achica", "borra", "hash"}
                       /\ hilo[t].paso # "libera" => hilo[t].sigue = "libre"
  BY DEF Estructura, EnPaso
<1> QED BY <1>1, <1>2, BloquesConCandado

\* They are places of e.
LEMMA BloquesDeLista ==
    ASSUME Estructura, NEW e \in Etiquetas
    PROVE  /\ BloquesDe(e) \in Seq(Bloques)
           /\ \A i \in DOMAIN BloquesDe(e) : i \in DOMAIN ListaDe(e) /\ BloquesDe(e)[i] = ListaDe(e)[i]
<1>1. BloquesDe(e) = BloquesEn(meta, candado, hilo, e) /\ TypeOK
  BY BloquesPorCandado DEF Estructura
<1>2. meta[e].bloques \in Seq(Bloques) /\ Enlazados(e)
  BY <1>1, MetaTipo DEF Estructura
<1>3. candado[Archivo(e)] \in Hilos \cup {NULL}
  BY <1>1, ArchivoTipo DEF TypeOK
<1>4. CASE ~(candado[Archivo(e)] # NULL /\ hilo[candado[Archivo(e)]].e = e)
  BY <1>1, <1>2, <1>4 DEF BloquesEn, ListaDe, ListaEn
<1>5. CASE candado[Archivo(e)] # NULL /\ hilo[candado[Archivo(e)]].e = e
  <2>1. PICK t \in Hilos : t = candado[Archivo(e)]
    BY <1>3, <1>5
  <2>2. hilo[t].lista \in Seq(Bloques) /\ hilo[t].i \in Nat /\ EnPaso(meta, hilo[t])
    BY <1>1, HiloTipo DEF Estructura
  <2>3. CASE ~ConLista(hilo[t])
    <3>1. ~VaADejar(hilo[t])
      BY <2>3 DEF ConLista, VaADejar
    <3>2. BloquesDe(e) = meta[e].bloques /\ ListaDe(e) = meta[e].bloques
      BY <1>1, <1>5, <2>1, <2>3, <3>1 DEF BloquesEn, ListaDe, ListaEn
    <3> QED BY <1>2, <3>2
  <2>4. CASE Fase(hilo[t]) = "borra"
    <3>1. ~VaADejar(hilo[t]) /\ meta[e].estado = "NO_EXISTE"
      BY <1>5, <2>1, <2>2, <2>4 DEF EnPaso, VaADejar
    <3>2. BloquesDe(e) = meta[e].bloques /\ meta[e].bloques = << >>
      BY <1>1, <1>2, <2>1, <3>1 DEF BloquesEn, Enlazados, Enlazada
    <3> QED BY <1>2, <3>2, ListaTipo
  <2>5. CASE Fase(hilo[t]) \in {"achica", "hash", "indice"}
    <3> DEFINE l == hilo[t].lista
    <3>1. ListaDe(e) = l /\ BloquesDe(e) = Dejados(hilo[t])
      BY <1>1, <1>5, <2>1, <2>5 DEF BloquesEn, ListaDe, ListaEn, ConLista, VaADejar
    <3>2. CASE Fase(hilo[t]) = "achica"
      <4>1. BloquesDe(e) = SubSeq(l, 1, hilo[t].i) /\ hilo[t].i <= Len(l)
        BY <2>2, <3>1, <3>2 DEF Dejados, EnPaso
      <4> QED BY <2>2, <3>1, <4>1, PrefijoTipo
    <3>3. CASE Fase(hilo[t]) # "achica"
      BY <2>2, <3>1, <3>3 DEF Dejados
    <3> QED BY <3>2, <3>3
  <2> QED BY <2>3, <2>4, <2>5 DEF ConLista
<1> QED BY <1>4, <1>5

-----------------------------------------------------------------------------
(***************************************************************************)
(* The results.                                                            *)
(***************************************************************************)

\* Whatever is copied or deleted, the variables hold values of their types: a list is never
\* read past its end, nor a block number made up.
THEOREM StorageTipos == Spec => []TypeOK
<1>1. Estructura => TypeOK
  BY DEF Estructura
<1> QED BY <1>1, EstructuraSiempre, PTL

LEMMA UsadoEnLugar ==
    ASSUME Estructura, NEW b \in Usados
    PROVE  ~SinLugar(Lista, b)
<1>1. PICK e \in Etiquetas : b \in Range(BloquesDe(e))
  BY DEF Usados
<1>2. PICK i \in DOMAIN BloquesDe(e) : BloquesDe(e)[i] = b
  BY <1>1 DEF Range
<1>3. i \in DOMAIN Lista[e] /\ Lista[e][i] = b
  BY <1>2, BloquesDeLista DEF Lista
<1> QED BY <1>3 DEF SinLugar

\* liberarBloqueSiEsNecesario clears the bit of a block on the count of its links, taken
\* before: as long as TAG copies COMMITED File:Tags only and DELETE leaves them alone, no
\* File:Tag uses a block that is free or about to be freed, and what a WRITE has reserved
\* is its own, for any number of threads, files and blocks.
THEOREM NadaEnUsoSeLibera == ~TagDeWIP /\ ~BorraCommiteado => (Spec => []EnUsoOcupado)
<1> SUFFICES ASSUME ~TagDeWIP, ~BorraCommiteado PROVE Spec => []EnUsoOcupado
  OBVIOUS
<1>1. IInv => EnUsoOcupado
  <2> SUFFICES ASSUME IInv PROVE EnUsoOcupado
    OBVIOUS
  <2> DEFINE Nuevo(t) == hilo[t].paso \in {"copia", "enlaza"}
  <2>1. Estructura /\ Ocupados(Lista, bitmap) /\ DeUnHilo(Lista, bitmap, Apartados)
    BY DEF IInv, Bloqueo
  <2>2. ASSUME NEW b \in Usados PROVE b \in bitmap
    BY <2>1, UsadoEnLugar DEF Ocupados, SinLugar
  <2>3. \A t \in Hilos : Nuevo(t) \/ hilo[t].paso = "libera" => <<t, hilo[t].b>> \in Apartados
    BY DEF Apartados, Apartado
  <2>4. \A t \in Hilos : Nuevo(t) \/ hilo[t].paso = "libera" =>
           hilo[t].b \in bitmap /\ hilo[t].b \notin Usados
    BY <2>1, <2>3, UsadoEnLugar DEF DeUnHilo
  <2>5. ASSUME NEW t \in Hilos, NEW u \in Hilos, Nuevo(t), Nuevo(u), hilo[t].b = hilo[u].b
        PROVE  t = u
    <3>1. <<t, hilo[t].b>> \in Apartados /\ <<u, hilo[u].b>> \in Apartados
      BY <2>3, <2>5
    <3>2. <<t, hilo[t].b>> = <<u, hilo[u].b>>
      BY <2>1, <2>5, <3>1 DEF DeUnHilo
    <3> QED BY <3>2
  <2>6. LiberadoSinUso
    BY <2>4 DEF LiberadoSinUso
  <2>7. Usados \subseteq bitmap
    BY <2>2
  <2>8. \A t \in Hilos : Nuevo(t) =>
           /\ hilo[t].b \in bitmap \ Usados
           /\ \A u \in Hilos \ {t} : Nuevo(u) => hilo[u].b # hilo[t].b
    BY <2>4, <2>5
  <2> QED BY <2>6, <2>7, <2>8 DEF EnUsoOcupado
<1> QED BY <1>1, Invariante, PTL

\* obtener_hash_bloque is called before g_mutexHashIndex is taken, and another COMMIT may
\* register the hash in between: still, equal blocks of COMMITED File:Tags are one.
THEOREM CadaContenidoUnaVez == ~TagDeWIP /\ ~BorraCommiteado => (Spec => []UnaCopiaPorContenido)
<1> SUFFICES ASSUME ~TagDeWIP, ~BorraCommiteado PROVE Spec => []UnaCopiaPorContenido
  OBVIOUS
<1>1. IInv /\ Contenidos => UnaCopiaPorContenido
  <2> SUFFICES ASSUME IInv, Contenidos PROVE UnaCopiaPorContenido
    OBVIOUS
  <2>1. ASSUME NEW e \in Etiquetas, meta[e].estado = "COMMITED", NEW i \in DOMAIN meta[e].bloques
        PROVE  Indexado(meta[e].bloques[i])
    <3>1. <<e, i>> \in Fijas /\ Lista[e] = meta[e].bloques
      BY <2>1, CommiteadoQuieto DEF IInv, Lista
    <3> QED BY <3>1 DEF Contenidos
  <2> QED BY <2>1 DEF UnaCopiaPorContenido, Indexado
<1> QED BY <1>1, Invariante, PTL

\* leer looks the block up under the lock of the file and reads it without: what it found
\* COMMITED is not freed, written or shared away meanwhile.
THEOREM LecturasEstables == ~TagDeWIP /\ ~BorraCommiteado => (Spec => []LecturaDeCommiteado)
<1> SUFFICES ASSUME ~TagDeWIP, ~BorraCommiteado PROVE Spec => []LecturaDeCommiteado
  OBVIOUS
<1>1. Contenidos => LecturaDeCommiteado
  BY DEF Contenidos, Leido, LecturaDeCommiteado
<1> QED BY <1>1, Invariante, PTL

-----------------------------------------------------------------------------
(***************************************************************************)
(* The operations are those of Almacen: what each step changes of what the *)
(* File:Tags are seen to have.                                             *)
(***************************************************************************)

PorCandado == \A e \in Etiquetas : BloquesDe(e) = BloquesEn(meta, candado, hilo, e)

LEMMA PorCandadoSiempre == Estructura => PorCandado
BY BloquesPorCandado DEF PorCandado

LEMMA PorCandadoDespues == Estructura' => PorCandado'
BY PorCandadoSiempre, PTL

Datos(e) == [i \in DOMAIN BloquesDe(e) |-> contenido[BloquesDe(e)[i]]]

Vista == [e \in Etiquetas |-> [estado |-> meta[e].estado, datos |-> Datos(e)]]

BienVisto == \A e \in Etiquetas :
    /\ BloquesDe(e) \in Seq(Bloques) /\ Datos(e) \in Seq(Valores)
    /\ Len(Datos(e)) = Len(BloquesDe(e)) /\ DOMAIN Datos(e) = DOMAIN BloquesDe(e)

LEMMA BienVistoSiempre == Estructura => BienVisto
<1> SUFFICES ASSUME Estructura, NEW e \in Etiquetas
             PROVE  /\ BloquesDe(e) \in Seq(Bloques) /\ Datos(e) \in Seq(Valores)
                    /\ Len(Datos(e)) = Len(BloquesDe(e)) /\ DOMAIN Datos(e) = DOMAIN BloquesDe(e)
  BY DEF BienVisto
<1> DEFINE l == BloquesDe(e)
<1>1. l \in Seq(Bloques)
  BY BloquesDeLista
<1>2. Len(l) \in Nat /\ DOMAIN l = 1..Len(l) /\ \A i \in DOMAIN l : l[i] \in Bloques
  BY <1>1, ListaTipo
<1> HIDE DEF l
<1>3. Datos(e) = [i \in DOMAIN l |-> contenido[l[i]]]
  BY DEF Datos, l
<1>4. Datos(e) \in [1..Len(l) -> Valores]
  BY <1>2, <1>3 DEF Estructura, TypeOK
<1>5. Datos(e) \in Seq(Valores)
  BY <1>2, <1>4, SeqDef
<1>6. Len(Datos(e)) = Len(l)
  BY <1>2, <1>4, <1>5, LenProperties
<1> QED BY <1>1, <1>2, <1>4, <1>5, <1>6 DEF l

LEMMA BienVistoDespues == Estructura' => BienVisto'
BY BienVistoSiempre, PTL

\* No block of a File:Tag changes its contents.
VerIgual == \A e \in Etiquetas : \A i \in DOMAIN BloquesDe(e) :
    contenido'[BloquesDe(e)[i]] = contenido[BloquesDe(e)[i]]

LEMMA RegistroDespues ==
    ASSUME TypeOK, Estructura', NEW t \in Hilos, NEW r, hilo' = [hilo EXCEPT ![t] = r]
    PROVE  r \in Registro
<1>1. hilo' \in [Hilos -> Registro]
  BY DEF Estructura, TypeOK, Registro
<1> QED BY <1>1 DEF TypeOK

\* BLOCKS of the File:Tag of a step, before and after.
LEMMA VistaAntes ==
    ASSUME Estructura, NEW t \in Hilos, NEW e \in Etiquetas, NEW r, Paso(t, e, r)
    PROVE  /\ Toma(t, e, r) \/ Fuera(t, e, r) => BloquesDe(e) = meta[e].bloques
           /\ Dentro(t, e, r) \/ Suelta(t, e, r) =>
                 BloquesDe(e) = IF VaADejar(hilo[t]) THEN Dejados(hilo[t]) ELSE meta[e].bloques
<1>1. BloquesDe(e) = BloquesEn(meta, candado, hilo, e) /\ NULL \notin Hilos
  BY PorCandadoSiempre, StorageSupuesto DEF PorCandado
<1>2. Toma(t, e, r) \/ Fuera(t, e, r) => candado[Archivo(e)] = NULL
  BY DEF Toma, Fuera
<1>3. Dentro(t, e, r) \/ Suelta(t, e, r) => candado[Archivo(e)] = t /\ hilo[t].e = e
  BY DEF Dentro, Suelta, Cerrojos, Estructura
<1> QED BY <1>1, <1>2, <1>3 DEF BloquesEn

LEMMA VistaLuego ==
    ASSUME Estructura, Estructura', NEW t \in Hilos, NEW e \in Etiquetas, NEW r, Paso(t, e, r)
    PROVE  /\ Toma(t, e, r) \/ Dentro(t, e, r) =>
                 BloquesDe(e)' = IF VaADejar(r) THEN Dejados(r) ELSE meta'[e].bloques
           /\ Suelta(t, e, r) \/ Fuera(t, e, r) => BloquesDe(e)' = meta'[e].bloques
<1>1. BloquesDe(e)' = BloquesEn(meta', candado', hilo', e) /\ NULL \notin Hilos
  BY PorCandadoDespues, StorageSupuesto DEF PorCandado
<1>2. TypeOK /\ Cerrojos /\ r \in Registro
  BY RegistroDespues DEF Estructura, Paso
<1>3. hilo'[t] = r
  BY <1>2, PasoHilo
<1>4. Suelta(t, e, r) \/ Fuera(t, e, r) => candado'[Archivo(e)] = NULL
  BY <1>2, PasoCandado DEF Fuera
<1>5. Toma(t, e, r) \/ Dentro(t, e, r) => candado'[Archivo(e)] = t /\ r.e = e
  BY <1>2, PasoCandado DEF Dentro, Toma, Cerrojos
<1> QED BY <1>1, <1>3, <1>4, <1>5 DEF BloquesEn

LEMMA VistaPaso ==
    ASSUME Estructura, Estructura', NEW t \in Hilos, NEW e \in Etiquetas, NEW r, Paso(t, e, r),
           \A d \in Etiquetas \ {e} : meta'[d] = meta[d], VerIgual
    PROVE  Vista' = [Vista EXCEPT ![e] = [estado |-> meta'[e].estado, datos |-> Datos(e)']]
<1>1. TypeOK /\ Cerrojos /\ r \in Registro
  BY RegistroDespues DEF Estructura, Paso
<1>2. ASSUME NEW d \in Etiquetas \ {e} PROVE meta'[d] = meta[d] /\ Datos(d)' = Datos(d)
  <2>1. BloquesDe(d) = BloquesEn(meta, candado, hilo, d)
        /\ BloquesDe(d)' = BloquesEn(meta', candado', hilo', d)
    BY PorCandadoSiempre, PorCandadoDespues DEF PorCandado
  <2>2. ASSUME candado[Archivo(d)] # NULL, hilo[candado[Archivo(d)]].e = d,
               candado'[Archivo(d)] = candado[Archivo(d)],
               hilo'[candado[Archivo(d)]] = hilo[candado[Archivo(d)]]
        PROVE  BloquesDe(d)' = BloquesDe(d)
    BY <2>1, <2>2 DEF BloquesEn
  <2>3. ASSUME ~(candado[Archivo(d)] # NULL /\ hilo[candado[Archivo(d)]].e = d),
               ~(candado'[Archivo(d)] # NULL /\ hilo'[candado'[Archivo(d)]].e = d)
        PROVE  BloquesDe(d)' = BloquesDe(d)
    BY <2>1, <2>3 DEF BloquesEn
  <2>4. \/ /\ candado[Archivo(d)] # NULL /\ hilo[candado[Archivo(d)]].e = d
           /\ candado'[Archivo(d)] = candado[Archivo(d)]
           /\ hilo'[candado[Archivo(d)]] = hilo[candado[Archivo(d)]]
        \/ /\ ~(candado[Archivo(d)] # NULL /\ hilo[candado[Archivo(d)]].e = d)
           /\ ~(candado'[Archivo(d)] # NULL /\ hilo'[candado'[Archivo(d)]].e = d)
    BY <1>1, OtroOperador
  <2>5. BloquesDe(d)' = BloquesDe(d)
    BY <2>2, <2>3, <2>4
  <2>6. d \in Etiquetas /\ meta'[d] = meta[d]
    OBVIOUS
  <2>7. \A i \in DOMAIN BloquesDe(d) : contenido'[BloquesDe(d)'[i]] = contenido[BloquesDe(d)[i]]
    BY <2>5, <2>6 DEF VerIgual
  <2>8. Datos(d)' = Datos(d)
    BY <2>5, <2>7 DEF Datos
  <2> QED BY <2>6, <2>8
<1>3. \A d \in Etiquetas : Vista[d] = [estado |-> meta[d].estado, datos |-> Datos(d)]
                           /\ Vista'[d] = [estado |-> meta'[d].estado, datos |-> Datos(d)']
  BY DEF Vista
<1>4. DOMAIN Vista = Etiquetas /\ DOMAIN Vista' = Etiquetas
      /\ Vista = [d \in Etiquetas |-> Vista[d]] /\ Vista' = [d \in Etiquetas |-> Vista'[d]]
  BY DEF Vista
<1> QED BY <1>2, <1>3, <1>4

\* The blocks of e are as many as before, with the contents they had.
Iguales(e) ==
    /\ DOMAIN BloquesDe(e)' = DOMAIN BloquesDe(e)
    /\ \A i \in DOMAIN BloquesDe(e) : contenido'[BloquesDe(e)'[i]] = contenido[BloquesDe(e)[i]]

LEMMA VistaQuieta ==
    ASSUME Estructura, Estructura', NEW t \in Hilos, NEW e \in Etiquetas, NEW r, Paso(t, e, r),
           \A d \in Etiquetas \ {e} : meta'[d] = meta[d], VerIgual,
           meta'[e].estado = meta[e].estado, Iguales(e)
    PROVE  Vista' = Vista
<1>1. Datos(e)' = Datos(e)
  BY DEF Datos, Iguales
<1>2. Vista' = [Vista EXCEPT ![e] = [estado |-> meta'[e].estado, datos |-> Datos(e)']]
  BY VistaPaso
<1>3. Vista[e] = [estado |-> meta[e].estado, datos |-> Datos(e)]
      /\ Vista = [d \in Etiquetas |-> Vista[d]]
  BY DEF Vista
<1> QED BY <1>1, <1>2, <1>3

LEMMA VistaSinCandado ==
    ASSUME Estructura, Estructura', NEW t \in Hilos, NEW r, hilo' = [hilo EXCEPT ![t] = r],
           SinCandado(hilo[t]), meta' = meta, contenido' = contenido, candado' = candado
    PROVE  Vista' = Vista
<1>1. TypeOK /\ \A u \in Hilos \ {t} : hilo'[u] = hilo[u]
  BY DEF Estructura, TypeOK
<1>2. ASSUME NEW d \in Etiquetas PROVE BloquesDe(d)' = BloquesDe(d)
  <2>1. BloquesDe(d) = BloquesEn(meta, candado, hilo, d)
        /\ BloquesDe(d)' = BloquesEn(meta', candado', hilo', d)
    BY PorCandadoSiempre, PorCandadoDespues DEF PorCandado
  <2>2. candado[Archivo(d)] = NULL \/ candado[Archivo(d)] \in Hilos \ {t}
    BY <1>1, ArchivoTipo DEF Estructura, Cerrojos, TypeOK
  <2> QED BY <1>1, <2>1, <2>2 DEF BloquesEn
<1> QED BY <1>2 DEF Vista, Datos

\* The same when nothing is written and BLOCKS is going to be left as it was.
MismoFin(t, e, r) ==
    /\ Paso(t, e, r) /\ meta' = meta /\ contenido' = contenido
    /\ Toma(t, e, r) /\ VaADejar(r) => Dejados(r) = meta[e].bloques
    /\ Dentro(t, e, r) => /\ VaADejar(r) <=> VaADejar(hilo[t])
                          /\ VaADejar(r) => Dejados(r) = Dejados(hilo[t])
    /\ Suelta(t, e, r) => ~VaADejar(hilo[t])

LEMMA VistaMismoFin ==
    ASSUME Estructura, Estructura', NEW t \in Hilos, NEW e \in Etiquetas, NEW r, MismoFin(t, e, r)
    PROVE  Vista' = Vista
<1>0. Paso(t, e, r) /\ meta' = meta /\ contenido' = contenido
  BY DEF MismoFin
<1>1. /\ Toma(t, e, r) \/ Fuera(t, e, r) => BloquesDe(e) = meta[e].bloques
      /\ Dentro(t, e, r) \/ Suelta(t, e, r) =>
            BloquesDe(e) = IF VaADejar(hilo[t]) THEN Dejados(hilo[t]) ELSE meta[e].bloques
  BY <1>0, VistaAntes
<1>2. /\ Toma(t, e, r) \/ Dentro(t, e, r) =>
            BloquesDe(e)' = IF VaADejar(r) THEN Dejados(r) ELSE meta[e].bloques
      /\ Suelta(t, e, r) \/ Fuera(t, e, r) => BloquesDe(e)' = meta[e].bloques
  BY <1>0, VistaLuego
<1>3. BloquesDe(e)' = BloquesDe(e)
  BY <1>0, <1>1, <1>2 DEF MismoFin, Paso
<1>4. Iguales(e) /\ VerIgual
  BY <1>0, <1>3 DEF Iguales, VerIgual
<1> QED BY <1>0, <1>4, VistaQuieta

LEMMA LecturaVista ==
    ASSUME Estructura, Estructura', NEW t \in Hilos,
           leerBloqueFisico(t) \/ \E e \in Etiquetas : \E i \in 1..MaxTam : leer(t, e, i)
    PROVE  Vista' = Vista
<1>1. CASE leerBloqueFisico(t)
  BY <1>1, VistaSinCandado DEF leerBloqueFisico, SinCandado, Va
<1>2. ASSUME NEW e \in Etiquetas, NEW i \in 1..MaxTam, leer(t, e, i) PROVE Vista' = Vista
  <2>1. PICK r : hilo' = [hilo EXCEPT ![t] = r]
    BY <1>2 DEF leer, Va
  <2> QED BY <1>2, <2>1, VistaSinCandado DEF leer, Excluye, SinCandado
<1> QED BY <1>1, <1>2

LEMMA EscribirVista ==
    ASSUME Estructura, Estructura', NEW t \in Hilos, NEW e \in Etiquetas, NEW i, NEW v,
           escribirBloque(t, e, i, v)
    PROVE  Vista' = Vista
<1> DEFINE r == [Libre EXCEPT !.paso = IF nlink(enlace, meta[e].bloques[i]) > 1 THEN "reserva"
                                       ELSE "sobrescribe",
                              !.e = e, !.i = i, !.v = v, !.b = meta[e].bloques[i]]
<1>1. /\ SinCandado(hilo[t]) /\ candado[Archivo(e)] = NULL
      /\ candado' = [candado EXCEPT ![Archivo(e)] = t]
      /\ hilo' = [hilo EXCEPT ![t] = r] /\ meta' = meta /\ contenido' = contenido
  BY DEF escribirBloque, lock_file_metadata, Va, SinCandado
<1>2. r.paso \in {"reserva", "sobrescribe"} /\ r.e = e
  BY DEF Libre
<1> HIDE DEF r
<1>3. Toma(t, e, r) /\ Paso(t, e, r) /\ ~VaADejar(r)
  BY <1>1, <1>2 DEF Toma, Paso, SinCandado, VaADejar, Fase
<1>4. MismoFin(t, e, r)
  BY <1>1, <1>3 DEF MismoFin, Dentro, Suelta, Toma
<1> QED BY <1>4, VistaMismoFin

LEMMA ReservarVista ==
    ASSUME Estructura, Estructura', NEW t \in Hilos, reservarBloqueLibre(t)
    PROVE  Vista' = Vista
<1> DEFINE b == Elegido(Bloques \ bitmap)
           r == [hilo[t] EXCEPT !.paso = "copia", !.b = b]
<1>0. PICK e \in Etiquetas : e = hilo[t].e
  BY HiloTipo DEF Estructura
<1>1. hilo[t].paso = "reserva" /\ ~SinCandado(hilo[t]) /\ ~VaADejar(hilo[t])
      /\ meta' = meta /\ contenido' = contenido /\ hilo[t] \in Registro
  BY HiloTipo DEF reservarBloqueLibre, SinCandado, VaADejar, Fase, Estructura
<1>2. CASE Bloques \ bitmap = {}
  <2>1. hilo' = [hilo EXCEPT ![t] = Libre] /\ candado' = [candado EXCEPT ![Archivo(e)] = NULL]
    BY <1>0, <1>2 DEF reservarBloqueLibre, Termina, unlock_file_metadata, Va
  <2>2. Suelta(t, e, Libre) /\ Paso(t, e, Libre)
    BY <1>0, <1>1, <2>1, LibreTipo DEF Suelta, Paso, SinCandado
  <2>3. MismoFin(t, e, Libre)
    BY <1>1, <2>2 DEF MismoFin, Dentro, Suelta, Toma
  <2> QED BY <2>3, VistaMismoFin
<1>3. CASE Bloques \ bitmap # {}
  <2>1. hilo' = [hilo EXCEPT ![t] = r] /\ candado' = candado
    BY <1>3 DEF reservarBloqueLibre, Va
  <2>2. r.paso = "copia" /\ r.e = e
    BY <1>0, <1>1 DEF Registro
  <2> HIDE DEF r
  <2>3. Dentro(t, e, r) /\ Paso(t, e, r) /\ ~VaADejar(r)
    BY <1>0, <1>1, <2>1, <2>2 DEF Dentro, Paso, SinCandado, VaADejar, Fase
  <2>4. MismoFin(t, e, r)
    BY <1>1, <2>3 DEF MismoFin, Dentro, Suelta, Toma
  <2> QED BY <2>4, VistaMismoFin
<1> QED BY <1>2, <1>3

\* The block that is written is of no File:Tag yet.
LEMMA EscribirFisicoVista ==
    ASSUME IInv, Estructura', NEW t \in Hilos, escribirFisicoDirecto(t)
    PROVE  Vista' = Vista
<1> DEFINE b == hilo[t].b
           r == [hilo[t] EXCEPT !.paso = "enlaza"]
<1>0. PICK e \in Etiquetas : e = hilo[t].e
  BY HiloTipo DEF Estructura, IInv
<1>1. hilo[t].paso = "copia" /\ ~SinCandado(hilo[t]) /\ ~VaADejar(hilo[t])
      /\ meta' = meta /\ contenido' = [contenido EXCEPT ![b] = hilo[t].v]
      /\ hilo' = [hilo EXCEPT ![t] = r] /\ candado' = candado
      /\ hilo[t] \in Registro /\ Estructura
  BY HiloTipo DEF escribirFisicoDirecto, SinCandado, VaADejar, Fase, Estructura, IInv, Va
<1>2. r.paso = "enlaza" /\ r.e = e
  BY <1>0, <1>1 DEF Registro
<1> HIDE DEF r
<1>3. Dentro(t, e, r) /\ Paso(t, e, r) /\ ~VaADejar(r)
  BY <1>0, <1>1, <1>2 DEF Dentro, Paso, SinCandado, VaADejar, Fase
<1>4. SinLugar(Lista, b)
  <2>1. <<t, b>> \in Apartados
    BY <1>1 DEF Apartados, Apartado
  <2> QED BY <2>1 DEF IInv, Bloqueo, DeUnHilo
<1>5. VerIgual
  <2> SUFFICES ASSUME NEW d \in Etiquetas, NEW i \in DOMAIN BloquesDe(d)
               PROVE  contenido'[BloquesDe(d)[i]] = contenido[BloquesDe(d)[i]]
    BY DEF VerIgual
  <2>1. i \in DOMAIN Lista[d] /\ BloquesDe(d)[i] = Lista[d][i]
    BY <1>1, BloquesDeLista DEF Lista
  <2>2. BloquesDe(d)[i] # b /\ BloquesDe(d)[i] \in Bloques
    BY <1>1, <1>4, <2>1, BloquesDeLista, ElementOfSeq, LenProperties DEF SinLugar
  <2> QED BY <1>1, <2>2 DEF Estructura, TypeOK
<1>6. BloquesDe(e)' = BloquesDe(e)
  BY <1>1, <1>3, VistaAntes, VistaLuego
<1>7. Iguales(e)
  BY <1>5, <1>6 DEF Iguales, VerIgual
<1> QED BY <1>1, <1>3, <1>5, <1>7, VistaQuieta

LEMMA LimpiaVista ==
    ASSUME Estructura, Estructura', NEW t \in Hilos, LimpiaBit(t)
    PROVE  Vista' = Vista
<1> DEFINE r == [hilo[t] EXCEPT !.paso = hilo[t].sigue, !.sigue = "libre"]
<1>0. PICK e \in Etiquetas : e = hilo[t].e
  BY HiloTipo DEF Estructura
<1>1. /\ hilo[t].paso = "libera" /\ ~SinCandado(hilo[t]) /\ hilo[t] \in Registro
      /\ hilo[t].sigue \in {"achica", "borra", "hash"}
      /\ meta' = meta /\ contenido' = contenido /\ candado' = candado
      /\ hilo' = [hilo EXCEPT ![t] = r]
  BY HiloTipo DEF LimpiaBit, SinCandado, Estructura, EnPaso, Va
<1>2. r.paso = hilo[t].sigue /\ r.e = e /\ r.lista = hilo[t].lista /\ r.i = hilo[t].i
  BY <1>0, <1>1 DEF Registro
<1> HIDE DEF r
<1>3. Dentro(t, e, r) /\ Paso(t, e, r) /\ Fase(r) = Fase(hilo[t])
  BY <1>0, <1>1, <1>2 DEF Dentro, Paso, SinCandado, Fase
<1>4. MismoFin(t, e, r)
  BY <1>1, <1>2, <1>3 DEF MismoFin, Dentro, Suelta, Toma, VaADejar, Dejados
<1> QED BY <1>4, VistaMismoFin

\* The blocks that TRUNCATE gives up one by one are past its new end.
LEMMA DesenlazaVista ==
    ASSUME Estructura, Estructura', NEW t \in Hilos, DesenlazaUltimo(t)
    PROVE  Vista' = Vista
<1> DEFINE l == hilo[t].lista
           n == hilo[t].i
           r == [hilo[t] EXCEPT !.b = Last(l), !.lista = Front(l)]
<1>0. PICK e \in Etiquetas : e = hilo[t].e
  BY HiloTipo DEF Estructura
<1>1. /\ hilo[t].paso = "achica" /\ ~SinCandado(hilo[t]) /\ hilo[t] \in Registro
      /\ hilo[t].sigue = "libre" /\ l \in Seq(Bloques) /\ n \in Nat /\ Len(l) > n
      /\ meta' = meta /\ contenido' = contenido /\ candado' = candado
      /\ Libera(t, enlace', r)
  BY HiloTipo DEF DesenlazaUltimo, SinCandado, Estructura, EnPaso
<1>2. /\ Len(l) \in Nat /\ Len(l) > 0 /\ n <= Len(l) - 1
  BY <1>1, LenProperties
<1>3. /\ Front(l) \in Seq(Bloques) /\ Len(Front(l)) = Len(l) - 1 /\ Last(l) \in Bloques
      /\ \A i \in DOMAIN Front(l) : Front(l)[i] = l[i]
  BY <1>1, <1>2, FrontTipo
<1>4. /\ r \in Registro /\ r.paso = "achica" /\ r.sigue = "libre" /\ r.e = e
      /\ r.lista = Front(l) /\ r.i = n
  BY <1>0, <1>1, <1>3 DEF Registro
<1> HIDE DEF r
<1>5. PICK u : hilo' = [hilo EXCEPT ![t] = u] /\ Visto(enlace', r, u)
  BY <1>1, <1>4, LiberaVisto
<1>6. /\ Dentro(t, e, u) /\ Paso(t, e, u) /\ Fase(u) = "achica" /\ Fase(hilo[t]) = "achica"
      /\ u.lista = Front(l) /\ u.i = n
  BY <1>0, <1>1, <1>4, <1>5 DEF Visto, Dentro, Paso, Fase
<1>7. BloquesDe(e) = SubSeq(l, 1, n) /\ BloquesDe(e)' = SubSeq(Front(l), 1, n)
  BY <1>6, VistaAntes, VistaLuego DEF VaADejar, Dejados
<1>8. /\ DOMAIN SubSeq(l, 1, n) = 1..n /\ DOMAIN SubSeq(Front(l), 1, n) = 1..n
      /\ \A i \in 1..n : SubSeq(l, 1, n)[i] = l[i]
      /\ \A i \in 1..n : SubSeq(Front(l), 1, n)[i] = Front(l)[i] /\ i \in DOMAIN Front(l)
  <2>1. n <= Len(Front(l)) /\ n <= Len(l)
    BY <1>1, <1>2, <1>3
  <2>2. /\ DOMAIN SubSeq(l, 1, n) = 1..n
        /\ \A i \in DOMAIN SubSeq(l, 1, n) : SubSeq(l, 1, n)[i] = l[i]
    BY <1>1, <2>1, PrefijoTipo
  <2>3. /\ DOMAIN SubSeq(Front(l), 1, n) = 1..n
        /\ \A i \in DOMAIN SubSeq(Front(l), 1, n) :
              i \in DOMAIN Front(l) /\ SubSeq(Front(l), 1, n)[i] = Front(l)[i]
    BY <1>1, <1>3, <2>1, PrefijoTipo
  <2> QED BY <2>2, <2>3
<1>9. Iguales(e) /\ VerIgual
  <2>1. ASSUME NEW i \in 1..n PROVE SubSeq(Front(l), 1, n)[i] = SubSeq(l, 1, n)[i]
    <3>1. SubSeq(l, 1, n)[i] = l[i] /\ SubSeq(Front(l), 1, n)[i] = Front(l)[i]
          /\ i \in DOMAIN Front(l)
      BY <1>8
    <3>2. Front(l)[i] = l[i]
      BY <1>3, <3>1
    <3> QED BY <3>1, <3>2
  <2> QED BY <1>1, <1>7, <1>8, <2>1 DEF Iguales, VerIgual
<1> QED BY <1>1, <1>6, <1>9, VistaQuieta

LEMMA TerminaTruncateVista ==
    ASSUME Estructura, Estructura', NEW t \in Hilos, TerminaTruncate(t)
    PROVE  Vista' = Vista
<1> DEFINE l == hilo[t].lista
<1>0. PICK e \in Etiquetas : e = hilo[t].e
  BY HiloTipo DEF Estructura
<1>1. /\ hilo[t].paso = "achica" /\ ~SinCandado(hilo[t]) /\ l \in Seq(Bloques)
      /\ Len(l) = hilo[t].i /\ TypeOK
      /\ contenido' = contenido /\ candado' = [candado EXCEPT ![Archivo(e)] = NULL]
      /\ hilo' = [hilo EXCEPT ![t] = Libre]
      /\ meta' = [meta EXCEPT ![e].bloques = l]
  <2>1. hilo[t].paso = "achica" /\ ~SinCandado(hilo[t]) /\ Len(l) = hilo[t].i
    BY DEF TerminaTruncate, SinCandado
  <2>2. TypeOK /\ l \in Seq(Bloques)
    BY HiloTipo DEF Estructura
  <2>3. contenido' = contenido /\ candado' = [candado EXCEPT ![Archivo(e)] = NULL]
        /\ hilo' = [hilo EXCEPT ![t] = Libre] /\ meta' = [meta EXCEPT ![e].bloques = l]
    BY <1>0 DEF TerminaTruncate, Termina, unlock_file_metadata, Va
  <2> QED BY <2>1, <2>2, <2>3
<1>2. /\ meta'[e].bloques = l /\ meta'[e].estado = meta[e].estado
      /\ \A d \in Etiquetas \ {e} : meta'[d] = meta[d]
  BY <1>1, MetaTipo DEF Metadatos
<1>3. Suelta(t, e, Libre) /\ Paso(t, e, Libre) /\ Fase(hilo[t]) = "achica"
  BY <1>0, <1>1, LibreTipo DEF Suelta, Paso, SinCandado, Fase
<1>4. BloquesDe(e) = SubSeq(l, 1, Len(l)) /\ BloquesDe(e)' = l
  BY <1>1, <1>2, <1>3, VistaAntes, VistaLuego DEF VaADejar, Dejados
<1>5. /\ DOMAIN SubSeq(l, 1, Len(l)) = DOMAIN l
      /\ \A i \in DOMAIN l : SubSeq(l, 1, Len(l))[i] = l[i]
  <2>1. Len(l) \in Nat /\ Len(l) <= Len(l) /\ DOMAIN l = 1..Len(l)
    BY <1>1, ListaTipo
  <2>2. /\ DOMAIN SubSeq(l, 1, Len(l)) = 1..Len(l)
        /\ \A i \in DOMAIN SubSeq(l, 1, Len(l)) : SubSeq(l, 1, Len(l))[i] = l[i]
    BY <1>1, <2>1, PrefijoTipo
  <2> QED BY <2>1, <2>2
<1>6. Iguales(e) /\ VerIgual
  BY <1>1, <1>4, <1>5 DEF Iguales, VerIgual
<1> QED BY <1>2, <1>3, <1>6, VistaQuieta

LEMMA DeleteVista ==
    ASSUME Estructura, Estructura', NEW t \in Hilos, BloqueBorrado(t) \/ TerminaDelete(t)
    PROVE  Vista' = Vista
<1> DEFINE r == [hilo[t] EXCEPT !.b = Head(hilo[t].lista), !.lista = Tail(hilo[t].lista)]
<1>0. PICK e \in Etiquetas : e = hilo[t].e
  BY HiloTipo DEF Estructura
<1>1. /\ hilo[t].paso = "borra" /\ ~SinCandado(hilo[t]) /\ hilo[t] \in Registro
      /\ hilo[t].sigue = "libre" /\ meta' = meta /\ contenido' = contenido
      /\ ~VaADejar(hilo[t])
  BY HiloTipo DEF BloqueBorrado, TerminaDelete, SinCandado, Estructura, EnPaso, VaADejar, Fase
<1>2. CASE BloqueBorrado(t)
  <2>1. Libera(t, enlace, r) /\ candado' = candado /\ hilo[t].lista # << >>
    BY <1>2 DEF BloqueBorrado
  <2>2. Head(hilo[t].lista) \in Bloques /\ Tail(hilo[t].lista) \in Seq(Bloques)
    BY <2>1, HiloTipo, TailTipo DEF Estructura
  <2>3. r \in Registro /\ r.paso = "borra" /\ r.sigue = "libre" /\ r.e = e
    BY <1>0, <1>1, <2>2 DEF Registro
  <2> HIDE DEF r
  <2>4. PICK u : hilo' = [hilo EXCEPT ![t] = u] /\ Visto(enlace, r, u)
    BY <2>1, <2>3, LiberaVisto
  <2>5. Dentro(t, e, u) /\ Paso(t, e, u) /\ ~VaADejar(u)
    BY <1>0, <1>1, <2>1, <2>3, <2>4 DEF Visto, Dentro, Paso, VaADejar
  <2>6. MismoFin(t, e, u)
    BY <1>1, <2>5 DEF MismoFin, Dentro, Suelta, Toma
  <2> QED BY <2>6, VistaMismoFin
<1>3. CASE TerminaDelete(t)
  <2>1. hilo' = [hilo EXCEPT ![t] = Libre] /\ candado' = [candado EXCEPT ![Archivo(e)] = NULL]
    BY <1>0, <1>3 DEF TerminaDelete, Termina, unlock_file_metadata, Va
  <2>2. Suelta(t, e, Libre) /\ Paso(t, e, Libre)
    BY <1>0, <1>1, <2>1, LibreTipo DEF Suelta, Paso, SinCandado
  <2>3. MismoFin(t, e, Libre)
    BY <1>1, <2>2 DEF MismoFin, Dentro, Suelta, Toma
  <2> QED BY <2>3, VistaMismoFin
<1> QED BY <1>2, <1>3

\* A COMMIT that does not change its list.
LEMMA CommitEnCursoVista ==
    ASSUME Estructura, Estructura', NEW t \in Hilos, NEW e \in Etiquetas, NEW r,
           hilo' = [hilo EXCEPT ![t] = r], Dentro(t, e, r), meta' = meta, contenido' = contenido,
           Commiteando(hilo[t]), Commiteando(r), r.lista = hilo[t].lista
    PROVE  Vista' = Vista
<1>1. VaADejar(hilo[t]) /\ VaADejar(r) /\ Dejados(r) = Dejados(hilo[t])
  BY DEF VaADejar, Dejados, Commiteando
<1>2. MismoFin(t, e, r)
  BY <1>1 DEF MismoFin, Paso, Dentro, Suelta, Toma
<1> QED BY <1>2, VistaMismoFin

LEMMA CommitVista ==
    ASSUME Estructura, Estructura', NEW t \in Hilos, NEW e \in Etiquetas, commitFile(t, e)
    PROVE  Vista' = Vista
<1> DEFINE l == meta[e].bloques
           r == [Libre EXCEPT !.paso = "hash", !.e = e, !.i = 1, !.lista = l]
<1>1. /\ SinCandado(hilo[t])
      /\ candado[Archivo(e)] = NULL /\ candado' = [candado EXCEPT ![Archivo(e)] = t]
      /\ hilo' = [hilo EXCEPT ![t] = r] /\ meta' = meta /\ contenido' = contenido
  BY DEF commitFile, lock_file_metadata, Va, SinCandado
<1>2. r.paso = "hash" /\ r.e = e /\ r.lista = l
  BY DEF Libre
<1> HIDE DEF r
<1>3. Toma(t, e, r) /\ Paso(t, e, r) /\ Dejados(r) = l
  BY <1>1, <1>2 DEF Toma, Paso, SinCandado, Dejados, Fase
<1>4. MismoFin(t, e, r)
  BY <1>1, <1>3 DEF MismoFin, Dentro, Suelta, Toma
<1> QED BY <1>4, VistaMismoFin

LEMMA HashVista ==
    ASSUME Estructura, Estructura', NEW t \in Hilos, obtener_hash_bloque(t) \/ Conserva(t)
    PROVE  Vista' = Vista
<1>0. PICK e \in Etiquetas : e = hilo[t].e
  BY HiloTipo DEF Estructura
<1>1. /\ hilo[t].paso \in {"hash", "indice"} /\ ~SinCandado(hilo[t]) /\ Commiteando(hilo[t])
      /\ meta' = meta /\ contenido' = contenido /\ candado' = candado
  BY DEF obtener_hash_bloque, Conserva, SinCandado, Commiteando, Fase
<1>2. hilo[t] \in Registro
  BY HiloTipo DEF Estructura
<1>3. PICK r : /\ hilo' = [hilo EXCEPT ![t] = r] /\ r.paso \in {"hash", "indice"}
               /\ r.e = e /\ r.lista = hilo[t].lista
  <2> DEFINE a == [hilo[t] EXCEPT !.paso = "indice", !.v = contenido[hilo[t].lista[hilo[t].i]]]
             b == [hilo[t] EXCEPT !.paso = "hash", !.i = @ + 1]
  <2>1. CASE obtener_hash_bloque(t)
    <3>1. hilo' = [hilo EXCEPT ![t] = a]
      BY <2>1 DEF obtener_hash_bloque, Va
    <3>2. a.paso = "indice" /\ a.e = e /\ a.lista = hilo[t].lista
      BY <1>0, <1>2 DEF Registro
    <3> QED BY <3>1, <3>2
  <2>2. CASE Conserva(t)
    <3>1. hilo' = [hilo EXCEPT ![t] = b]
      BY <2>2 DEF Conserva, Va
    <3>2. b.paso = "hash" /\ b.e = e /\ b.lista = hilo[t].lista
      BY <1>0, <1>2 DEF Registro
    <3> QED BY <3>1, <3>2
  <2> QED BY <2>1, <2>2
<1>4. Dentro(t, e, r) /\ Commiteando(r)
  BY <1>0, <1>1, <1>3 DEF Dentro, SinCandado, Commiteando, Fase
<1> QED BY <1>1, <1>3, <1>4, CommitEnCursoVista

\* The block that a COMMIT links instead has the contents of the one that it leaves.
LEMMA DeduplicaVista ==
    ASSUME IInv, Contenidos, Estructura', NEW t \in Hilos, Deduplica(t)
    PROVE  Vista' = Vista
<1> DEFINE l == hilo[t].lista
           i == hilo[t].i
           v == hilo[t].v
           k == i + 1
           o == indice[v]
           s == [l EXCEPT ![i] = o]
           r == [hilo[t] EXCEPT !.paso = "hash", !.i = k, !.b = l[i], !.lista = s]
<1>0. PICK e \in Etiquetas : e = hilo[t].e
  BY HiloTipo DEF Estructura, IInv
<1>1. hilo[t].paso = "indice" /\ o # NULL /\ Estructura
  BY DEF Deduplica, IInv
<1>2. /\ hilo[t] \in Registro /\ ~SinCandado(hilo[t]) /\ Fase(hilo[t]) = "indice"
      /\ hilo[t].sigue = "libre" /\ l \in Seq(Bloques) /\ i \in DOMAIN l /\ k \in Nat
      /\ l[i] \in Bloques /\ v \in Valores /\ o \in Bloques
  BY <1>0, <1>1, EnIndice
<1>3. meta' = meta /\ contenido' = contenido /\ candado' = candado /\ Libera(t, enlace', r)
  BY DEF Deduplica
<1>4. /\ s \in Seq(Bloques) /\ DOMAIN s = DOMAIN l
      /\ s[i] = o /\ \A j \in DOMAIN l \ {i} : s[j] = l[j]
  BY <1>2, CambiaUno
<1> HIDE DEF k, s
<1>5. /\ r \in Registro /\ r.paso = "hash" /\ r.sigue = "libre" /\ r.e = e /\ r.lista = s
  BY <1>0, <1>2, <1>4 DEF Registro, Pasos
<1> HIDE DEF r
<1>6. PICK u : hilo' = [hilo EXCEPT ![t] = u] /\ Visto(enlace', r, u)
  BY <1>3, <1>5, LiberaVisto
<1>7. u.e = e /\ u.lista = s /\ Fase(u) = "hash" /\ ~SinCandado(u)
  BY <1>5, <1>6 DEF Visto
<1>8. Dentro(t, e, u) /\ Paso(t, e, u)
  BY <1>0, <1>2, <1>3, <1>6, <1>7 DEF Dentro, Paso
<1>9. BloquesDe(e) = l /\ BloquesDe(e)' = s
  BY <1>1, <1>2, <1>7, <1>8, VistaAntes, VistaLuego DEF VaADejar, Dejados
<1>10. contenido[o] = v /\ contenido[l[i]] = v
  BY <1>1, <1>2 DEF IInv, IndiceFiel, Contenidos, Leido
<1>11. Iguales(e) /\ VerIgual
  <2>1. ASSUME NEW j \in DOMAIN l PROVE contenido[s[j]] = contenido[l[j]]
    <3>1. CASE j = i
      BY <1>4, <1>10, <3>1
    <3>2. CASE j # i
      BY <1>4, <3>2
    <3> QED BY <3>1, <3>2
  <2> QED BY <1>3, <1>4, <1>9, <2>1 DEF Iguales, VerIgual
<1> QED BY <1>1, <1>3, <1>8, <1>11, VistaQuieta


\* The steps that are operations of Almacen, each on its File:Tag.
LEMMA VistaDe ==
    /\ Vista = [e \in Etiquetas |-> Vista[e]]
    /\ \A e \in Etiquetas : /\ Vista[e] = [estado |-> meta[e].estado, datos |-> Datos(e)]
                            /\ Vista[e].estado = meta[e].estado /\ Vista[e].datos = Datos(e)
BY DEF Vista

SinBloques == \A e \in Etiquetas : BloquesDe(e) = << >> => Datos(e) = << >>

LEMMA SinBloquesSiempre == Estructura => SinBloques
<1> SUFFICES ASSUME Estructura, NEW e \in Etiquetas, BloquesDe(e) = << >> PROVE Datos(e) = << >>
  BY DEF SinBloques
<1>1. Datos(e) \in Seq(Valores) /\ Len(Datos(e)) = Len(BloquesDe(e))
  BY BienVistoSiempre DEF BienVisto
<1>2. Len(BloquesDe(e)) = 0
  BY EmptySeq
<1> QED BY <1>1, <1>2, ListaTipo

LEMMA SinBloquesDespues == Estructura' => SinBloques'
BY SinBloquesSiempre, PTL

LEMMA CreaAlmacen ==
    ASSUME Estructura, Estructura', NEW t \in Hilos, NEW e \in Etiquetas, create(t, e)
    PROVE  Abstracto!Crea(e)
<1> DEFINE m == [bloques |-> << >>, estado |-> "WORK_IN_PROGRESS"]
<1>1. /\ hilo[t].paso = "libre" /\ candado[Archivo(e)] = NULL /\ meta[e].estado = "NO_EXISTE"
      /\ meta' = [meta EXCEPT ![e] = m] /\ contenido' = contenido
      /\ candado' = candado /\ hilo' = hilo
  BY DEF create, Excluye
<1>2. TypeOK /\ Enlazados(e) /\ hilo' = [hilo EXCEPT ![t] = hilo[t]]
  BY <1>1 DEF Estructura, TypeOK
<1>3. Fuera(t, e, hilo[t]) /\ Paso(t, e, hilo[t])
  BY <1>1, <1>2 DEF Fuera, Paso, SinCandado
<1>4. meta[e].bloques = << >>
  BY <1>1, <1>2 DEF Enlazados, Enlazada
<1>5. /\ meta'[e].bloques = << >> /\ meta'[e].estado = "WORK_IN_PROGRESS"
      /\ \A d \in Etiquetas \ {e} : meta'[d] = meta[d]
  BY <1>1, <1>2, MetaTipo
<1>6. BloquesDe(e) = << >> /\ BloquesDe(e)' = << >>
  BY <1>3, <1>4, <1>5, VistaAntes, VistaLuego
<1>7. Datos(e) = << >> /\ Datos(e)' = << >>
  BY <1>6, SinBloquesSiempre, SinBloquesDespues DEF SinBloques
<1>8. Vista' = [Vista EXCEPT ![e] = [estado |-> "WORK_IN_PROGRESS", datos |-> << >>]]
  BY <1>1, <1>3, <1>5, <1>7, VistaPaso DEF VerIgual
<1>9. Vista[e] = [estado |-> "NO_EXISTE", datos |-> << >>]
  BY <1>1, <1>7, VistaDe
<1>10. [Vista[e] EXCEPT !.estado = "WORK_IN_PROGRESS"]
          = [estado |-> "WORK_IN_PROGRESS", datos |-> << >>]
  BY <1>9
<1>11. Vista' = [Vista EXCEPT ![e].estado = "WORK_IN_PROGRESS"]
  BY <1>8, <1>10
<1> QED BY <1>9, <1>11 DEF Abstracto!Crea, Abstracto!Ausente, Vista, Datos

LEMMA CopiaAlmacen ==
    ASSUME Estructura, Estructura', NEW t \in Hilos, NEW o \in Etiquetas, NEW e \in Etiquetas,
           tag(t, o, e)
    PROVE  Abstracto!Copia(e)
<1> DEFINE m == [meta[o] EXCEPT !.estado = "WORK_IN_PROGRESS"]
<1>1. /\ hilo[t].paso = "libre" /\ candado[Archivo(e)] = NULL /\ candado[Archivo(o)] = NULL
      /\ meta[o].estado # "NO_EXISTE" /\ meta[e].estado = "NO_EXISTE"
      /\ meta' = [meta EXCEPT ![e] = m] /\ contenido' = contenido
      /\ candado' = candado /\ hilo' = hilo
  BY DEF tag, Excluye
<1>2. TypeOK /\ Enlazados(e) /\ hilo' = [hilo EXCEPT ![t] = hilo[t]]
  BY <1>1 DEF Estructura, TypeOK
<1>3. /\ Fuera(t, e, hilo[t]) /\ Paso(t, e, hilo[t])
      /\ Fuera(t, o, hilo[t]) /\ Paso(t, o, hilo[t])
  BY <1>1, <1>2 DEF Fuera, Paso, SinCandado
<1>4. meta[e].bloques = << >>
  BY <1>1, <1>2 DEF Enlazados, Enlazada
<1>5. /\ meta'[e].bloques = meta[o].bloques /\ meta'[e].estado = "WORK_IN_PROGRESS"
      /\ \A d \in Etiquetas \ {e} : meta'[d] = meta[d]
  BY <1>1, <1>2, MetaTipo DEF Metadatos
<1>6. BloquesDe(e) = << >> /\ BloquesDe(o) = meta[o].bloques /\ BloquesDe(e)' = meta[o].bloques
  BY <1>3, <1>4, <1>5, VistaAntes, VistaLuego
<1>7. Datos(e) = << >> /\ Datos(e)' = Datos(o)
  <2>1. Datos(e) = << >>
    BY <1>6, SinBloquesSiempre DEF SinBloques
  <2> QED BY <1>1, <1>6, <2>1 DEF Datos
<1>8. Vista' = [Vista EXCEPT ![e] = [estado |-> "WORK_IN_PROGRESS", datos |-> Datos(o)]]
  BY <1>1, <1>3, <1>5, <1>7, VistaPaso DEF VerIgual
<1>9. /\ Vista[e] = [estado |-> "NO_EXISTE", datos |-> << >>] /\ o \in Etiquetas \ {e}
      /\ Vista[o].estado # "NO_EXISTE" /\ Vista[o].datos = Datos(o)
  BY <1>1, <1>7, VistaDe
<1>10. Vista' = [Vista EXCEPT ![e] = [estado |-> "WORK_IN_PROGRESS", datos |-> Vista[o].datos]]
  BY <1>8, <1>9
<1> QED BY <1>9, <1>10 DEF Abstracto!Copia, Abstracto!Ausente, Vista, Datos

LEMMA BorraAlmacen ==
    ASSUME Estructura, Estructura', NEW t \in Hilos, NEW e \in Etiquetas, eliminarTag(t, e)
    PROVE  Abstracto!Borra(e)
<1> DEFINE r == [Libre EXCEPT !.paso = "borra", !.e = e, !.lista = meta[e].bloques]
<1>1. /\ SinCandado(hilo[t]) /\ meta[e].estado # "NO_EXISTE" /\ TypeOK
      /\ candado[Archivo(e)] = NULL /\ candado' = [candado EXCEPT ![Archivo(e)] = t]
      /\ meta' = [meta EXCEPT ![e] = NoExiste] /\ contenido' = contenido
      /\ hilo' = [hilo EXCEPT ![t] = r]
  BY DEF eliminarTag, lock_file_metadata, Va, SinCandado, Estructura
<1>2. r.paso = "borra" /\ r.e = e
  BY DEF Libre
<1> HIDE DEF r
<1>3. Toma(t, e, r) /\ Paso(t, e, r) /\ ~VaADejar(r)
  BY <1>1, <1>2 DEF Toma, Paso, SinCandado, VaADejar, Fase
<1>4. /\ meta'[e].bloques = << >> /\ meta'[e].estado = "NO_EXISTE"
      /\ \A d \in Etiquetas \ {e} : meta'[d] = meta[d]
  BY <1>1, MetaTipo DEF NoExiste
<1>5. BloquesDe(e)' = << >>
  BY <1>3, <1>4, VistaLuego
<1>6. Datos(e)' = << >>
  BY <1>5, SinBloquesDespues DEF SinBloques
<1>7. Vista' = [Vista EXCEPT ![e] = [estado |-> "NO_EXISTE", datos |-> << >>]]
  BY <1>1, <1>3, <1>4, <1>6, VistaPaso DEF VerIgual
<1>8. Vista[e] # [estado |-> "NO_EXISTE", datos |-> << >>]
  BY <1>1, VistaDe
<1> QED BY <1>7, <1>8 DEF Abstracto!Borra, Abstracto!Ausente, Vista, Datos

\* The File:Tag has other contents, and its state is the same.
LEMMA CambiaAlmacen ==
    ASSUME Estructura, Estructura', NEW t \in Hilos, NEW e \in Etiquetas, NEW r, Paso(t, e, r),
           \A d \in Etiquetas \ {e} : meta'[d] = meta[d], VerIgual,
           meta[e].estado = "WORK_IN_PROGRESS", meta'[e].estado = "WORK_IN_PROGRESS"
    PROVE  Vista[e].estado = "WORK_IN_PROGRESS" /\ Vista' = [Vista EXCEPT ![e].datos = Datos(e)']
<1>1. Vista' = [Vista EXCEPT ![e] = [estado |-> "WORK_IN_PROGRESS", datos |-> Datos(e)']]
  BY VistaPaso
<1>2. /\ Vista[e] = [estado |-> "WORK_IN_PROGRESS", datos |-> Datos(e)]
      /\ Vista[e].estado = "WORK_IN_PROGRESS"
  BY VistaDe
<1> QED BY <1>1, <1>2, VistaDe


LEMMA EscribeAlmacen ==
    ASSUME IInv, Contenidos, Estructura', NEW t \in Hilos, EnlazaCopia(t)
    PROVE  \E e \in Etiquetas : Abstracto!Escribe(e)
<1> DEFINE b == hilo[t].b
           i == hilo[t].i
           v == hilo[t].v
<1>0. PICK e \in Etiquetas : e = hilo[t].e
  BY HiloTipo DEF Estructura, IInv
<1> DEFINE l == meta[e].bloques
           s == [l EXCEPT ![i] = b]
           m == [meta[e] EXCEPT !.bloques = s]
<1>1. hilo[t].paso = "enlaza" /\ ~SinCandado(hilo[t]) /\ Estructura
  BY DEF EnlazaCopia, SinCandado, IInv
<1>2. TypeOK /\ hilo[t] \in Registro /\ EnPaso(meta, hilo[t]) /\ l \in Seq(Bloques) /\ b \in Bloques
  BY <1>0, <1>1, HiloTipo, MetaTipo DEF Estructura
<1>3. /\ meta' = [meta EXCEPT ![e] = m] /\ contenido' = contenido
      /\ hilo' = [hilo EXCEPT ![t] = Libre] /\ candado' = [candado EXCEPT ![Archivo(e)] = NULL]
  BY <1>0 DEF EnlazaCopia, Termina, unlock_file_metadata, Va
<1>4. /\ Fase(hilo[t]) = "enlaza" /\ meta[e].estado = "WORK_IN_PROGRESS"
      /\ i \in DOMAIN l /\ v \in Valores
  BY <1>0, <1>1, <1>2 DEF Fase, EnPaso, Escribiendo
<1>5. Suelta(t, e, Libre) /\ Paso(t, e, Libre) /\ ~VaADejar(hilo[t])
  BY <1>0, <1>1, <1>3, <1>4, LibreTipo DEF Suelta, SinCandado, Paso, VaADejar
<1>6. s[i] = b /\ DOMAIN s = DOMAIN l /\ \A j \in DOMAIN l \ {i} : s[j] = l[j]
  BY <1>2, <1>4, CambiaUno
<1>7. /\ meta'[e].bloques = s /\ meta'[e].estado = "WORK_IN_PROGRESS"
      /\ \A d \in Etiquetas \ {e} : meta'[d] = meta[d]
  BY <1>2, <1>3, <1>4, MetaTipo DEF Metadatos
<1> HIDE DEF s, m
<1>8. BloquesDe(e) = l /\ BloquesDe(e)' = s
  BY <1>1, <1>5, <1>7, VistaAntes, VistaLuego
<1>9. contenido[b] = v
  BY <1>1 DEF Contenidos, Leido
<1>10. Datos(e)' = [Datos(e) EXCEPT ![i] = v] /\ i \in DOMAIN Datos(e)
  <2>1. Datos(e) = [j \in DOMAIN l |-> contenido[l[j]]]
        /\ Datos(e)' = [j \in DOMAIN l |-> contenido[s[j]]]
    BY <1>3, <1>6, <1>8 DEF Datos
  <2>2. \A j \in DOMAIN l : contenido[s[j]] = IF j = i THEN v ELSE contenido[l[j]]
    BY <1>6, <1>9
  <2> QED BY <1>4, <2>1, <2>2
<1>11. Vista[e].estado = "WORK_IN_PROGRESS" /\ Vista' = [Vista EXCEPT ![e].datos = Datos(e)']
  BY <1>1, <1>3, <1>4, <1>5, <1>7, CambiaAlmacen DEF VerIgual
<1>12. Vista[e].datos = Datos(e)
  BY VistaDe
<1>13. /\ i \in DOMAIN Vista[e].datos
       /\ Vista' = [Vista EXCEPT ![e].datos = [Vista[e].datos EXCEPT ![i] = v]]
  BY <1>10, <1>11, <1>12
<1>14. Abstracto!Escribe(e)
  BY <1>4, <1>11, <1>13 DEF Abstracto!Escribe, Abstracto!Cambia, Vista, Datos
<1> QED BY <1>14

\* TRUNCATE: the blocks that e is seen to have are those that fit, and block 0 after them.
LEMMA TruncaAlmacen ==
    ASSUME IInv, Estructura', NEW t \in Hilos, NEW e \in Etiquetas, NEW n \in 0..MaxTam,
           truncate_agranda(t, e, n) \/ truncate_achica(t, e, n)
    PROVE  Abstracto!Trunca(e)
<1> DEFINE l == meta[e].bloques
<1>1. /\ Estructura /\ TypeOK /\ l \in Seq(Bloques) /\ Len(l) \in Nat /\ DOMAIN l = 1..Len(l)
      /\ n \in Nat
  BY MetaTipo, ListaTipo, StorageSupuesto DEF IInv, Estructura
<1>2. /\ hilo[t].paso = "libre" /\ candado[Archivo(e)] = NULL /\ contenido' = contenido
      /\ meta[e].estado = "WORK_IN_PROGRESS"
  BY DEF truncate_agranda, truncate_achica, Excluye, lock_file_metadata, Modificable
<1>3. \E r, s : /\ Paso(t, e, r) /\ BloquesDe(e) = l /\ BloquesDe(e)' = s
                /\ meta'[e].estado = "WORK_IN_PROGRESS"
                /\ \A d \in Etiquetas \ {e} : meta'[d] = meta[d]
                /\ DOMAIN s = 1..n /\ \A j \in 1..n : s[j] = IF j <= Len(l) THEN l[j] ELSE 0
  <2>1. CASE truncate_agranda(t, e, n)
    <3> DEFINE nuevos == [k \in 1..(n - Len(l)) |-> 0]
               s == l \o nuevos
               m == [meta[e] EXCEPT !.bloques = s]
    <3>1. n > Len(l) /\ meta' = [meta EXCEPT ![e] = m] /\ candado' = candado /\ hilo' = hilo
      BY <2>1 DEF truncate_agranda
    <3>2. PICK d \in Nat : d = n - Len(l) /\ Len(l) + d = n
      <4>1. n - Len(l) \in Nat /\ Len(l) + (n - Len(l)) = n
        BY <1>1, <3>1
      <4> QED BY <4>1
    <3>3. nuevos = [k \in 1..d |-> 0]
      BY <3>2
    <3> HIDE DEF nuevos
    <3>4. /\ s \in Seq(Bloques) /\ Len(s) = n
          /\ \A j \in DOMAIN s : s[j] = IF j \in DOMAIN l THEN l[j] ELSE 0
      BY <1>1, <3>2, <3>3, AlargaTipo, StorageSupuesto
    <3>5. DOMAIN s = 1..n
      BY <3>4, LenProperties
    <3> HIDE DEF s
    <3>6. \A j \in 1..n : s[j] = IF j <= Len(l) THEN l[j] ELSE 0
      BY <1>1, <3>4, <3>5
    <3>7. /\ meta'[e].bloques = s /\ meta'[e].estado = "WORK_IN_PROGRESS"
          /\ \A d2 \in Etiquetas \ {e} : meta'[d2] = meta[d2]
      BY <1>1, <1>2, <3>1, MetaTipo DEF Metadatos
    <3>8. hilo' = [hilo EXCEPT ![t] = hilo[t]]
      BY <1>1, <3>1 DEF TypeOK
    <3>9. Fuera(t, e, hilo[t]) /\ Paso(t, e, hilo[t])
      BY <1>2, <3>1, <3>8 DEF Fuera, Paso, SinCandado
    <3>10. BloquesDe(e) = l /\ BloquesDe(e)' = s
      BY <1>1, <3>7, <3>9, VistaAntes, VistaLuego
    <3> QED BY <3>5, <3>6, <3>7, <3>9, <3>10
  <2>2. CASE truncate_achica(t, e, n)
    <3> DEFINE r == [Libre EXCEPT !.paso = "achica", !.e = e, !.i = n, !.lista = l]
               s == SubSeq(l, 1, n)
    <3>1. /\ n < Len(l) /\ meta' = meta /\ candado' = [candado EXCEPT ![Archivo(e)] = t]
          /\ hilo' = [hilo EXCEPT ![t] = r]
      BY <2>2 DEF truncate_achica, lock_file_metadata, Va
    <3>2. r.paso = "achica" /\ r.e = e /\ r.i = n /\ r.lista = l
      BY DEF Libre
    <3> HIDE DEF r
    <3>3. Toma(t, e, r) /\ Paso(t, e, r) /\ Fase(r) = "achica"
      BY <1>2, <3>1, <3>2 DEF Toma, Paso, SinCandado, Fase
    <3>4. BloquesDe(e) = l /\ BloquesDe(e)' = s
      BY <1>1, <3>2, <3>3, VistaAntes, VistaLuego DEF VaADejar, Dejados
    <3>5. n <= Len(l)
      BY <1>1, <3>1
    <3>6. DOMAIN s = 1..n /\ \A j \in DOMAIN s : s[j] = l[j]
      BY <1>1, <3>5, PrefijoTipo
    <3> HIDE DEF s
    <3>7. \A j \in 1..n : s[j] = IF j <= Len(l) THEN l[j] ELSE 0
      BY <1>1, <3>1, <3>6
    <3> QED BY <1>2, <3>1, <3>3, <3>4, <3>6, <3>7
  <2> QED BY <2>1, <2>2
<1>4. PICK r, s : /\ Paso(t, e, r) /\ BloquesDe(e) = l /\ BloquesDe(e)' = s
                  /\ meta'[e].estado = "WORK_IN_PROGRESS"
                  /\ \A d \in Etiquetas \ {e} : meta'[d] = meta[d]
                  /\ DOMAIN s = 1..n
                  /\ \A j \in 1..n : s[j] = IF j <= Len(l) THEN l[j] ELSE 0
  BY <1>3
<1>5. Vista[e].estado = "WORK_IN_PROGRESS" /\ Vista' = [Vista EXCEPT ![e].datos = Datos(e)']
  BY <1>1, <1>2, <1>4, CambiaAlmacen DEF VerIgual
<1>6. Vista[e].datos = Datos(e) /\ Len(Datos(e)) = Len(l)
  BY <1>1, <1>4, VistaDe, BienVistoSiempre DEF BienVisto
<1>7. Datos(e)' = [j \in 1..n |-> IF j <= Len(Datos(e)) THEN Datos(e)[j] ELSE 0]
  <2>1. Datos(e) = [j \in DOMAIN l |-> contenido[l[j]]]
        /\ Datos(e)' = [j \in 1..n |-> contenido[s[j]]]
    BY <1>2, <1>4 DEF Datos
  <2>2. ASSUME NEW j \in 1..n
        PROVE  contenido[s[j]] = IF j <= Len(Datos(e)) THEN Datos(e)[j] ELSE 0
    <3>1. contenido[0] = 0
      BY DEF IInv, EnBase
    <3>2. CASE j <= Len(l)
      <4>1. j \in DOMAIN l
        BY <1>1, <3>2
      <4> QED BY <1>4, <1>6, <2>1, <3>2, <4>1
    <3>3. CASE ~(j <= Len(l))
      BY <1>4, <1>6, <3>1, <3>3
    <3> QED BY <3>2, <3>3
  <2> QED BY <2>1, <2>2
<1>8. Vista' = [Vista EXCEPT ![e].datos =
                   [j \in 1..n |-> IF j <= Len(Vista[e].datos) THEN Vista[e].datos[j] ELSE 0]]
  BY <1>5, <1>6, <1>7
<1>9. n \in Abstracto!Largos
  BY DEF Abstracto!Largos
<1> QED BY <1>5, <1>8, <1>9 DEF Abstracto!Trunca, Abstracto!Cambia, Vista, Datos

LEMMA CommitAlmacen ==
    ASSUME Estructura, Estructura', NEW t \in Hilos, TerminaCommit(t)
    PROVE  \E e \in Etiquetas : Abstracto!Commit(e)
<1> DEFINE l == hilo[t].lista
           m == [bloques |-> l, estado |-> "COMMITED"]
<1>0. PICK e \in Etiquetas : e = hilo[t].e
  BY HiloTipo DEF Estructura
<1>1. hilo[t].paso = "hash" /\ ~SinCandado(hilo[t]) /\ Fase(hilo[t]) = "hash"
  BY DEF TerminaCommit, SinCandado, Fase
<1>2. TypeOK /\ meta[e].estado = "WORK_IN_PROGRESS"
  BY <1>0, <1>1 DEF Estructura, EnPaso
<1>3. /\ meta' = [meta EXCEPT ![e] = m] /\ contenido' = contenido
      /\ hilo' = [hilo EXCEPT ![t] = Libre] /\ candado' = [candado EXCEPT ![Archivo(e)] = NULL]
  BY <1>0 DEF TerminaCommit, Termina, unlock_file_metadata, Va
<1>4. Suelta(t, e, Libre) /\ Paso(t, e, Libre)
  BY <1>0, <1>1, <1>3, LibreTipo DEF Suelta, SinCandado, Paso
<1>5. /\ meta'[e].bloques = l /\ meta'[e].estado = "COMMITED"
      /\ \A d \in Etiquetas \ {e} : meta'[d] = meta[d]
  BY <1>2, <1>3, MetaTipo
<1>6. BloquesDe(e) = l /\ BloquesDe(e)' = l
  BY <1>1, <1>4, <1>5, VistaAntes, VistaLuego DEF VaADejar, Dejados
<1>7. Datos(e)' = Datos(e)
  BY <1>3, <1>6 DEF Datos
<1>8. Vista' = [Vista EXCEPT ![e] = [estado |-> "COMMITED", datos |-> Datos(e)]]
  BY <1>3, <1>4, <1>5, <1>7, VistaPaso DEF VerIgual
<1>9. /\ Vista[e] = [estado |-> "WORK_IN_PROGRESS", datos |-> Datos(e)]
      /\ Vista[e].estado = "WORK_IN_PROGRESS"
  BY <1>2, VistaDe
<1>10. [Vista[e] EXCEPT !.estado = "COMMITED"] = [estado |-> "COMMITED", datos |-> Datos(e)]
  BY <1>9
<1>11. Vista' = [Vista EXCEPT ![e].estado = "COMMITED"]
  BY <1>8, <1>10
<1>12. Abstracto!Commit(e)
  BY <1>9, <1>11 DEF Abstracto!Commit, Vista, Datos
<1> QED BY <1>12

LEMMA InicioAlmacen ==
    ASSUME Init, Estructura
    PROVE  Abstracto!Init
<1> DEFINE m == [e \in Etiquetas |-> IF e = BASE THEN [estado |-> "COMMITED", datos |-> <<0>>]
                                     ELSE [estado |-> "NO_EXISTE", datos |-> << >>]]
<1>1. /\ candado = [f \in Archivos |-> NULL] /\ contenido = [b \in Bloques |-> 0]
      /\ meta = [e \in Etiquetas |-> IF e = BASE THEN [bloques |-> <<0>>, estado |-> "COMMITED"]
                                     ELSE NoExiste]
  BY DEF Init
<1>2. ASSUME NEW e \in Etiquetas PROVE BloquesDe(e) = meta[e].bloques
  <2>1. candado[Archivo(e)] = NULL
    BY <1>1, ArchivoTipo
  <2> QED BY <2>1, BloquesPorCandado DEF BloquesEn
<1>3. ASSUME NEW e \in Etiquetas PROVE Vista[e] = m[e]
  <2>1. CASE e = BASE
    <3>1. meta[e].bloques = <<0>> /\ meta[e].estado = "COMMITED" /\ BloquesDe(e) = <<0>>
      BY <1>1, <1>2, <2>1
    <3>2. Datos(e) = [i \in DOMAIN <<0>> |-> contenido[<<0>>[i]]]
      BY <3>1 DEF Datos
    <3>3. contenido[0] = 0
      BY <1>1, StorageSupuesto
    <3>4. Datos(e) = <<0>>
      <4>1. Datos(e) \in Seq(Valores) /\ Len(Datos(e)) = Len(<<0>>)
        BY <3>1, BienVistoSiempre DEF BienVisto
      <4>2. <<0>> \in Seq(Valores) /\ Len(<<0>>) = 1 /\ DOMAIN <<0>> = 1..1 /\ <<0>>[1] = 0
        BY StorageSupuesto
      <4>3. Datos(e)[1] = 0
        BY <3>2, <3>3, <4>2
      <4>4. \A i \in 1..Len(Datos(e)) : Datos(e)[i] = <<0>>[i]
        BY <4>1, <4>2, <4>3
      <4> QED BY <4>1, <4>2, <4>4, SeqEqual
    <3> QED BY <2>1, <3>1, <3>4, VistaDe
  <2>2. CASE e # BASE
    <3>1. meta[e].bloques = << >> /\ meta[e].estado = "NO_EXISTE" /\ BloquesDe(e) = << >>
      BY <1>1, <1>2, <2>2 DEF NoExiste
    <3>2. Datos(e) = << >>
      BY <3>1, SinBloquesSiempre DEF SinBloques
    <3> QED BY <2>2, <3>1, <3>2, VistaDe
  <2> QED BY <2>1, <2>2
<1>4. Vista = m
  BY <1>3, VistaDe
<1> QED BY <1>4 DEF Abstracto!Init, Abstracto!Ausente, Vista, Datos

\* Every step is one of them, or is not seen.
LEMMA PasoAlmacen ==
    ASSUME IInv, Contenidos, [Next]_vars
    PROVE  Abstracto!Next \/ Vista' = Vista
<1>1. Estructura /\ Estructura'
  BY SiguienteGuarda DEF IInv, Guarda
<1>2. CASE Next
  <2>1. PICK t \in Hilos : Pide(t) \/ Sigue(t)
    BY <1>2 DEF Next
  <2>2. CASE Pide(t)
    <3>1. PICK e \in Etiquetas :
             \/ create(t, e) \/ eliminarTag(t, e) \/ commitFile(t, e)
             \/ \E d \in Pedibles : tag(t, e, d)
             \/ \E i \in 1..MaxTam : leer(t, e, i) \/ \E v \in Valores : escribirBloque(t, e, i, v)
             \/ \E n \in 0..MaxTam : truncate_agranda(t, e, n) \/ truncate_achica(t, e, n)
      BY <2>2, StorageSupuesto DEF Pide
    <3>2. CASE \E d \in Pedibles : tag(t, e, d)
      <4>1. PICK d \in Etiquetas : tag(t, e, d)
        BY <3>2, StorageSupuesto
      <4>2. Abstracto!Copia(d)
        BY <1>1, <4>1, CopiaAlmacen
      <4> QED BY <4>2 DEF Abstracto!Next
    <3>3. CASE \E i \in 1..MaxTam : leer(t, e, i) \/ \E v \in Valores : escribirBloque(t, e, i, v)
      BY <1>1, <3>3, LecturaVista, EscribirVista
    <3>4. CASE \E n \in 0..MaxTam : truncate_agranda(t, e, n) \/ truncate_achica(t, e, n)
      <4>1. Abstracto!Trunca(e)
        BY <1>1, <3>4, TruncaAlmacen
      <4> QED BY <4>1 DEF Abstracto!Next
    <3>5. CASE create(t, e)
      <4>1. Abstracto!Crea(e)
        BY <1>1, <3>5, CreaAlmacen
      <4> QED BY <4>1 DEF Abstracto!Next
    <3>6. CASE eliminarTag(t, e)
      <4>1. Abstracto!Borra(e)
        BY <1>1, <3>6, BorraAlmacen
      <4> QED BY <4>1 DEF Abstracto!Next
    <3>7. CASE commitFile(t, e)
      BY <1>1, <3>7, CommitVista
    <3> QED BY <3>1, <3>2, <3>3, <3>4, <3>5, <3>6, <3>7
  <2>3. CASE EnlazaCopia(t)
    <3>1. \E e \in Etiquetas : Abstracto!Escribe(e)
      BY <1>1, <2>3, EscribeAlmacen
    <3> QED BY <3>1 DEF Abstracto!Next
  <2>4. CASE TerminaCommit(t)
    <3>1. \E e \in Etiquetas : Abstracto!Commit(e)
      BY <1>1, <2>4, CommitAlmacen
    <3> QED BY <3>1 DEF Abstracto!Next
  <2>5. CASE Sigue(t) /\ ~EnlazaCopia(t) /\ ~TerminaCommit(t)
    BY <1>1, <2>5, LecturaVista, ReservarVista, EscribirFisicoVista, LimpiaVista, DesenlazaVista,
       TerminaTruncateVista, DeleteVista, HashVista, DeduplicaVista DEF Sigue
  <2> QED BY <2>1, <2>2, <2>3, <2>4, <2>5
<1>3. CASE UNCHANGED vars
  BY <1>3 DEF vars, Vista, Datos, BloquesDe
<1> QED BY <1>2, <1>3

\* The links, the copies on write, the deduplication and the freed blocks are never seen by a
\* File:Tag: while TAG copies COMMITED File:Tags only and DELETE leaves them alone, each
\* operation of the Storage, however its steps interleave with those of the others, is one
\* operation on contents that are of its File:Tag alone, and every other step is invisible.
THEOREM EsUnAlmacen == ~TagDeWIP /\ ~BorraCommiteado => (Spec => ImplementaAlmacen)
<1> SUFFICES ASSUME ~TagDeWIP, ~BorraCommiteado PROVE Spec => ImplementaAlmacen
  OBVIOUS
<1>1. Init => Abstracto!Init
  BY Fresco, InicioAlmacen DEF IInv
<1>2. IInv /\ Contenidos /\ [Next]_vars =>
         [Abstracto!Next]_([e \in Etiquetas |-> [estado |-> meta[e].estado,
                                                datos |-> [i \in DOMAIN BloquesDe(e) |->
                                                              contenido[BloquesDe(e)[i]]]]])
  BY PasoAlmacen DEF Vista, Datos
<1>3. Spec => Init /\ [][Next]_vars
  BY DEF Spec
<1> QED BY <1>1, <1>2, <1>3, Invariante, PTL DEF ImplementaAlmacen, Abstracto!Spec

-----------------------------------------------------------------------------
(***************************************************************************)
(* Second part: Montaje.                                                   *)
(***************************************************************************)

-----------------------------------------------------------------------------
(***************************************************************************)
(* The invariant.  First, types, locks and what each thread is in the      *)
(* middle of, which hold whatever happens.                                 *)
(***************************************************************************)

Hechos == Pasos \cup {"crea", "guarda", "agranda", "enlaza2"}
EnDirectorio == Estados \cup {"A_MEDIAS", "VACIA"}

Marco == [paso : Hechos, e : Etiquetas, i : Nat, v : Valores \cup {NULL},
          b : Bloques, lista : Seq(Bloques), sigue : Hechos]

Tipos ==
    /\ meta \in [Etiquetas -> [bloques : Seq(Bloques), estado : EnDirectorio]]
    /\ enlace \in [Etiquetas -> Seq(Bloques \cup {SIN})]
    /\ contenido \in [Bloques -> Valores] /\ bitmap \subseteq Bloques
    /\ indice \in [Valores -> Bloques \cup {NULL}]
    /\ candado \in [Archivos -> Hilos \cup {NULL}]
    /\ hilo \in [Hilos -> Marco]
    /\ rota \in BOOLEAN

EnHecho(m, h) ==
    /\ h.paso = "libera" => h.sigue \in {"achica", "borra", "hash"}
    /\ h.paso # "libera" => h.sigue = "libre"
    /\ h.paso \in Escribiendo => h.v \in Valores
    /\ h.paso \in Escribiendo \cup {"enlaza2"} => h.i \in DOMAIN m[h.e].bloques
    /\ h.paso = "sobrescribe" => h.b = m[h.e].bloques[h.i] /\ h.b # 0
    /\ Fase(h) = "achica" => h.i <= Len(h.lista)
    /\ Commiteando(h) => h.i \in 1..(Len(h.lista) + 1)
    /\ Commiteando(h) /\ h.i = 1 => h.lista = m[h.e].bloques
    /\ h.paso = "indice" => h.i \in DOMAIN h.lista /\ h.v \in Valores
    /\ Fase(h) = "borra" => m[h.e].bloques = << >>
    /\ ~SinCandado(h) => m[h.e].estado # "COMMITED"

EnCero == meta[BASE] = [bloques |-> <<0>>, estado |-> "COMMITED"] /\ enlace[BASE] = <<0>>

Orden ==
    /\ Tipos /\ Cerrojos /\ EnCero
    /\ \A t \in Hilos : EnHecho(meta, hilo[t])

-----------------------------------------------------------------------------
(***************************************************************************)
(* Then, until rota, who uses each block.  A File:Tag may have two lists   *)
(* of blocks: the one of its metadata and the one about to be saved.       *)
(***************************************************************************)

\* The lists of a File:Tag with BLOCKS s that the thread h operates on.
ListasCon(s, h) ==
    IF ConLista(h) THEN {h.lista}
    ELSE {s} \cup (IF h.paso \in {"agranda", "guarda"} THEN {h.lista} ELSE {})

ListasEn(m, c, h, e) ==
    LET t == c[Archivo(e)]
    IN  IF t # NULL /\ h[t].e = e THEN ListasCon(m[e].bloques, h[t]) ELSE {m[e].bloques}

Listas == [e \in Etiquetas |-> ListasEn(meta, candado, hilo, e)]

Firmes == {x \in Etiquetas \X Nat : FijaEn(meta, candado, hilo, x[1], x[2])}

\* The blocks that a thread has reserved or is about to free.
Suyo(h) == h.paso \in {"copia", "enlaza", "enlaza2", "libera"}
Suyos == {<<t, hilo[t].b>> : t \in {t \in Hilos : Suyo(hilo[t])}}

\* A block is in one place, but for block 0 and those of settled places.
Propias(L, F) ==
    \A e, d \in Etiquetas : \A s \in L[e], z \in L[d] : \A i \in DOMAIN s, j \in DOMAIN z :
        s[i] = z[j] => \/ s[i] = 0 \/ (e = d /\ i = j)
                       \/ <<e, i>> \in F /\ <<d, j>> \in F

EnBitmap(L, bm) == \A e \in Etiquetas : \A s \in L[e] : \A i \in DOMAIN s : s[i] \in bm \ Ausentes

Nadie(L, b) == \A e \in Etiquetas : \A s \in L[e] : \A i \in DOMAIN s : s[i] # b

DeCadaHilo(L, bm, P) ==
    /\ \A x \in P : x[2] \in bm /\ Nadie(L, x[2])
    /\ \A x, y \in P : x[2] = y[2] => x = y

\* What the index names, block 0 aside, is in a settled place.
Registrado(L, F, b) == b = 0 \/ \E e \in Etiquetas : \E s \in L[e] : \E i \in DOMAIN s :
                                   s[i] = b /\ <<e, i>> \in F

Reparto(L, F, bm, P, ind) ==
    /\ Propias(L, F) /\ EnBitmap(L, bm) /\ DeCadaHilo(L, bm, P)
    /\ \A v \in Valores : ind[v] # NULL => Registrado(L, F, ind[v])

Existen == \A t \in Hilos : hilo[t].paso \in {"enlaza", "enlaza2"} => hilo[t].b \notin Ausentes

Salvo == ~rota => Reparto(Listas, Firmes, bitmap, Suyos, indice) /\ Existen

-----------------------------------------------------------------------------
(***************************************************************************)
(* Blocks and their users, for any lists L and settled places F.           *)
(***************************************************************************)

\* Each block of the lists of e is one that they had, m further on, or block 0; what was
\* settled stays so.
Viene(L, F, L2, F2, e, m) ==
    \A z \in L2[e] : \A i \in DOMAIN z :
        z[i] = 0 \/ \E s \in L[e] : /\ i + m \in DOMAIN s /\ s[i + m] = z[i]
                                    /\ <<e, i + m>> \in F => <<e, i>> \in F2

Queda(L, F, L2, F2, e) ==
    \A s \in L[e] : \A i \in DOMAIN s : <<e, i>> \in F =>
        <<e, i>> \in F2 /\ \E z \in L2[e] : i \in DOMAIN z /\ z[i] = s[i]

LEMMA CambioReparto ==
    ASSUME NEW L, NEW F, NEW L2, NEW F2, NEW M \in [Etiquetas -> Nat],
           \A e \in Etiquetas : L2[e] \subseteq Seq(Bloques),
           \A e \in Etiquetas : Viene(L, F, L2, F2, e, M[e]) /\ Queda(L, F, L2, F2, e),
           Propias(L, F)
    PROVE  /\ Propias(L2, F2)
           /\ \A bm : EnBitmap(L, bm) /\ 0 \in bm \ Ausentes => EnBitmap(L2, bm)
           /\ \A b : b # 0 /\ Nadie(L, b) => Nadie(L2, b)
           /\ \A b : Registrado(L, F, b) => Registrado(L2, F2, b)
<1>1. Propias(L2, F2)
  <2> SUFFICES ASSUME NEW e \in Etiquetas, NEW d \in Etiquetas, NEW s \in L2[e], NEW z \in L2[d],
                      NEW i \in DOMAIN s, NEW j \in DOMAIN z, s[i] = z[j], s[i] # 0
               PROVE  (e = d /\ i = j) \/ (<<e, i>> \in F2 /\ <<d, j>> \in F2)
    BY Zenon DEF Propias
  <2>1. i \in Nat /\ j \in Nat /\ M[e] \in Nat /\ M[d] \in Nat
    <3>1. s \in Seq(Bloques) /\ z \in Seq(Bloques)
      OBVIOUS
    <3> QED BY <3>1, ListaTipo
  <2>2. PICK s1 \in L[e] : /\ i + M[e] \in DOMAIN s1 /\ s1[i + M[e]] = s[i]
                           /\ <<e, i + M[e]>> \in F => <<e, i>> \in F2
    BY DEF Viene
  <2>3. PICK z1 \in L[d] : /\ j + M[d] \in DOMAIN z1 /\ z1[j + M[d]] = z[j]
                           /\ <<d, j + M[d]>> \in F => <<d, j>> \in F2
    BY DEF Viene
  <2>4. \/ e = d /\ i + M[e] = j + M[d]
        \/ <<e, i + M[e]>> \in F /\ <<d, j + M[d]>> \in F
    BY <2>2, <2>3 DEF Propias
  <2>5. CASE e = d /\ i + M[e] = j + M[d]
    BY <2>1, <2>5
  <2>6. CASE <<e, i + M[e]>> \in F /\ <<d, j + M[d]>> \in F
    BY <2>2, <2>3, <2>6
  <2> QED BY <2>4, <2>5, <2>6
<1>2. ASSUME NEW bm, EnBitmap(L, bm), 0 \in bm \ Ausentes PROVE EnBitmap(L2, bm)
  <2> SUFFICES ASSUME NEW e \in Etiquetas, NEW z \in L2[e], NEW i \in DOMAIN z, z[i] # 0
               PROVE  z[i] \in bm \ Ausentes
    BY <1>2 DEF EnBitmap
  <2>1. PICK s \in L[e] : i + M[e] \in DOMAIN s /\ s[i + M[e]] = z[i]
    BY DEF Viene
  <2> QED BY <1>2, <2>1 DEF EnBitmap
<1>3. ASSUME NEW b, b # 0, Nadie(L, b) PROVE Nadie(L2, b)
  <2> SUFFICES ASSUME NEW e \in Etiquetas, NEW z \in L2[e], NEW i \in DOMAIN z, z[i] = b
               PROVE  FALSE
    BY DEF Nadie
  <2>1. PICK s \in L[e] : i + M[e] \in DOMAIN s /\ s[i + M[e]] = z[i]
    BY <1>3 DEF Viene
  <2> QED BY <1>3, <2>1 DEF Nadie
<1>4. ASSUME NEW b, Registrado(L, F, b), b # 0 PROVE Registrado(L2, F2, b)
  <2>1. PICK e \in Etiquetas : \E s \in L[e] : \E i \in DOMAIN s : s[i] = b /\ <<e, i>> \in F
    BY <1>4 DEF Registrado
  <2>2. PICK s \in L[e] : \E i \in DOMAIN s : s[i] = b /\ <<e, i>> \in F
    BY <2>1
  <2>3. PICK i \in DOMAIN s : s[i] = b /\ <<e, i>> \in F
    BY <2>2
  <2>4. <<e, i>> \in F2 /\ \E z \in L2[e] : i \in DOMAIN z /\ z[i] = b
    BY <2>3 DEF Queda
  <2> QED BY <2>4 DEF Registrado
<1> QED BY <1>1, <1>2, <1>3, <1>4 DEF Registrado

\* The block 0 is that of BASE.
LEMMA CeroOcupado ==
    ASSUME NEW L, NEW bm, << 0 >> \in L[BASE], EnBitmap(L, bm)
    PROVE  0 \in bm \ Ausentes /\ ~Nadie(L, 0)
<1>1. BASE \in Etiquetas /\ 1 \in DOMAIN <<0>> /\ <<0>>[1] = 0
  BY StorageSupuesto
<1> QED BY <1>1 DEF EnBitmap, Nadie

-----------------------------------------------------------------------------
(***************************************************************************)
(* What a step of thread t on File:Tag e, left as r, changes.              *)
(***************************************************************************)

LEMMA HiloMarco ==
    ASSUME Tipos, NEW t \in Hilos
    PROVE  /\ hilo[t] \in Marco
           /\ hilo[t].paso \in Hechos /\ hilo[t].e \in Etiquetas /\ hilo[t].i \in Nat
           /\ hilo[t].v \in Valores \cup {NULL} /\ hilo[t].b \in Bloques
           /\ hilo[t].lista \in Seq(Bloques) /\ hilo[t].sigue \in Hechos
<1>1. hilo[t] \in Marco
  BY DEF Tipos
<1> QED BY <1>1 DEF Marco

LEMMA LibreMarco == Libre \in Marco /\ Libre.paso = "libre" /\ Libre.sigue = "libre"
                    /\ Libre.v = NULL /\ Libre.b = 0 /\ Libre.i = 0
BY EmptySeq, StorageSupuesto DEF Libre, Marco, Hechos, Pasos

LEMMA MetaMarco ==
    ASSUME Tipos, NEW e \in Etiquetas
    PROVE  /\ meta[e] \in [bloques : Seq(Bloques), estado : EnDirectorio]
           /\ meta[e].bloques \in Seq(Bloques) /\ meta[e].estado \in EnDirectorio
BY DEF Tipos

LEMMA PasoMarco ==
    ASSUME Tipos, Cerrojos, NEW t \in Hilos, NEW e \in Etiquetas, NEW r \in Marco, Paso(t, e, r)
    PROVE  /\ hilo' \in [Hilos -> Marco] /\ hilo'[t] = r
           /\ \A u \in Hilos \ {t} : hilo'[u] = hilo[u]
           /\ candado' \in [Archivos -> Hilos \cup {NULL}]
           /\ \A a \in Archivos \ {Archivo(e)} : candado'[a] = candado[a]
           /\ ~SinCandado(hilo[t]) => hilo[t].e = e /\ candado[Archivo(e)] = t
           /\ SinCandado(hilo[t]) => candado[Archivo(e)] = NULL
           /\ ~SinCandado(r) => r.e = e /\ candado'[Archivo(e)] = t
           /\ SinCandado(r) => candado'[Archivo(e)] = NULL
<1>1. /\ hilo' = [hilo EXCEPT ![t] = r] /\ hilo \in [Hilos -> Marco]
      /\ Archivo(e) \in Archivos /\ candado \in [Archivos -> Hilos \cup {NULL}]
  BY ArchivoTipo DEF Paso, Tipos
<1>2. ~SinCandado(hilo[t]) => candado[Archivo(hilo[t].e)] = t
  BY DEF Cerrojos
<1> QED BY <1>1, <1>2 DEF Paso, Toma, Dentro, Suelta, Fuera

LEMMA PasoConCerrojos ==
    ASSUME Tipos, Cerrojos, NEW t \in Hilos, NEW e \in Etiquetas, NEW r \in Marco, Paso(t, e, r)
    PROVE  Cerrojos'
<1>0. /\ NULL \notin Hilos /\ Archivo(e) \in Archivos
      /\ \A a \in Archivos : candado[a] \in Hilos \cup {NULL}
      /\ \A u \in Hilos : Archivo(hilo[u].e) \in Archivos
  BY StorageSupuesto, ArchivoTipo, HiloMarco DEF Tipos
<1>1. /\ hilo'[t] = r /\ \A u \in Hilos \ {t} : hilo'[u] = hilo[u]
      /\ \A a \in Archivos \ {Archivo(e)} : candado'[a] = candado[a]
      /\ ~SinCandado(hilo[t]) => hilo[t].e = e /\ candado[Archivo(e)] = t
      /\ SinCandado(hilo[t]) => candado[Archivo(e)] = NULL
      /\ ~SinCandado(r) => r.e = e /\ candado'[Archivo(e)] = t
      /\ SinCandado(r) => candado'[Archivo(e)] = NULL
  BY PasoMarco
<1>2. /\ \A u \in Hilos : ~SinCandado(hilo[u]) => candado[Archivo(hilo[u].e)] = u
      /\ \A a \in Archivos : candado[a] # NULL =>
            ~SinCandado(hilo[candado[a]]) /\ Archivo(hilo[candado[a]].e) = a
  BY DEF Cerrojos
<1>3. ASSUME NEW u \in Hilos, ~SinCandado(hilo'[u]) PROVE candado'[Archivo(hilo'[u].e)] = u
  BY <1>0, <1>1, <1>2, <1>3
<1>4. ASSUME NEW a \in Archivos, candado'[a] # NULL
      PROVE  ~SinCandado(hilo'[candado'[a]]) /\ Archivo(hilo'[candado'[a]].e) = a
  BY <1>0, <1>1, <1>2, <1>4
<1> QED BY <1>3, <1>4 DEF Cerrojos

\* Whoever operates on another File:Tag goes on operating on it, and is not t.
LEMMA AjenoQuieto ==
    ASSUME Tipos, Cerrojos, NEW t \in Hilos, NEW e \in Etiquetas, NEW r \in Marco, Paso(t, e, r),
           NEW d \in Etiquetas \ {e}, meta'[d] = meta[d]
    PROVE  /\ ListasEn(meta', candado', hilo', d) = ListasEn(meta, candado, hilo, d)
           /\ \A i : FijaEn(meta', candado', hilo', d, i) <=> FijaEn(meta, candado, hilo, d, i)
<1>0. /\ NULL \notin Hilos /\ Archivo(e) \in Archivos /\ Archivo(d) \in Archivos
      /\ \A a \in Archivos : candado[a] \in Hilos \cup {NULL}
  BY StorageSupuesto, ArchivoTipo DEF Tipos
<1>1. /\ hilo'[t] = r /\ \A u \in Hilos \ {t} : hilo'[u] = hilo[u]
      /\ \A a \in Archivos \ {Archivo(e)} : candado'[a] = candado[a]
      /\ ~SinCandado(hilo[t]) => hilo[t].e = e /\ candado[Archivo(e)] = t
      /\ SinCandado(hilo[t]) => candado[Archivo(e)] = NULL
      /\ ~SinCandado(r) => r.e = e /\ candado'[Archivo(e)] = t
      /\ SinCandado(r) => candado'[Archivo(e)] = NULL
  BY PasoMarco
<1>2. \A a \in Archivos : candado[a] # NULL =>
         ~SinCandado(hilo[candado[a]]) /\ Archivo(hilo[candado[a]].e) = a
  BY DEF Cerrojos
<1>3. CASE candado[Archivo(d)] # NULL /\ hilo[candado[Archivo(d)]].e = d
  <2>1. candado[Archivo(d)] \in Hilos \ {t} /\ Archivo(d) # Archivo(e)
    BY <1>0, <1>1, <1>2, <1>3
  <2>2. candado'[Archivo(d)] = candado[Archivo(d)]
        /\ hilo'[candado[Archivo(d)]] = hilo[candado[Archivo(d)]]
    BY <1>0, <1>1, <2>1
  <2> QED BY <2>2 DEF ListasEn, FijaEn
<1>4. CASE ~(candado[Archivo(d)] # NULL /\ hilo[candado[Archivo(d)]].e = d)
  <2>1. ~(candado'[Archivo(d)] # NULL /\ hilo'[candado'[Archivo(d)]].e = d)
    <3>1. CASE Archivo(d) = Archivo(e)
      BY <1>0, <1>1, <3>1
    <3>2. CASE Archivo(d) # Archivo(e)
      <4>1. candado'[Archivo(d)] = candado[Archivo(d)]
        BY <1>0, <1>1, <3>2
      <4>2. candado[Archivo(d)] = NULL \/ candado[Archivo(d)] \in Hilos \ {t}
        BY <1>0, <1>1, <1>2, <3>2
      <4> QED BY <1>1, <1>4, <4>1, <4>2
    <3> QED BY <3>1, <3>2
  <2> QED BY <1>4, <2>1 DEF ListasEn, FijaEn
<1> QED BY <1>3, <1>4

\* Settled, for the File:Tag with metadata m on which h operates.
FirmeCon(m, h, i) == m.estado = "COMMITED" \/ (Commiteando(h) /\ i < h.i)

\* The step, seen from the lists and the settled places, and from the blocks of the threads.
LasListas(t, e, r) ==
    /\ Listas[e] = ListasCon(meta[e].bloques, hilo[t])
    /\ Listas'[e] = ListasCon(meta'[e].bloques, r)
    /\ \A d \in Etiquetas \ {e} : Listas'[d] = Listas[d]
    /\ \A i \in Nat : <<e, i>> \in Firmes <=> FirmeCon(meta[e], hilo[t], i)
    /\ \A i \in Nat : <<e, i>> \in Firmes' <=> FirmeCon(meta'[e], r, i)
    /\ \A d \in Etiquetas \ {e} : \A i : <<d, i>> \in Firmes' <=> <<d, i>> \in Firmes

LosSuyos(t, r) ==
    /\ \A x : x \in Suyos' <=> (Suyo(r) /\ x = <<t, r.b>>) \/ (x \in Suyos /\ x[1] # t)
    /\ \A x \in Suyos : x[1] = t => Suyo(hilo[t]) /\ x = <<t, hilo[t].b>>
    /\ Suyo(hilo[t]) => <<t, hilo[t].b>> \in Suyos

LEMMA PasoListas ==
    ASSUME Tipos, Cerrojos, NEW t \in Hilos, NEW e \in Etiquetas, NEW r \in Marco, Paso(t, e, r),
           \A d \in Etiquetas \ {e} : meta'[d] = meta[d]
    PROVE  LasListas(t, e, r) /\ LosSuyos(t, r)
<1>1. /\ hilo'[t] = r /\ \A u \in Hilos \ {t} : hilo'[u] = hilo[u]
      /\ ~SinCandado(hilo[t]) => hilo[t].e = e /\ candado[Archivo(e)] = t
      /\ SinCandado(hilo[t]) => candado[Archivo(e)] = NULL
      /\ ~SinCandado(r) => r.e = e /\ candado'[Archivo(e)] = t
      /\ SinCandado(r) => candado'[Archivo(e)] = NULL
      /\ t # NULL
  BY PasoMarco, StorageSupuesto
<1>2. \A h, s : SinCandado(h) => ListasCon(s, h) = {s} /\ ~Commiteando(h)
  BY DEF SinCandado, ListasCon, ConLista, Fase, Commiteando
<1>3. ListasEn(meta, candado, hilo, e) = ListasCon(meta[e].bloques, hilo[t])
  BY <1>1, <1>2 DEF ListasEn
<1>4. ListasEn(meta', candado', hilo', e) = ListasCon(meta'[e].bloques, r)
  BY <1>1, <1>2 DEF ListasEn
<1>5. \A i : FijaEn(meta, candado, hilo, e, i) <=> FirmeCon(meta[e], hilo[t], i)
  BY <1>1, <1>2 DEF FijaEn, FirmeCon
<1>6. \A i : FijaEn(meta', candado', hilo', e, i) <=> FirmeCon(meta'[e], r, i)
  BY <1>1, <1>2 DEF FijaEn, FirmeCon
<1>7. \A d \in Etiquetas \ {e} :
         /\ ListasEn(meta', candado', hilo', d) = ListasEn(meta, candado, hilo, d)
         /\ \A i : FijaEn(meta', candado', hilo', d, i) <=> FijaEn(meta, candado, hilo, d, i)
  BY AjenoQuieto
<1>8. /\ Listas[e] = ListasCon(meta[e].bloques, hilo[t])
      /\ Listas'[e] = ListasCon(meta'[e].bloques, r)
      /\ \A d \in Etiquetas \ {e} : Listas'[d] = Listas[d]
  BY <1>3, <1>4, <1>7 DEF Listas
<1>9. /\ \A i \in Nat : <<e, i>> \in Firmes <=> FirmeCon(meta[e], hilo[t], i)
      /\ \A i \in Nat : <<e, i>> \in Firmes' <=> FirmeCon(meta'[e], r, i)
      /\ \A d \in Etiquetas \ {e} : \A i : <<d, i>> \in Firmes' <=> <<d, i>> \in Firmes
  <2>1. \A d, i : <<d, i>> \in Firmes <=>
                     d \in Etiquetas /\ i \in Nat /\ FijaEn(meta, candado, hilo, d, i)
    BY DEF Firmes
  <2>2. \A d, i : <<d, i>> \in Firmes' <=>
                     d \in Etiquetas /\ i \in Nat /\ FijaEn(meta', candado', hilo', d, i)
    BY DEF Firmes
  <2> QED BY <1>5, <1>6, <1>7, <2>1, <2>2
<1>10. ASSUME NEW x
       PROVE  x \in Suyos' <=> (Suyo(r) /\ x = <<t, r.b>>) \/ (x \in Suyos /\ x[1] # t)
  <2>1. x \in Suyos' <=> \E u \in Hilos : Suyo(hilo'[u]) /\ x = <<u, hilo'[u].b>>
    BY DEF Suyos
  <2>2. x \in Suyos <=> \E u \in Hilos : Suyo(hilo[u]) /\ x = <<u, hilo[u].b>>
    BY DEF Suyos
  <2> QED BY <1>1, <2>1, <2>2
<1>11. /\ \A x \in Suyos : x[1] = t => Suyo(hilo[t]) /\ x = <<t, hilo[t].b>>
       /\ Suyo(hilo[t]) => <<t, hilo[t].b>> \in Suyos
  BY DEF Suyos
<1> QED BY <1>8, <1>9, <1>10, <1>11 DEF LasListas, LosSuyos

\* The order is kept by a step that leaves its own thread and its own File:Tag in order.
LEMMA PasoOrden ==
    ASSUME Orden, NEW t \in Hilos, NEW e \in Etiquetas, NEW r \in Marco, Paso(t, e, r),
           meta' \in [Etiquetas -> [bloques : Seq(Bloques), estado : EnDirectorio]],
           enlace' \in [Etiquetas -> Seq(Bloques \cup {SIN})],
           contenido' \in [Bloques -> Valores], bitmap' \subseteq Bloques,
           indice' \in [Valores -> Bloques \cup {NULL}], rota' \in BOOLEAN,
           \A d \in Etiquetas \ {e} : meta'[d] = meta[d] /\ enlace'[d] = enlace[d],
           meta[e].estado # "COMMITED", EnHecho(meta', r)
    PROVE  Orden'
<1>0. Tipos /\ Cerrojos
  BY DEF Orden
<1>1. Tipos'
  BY <1>0, PasoMarco DEF Tipos
<1>2. Cerrojos'
  BY <1>0, PasoConCerrojos
<1>3. EnCero'
  <2>1. BASE \in Etiquetas \ {e}
    BY StorageSupuesto DEF Orden, EnCero
  <2> QED BY <2>1 DEF Orden, EnCero
<1>4. ASSUME NEW u \in Hilos PROVE EnHecho(meta', hilo'[u])
  <2>0. /\ hilo'[t] = r /\ (u # t => hilo'[u] = hilo[u])
        /\ ~SinCandado(hilo[t]) => candado[Archivo(e)] = t
        /\ SinCandado(hilo[t]) => candado[Archivo(e)] = NULL
        /\ EnHecho(meta, hilo[u]) /\ hilo[u].e \in Etiquetas
    BY <1>0, PasoMarco, HiloMarco DEF Orden
  <2>1. CASE u = t
    BY <2>0, <2>1
  <2>2. CASE u # t /\ SinCandado(hilo[u])
    BY <2>0, <2>2 DEF EnHecho, SinCandado, Fase, Escribiendo, Commiteando
  <2>3. CASE u # t /\ ~SinCandado(hilo[u])
    <3>1. candado[Archivo(hilo[u].e)] = u /\ u # NULL
      BY <1>0, <2>3, StorageSupuesto DEF Cerrojos
    <3>2. hilo[u].e # e
      BY <2>0, <2>3, <3>1
    <3>3. meta'[hilo[u].e] = meta[hilo[u].e]
      BY <2>0, <3>2
    <3> QED BY <2>0, <2>3, <3>3 DEF EnHecho
  <2> QED BY <2>1, <2>2, <2>3
<1> QED BY <1>1, <1>2, <1>3, <1>4 DEF Orden

DeBloques == (\A e \in Etiquetas : Listas[e] \subseteq Seq(Bloques)) /\ <<0>> \in Listas[BASE]

LEMMA DeBloquesSiempre == Orden => DeBloques
<1> SUFFICES ASSUME Orden PROVE DeBloques
  OBVIOUS
<1>0. Tipos /\ Cerrojos /\ EnCero /\ NULL \notin Hilos /\ BASE \in Etiquetas
  BY StorageSupuesto DEF Orden
<1>1. \A h \in Marco, s \in Seq(Bloques) : ListasCon(s, h) \subseteq Seq(Bloques)
  BY DEF ListasCon, Marco
<1>2. ASSUME NEW e \in Etiquetas PROVE Listas[e] \subseteq Seq(Bloques)
  <2>1. /\ meta[e].bloques \in Seq(Bloques) /\ candado[Archivo(e)] \in Hilos \cup {NULL}
        /\ \A t \in Hilos : hilo[t] \in Marco
    BY <1>0, MetaMarco, HiloMarco, ArchivoTipo DEF Tipos
  <2> QED BY <1>1, <2>1 DEF Listas, ListasEn
<1>3. <<0>> \in Listas[BASE]
  <2>1. meta[BASE].bloques = <<0>> /\ meta[BASE].estado = "COMMITED"
    BY <1>0 DEF EnCero
  <2>2. candado[Archivo(BASE)] # NULL => hilo[candado[Archivo(BASE)]].e # BASE
    <3>1. candado[Archivo(BASE)] \in Hilos \cup {NULL}
      BY <1>0, ArchivoTipo DEF Tipos
    <3>2. candado[Archivo(BASE)] # NULL => ~SinCandado(hilo[candado[Archivo(BASE)]])
      BY <1>0, ArchivoTipo DEF Cerrojos
    <3> QED BY <2>1, <3>1, <3>2 DEF Orden, EnHecho
  <2> QED BY <1>0, <2>1, <2>2 DEF Listas, ListasEn
<1> QED BY <1>2, <1>3 DEF DeBloques

LEMMA DeBloquesDespues == Orden' => DeBloques'
BY DeBloquesSiempre, PTL

\* The blocks of e are those it had, m further on, but for block 0, and what was settled
\* stays so.
Mudanza(t, e, r, m) ==
    /\ \A z \in ListasCon(meta'[e].bloques, r) : \A i \in DOMAIN z :
          z[i] = 0 \/ \E s \in ListasCon(meta[e].bloques, hilo[t]) :
                         i + m \in DOMAIN s /\ s[i + m] = z[i]
    /\ \A i \in Nat \ {0} : FirmeCon(meta[e], hilo[t], i + m) => FirmeCon(meta'[e], r, i)
    /\ \A s \in ListasCon(meta[e].bloques, hilo[t]) : \A i \in DOMAIN s :
          FirmeCon(meta[e], hilo[t], i) =>
             /\ FirmeCon(meta'[e], r, i)
             /\ \E z \in ListasCon(meta'[e].bloques, r) : i \in DOMAIN z /\ z[i] = s[i]

LEMMA PasoMudanza ==
    ASSUME Orden, Orden', NEW t \in Hilos, NEW e \in Etiquetas, NEW r \in Marco, NEW m \in Nat,
           Paso(t, e, r), \A d \in Etiquetas \ {e} : meta'[d] = meta[d],
           Mudanza(t, e, r, m), Propias(Listas, Firmes), EnBitmap(Listas, bitmap)
    PROVE  /\ Propias(Listas', Firmes') /\ EnBitmap(Listas', bitmap)
           /\ \A b : b # 0 /\ Nadie(Listas, b) => Nadie(Listas', b)
           /\ \A b : Registrado(Listas, Firmes, b) => Registrado(Listas', Firmes', b)
<1> DEFINE M == [d \in Etiquetas |-> IF d = e THEN m ELSE 0]
<1>1. /\ \A d \in Etiquetas : Listas[d] \subseteq Seq(Bloques)
      /\ \A d \in Etiquetas : Listas'[d] \subseteq Seq(Bloques)
      /\ <<0>> \in Listas[BASE]
  BY DeBloquesSiempre, DeBloquesDespues DEF DeBloques
<1>2. M \in [Etiquetas -> Nat] /\ M[e] = m /\ \A d \in Etiquetas \ {e} : M[d] = 0
  OBVIOUS
<1>3. /\ Listas[e] = ListasCon(meta[e].bloques, hilo[t])
      /\ Listas'[e] = ListasCon(meta'[e].bloques, r)
      /\ \A d \in Etiquetas \ {e} : Listas'[d] = Listas[d]
      /\ \A i \in Nat : <<e, i>> \in Firmes <=> FirmeCon(meta[e], hilo[t], i)
      /\ \A i \in Nat : <<e, i>> \in Firmes' <=> FirmeCon(meta'[e], r, i)
      /\ \A d \in Etiquetas \ {e} : \A i : <<d, i>> \in Firmes' <=> <<d, i>> \in Firmes
  <2>1. Tipos /\ Cerrojos
    BY DEF Orden
  <2>2. LasListas(t, e, r)
    BY <2>1, PasoListas
  <2> QED BY <2>2 DEF LasListas
<1> HIDE DEF M
<1>4. \A d \in Etiquetas : /\ \A s \in Listas[d] : \A i \in DOMAIN s : i \in Nat \ {0}
                           /\ \A s \in Listas'[d] : \A i \in DOMAIN s : i \in Nat \ {0}
  BY <1>1, ListaTipo
<1>5. ASSUME NEW d \in Etiquetas
      PROVE  Viene(Listas, Firmes, Listas', Firmes', d, M[d]) /\ Queda(Listas, Firmes, Listas', Firmes', d)
  <2>1. CASE d = e
    <3>1. Viene(Listas, Firmes, Listas', Firmes', e, m)
      <4> SUFFICES ASSUME NEW z \in Listas'[e], NEW i \in DOMAIN z, z[i] # 0
                   PROVE  \E s \in Listas[e] : /\ i + m \in DOMAIN s /\ s[i + m] = z[i]
                                               /\ <<e, i + m>> \in Firmes => <<e, i>> \in Firmes'
        BY DEF Viene
      <4>1. i \in Nat \ {0} /\ i + m \in Nat
        BY <1>4
      <4>2. <<e, i + m>> \in Firmes => <<e, i>> \in Firmes'
        BY <1>3, <4>1 DEF Mudanza
      <4> QED BY <1>3, <4>2 DEF Mudanza
    <3>2. Queda(Listas, Firmes, Listas', Firmes', e)
      BY <1>3, <1>4 DEF Mudanza, Queda
    <3> QED BY <1>2, <2>1, <3>1, <3>2
  <2>2. CASE d # e
    <3>1. M[d] = 0 /\ Listas'[d] = Listas[d] /\ \A i : <<d, i>> \in Firmes' <=> <<d, i>> \in Firmes
      BY <1>2, <1>3, <2>2
    <3>2. \A z \in Listas[d] : \A i \in DOMAIN z : i + 0 = i
      BY <1>4
    <3> QED BY <3>1, <3>2 DEF Viene, Queda
  <2> QED BY <2>1, <2>2
<1>6. 0 \in bitmap \ Ausentes
  BY <1>1, CeroOcupado
<1>7. /\ Propias(Listas', Firmes')
      /\ \A bm : EnBitmap(Listas, bm) /\ 0 \in bm \ Ausentes => EnBitmap(Listas', bm)
      /\ \A b : b # 0 /\ Nadie(Listas, b) => Nadie(Listas', b)
      /\ \A b : Registrado(Listas, Firmes, b) => Registrado(Listas', Firmes', b)
  BY <1>1, <1>2, <1>5, CambioReparto
<1> QED BY <1>6, <1>7

\* What a thread has reserved or is about to free, after the step.
Gana(t, r) ==
    r.b \in bitmap /\ Nadie(Listas', r.b) /\ \A x \in Suyos : x[1] # t => x[2] # r.b

LEMMA PasoHilos ==
    ASSUME Orden, Orden', NEW t \in Hilos, NEW e \in Etiquetas, NEW r \in Marco,
           Paso(t, e, r), \A d \in Etiquetas \ {e} : meta'[d] = meta[d],
           DeCadaHilo(Listas, bitmap, Suyos), \A b : b # 0 /\ Nadie(Listas, b) => Nadie(Listas', b),
           EnBitmap(Listas', bitmap), EnBitmap(Listas, bitmap),
           Suyo(r) => (Suyo(hilo[t]) /\ r.b = hilo[t].b) \/ Gana(t, r),
           \/ bitmap' = bitmap
           \/ bitmap' = bitmap \ {hilo[t].b} /\ Suyo(hilo[t]) /\ ~Suyo(r)
    PROVE  EnBitmap(Listas', bitmap') /\ DeCadaHilo(Listas', bitmap', Suyos')
<1>0. <<0>> \in Listas[BASE]
  BY DeBloquesSiempre DEF DeBloques
<1>1. /\ \A x : x \in Suyos' <=> (Suyo(r) /\ x = <<t, r.b>>) \/ (x \in Suyos /\ x[1] # t)
      /\ \A x \in Suyos : x[1] = t => Suyo(hilo[t]) /\ x = <<t, hilo[t].b>>
      /\ Suyo(hilo[t]) => <<t, hilo[t].b>> \in Suyos
  <2>1. Tipos /\ Cerrojos
    BY DEF Orden
  <2>2. LosSuyos(t, r)
    BY <2>1, PasoListas
  <2> QED BY <2>2 DEF LosSuyos
<1>2. \A x \in Suyos : x[2] # 0 /\ x[2] \in bitmap /\ Nadie(Listas', x[2])
  BY <1>0, CeroOcupado DEF DeCadaHilo
<1>3. \A x, y \in Suyos : x[2] = y[2] => x = y
  BY DEF DeCadaHilo
<1>4. CASE bitmap' = bitmap
  <2>1. ASSUME NEW x \in Suyos' PROVE x[2] \in bitmap /\ Nadie(Listas', x[2])
    BY <1>1, <1>2 DEF Gana
  <2>2. ASSUME NEW x \in Suyos', NEW y \in Suyos', x[2] = y[2] PROVE x = y
    <3>1. CASE Suyo(r) /\ x = <<t, r.b>> /\ y # <<t, r.b>>
      BY <1>1, <1>3, <2>2, <3>1 DEF Gana
    <3>2. CASE Suyo(r) /\ y = <<t, r.b>> /\ x # <<t, r.b>>
      BY <1>1, <1>3, <2>2, <3>2 DEF Gana
    <3>3. CASE x \in Suyos /\ y \in Suyos
      BY <1>3, <2>2, <3>3
    <3> QED BY <1>1, <3>1, <3>2, <3>3
  <2> QED BY <1>4, <2>1, <2>2 DEF DeCadaHilo
<1>5. CASE bitmap' = bitmap \ {hilo[t].b} /\ Suyo(hilo[t]) /\ ~Suyo(r)
  <2>1. <<t, hilo[t].b>> \in Suyos /\ Nadie(Listas', hilo[t].b)
    BY <1>1, <1>2, <1>5
  <2>2. EnBitmap(Listas', bitmap')
    BY <1>5, <2>1 DEF EnBitmap, Nadie
  <2>3. ASSUME NEW x \in Suyos' PROVE x \in Suyos /\ x[2] \in bitmap' /\ Nadie(Listas', x[2])
    <3>1. x \in Suyos /\ x[1] # t
      BY <1>1, <1>5
    <3>2. x[2] # hilo[t].b
      BY <1>3, <2>1, <3>1
    <3> QED BY <1>2, <1>5, <3>1, <3>2
  <2>4. DeCadaHilo(Listas', bitmap', Suyos')
    BY <1>3, <2>3 DEF DeCadaHilo
  <2> QED BY <2>2, <2>4
<1> QED BY <1>4, <1>5

\* A step that gives File:Tags no block they did not have.
LEMMA PasoSalvo ==
    ASSUME Orden, Orden', Salvo, NEW t \in Hilos, NEW e \in Etiquetas, NEW r \in Marco, NEW m \in Nat,
           Paso(t, e, r), \A d \in Etiquetas \ {e} : meta'[d] = meta[d],
           ~rota' => ~rota /\ Mudanza(t, e, r, m),
           ~rota' => \A v \in Valores : \/ indice'[v] \in {indice[v], NULL}
                                        \/ Registrado(Listas', Firmes', indice'[v]),
           ~rota' /\ r.paso \in {"enlaza", "enlaza2"} => r.b \notin Ausentes,
           ~rota' /\ Suyo(r) => (Suyo(hilo[t]) /\ r.b = hilo[t].b) \/ Gana(t, r),
           \/ bitmap' = bitmap
           \/ bitmap' = bitmap \ {hilo[t].b} /\ Suyo(hilo[t]) /\ ~Suyo(r)
    PROVE  Salvo'
<1> SUFFICES ASSUME ~rota' PROVE Reparto(Listas', Firmes', bitmap', Suyos', indice') /\ Existen'
  BY DEF Salvo
<1>1. /\ Propias(Listas, Firmes) /\ EnBitmap(Listas, bitmap) /\ DeCadaHilo(Listas, bitmap, Suyos)
      /\ \A v \in Valores : indice[v] # NULL => Registrado(Listas, Firmes, indice[v])
      /\ Existen /\ Mudanza(t, e, r, m)
  BY DEF Salvo, Reparto
<1>2. /\ Propias(Listas', Firmes') /\ EnBitmap(Listas', bitmap)
      /\ \A b : b # 0 /\ Nadie(Listas, b) => Nadie(Listas', b)
      /\ \A b : Registrado(Listas, Firmes, b) => Registrado(Listas', Firmes', b)
  BY <1>1, PasoMudanza
<1>3. EnBitmap(Listas', bitmap') /\ DeCadaHilo(Listas', bitmap', Suyos')
  BY <1>1, <1>2, PasoHilos
<1>4. Existen'
  BY <1>1, PasoMarco DEF Existen, Orden
<1>5. \A v \in Valores : indice'[v] # NULL => Registrado(Listas', Firmes', indice'[v])
  BY <1>1, <1>2
<1> QED BY <1>2, <1>3, <1>4, <1>5 DEF Reparto

-----------------------------------------------------------------------------
(***************************************************************************)
(* The steps.  Most of them leave e with lists it had, or empty, or with   *)
(* the same ones and more places settled.                                  *)
(***************************************************************************)

Conservan ==
    /\ meta' \in [Etiquetas -> [bloques : Seq(Bloques), estado : EnDirectorio]]
    /\ enlace' \in [Etiquetas -> Seq(Bloques \cup {SIN})]
    /\ contenido' \in [Bloques -> Valores] /\ bitmap' \subseteq Bloques
    /\ indice' \in [Valores -> Bloques \cup {NULL}] /\ rota' \in BOOLEAN

Menos(t, e, r) ==
    \/ /\ ~Commiteando(hilo[t])
       /\ ListasCon(meta'[e].bloques, r) \subseteq ListasCon(meta[e].bloques, hilo[t]) \cup {<< >>}
    \/ /\ ListasCon(meta'[e].bloques, r) = ListasCon(meta[e].bloques, hilo[t])
       /\ \A i \in Nat : FirmeCon(meta[e], hilo[t], i) => FirmeCon(meta'[e], r, i)

LEMMA PasoMenos ==
    ASSUME Orden, Salvo, NEW t \in Hilos, NEW e \in Etiquetas, NEW r \in Marco, Paso(t, e, r),
           Conservan, \A d \in Etiquetas \ {e} : meta'[d] = meta[d] /\ enlace'[d] = enlace[d],
           meta[e].estado # "COMMITED", EnHecho(meta', r),
           ~rota' => ~rota /\ Menos(t, e, r), indice' = indice,
           ~rota' /\ r.paso \in {"enlaza", "enlaza2"} => r.b \notin Ausentes,
           Suyo(r) => Suyo(hilo[t]) /\ r.b = hilo[t].b,
           \/ bitmap' = bitmap
           \/ bitmap' = bitmap \ {hilo[t].b} /\ Suyo(hilo[t]) /\ ~Suyo(r)
    PROVE  Orden' /\ Salvo'
<1>1. Orden'
  BY PasoOrden DEF Conservan
<1>2. ASSUME ~rota' PROVE Mudanza(t, e, r, 0)
  <2>1. /\ ListasCon(meta[e].bloques, hilo[t]) \subseteq Seq(Bloques)
        /\ ListasCon(meta'[e].bloques, r) \subseteq Seq(Bloques)
    <3>1. /\ meta[e].bloques \in Seq(Bloques) /\ hilo[t].lista \in Seq(Bloques)
          /\ meta'[e].bloques \in Seq(Bloques) /\ r.lista \in Seq(Bloques)
      BY MetaMarco, HiloMarco DEF Orden, Conservan, Marco
    <3> QED BY <3>1 DEF ListasCon
  <2>2. /\ \A s \in ListasCon(meta[e].bloques, hilo[t]) : \A i \in DOMAIN s : i \in Nat
        /\ \A s \in ListasCon(meta'[e].bloques, r) : \A i \in DOMAIN s : i \in Nat /\ s # << >>
    BY <2>1, ListaTipo
  <2>3. \A i \in Nat : i + 0 = i
    OBVIOUS
  <2>4. CASE ~Commiteando(hilo[t])
    <3>1. \A i : ~FirmeCon(meta[e], hilo[t], i)
      BY <2>4 DEF FirmeCon
    <3>2. \A z \in ListasCon(meta'[e].bloques, r) :
             z # << >> => z \in ListasCon(meta[e].bloques, hilo[t])
      BY <1>2 DEF Menos
    <3> QED BY <2>2, <2>3, <3>1, <3>2 DEF Mudanza
  <2>5. CASE Commiteando(hilo[t])
    <3>1. /\ ListasCon(meta'[e].bloques, r) = ListasCon(meta[e].bloques, hilo[t])
          /\ \A i \in Nat : FirmeCon(meta[e], hilo[t], i) => FirmeCon(meta'[e], r, i)
      BY <1>2, <2>5 DEF Menos
    <3> QED BY <2>2, <2>3, <3>1 DEF Mudanza
  <2> QED BY <2>4, <2>5
<1> QED BY <1>1, <1>2, PasoSalvo

\* An operation of t in the middle of its steps.
LEMMA EnMarcha ==
    ASSUME Orden, NEW t \in Hilos, ~SinCandado(hilo[t])
    PROVE  /\ Tipos /\ Cerrojos /\ hilo[t] \in Marco /\ hilo[t].e \in Etiquetas
           /\ meta[hilo[t].e] \in [bloques : Seq(Bloques), estado : EnDirectorio]
           /\ EnHecho(meta, hilo[t]) /\ meta[hilo[t].e].estado # "COMMITED"
           /\ candado[Archivo(hilo[t].e)] = t
BY HiloMarco, MetaMarco DEF Orden, Cerrojos, EnHecho

\* What does not change keeps its type.
LEMMA SinCambio ==
    ASSUME Tipos
    PROVE  /\ meta' = meta => meta' \in [Etiquetas -> [bloques : Seq(Bloques), estado : EnDirectorio]]
           /\ enlace' = enlace => enlace' \in [Etiquetas -> Seq(Bloques \cup {SIN})]
           /\ contenido' = contenido => contenido' \in [Bloques -> Valores]
           /\ bitmap' = bitmap => bitmap' \subseteq Bloques
           /\ indice' = indice => indice' \in [Valores -> Bloques \cup {NULL}]
           /\ rota' = rota => rota' \in BOOLEAN
BY DEF Tipos

\* The metadata of e becomes m.
LEMMA CambiaMeta ==
    ASSUME Tipos, NEW e \in Etiquetas, NEW m \in [bloques : Seq(Bloques), estado : EnDirectorio],
           meta' = [meta EXCEPT ![e] = m]
    PROVE  /\ meta' \in [Etiquetas -> [bloques : Seq(Bloques), estado : EnDirectorio]]
           /\ meta'[e] = m /\ \A d \in Etiquetas \ {e} : meta'[d] = meta[d]
BY DEF Tipos

LEMMA CreaDirectorioSalvo ==
    ASSUME Orden, Salvo, NEW t \in Hilos, NEW e \in Etiquetas, CreaDirectorio(t, e)
    PROVE  Orden' /\ Salvo'
<1> DEFINE r == [Libre EXCEPT !.paso = "crea", !.e = e]
           m == [meta[e] EXCEPT !.estado = "A_MEDIAS"]
<1>1. /\ hilo[t].paso = "libre" /\ SinCandado(hilo[t]) /\ meta[e].estado = "NO_EXISTE"
      /\ UNCHANGED <<enlace, contenido, bitmap, indice, rota>>
  BY DEF CreaDirectorio, lock_file_metadata, SinCandado
<1>2. /\ r \in Marco /\ r.paso = "crea" /\ r.e = e /\ r.i = 0 /\ r.sigue = "libre"
  BY LibreMarco DEF Marco, Hechos, Libre
<1>3. Paso(t, e, r)
  BY <1>1, <1>2 DEF CreaDirectorio, lock_file_metadata, Va, Paso, Toma, SinCandado
<1>4. Tipos /\ meta[e] \in [bloques : Seq(Bloques), estado : EnDirectorio]
  BY MetaMarco DEF Orden
<1>5. m \in [bloques : Seq(Bloques), estado : EnDirectorio] /\ m.bloques = meta[e].bloques
      /\ m.estado = "A_MEDIAS" /\ meta' = [meta EXCEPT ![e] = m]
  BY <1>4 DEF EnDirectorio, CreaDirectorio
<1> HIDE DEF r, m
<1>6. Conservan /\ meta'[e] = m /\ \A d \in Etiquetas \ {e} : meta'[d] = meta[d]
  BY <1>1, <1>4, <1>5, CambiaMeta, SinCambio DEF Conservan
<1>7. EnHecho(meta', r)
  BY <1>2, <1>5, <1>6 DEF EnHecho, Fase, Escribiendo, Commiteando, SinCandado
<1>8. Menos(t, e, r)
  BY <1>1, <1>2, <1>5, <1>6 DEF Menos, ListasCon, ConLista, Commiteando, Fase
<1> QED BY <1>1, <1>2, <1>3, <1>6, <1>7, <1>8, PasoMenos DEF Suyo

\* The thread ends its operation, or goes on as r.
LEMMA AlTerminar ==
    ASSUME Orden, NEW t \in Hilos, ~SinCandado(hilo[t]), Termina(t)
    PROVE  /\ Libre \in Marco /\ Libre.paso = "libre" /\ Paso(t, hilo[t].e, Libre)
           /\ EnHecho(meta', Libre) /\ ~Suyo(Libre) /\ \A s : ListasCon(s, Libre) = {s}
<1>1. Libre \in Marco /\ Libre.paso = "libre" /\ Libre.sigue = "libre"
  BY LibreMarco
<1>2. Paso(t, hilo[t].e, Libre)
  BY <1>1 DEF Termina, unlock_file_metadata, Va, Paso, Suelta, SinCandado
<1> QED BY <1>1, <1>2 DEF EnHecho, Fase, Escribiendo, Commiteando, SinCandado, Suyo, ListasCon, ConLista

LEMMA AlSeguir ==
    ASSUME Orden, NEW t \in Hilos, NEW r, ~SinCandado(hilo[t]), ~SinCandado(r), r.e = hilo[t].e,
           Va(t, r), candado' = candado
    PROVE  Paso(t, hilo[t].e, r)
BY DEF Va, Paso, Dentro

LEMMA AlTomar ==
    ASSUME NEW t \in Hilos, NEW e, NEW r, lock_file_metadata(t, e), ~SinCandado(r), r.e = e, Va(t, r)
    PROVE  Paso(t, e, r) /\ hilo[t].paso = "libre" /\ ~Commiteando(hilo[t])
           /\ \A s : ListasCon(s, hilo[t]) = {s}
BY DEF lock_file_metadata, Va, Paso, Toma, SinCandado, Commiteando, ListasCon, ConLista, Fase

\* Link i of e becomes b.
LEMMA ConEnlaceTipo ==
    ASSUME Tipos, NEW e \in Etiquetas, NEW i \in Nat \ {0}, NEW b \in Bloques \cup {SIN},
           ConEnlace(e, i, b)
    PROVE  /\ enlace' \in [Etiquetas -> Seq(Bloques \cup {SIN})]
           /\ \A d \in Etiquetas \ {e} : enlace'[d] = enlace[d]
<1> DEFINE n == Max({i, Len(enlace[e])})
           z == [k \in 1..n |-> IF k = i THEN b ELSE Enlace(e, k)]
<1>1. enlace \in [Etiquetas -> Seq(Bloques \cup {SIN})] /\ enlace[e] \in Seq(Bloques \cup {SIN})
  BY DEF Tipos
<1>2. Len(enlace[e]) \in Nat /\ \A k \in DOMAIN enlace[e] : enlace[e][k] \in Bloques \cup {SIN}
  BY <1>1, ListaTipo
<1>3. n \in Nat
  <2>1. \E x \in {i, Len(enlace[e])} : \A y \in {i, Len(enlace[e])} : x >= y
    BY <1>2
  <2> QED BY <1>2, <2>1 DEF Max
<1>4. \A k : Enlace(e, k) \in Bloques \cup {SIN}
  BY <1>2 DEF Enlace
<1>5. z \in Seq(Bloques \cup {SIN})
  <2> HIDE DEF n
  <2>1. z \in [1..n -> Bloques \cup {SIN}]
    BY <1>4
  <2> QED BY <1>3, <2>1, SeqDef
<1>6. enlace' = [enlace EXCEPT ![e] = z]
  BY DEF ConEnlace
<1> QED BY <1>1, <1>5, <1>6

LEMMA CrearArchivoSalvo ==
    ASSUME Orden, Salvo, NEW t \in Hilos, crearArchivo(t)
    PROVE  Orden' /\ Salvo'
<1> DEFINE e == hilo[t].e
           r == [Libre EXCEPT !.paso = "guarda", !.e = e, !.lista = << >>]
           m == [meta[e] EXCEPT !.estado = "VACIA"]
<1>1. /\ hilo[t].paso = "crea" /\ ~SinCandado(hilo[t]) /\ Va(t, r)
      /\ UNCHANGED <<enlace, contenido, bitmap, indice, rota, candado>>
      /\ meta' = [meta EXCEPT ![e] = m]
  BY DEF crearArchivo, AGuardar, SinCandado
<1>2. /\ Tipos /\ e \in Etiquetas /\ meta[e] \in [bloques : Seq(Bloques), estado : EnDirectorio]
      /\ meta[e].estado # "COMMITED"
  BY <1>1, EnMarcha
<1>3. r \in Marco /\ r.paso = "guarda" /\ r.e = e /\ r.lista = << >> /\ r.sigue = "libre"
  BY <1>2, LibreMarco, EmptySeq DEF Marco, Hechos, Libre
<1>4. m \in [bloques : Seq(Bloques), estado : EnDirectorio] /\ m.bloques = meta[e].bloques
      /\ m.estado = "VACIA"
  BY <1>2 DEF EnDirectorio
<1> HIDE DEF r, m
<1>5. Paso(t, e, r)
  BY <1>1, <1>3, AlSeguir DEF SinCandado
<1>6. Conservan /\ meta'[e] = m /\ \A d \in Etiquetas \ {e} : meta'[d] = meta[d]
  BY <1>1, <1>2, <1>4, CambiaMeta, SinCambio DEF Conservan
<1>7. EnHecho(meta', r)
  BY <1>3, <1>4, <1>6 DEF EnHecho, Fase, Escribiendo, Commiteando, SinCandado
<1>8. Menos(t, e, r)
  BY <1>1, <1>3, <1>4, <1>6 DEF Menos, ListasCon, ConLista, Commiteando, Fase
<1> HIDE DEF e
<1> QED BY <1>1, <1>2, <1>3, <1>5, <1>6, <1>7, <1>8, PasoMenos DEF Suyo

LEMMA ConfigSaveSalvo ==
    ASSUME Orden, Salvo, NEW t \in Hilos, config_save(t)
    PROVE  Orden' /\ Salvo'
<1> DEFINE e == hilo[t].e
           m == [bloques |-> hilo[t].lista, estado |-> "WORK_IN_PROGRESS"]
<1>1. /\ hilo[t].paso = "guarda" /\ ~SinCandado(hilo[t]) /\ Termina(t)
      /\ UNCHANGED <<enlace, contenido, bitmap, indice, rota>>
      /\ meta' = [meta EXCEPT ![e] = m]
  BY DEF config_save, SinCandado
<1>2. /\ Tipos /\ e \in Etiquetas /\ meta[e].estado # "COMMITED" /\ hilo[t] \in Marco
  BY <1>1, EnMarcha
<1>3. m \in [bloques : Seq(Bloques), estado : EnDirectorio] /\ m.bloques = hilo[t].lista
  BY <1>2 DEF EnDirectorio, Marco, Estados
<1> HIDE DEF m
<1>4. /\ Libre \in Marco /\ Libre.paso = "libre" /\ Paso(t, e, Libre)
      /\ EnHecho(meta', Libre) /\ ~Suyo(Libre) /\ \A s : ListasCon(s, Libre) = {s}
  BY <1>1, AlTerminar
<1>5. Conservan /\ meta'[e] = m /\ \A d \in Etiquetas \ {e} : meta'[d] = meta[d]
  BY <1>1, <1>2, <1>3, CambiaMeta, SinCambio DEF Conservan
<1>6. Menos(t, e, Libre)
  BY <1>1, <1>3, <1>4, <1>5 DEF Menos, ListasCon, ConLista, Commiteando, Fase
<1> HIDE DEF e
<1> QED BY <1>1, <1>2, <1>4, <1>5, <1>6, PasoMenos

\* Whatever ends an operation that is not a COMMIT and leaves metadata and index as they were.
LEMMA FinSalvo ==
    ASSUME Orden, Salvo, NEW t \in Hilos, ~SinCandado(hilo[t]), Termina(t),
           Conservan, meta' = meta, indice' = indice,
           \A d \in Etiquetas \ {hilo[t].e} : enlace'[d] = enlace[d],
           ~rota' => ~rota /\ (ConLista(hilo[t]) => hilo[t].lista = meta[hilo[t].e].bloques),
           ~Commiteando(hilo[t]) \/ (~rota' => hilo[t].i <= 1),
           \/ bitmap' = bitmap
           \/ bitmap' = bitmap \ {hilo[t].b} /\ Suyo(hilo[t])
    PROVE  Orden' /\ Salvo'
<1> DEFINE e == hilo[t].e
<1>1. /\ Tipos /\ e \in Etiquetas /\ meta[e].estado # "COMMITED"
  BY EnMarcha
<1>2. /\ Libre \in Marco /\ Libre.paso = "libre" /\ Paso(t, e, Libre)
      /\ EnHecho(meta', Libre) /\ ~Suyo(Libre) /\ \A s : ListasCon(s, Libre) = {s}
  BY AlTerminar
<1> HIDE DEF e
<1>3. ASSUME ~rota' PROVE Mudanza(t, e, Libre, 0)
  <2>1. meta[e].bloques \in ListasCon(meta[e].bloques, hilo[t])
    BY <1>3 DEF ListasCon, e
  <2>2. \A i \in Nat \ {0} : ~FirmeCon(meta[e], hilo[t], i)
    BY <1>1, <1>3, HiloMarco DEF FirmeCon
  <2>3. /\ \A i \in DOMAIN meta[e].bloques : i \in Nat /\ i + 0 = i
        /\ \A s \in ListasCon(meta[e].bloques, hilo[t]) : \A i \in DOMAIN s : i \in Nat \ {0}
    <3>1. /\ meta[e].bloques \in Seq(Bloques) /\ hilo[t].lista \in Seq(Bloques)
      BY <1>1, MetaMarco, HiloMarco
    <3>2. \A i \in DOMAIN meta[e].bloques : i \in Nat /\ i + 0 = i
      BY <3>1, ListaTipo
    <3>3. ListasCon(meta[e].bloques, hilo[t]) \subseteq Seq(Bloques)
      BY <3>1 DEF ListasCon
    <3> QED BY <3>2, <3>3, ListaTipo
  <2>4. \A i \in Nat \ {0} : i + 0 = i
    OBVIOUS
  <2> QED BY <1>2, <2>1, <2>2, <2>3, <2>4 DEF Mudanza
<1>4. Orden'
  BY <1>1, <1>2, PasoOrden DEF Conservan, e
<1> QED BY <1>1, <1>2, <1>3, <1>4, PasoSalvo

\* The failures, and what else ends without saving anything.
LEMMA NoGuardaSalvo ==
    ASSUME Orden, Salvo, NEW t \in Hilos, NoGuarda(t)
    PROVE  Orden' /\ Salvo'
<1>1. /\ hilo[t].paso \in {"crea", "guarda"} /\ ~SinCandado(hilo[t]) /\ Termina(t)
      /\ UNCHANGED <<meta, enlace, contenido, bitmap, indice, rota>> /\ Tipos
  BY DEF NoGuarda, enDisco, SinCandado, Orden
<1>2. ~Commiteando(hilo[t]) /\ ~ConLista(hilo[t])
  BY <1>1 DEF Commiteando, ConLista, Fase
<1> QED BY <1>1, <1>2, SinCambio, FinSalvo DEF Conservan

LEMMA DeshaceSalvo ==
    ASSUME Orden, Salvo, NEW t \in Hilos, Suyo(hilo[t]), hilo[t].paso # "libera", Deshace(t),
           UNCHANGED <<meta, contenido, indice, rota>>,
           enlace' \in [Etiquetas -> Seq(Bloques \cup {SIN})],
           \A d \in Etiquetas \ {hilo[t].e} : enlace'[d] = enlace[d]
    PROVE  Orden' /\ Salvo'
<1>1. /\ bitmap' = bitmap \ {hilo[t].b} /\ Termina(t) /\ Tipos
  BY DEF Deshace, Sobrante, Orden
<1>2. ~SinCandado(hilo[t]) /\ ~Commiteando(hilo[t]) /\ ~ConLista(hilo[t])
  BY DEF Suyo, SinCandado, Commiteando, ConLista, Fase
<1>3. bitmap' \subseteq Bloques
  BY <1>1 DEF Tipos
<1> QED BY <1>1, <1>2, <1>3, SinCambio, FinSalvo DEF Conservan

LEMMA NoEscribeSalvo ==
    ASSUME Orden, Salvo, NEW t \in Hilos, NoEscribe(t)
    PROVE  Orden' /\ Salvo'
<1>1. /\ hilo[t].paso \in {"copia", "sobrescribe"} /\ Tipos
      /\ UNCHANGED <<meta, enlace, contenido, indice, rota>>
      /\ IF hilo[t].paso = "copia" THEN Deshace(t) ELSE Termina(t) /\ UNCHANGED bitmap
  BY DEF NoEscribe, Orden
<1>2. CASE hilo[t].paso = "copia"
  BY <1>1, <1>2, SinCambio, DeshaceSalvo DEF Suyo
<1>3. CASE hilo[t].paso # "copia"
  <2>1. ~SinCandado(hilo[t]) /\ ~Commiteando(hilo[t]) /\ ~ConLista(hilo[t])
    BY <1>1 DEF SinCandado, Commiteando, ConLista, Fase
  <2> QED BY <1>1, <1>3, <2>1, SinCambio, FinSalvo DEF Conservan
<1> QED BY <1>2, <1>3

LEMMA BitSinBloqueSalvo ==
    ASSUME Orden, Salvo, NEW t \in Hilos, BitSinBloque(t)
    PROVE  Orden' /\ Salvo'
<1>1. /\ hilo[t].paso = "copia" /\ Deshace(t) /\ Tipos
      /\ UNCHANGED <<meta, enlace, contenido, indice, rota>>
  BY DEF BitSinBloque, Orden
<1> QED BY <1>1, SinCambio, DeshaceSalvo DEF Suyo

LEMMA NoDesenlazaSalvo ==
    ASSUME Orden, Salvo, NEW t \in Hilos, NoDesenlaza(t)
    PROVE  Orden' /\ Salvo'
<1>1. /\ hilo[t].paso = "enlaza" /\ Deshace(t) /\ Tipos
      /\ UNCHANGED <<meta, enlace, contenido, indice, rota>>
  BY DEF NoDesenlaza, Orden
<1> QED BY <1>1, SinCambio, DeshaceSalvo DEF Suyo

LEMMA NoEnlazaSalvo ==
    ASSUME Orden, Salvo, NEW t \in Hilos, NoEnlaza(t)
    PROVE  Orden' /\ Salvo'
<1>1. /\ hilo[t].paso = "enlaza2" /\ Deshace(t) /\ ~SinCandado(hilo[t])
      /\ UNCHANGED <<meta, contenido, indice, rota>>
      /\ \/ ConEnlace(hilo[t].e, hilo[t].i, meta[hilo[t].e].bloques[hilo[t].i])
         \/ UNCHANGED enlace
  BY DEF NoEnlaza, SinCandado
<1>2. Tipos /\ hilo[t].e \in Etiquetas /\ EnHecho(meta, hilo[t])
  BY <1>1, EnMarcha
<1>3. hilo[t].i \in Nat \ {0} /\ meta[hilo[t].e].bloques[hilo[t].i] \in Bloques
  BY <1>1, <1>2, MetaMarco, ListaTipo DEF EnHecho
<1>4. /\ enlace' \in [Etiquetas -> Seq(Bloques \cup {SIN})]
      /\ \A d \in Etiquetas \ {hilo[t].e} : enlace'[d] = enlace[d]
  BY <1>1, <1>2, <1>3, ConEnlaceTipo, SinCambio
<1> QED BY <1>1, <1>4, DeshaceSalvo DEF Suyo

LEMMA NoEnlazaCeroSalvo ==
    ASSUME Orden, Salvo, NEW t \in Hilos, NoEnlazaCero(t)
    PROVE  Orden' /\ Salvo'
<1>1. /\ hilo[t].paso = "agranda" /\ ~SinCandado(hilo[t]) /\ Termina(t)
      /\ UNCHANGED <<meta, enlace, contenido, bitmap, indice, rota>> /\ Tipos
  BY DEF NoEnlazaCero, enDisco, SinCandado, Orden
<1>2. ~Commiteando(hilo[t]) /\ ~ConLista(hilo[t])
  BY <1>1 DEF Commiteando, ConLista, Fase
<1> QED BY <1>1, <1>2, SinCambio, FinSalvo DEF Conservan

LEMMA NoAchicaSalvo ==
    ASSUME Orden, Salvo, NEW t \in Hilos, NoAchica(t)
    PROVE  Orden' /\ Salvo'
<1>1. /\ hilo[t].paso = "achica" /\ ~SinCandado(hilo[t]) /\ Termina(t)
      /\ UNCHANGED <<meta, enlace, contenido, bitmap, indice>> /\ Tipos
      /\ rota' = (rota \/ hilo[t].lista # meta[hilo[t].e].bloques)
  BY DEF NoAchica, enDisco, SinCandado, Orden
<1>2. ~Commiteando(hilo[t]) /\ rota' \in BOOLEAN
  BY <1>1 DEF Commiteando, Fase, Tipos
<1> QED BY <1>1, <1>2, SinCambio, FinSalvo DEF Conservan

LEMMA NoCommitSalvo ==
    ASSUME Orden, Salvo, NEW t \in Hilos, NoCommit(t)
    PROVE  Orden' /\ Salvo'
<1>1. /\ hilo[t].paso = "hash" /\ ~SinCandado(hilo[t]) /\ Termina(t)
      /\ UNCHANGED <<meta, enlace, contenido, bitmap, indice>>
      /\ rota' = (rota \/ hilo[t].i > 1)
  BY DEF NoCommit, enDisco, SinCandado
<1>2. Tipos /\ EnHecho(meta, hilo[t]) /\ hilo[t].i \in Nat /\ Commiteando(hilo[t])
  BY <1>1, EnMarcha, HiloMarco DEF Commiteando, Fase
<1>3. ~rota' => ~rota /\ hilo[t].i <= 1 /\ hilo[t].lista = meta[hilo[t].e].bloques
  <2>1. ~rota' => ~rota /\ ~(hilo[t].i > 1)
    BY <1>1
  <2>2. /\ hilo[t].i \in 1..(Len(hilo[t].lista) + 1)
        /\ hilo[t].i = 1 => hilo[t].lista = meta[hilo[t].e].bloques
    BY <1>2 DEF EnHecho
  <2>3. ~(hilo[t].i > 1) => hilo[t].i = 1
    BY <2>2
  <2> QED BY <2>1, <2>2, <2>3
<1>4. rota' \in BOOLEAN
  BY <1>1, <1>2 DEF Tipos
<1> QED BY <1>1, <1>2, <1>3, <1>4, SinCambio, FinSalvo DEF Conservan

LEMMA TerminaDeleteSalvo ==
    ASSUME Orden, Salvo, NEW t \in Hilos, TerminaDelete(t), UNCHANGED rota
    PROVE  Orden' /\ Salvo'
<1>1. /\ hilo[t].paso = "borra" /\ hilo[t].lista = << >> /\ ~SinCandado(hilo[t]) /\ Termina(t)
      /\ UNCHANGED <<meta, enlace, contenido, bitmap, indice>>
  BY DEF TerminaDelete, SinCandado
<1>2. Tipos /\ EnHecho(meta, hilo[t]) /\ ~Commiteando(hilo[t])
  BY <1>1, EnMarcha DEF Commiteando, Fase
<1>3. hilo[t].lista = meta[hilo[t].e].bloques
  BY <1>1, <1>2 DEF EnHecho, Fase
<1> QED BY <1>1, <1>2, <1>3, SinCambio, FinSalvo DEF Conservan

\* The block 0 has a link of BASE besides its own name.
LEMMA NlinkCero ==
    ASSUME NEW en, en[BASE] = << 0 >>
    PROVE  nlink(en, 0) > 1
<1> DEFINE S == {x \in Etiquetas \X (1..MaxTam) : x[2] \in DOMAIN en[x[1]] /\ en[x[1]][x[2]] = 0}
<1>1. IsFiniteSet(S)
  <2>1. IsFiniteSet(1..MaxTam) /\ IsFiniteSet(Etiquetas)
    BY StorageSupuesto, FS_Interval
  <2>2. IsFiniteSet(Etiquetas \X (1..MaxTam))
    BY <2>1, FS_Product
  <2> QED BY <2>2, FS_Subset
<1>2. <<BASE, 1>> \in S
  BY StorageSupuesto
<1>3. nlink(en, 0) = 1 + Cardinality(S)
  BY DEF nlink
<1> HIDE DEF S
<1>4. Cardinality(S) \in Nat /\ Cardinality(S) # 0
  BY <1>1, <1>2, FS_CardinalityType, FS_EmptySet
<1> QED BY <1>3, <1>4

LEMMA CeroNoSeLibera ==
    ASSUME NEW en, en[BASE] = << 0 >>
    PROVE  ~SoloElFisico(en, 0)
<1>1. nlink(en, 0) > 1
  BY NlinkCero
<1> QED BY <1>1 DEF SoloElFisico

LEMMA EscribirBloqueSalvo ==
    ASSUME Orden, Salvo, NEW t \in Hilos, NEW e \in Etiquetas, NEW i \in Nat, NEW v \in Valores,
           escribirBloque(t, e, i, v), UNCHANGED rota
    PROVE  Orden' /\ Salvo'
<1> DEFINE b == meta[e].bloques[i]
           p == IF nlink(enlace, b) > 1 THEN "reserva" ELSE "sobrescribe"
           r == [Libre EXCEPT !.paso = p, !.e = e, !.i = i, !.v = v, !.b = b]
<1>1. /\ lock_file_metadata(t, e) /\ Modificable(e) /\ i \in DOMAIN meta[e].bloques /\ Va(t, r)
      /\ UNCHANGED <<meta, enlace, contenido, bitmap, indice, rota>>
  BY DEF escribirBloque
<1>2. Tipos /\ EnCero /\ meta[e].bloques \in Seq(Bloques) /\ meta[e].estado = "WORK_IN_PROGRESS"
  BY <1>1, MetaMarco DEF Orden, Modificable
<1>3. b \in Bloques
  BY <1>1, <1>2
<1>4. p = "sobrescribe" => b # 0
  BY <1>2, NlinkCero DEF EnCero
<1>5. p \in {"reserva", "sobrescribe"}
  OBVIOUS
<1> HIDE DEF p, b
<1>6. r \in Marco /\ r.paso = p /\ r.e = e /\ r.i = i /\ r.v = v /\ r.b = b /\ r.sigue = "libre"
  BY <1>3, <1>5, LibreMarco DEF Marco, Hechos, Pasos, Libre
<1> HIDE DEF r
<1>7. Paso(t, e, r) /\ ~Commiteando(hilo[t]) /\ \A s : ListasCon(s, hilo[t]) = {s}
  BY <1>1, <1>5, <1>6, AlTomar DEF SinCandado
<1>8. Conservan
  BY <1>1, <1>2, SinCambio DEF Conservan
<1>9. EnHecho(meta', r)
  BY <1>1, <1>2, <1>4, <1>5, <1>6 DEF EnHecho, Fase, Escribiendo, Commiteando, SinCandado, b
<1>10. Menos(t, e, r)
  BY <1>1, <1>5, <1>6, <1>7 DEF Menos, ListasCon, ConLista, Fase
<1>11. ~Suyo(r) /\ r.paso \notin {"enlaza", "enlaza2"}
  BY <1>5, <1>6 DEF Suyo
<1> QED BY <1>1, <1>2, <1>6, <1>7, <1>8, <1>9, <1>10, <1>11, PasoMenos

LEMMA ReservaSalvo ==
    ASSUME Orden, Salvo, NEW t \in Hilos, reservarBloqueLibre(t), UNCHANGED rota
    PROVE  Orden' /\ Salvo'
<1> DEFINE libres == Bloques \ bitmap
           b == Elegido(libres)
           e == hilo[t].e
           r == [hilo[t] EXCEPT !.paso = "copia", !.b = b]
<1>1. /\ hilo[t].paso = "reserva" /\ ~SinCandado(hilo[t])
      /\ UNCHANGED <<meta, enlace, contenido, indice, rota>>
  BY DEF reservarBloqueLibre, SinCandado
<1>2. /\ Tipos /\ Cerrojos /\ hilo[t] \in Marco /\ e \in Etiquetas /\ EnHecho(meta, hilo[t])
      /\ meta[e].estado # "COMMITED"
  BY <1>1, EnMarcha
<1>3. CASE libres = {}
  <2>1. Termina(t) /\ UNCHANGED bitmap
    BY <1>3 DEF reservarBloqueLibre
  <2>2. ~Commiteando(hilo[t]) /\ ~ConLista(hilo[t])
    BY <1>1 DEF Commiteando, ConLista, Fase
  <2> HIDE DEF libres, b, r, e
  <2>3. Conservan
    BY <1>1, <1>2, <2>1, SinCambio DEF Conservan
  <2> QED BY <1>1, <2>1, <2>2, <2>3, FinSalvo
<1>4. CASE libres # {}
  <2>1. bitmap' = bitmap \cup {b} /\ Va(t, r) /\ UNCHANGED candado
    BY <1>4 DEF reservarBloqueLibre, Marca
  <2>2. b \in libres
    <3>1. libres \subseteq Nat /\ IsFiniteSet(libres)
      BY StorageSupuesto, FS_Subset
    <3> QED BY <1>4, <3>1, MinEsMinimo DEF Elegido
  <2> HIDE DEF b
  <2>3. /\ r \in Marco /\ r.paso = "copia" /\ r.e = e /\ r.b = b
        /\ r.i = hilo[t].i /\ r.v = hilo[t].v /\ r.sigue = hilo[t].sigue
    <3>1. b \in Bloques
      BY <2>2
    <3> QED BY <1>2, <3>1 DEF Marco, Hechos, Pasos
  <2> HIDE DEF r
  <2>4. Paso(t, e, r)
    BY <1>1, <2>1, <2>3, AlSeguir DEF SinCandado
  <2>5. Conservan
    BY <1>1, <1>2, <2>1, <2>2, SinCambio DEF Conservan, Tipos
  <2>6. EnHecho(meta', r)
    BY <1>1, <1>2, <2>3 DEF EnHecho, Fase, Escribiendo, Commiteando, SinCandado
  <2>7. Orden'
    BY <1>1, <1>2, <2>3, <2>4, <2>5, <2>6, PasoOrden DEF Conservan
  <2> HIDE DEF e
  <2>8. ListasCon(meta[e].bloques, hilo[t]) = {meta[e].bloques}
        /\ ListasCon(meta[e].bloques, r) = {meta[e].bloques}
        /\ ~Commiteando(hilo[t])
    BY <1>1, <2>3 DEF ListasCon, ConLista, Fase, Commiteando
  <2>9. Mudanza(t, e, r, 0)
    <3>1. \A i \in DOMAIN meta[e].bloques : i \in Nat /\ i + 0 = i
      BY <1>2, MetaMarco, ListaTipo
    <3>2. \A i : ~FirmeCon(meta[e], hilo[t], i)
      BY <1>2, <2>8 DEF FirmeCon
    <3> QED BY <1>1, <2>8, <3>1, <3>2 DEF Mudanza
  <2> SUFFICES ASSUME ~rota
               PROVE  Reparto(Listas', Firmes', bitmap', Suyos', indice') /\ Existen'
    BY <1>1, <2>7 DEF Salvo
  <2>10. /\ Propias(Listas, Firmes) /\ EnBitmap(Listas, bitmap) /\ DeCadaHilo(Listas, bitmap, Suyos)
         /\ \A v \in Valores : indice[v] # NULL => Registrado(Listas, Firmes, indice[v])
         /\ Existen /\ <<0>> \in Listas[BASE]
    BY DeBloquesSiempre DEF Salvo, Reparto, DeBloques
  <2>11. /\ Propias(Listas', Firmes') /\ EnBitmap(Listas', bitmap)
         /\ \A c : c # 0 /\ Nadie(Listas, c) => Nadie(Listas', c)
         /\ \A c : Registrado(Listas, Firmes, c) => Registrado(Listas', Firmes', c)
    BY <1>1, <1>2, <2>3, <2>4, <2>7, <2>9, <2>10, PasoMudanza
  <2>12. LosSuyos(t, r) /\ ~Suyo(hilo[t])
    BY <1>1, <1>2, <2>3, <2>4, PasoListas DEF Suyo
  <2>13. Nadie(Listas', b) /\ b \notin bitmap
    BY <2>2, <2>11 DEF Nadie, EnBitmap
  <2>14. \A x \in Suyos : x[2] # 0 /\ x[2] \in bitmap /\ Nadie(Listas', x[2])
    BY <2>10, <2>11, CeroOcupado DEF DeCadaHilo
  <2>15. EnBitmap(Listas', bitmap')
    BY <2>1, <2>11 DEF EnBitmap
  <2>16. DeCadaHilo(Listas', bitmap', Suyos')
    <3>1. \A x : x \in Suyos' => x = <<t, b>> \/ x \in Suyos
      BY <2>3, <2>12 DEF LosSuyos
    <3>2. \A x, y \in Suyos : x[2] = y[2] => x = y
      BY <2>10 DEF DeCadaHilo
    <3> QED BY <2>1, <2>13, <2>14, <3>1, <3>2 DEF DeCadaHilo
  <2>17. Existen'
    BY <1>2, <2>3, <2>4, <2>10, PasoMarco DEF Existen
  <2> QED BY <1>1, <2>10, <2>11, <2>15, <2>16, <2>17 DEF Reparto
<1> QED BY <1>3, <1>4

LEMMA EscribeSalvo ==
    ASSUME Orden, Salvo, NEW t \in Hilos, Escribe(t)
    PROVE  Orden' /\ Salvo'
<1> DEFINE e == hilo[t].e
           r == [hilo[t] EXCEPT !.paso = "enlaza"]
<1>1. /\ hilo[t].paso \in {"copia", "sobrescribe"} /\ ~SinCandado(hilo[t])
      /\ hilo[t].b \notin Ausentes
      /\ contenido' = [contenido EXCEPT ![hilo[t].b] = hilo[t].v]
      /\ UNCHANGED <<meta, enlace, bitmap, indice, rota>>
  BY DEF Escribe, escribirFisicoDirecto, SinCandado
<1>2. /\ Tipos /\ Cerrojos /\ hilo[t] \in Marco /\ e \in Etiquetas /\ EnHecho(meta, hilo[t])
      /\ meta[e].estado # "COMMITED"
  BY <1>1, EnMarcha
<1>3. Conservan
  <2>1. hilo[t].v \in Valores
    BY <1>1, <1>2 DEF EnHecho, Escribiendo
  <2>2. contenido' \in [Bloques -> Valores]
    BY <1>1, <1>2, <2>1 DEF Tipos
  <2> QED BY <1>1, <1>2, <2>2, SinCambio DEF Conservan
<1>4. CASE hilo[t].paso = "sobrescribe"
  <2>1. ~Commiteando(hilo[t]) /\ ~ConLista(hilo[t]) /\ Termina(t)
    BY <1>4 DEF Commiteando, ConLista, Fase, Escribe, escribirFisicoDirecto
  <2> HIDE DEF e
  <2> QED BY <1>1, <1>3, <2>1, FinSalvo
<1>5. CASE hilo[t].paso = "copia"
  <2>1. Va(t, r) /\ UNCHANGED candado
    BY <1>5 DEF Escribe, escribirFisicoDirecto
  <2>2. /\ r \in Marco /\ r.paso = "enlaza" /\ r.e = e /\ r.b = hilo[t].b
        /\ r.i = hilo[t].i /\ r.v = hilo[t].v /\ r.sigue = hilo[t].sigue
    BY <1>2 DEF Marco, Hechos, Pasos
  <2> HIDE DEF r
  <2>3. Paso(t, e, r)
    BY <1>1, <2>1, <2>2, AlSeguir DEF SinCandado
  <2>4. EnHecho(meta', r)
    BY <1>1, <1>2, <1>5, <2>2 DEF EnHecho, Fase, Escribiendo, Commiteando, SinCandado
  <2>5. Menos(t, e, r) /\ Suyo(hilo[t])
    BY <1>1, <1>5, <2>2 DEF Menos, ListasCon, ConLista, Commiteando, Fase, Suyo
  <2> HIDE DEF e
  <2> QED BY <1>1, <1>2, <1>3, <2>2, <2>3, <2>4, <2>5, PasoMenos
<1> QED BY <1>1, <1>4, <1>5

LEMMA DesenlazaSalvo ==
    ASSUME Orden, Salvo, NEW t \in Hilos, Desenlaza(t)
    PROVE  Orden' /\ Salvo'
<1> DEFINE e == hilo[t].e
           r == [hilo[t] EXCEPT !.paso = "enlaza2", !.v = NULL]
<1>1. /\ hilo[t].paso = "enlaza" /\ ~SinCandado(hilo[t]) /\ Va(t, r)
      /\ ConEnlace(e, hilo[t].i, SIN)
      /\ UNCHANGED <<meta, contenido, bitmap, indice, rota, candado>>
  BY DEF Desenlaza, SinCandado, mutexes
<1>2. /\ Tipos /\ Cerrojos /\ hilo[t] \in Marco /\ e \in Etiquetas /\ EnHecho(meta, hilo[t])
      /\ meta[e].estado # "COMMITED"
  BY <1>1, EnMarcha
<1>3. hilo[t].i \in Nat \ {0}
  BY <1>1, <1>2, MetaMarco, ListaTipo DEF EnHecho, Escribiendo
<1>4. /\ enlace' \in [Etiquetas -> Seq(Bloques \cup {SIN})]
      /\ \A d \in Etiquetas \ {e} : enlace'[d] = enlace[d]
  BY <1>1, <1>2, <1>3, ConEnlaceTipo
<1>5. Conservan
  BY <1>1, <1>2, <1>4, SinCambio DEF Conservan
<1>6. /\ r \in Marco /\ r.paso = "enlaza2" /\ r.e = e /\ r.b = hilo[t].b
      /\ r.i = hilo[t].i /\ r.sigue = hilo[t].sigue
  BY <1>2 DEF Marco, Hechos, Pasos
<1> HIDE DEF r
<1>7. Paso(t, e, r)
  BY <1>1, <1>6, AlSeguir DEF SinCandado
<1>8. EnHecho(meta', r)
  BY <1>1, <1>2, <1>6 DEF EnHecho, Fase, Escribiendo, Commiteando, SinCandado
<1>9. Menos(t, e, r) /\ Suyo(hilo[t])
  BY <1>1, <1>6 DEF Menos, ListasCon, ConLista, Commiteando, Fase, Suyo
<1>10. ~rota => hilo[t].b \notin Ausentes
  BY <1>1 DEF Salvo, Existen
<1> HIDE DEF e
<1> QED BY <1>1, <1>2, <1>4, <1>5, <1>6, <1>7, <1>8, <1>9, <1>10, PasoMenos

\* An operation starts on e, with the lists it has.
Comienzo(p, e, n) == [Libre EXCEPT !.paso = p, !.e = e, !.i = n, !.lista = meta[e].bloques]

LEMMA EmpiezaSalvo ==
    ASSUME Orden, Salvo, NEW t \in Hilos, NEW e \in Etiquetas, NEW n \in Nat, NEW p,
           p \in {"agranda", "achica", "hash"}, lock_file_metadata(t, e),
           meta[e].estado = "WORK_IN_PROGRESS",
           p = "achica" => n < Len(meta[e].bloques), p = "hash" => n = 1,
           Va(t, Comienzo(p, e, n)), UNCHANGED <<meta, enlace, contenido, bitmap, indice, rota>>
    PROVE  Orden' /\ Salvo'
<1> DEFINE r == Comienzo(p, e, n)
<1>1. Tipos /\ meta[e].bloques \in Seq(Bloques) /\ Len(meta[e].bloques) \in Nat
  BY MetaMarco, ListaTipo DEF Orden
<1>2. /\ r \in Marco /\ r.paso = p /\ r.e = e /\ r.i = n /\ r.lista = meta[e].bloques
      /\ r.sigue = "libre" /\ Va(t, r)
  BY <1>1, LibreMarco DEF Marco, Hechos, Pasos, Libre, Comienzo
<1> HIDE DEF r
<1>3. Paso(t, e, r) /\ ~Commiteando(hilo[t]) /\ \A s : ListasCon(s, hilo[t]) = {s}
  BY <1>2, AlTomar DEF SinCandado
<1>4. Conservan
  BY <1>1, SinCambio DEF Conservan
<1>5. EnHecho(meta', r)
  BY <1>1, <1>2 DEF EnHecho, Fase, Escribiendo, Commiteando, SinCandado
<1>6. Menos(t, e, r)
  BY <1>2, <1>3 DEF Menos, ListasCon, ConLista, Fase
<1>7. ~Suyo(r) /\ r.paso \notin {"enlaza", "enlaza2"}
  BY <1>2 DEF Suyo
<1> QED BY <1>1, <1>2, <1>3, <1>4, <1>5, <1>6, <1>7, PasoMenos

LEMMA AgrandaSalvo ==
    ASSUME Orden, Salvo, NEW t \in Hilos, NEW e \in Etiquetas, NEW n \in Nat, Agranda(t, e, n)
    PROVE  Orden' /\ Salvo'
<1>1. /\ Va(t, Comienzo("agranda", e, n)) /\ lock_file_metadata(t, e)
      /\ meta[e].estado = "WORK_IN_PROGRESS"
      /\ UNCHANGED <<meta, enlace, contenido, bitmap, indice, rota>>
  BY DEF Comienzo, Agranda, Modificable, enDisco
<1> QED BY <1>1, EmpiezaSalvo

LEMMA AchicaSalvo ==
    ASSUME Orden, Salvo, NEW t \in Hilos, NEW e \in Etiquetas, NEW n \in Nat,
           truncate_achica(t, e, n), UNCHANGED rota
    PROVE  Orden' /\ Salvo'
<1>1. /\ Va(t, Comienzo("achica", e, n)) /\ lock_file_metadata(t, e)
      /\ meta[e].estado = "WORK_IN_PROGRESS"
      /\ UNCHANGED <<meta, enlace, contenido, bitmap, indice, rota>>
  BY DEF Comienzo, truncate_achica, Modificable
<1>2. n < Len(meta[e].bloques)
  BY DEF truncate_achica
<1> QED BY <1>1, <1>2, EmpiezaSalvo

LEMMA CommitFileSalvo ==
    ASSUME Orden, Salvo, NEW t \in Hilos, NEW e \in Etiquetas, commitFile(t, e), UNCHANGED rota
    PROVE  Orden' /\ Salvo'
<1>1. /\ Va(t, Comienzo("hash", e, 1)) /\ lock_file_metadata(t, e)
      /\ meta[e].estado = "WORK_IN_PROGRESS"
      /\ UNCHANGED <<meta, enlace, contenido, bitmap, indice, rota>>
  BY DEF Comienzo, commitFile
<1> QED BY <1>1, EmpiezaSalvo

\* rm -rf comes first: what is left is to go through the blocks it had.
LEMMA EliminarTagSalvo ==
    ASSUME Orden, Salvo, ~BorraCommiteado, NEW t \in Hilos, NEW e \in Etiquetas,
           eliminarTag(t, e), UNCHANGED rota
    PROVE  Orden' /\ Salvo'
<1> DEFINE r == [Libre EXCEPT !.paso = "borra", !.e = e, !.lista = meta[e].bloques]
<1>1. /\ lock_file_metadata(t, e) /\ meta[e].estado = "WORK_IN_PROGRESS" /\ Va(t, r)
      /\ meta' = [meta EXCEPT ![e] = NoExiste] /\ enlace' = [enlace EXCEPT ![e] = << >>]
      /\ UNCHANGED <<contenido, bitmap, indice, rota>>
  BY DEF eliminarTag
<1>2. Tipos /\ meta[e].bloques \in Seq(Bloques)
  BY MetaMarco DEF Orden
<1>3. /\ r \in Marco /\ r.paso = "borra" /\ r.e = e /\ r.lista = meta[e].bloques
      /\ r.sigue = "libre"
  BY <1>2, LibreMarco DEF Marco, Hechos, Pasos, Libre
<1> HIDE DEF r
<1>4. Paso(t, e, r) /\ ~Commiteando(hilo[t]) /\ \A s : ListasCon(s, hilo[t]) = {s}
  BY <1>1, <1>3, AlTomar DEF SinCandado
<1>5. NoExiste \in [bloques : Seq(Bloques), estado : EnDirectorio] /\ NoExiste.bloques = << >>
      /\ NoExiste.estado # "COMMITED"
  BY EmptySeq DEF NoExiste, EnDirectorio, Estados
<1>6. /\ meta' \in [Etiquetas -> [bloques : Seq(Bloques), estado : EnDirectorio]]
      /\ meta'[e] = NoExiste /\ \A d \in Etiquetas \ {e} : meta'[d] = meta[d]
  BY <1>1, <1>2, <1>5, CambiaMeta
<1>7. /\ enlace' \in [Etiquetas -> Seq(Bloques \cup {SIN})]
      /\ \A d \in Etiquetas \ {e} : enlace'[d] = enlace[d]
  BY <1>1, <1>2, EmptySeq DEF Tipos
<1>8. Conservan
  BY <1>1, <1>2, <1>6, <1>7, SinCambio DEF Conservan
<1>9. EnHecho(meta', r)
  BY <1>3, <1>5, <1>6 DEF EnHecho, Fase, Escribiendo, Commiteando, SinCandado
<1>10. Menos(t, e, r)
  BY <1>3, <1>4 DEF Menos, ListasCon, ConLista, Fase
<1>11. ~Suyo(r) /\ r.paso \notin {"enlaza", "enlaza2"}
  BY <1>3 DEF Suyo
<1>12. (~rota' => ~rota) /\ indice' = indice /\ bitmap' = bitmap
  BY <1>1
<1> QED BY <1>1, <1>3, <1>4, <1>6, <1>7, <1>8, <1>9, <1>10, <1>11, <1>12, PasoMenos

LEMMA TerminaTruncateSalvo ==
    ASSUME Orden, Salvo, NEW t \in Hilos, TerminaTruncate(t), UNCHANGED rota
    PROVE  Orden' /\ Salvo'
<1> DEFINE e == hilo[t].e
           m == [meta[e] EXCEPT !.bloques = hilo[t].lista]
<1>1. /\ hilo[t].paso = "achica" /\ ~SinCandado(hilo[t]) /\ Termina(t)
      /\ UNCHANGED <<enlace, contenido, bitmap, indice, rota>>
      /\ meta' = [meta EXCEPT ![e] = m]
  BY DEF TerminaTruncate, SinCandado
<1>2. /\ Tipos /\ e \in Etiquetas /\ meta[e].estado # "COMMITED" /\ hilo[t].lista \in Seq(Bloques)
      /\ meta[e] \in [bloques : Seq(Bloques), estado : EnDirectorio]
  BY <1>1, EnMarcha, HiloMarco
<1>3. m \in [bloques : Seq(Bloques), estado : EnDirectorio] /\ m.bloques = hilo[t].lista
  BY <1>2
<1> HIDE DEF m
<1>4. /\ Libre \in Marco /\ Libre.paso = "libre" /\ Paso(t, e, Libre)
      /\ EnHecho(meta', Libre) /\ ~Suyo(Libre) /\ \A s : ListasCon(s, Libre) = {s}
  BY <1>1, AlTerminar
<1>5. Conservan /\ meta'[e] = m /\ \A d \in Etiquetas \ {e} : meta'[d] = meta[d]
  BY <1>1, <1>2, <1>3, CambiaMeta, SinCambio DEF Conservan
<1>6. Menos(t, e, Libre)
  BY <1>1, <1>3, <1>4, <1>5 DEF Menos, ListasCon, ConLista, Commiteando, Fase
<1> HIDE DEF e
<1>7. /\ ~rota' => ~rota
      /\ indice' = indice /\ bitmap' = bitmap /\ \A d \in Etiquetas \ {e} : enlace'[d] = enlace[d]
  BY <1>1
<1> QED BY <1>1, <1>2, <1>4, <1>5, <1>6, <1>7, PasoMenos

LEMMA TerminaCommitSalvo ==
    ASSUME Orden, Salvo, NEW t \in Hilos, TerminaCommit(t), UNCHANGED rota
    PROVE  Orden' /\ Salvo'
<1> DEFINE e == hilo[t].e
           m == [bloques |-> hilo[t].lista, estado |-> "COMMITED"]
<1>1. /\ hilo[t].paso = "hash" /\ ~SinCandado(hilo[t]) /\ Termina(t)
      /\ UNCHANGED <<enlace, contenido, bitmap, indice, rota>>
      /\ meta' = [meta EXCEPT ![e] = m]
  BY DEF TerminaCommit, SinCandado
<1>2. /\ Tipos /\ e \in Etiquetas /\ meta[e].estado # "COMMITED" /\ hilo[t].lista \in Seq(Bloques)
  BY <1>1, EnMarcha, HiloMarco
<1>3. m \in [bloques : Seq(Bloques), estado : EnDirectorio] /\ m.bloques = hilo[t].lista
      /\ m.estado = "COMMITED"
  BY <1>2 DEF EnDirectorio, Estados
<1> HIDE DEF m
<1>4. /\ Libre \in Marco /\ Libre.paso = "libre" /\ Paso(t, e, Libre)
      /\ EnHecho(meta', Libre) /\ ~Suyo(Libre) /\ \A s : ListasCon(s, Libre) = {s}
  BY <1>1, AlTerminar
<1>5. Conservan /\ meta'[e] = m /\ \A d \in Etiquetas \ {e} : meta'[d] = meta[d]
  BY <1>1, <1>2, <1>3, CambiaMeta, SinCambio DEF Conservan
<1>6. Menos(t, e, Libre)
  BY <1>1, <1>3, <1>4, <1>5 DEF Menos, ListasCon, ConLista, Commiteando, Fase, FirmeCon
<1> HIDE DEF e
<1>7. /\ ~rota' => ~rota
      /\ indice' = indice /\ bitmap' = bitmap /\ \A d \in Etiquetas \ {e} : enlace'[d] = enlace[d]
  BY <1>1
<1> QED BY <1>1, <1>2, <1>4, <1>5, <1>6, <1>7, PasoMenos

LEMMA LimpiaBitSalvo ==
    ASSUME Orden, Salvo, NEW t \in Hilos, LimpiaBit(t), UNCHANGED rota
    PROVE  Orden' /\ Salvo'
<1> DEFINE e == hilo[t].e
           r == [hilo[t] EXCEPT !.paso = hilo[t].sigue, !.sigue = "libre"]
<1>1. /\ hilo[t].paso = "libera" /\ ~SinCandado(hilo[t]) /\ Va(t, r)
      /\ bitmap' = bitmap \ {hilo[t].b}
      /\ UNCHANGED <<meta, enlace, contenido, indice, candado, rota>>
  BY DEF LimpiaBit, SinCandado
<1>2. /\ Tipos /\ Cerrojos /\ hilo[t] \in Marco /\ e \in Etiquetas /\ EnHecho(meta, hilo[t])
      /\ meta[e].estado # "COMMITED"
  BY <1>1, EnMarcha
<1>3. hilo[t].sigue \in {"achica", "borra", "hash"}
  BY <1>1, <1>2 DEF EnHecho
<1>4. /\ r \in Marco /\ r.paso = hilo[t].sigue /\ r.e = e /\ r.b = hilo[t].b
      /\ r.i = hilo[t].i /\ r.lista = hilo[t].lista /\ r.sigue = "libre"
  BY <1>2, <1>3 DEF Marco, Hechos, Pasos
<1> HIDE DEF r
<1>5. Paso(t, e, r)
  BY <1>1, <1>3, <1>4, AlSeguir DEF SinCandado
<1>6. Conservan
  BY <1>1, <1>2, SinCambio DEF Conservan, Tipos
<1>7. Fase(r) = Fase(hilo[t]) /\ r.paso # "libera"
  BY <1>1, <1>3, <1>4 DEF Fase
<1>8. EnHecho(meta', r)
  BY <1>1, <1>2, <1>3, <1>4, <1>7 DEF EnHecho, Escribiendo, Commiteando, SinCandado
<1>9. Menos(t, e, r)
  <2>1. ConLista(r) /\ ConLista(hilo[t])
    BY <1>1, <1>3, <1>7 DEF ConLista, Fase
  <2> QED BY <1>1, <1>4, <1>7, <2>1 DEF Menos, ListasCon, Commiteando, FirmeCon
<1>10. ~Suyo(r) /\ Suyo(hilo[t]) /\ r.paso \notin {"enlaza", "enlaza2"}
  BY <1>1, <1>3, <1>4 DEF Suyo
<1> HIDE DEF e
<1> QED BY <1>1, <1>2, <1>4, <1>5, <1>6, <1>8, <1>9, <1>10, PasoMenos

LEMMA HashSalvo ==
    ASSUME Orden, Salvo, NEW t \in Hilos, Hash(t)
    PROVE  Orden' /\ Salvo'
<1> DEFINE e == hilo[t].e
           v == contenido[hilo[t].lista[hilo[t].i]]
           r == [hilo[t] EXCEPT !.paso = "indice", !.v = v]
<1>1. /\ hilo[t].paso = "hash" /\ hilo[t].i <= Len(hilo[t].lista) /\ ~SinCandado(hilo[t])
      /\ Va(t, r) /\ UNCHANGED <<meta, enlace, contenido, bitmap, indice, candado, rota>>
  BY DEF Hash, obtener_hash_bloque, SinCandado
<1>2. /\ Tipos /\ Cerrojos /\ hilo[t] \in Marco /\ e \in Etiquetas /\ EnHecho(meta, hilo[t])
      /\ meta[e].estado # "COMMITED" /\ hilo[t].lista \in Seq(Bloques)
  BY <1>1, EnMarcha, HiloMarco
<1>3. hilo[t].i \in DOMAIN hilo[t].lista /\ v \in Valores
  <2>1. hilo[t].i \in 1..(Len(hilo[t].lista) + 1)
    BY <1>1, <1>2 DEF EnHecho, Commiteando, Fase
  <2>2. hilo[t].i \in DOMAIN hilo[t].lista
    BY <1>1, <1>2, <2>1, ListaTipo
  <2>3. hilo[t].lista[hilo[t].i] \in Bloques
    BY <1>2, <2>2, ListaTipo
  <2> QED BY <1>2, <2>2, <2>3 DEF Tipos
<1> HIDE DEF v
<1>4. /\ r \in Marco /\ r.paso = "indice" /\ r.e = e /\ r.b = hilo[t].b /\ r.v = v
      /\ r.i = hilo[t].i /\ r.lista = hilo[t].lista /\ r.sigue = hilo[t].sigue
  BY <1>2, <1>3 DEF Marco, Hechos, Pasos
<1> HIDE DEF r
<1>5. Paso(t, e, r)
  BY <1>1, <1>4, AlSeguir DEF SinCandado
<1>6. Conservan
  BY <1>1, <1>2, SinCambio DEF Conservan
<1>7. EnHecho(meta', r)
  BY <1>1, <1>2, <1>3, <1>4 DEF EnHecho, Fase, Escribiendo, Commiteando, SinCandado
<1>8. Menos(t, e, r)
  BY <1>1, <1>4 DEF Menos, ListasCon, ConLista, Commiteando, Fase, FirmeCon
<1>9. ~Suyo(r) /\ r.paso \notin {"enlaza", "enlaza2"}
  BY <1>4 DEF Suyo
<1> HIDE DEF e
<1> QED BY <1>1, <1>2, <1>4, <1>5, <1>6, <1>7, <1>8, <1>9, PasoMenos

-----------------------------------------------------------------------------
(***************************************************************************)
(* The steps that look at the links of a block they give up.               *)
(***************************************************************************)

LEMMA LiberaSigue ==
    ASSUME Orden, NEW t \in Hilos, ~SinCandado(hilo[t]), candado' = candado,
           NEW q \in Marco, q.e = hilo[t].e, q.paso \in {"achica", "borra", "hash"},
           q.sigue = "libre", EnHecho(meta', q), NEW en, Libera(t, en, q)
    PROVE  \E r \in Marco :
              /\ Paso(t, hilo[t].e, r) /\ EnHecho(meta', r)
              /\ Fase(r) = q.paso /\ r.i = q.i /\ r.b = q.b
              /\ r.paso \notin {"enlaza", "enlaza2"} /\ (Suyo(r) => SoloElFisico(en, q.b))
              /\ \A s : ListasCon(s, r) = {q.lista}
<1> DEFINE r == IF SoloElFisico(en, q.b) THEN [q EXCEPT !.paso = "libera", !.sigue = q.paso] ELSE q
<1>1. /\ r \in Marco /\ Va(t, r) /\ r.i = q.i /\ r.b = q.b /\ r.lista = q.lista /\ r.e = q.e
      /\ \/ r.paso = "libera" /\ r.sigue = q.paso /\ SoloElFisico(en, q.b)
         \/ r.paso = q.paso /\ r.sigue = "libre"
  BY DEF Libera, Marco, Hechos, Pasos
<1> HIDE DEF r
<1>2. Fase(r) = q.paso /\ Fase(q) = q.paso /\ ~SinCandado(r) /\ ~SinCandado(q)
  BY <1>1 DEF Fase, SinCandado
<1>3. Paso(t, hilo[t].e, r)
  BY <1>1, <1>2, AlSeguir
<1>4. EnHecho(meta', r)
  BY <1>1, <1>2 DEF EnHecho, Escribiendo, Commiteando
<1>5. \A s : ListasCon(s, r) = {q.lista}
  BY <1>1, <1>2 DEF ListasCon, ConLista
<1>6. Suyo(r) => SoloElFisico(en, q.b)
  BY <1>1 DEF Suyo
<1> QED BY <1>1, <1>2, <1>3, <1>4, <1>5, <1>6

\* A place that was not settled gives up a block: nobody else has it.
LEMMA PasoGana ==
    ASSUME Orden, Orden', ~rota, Salvo, NEW t \in Hilos, NEW e \in Etiquetas, NEW r \in Marco,
           NEW m \in Nat, Paso(t, e, r), \A d \in Etiquetas \ {e} : meta'[d] = meta[d],
           NEW s \in ListasCon(meta[e].bloques, hilo[t]), NEW k \in DOMAIN s,
           s[k] = r.b, r.b # 0, ~FirmeCon(meta[e], hilo[t], k),
           \A z \in ListasCon(meta'[e].bloques, r) : \A j \in DOMAIN z : z[j] = r.b =>
              \E y \in ListasCon(meta[e].bloques, hilo[t]) :
                 j + m \in DOMAIN y /\ y[j + m] = r.b /\ j + m # k
    PROVE  Gana(t, r)
<1>1. Propias(Listas, Firmes) /\ EnBitmap(Listas, bitmap) /\ DeCadaHilo(Listas, bitmap, Suyos)
  BY DEF Salvo, Reparto
<1>2. LasListas(t, e, r)
  <2>1. Tipos /\ Cerrojos
    BY DEF Orden
  <2> QED BY <2>1, PasoListas
<1>3. s \in Listas[e] /\ <<e, k>> \notin Firmes /\ s[k] # 0
  <2>1. s \in Listas[e] /\ Listas[e] \subseteq Seq(Bloques)
    BY <1>2, DeBloquesSiempre DEF LasListas, DeBloques
  <2>2. s \in Seq(Bloques)
    BY <2>1
  <2>3. k \in Nat
    BY <2>2, ListaTipo
  <2> QED BY <1>2, <2>1, <2>3 DEF LasListas
<1>4. /\ s[k] \in bitmap /\ \A x \in Suyos : x[2] # s[k]
      /\ \A d \in Etiquetas \ {e} : \A z \in Listas[d] : \A j \in DOMAIN z : z[j] # s[k]
      /\ \A z \in Listas[e] : \A j \in DOMAIN z : z[j] = s[k] => j = k
  <2>1. s[k] \in bitmap /\ \A x \in Suyos : x[2] # s[k]
    BY <1>1, <1>3 DEF EnBitmap, DeCadaHilo, Nadie
  <2>2. \A d \in Etiquetas : \A z \in Listas[d] : \A j \in DOMAIN z :
           z[j] = s[k] => e = d /\ k = j
    BY <1>1, <1>3 DEF Propias
  <2> QED BY <2>1, <2>2
<1>5. Nadie(Listas', r.b)
  <2> SUFFICES ASSUME NEW d \in Etiquetas, NEW z \in Listas'[d], NEW j \in DOMAIN z, z[j] = r.b
               PROVE  FALSE
    BY DEF Nadie
  <2>1. CASE d = e
    BY <1>2, <1>4, <2>1 DEF LasListas
  <2>2. CASE d # e
    BY <1>2, <1>4, <2>2 DEF LasListas
  <2> QED BY <2>1, <2>2
<1> QED BY <1>4, <1>5 DEF Gana

LEMMA DesenlazaFinalSalvo ==
    ASSUME Orden, Salvo, NEW t \in Hilos, DesenlazaFinal(t)
    PROVE  Orden' /\ Salvo'
<1> DEFINE e == hilo[t].e
           s == hilo[t].lista
           k == Len(s)
           q == [hilo[t] EXCEPT !.b = Last(s), !.lista = Front(s)]
<1>1. /\ hilo[t].paso = "achica" /\ k > hilo[t].i /\ ~SinCandado(hilo[t])
      /\ ConEnlace(e, k, SIN) /\ Libera(t, enlace', q)
      /\ UNCHANGED <<meta, contenido, bitmap, indice, candado, rota>>
  BY DEF DesenlazaFinal, SinCandado, mutexes
<1>2. /\ Tipos /\ Cerrojos /\ hilo[t] \in Marco /\ e \in Etiquetas /\ EnHecho(meta, hilo[t])
      /\ meta[e].estado # "COMMITED" /\ s \in Seq(Bloques) /\ hilo[t].i \in Nat
  BY <1>1, EnMarcha, HiloMarco
<1>3. /\ k \in Nat \ {0} /\ k \in DOMAIN s /\ Last(s) = s[k] /\ s[k] \in Bloques
      /\ Front(s) \in Seq(Bloques) /\ Len(Front(s)) = k - 1
      /\ \A i \in DOMAIN Front(s) : i \in Nat /\ i \in DOMAIN s /\ i # k /\ Front(s)[i] = s[i]
  <2>1. k \in Nat /\ k > 0
    BY <1>1, <1>2, ListaTipo
  <2>2. /\ Front(s) \in Seq(Bloques) /\ Len(Front(s)) = k - 1 /\ Last(s) = s[k]
        /\ Last(s) \in Bloques /\ k \in DOMAIN s
        /\ \A i \in DOMAIN Front(s) : i \in DOMAIN s /\ i < k /\ Front(s)[i] = s[i]
    BY <1>2, <2>1, FrontTipo
  <2>3. \A i \in DOMAIN Front(s) : i \in Nat
    BY <2>2, ListaTipo
  <2> QED BY <2>1, <2>2, <2>3
<1>4. /\ q \in Marco /\ q.paso = "achica" /\ q.e = e /\ q.i = hilo[t].i /\ q.b = s[k]
      /\ q.lista = Front(s) /\ q.sigue = hilo[t].sigue
  BY <1>1, <1>2, <1>3 DEF Marco
<1> HIDE DEF q, k
<1>5. EnHecho(meta', q) /\ q.sigue = "libre"
  <2>1. q.i <= Len(q.lista)
    BY <1>1, <1>2, <1>3, <1>4
  <2> QED BY <1>1, <1>2, <1>4, <2>1 DEF EnHecho, Fase, Escribiendo, Commiteando, SinCandado
<1>6. PICK r \in Marco :
              /\ Paso(t, e, r) /\ EnHecho(meta', r)
              /\ Fase(r) = q.paso /\ r.i = q.i /\ r.b = q.b
              /\ r.paso \notin {"enlaza", "enlaza2"} /\ (Suyo(r) => SoloElFisico(enlace', q.b))
              /\ \A z : ListasCon(z, r) = {q.lista}
  BY <1>1, <1>4, <1>5, LiberaSigue
<1>7. /\ enlace' \in [Etiquetas -> Seq(Bloques \cup {SIN})]
      /\ \A d \in Etiquetas \ {e} : enlace'[d] = enlace[d]
  BY <1>1, <1>2, <1>3, ConEnlaceTipo
<1>8. Conservan
  BY <1>1, <1>2, <1>7, SinCambio DEF Conservan
<1>9. Orden'
  BY <1>1, <1>2, <1>6, <1>7, <1>8, PasoOrden DEF Conservan
<1>10. /\ ListasCon(meta[e].bloques, hilo[t]) = {s} /\ ~Commiteando(hilo[t])
       /\ ListasCon(meta'[e].bloques, r) = {Front(s)} /\ \A i : ~FirmeCon(meta[e], hilo[t], i)
  BY <1>1, <1>2, <1>4, <1>6 DEF ListasCon, ConLista, Fase, Commiteando, FirmeCon
<1> HIDE DEF e, s
<1>11. \A i \in Nat : i + 0 = i
  OBVIOUS
<1>12. Mudanza(t, e, r, 0)
  BY <1>3, <1>10, <1>11 DEF Mudanza
<1>13. ASSUME ~rota', Suyo(r) PROVE Gana(t, r)
  <2>1. enlace'[BASE] = <<0>>
    BY <1>9 DEF Orden, EnCero
  <2>2. r.b # 0
    BY <1>6, <1>13, <2>1, CeroNoSeLibera
  <2>3. ~rota /\ s[k] = r.b
    BY <1>1, <1>4, <1>6, <1>13
  <2>4. \A z \in ListasCon(meta'[e].bloques, r) : \A j \in DOMAIN z : z[j] = r.b =>
           \E y \in ListasCon(meta[e].bloques, hilo[t]) :
              j + 0 \in DOMAIN y /\ y[j + 0] = r.b /\ j + 0 # k
    BY <1>3, <1>10, <1>11
  <2>5. \A d \in Etiquetas \ {e} : meta'[d] = meta[d]
    BY <1>1
  <2> QED BY <1>2, <1>3, <1>6, <1>9, <1>10, <2>2, <2>3, <2>4, <2>5, PasoGana
<1>14. /\ ~rota' => ~rota
       /\ bitmap' = bitmap /\ indice' = indice /\ \A d \in Etiquetas \ {e} : meta'[d] = meta[d]
  BY <1>1
<1> QED BY <1>2, <1>6, <1>9, <1>12, <1>13, <1>14, PasoSalvo

LEMMA BloqueBorradoSalvo ==
    ASSUME Orden, Salvo, NEW t \in Hilos, BloqueBorrado(t), UNCHANGED rota
    PROVE  Orden' /\ Salvo'
<1> DEFINE e == hilo[t].e
           s == hilo[t].lista
           q == [hilo[t] EXCEPT !.b = Head(s), !.lista = Tail(s)]
<1>1. /\ hilo[t].paso = "borra" /\ s # << >> /\ ~SinCandado(hilo[t])
      /\ Libera(t, enlace, q)
      /\ UNCHANGED <<meta, enlace, contenido, bitmap, indice, candado, rota>>
  BY DEF BloqueBorrado, SinCandado
<1>2. /\ Tipos /\ Cerrojos /\ hilo[t] \in Marco /\ e \in Etiquetas /\ EnHecho(meta, hilo[t])
      /\ meta[e].estado # "COMMITED" /\ s \in Seq(Bloques)
  BY <1>1, EnMarcha, HiloMarco
<1>3. /\ 1 \in DOMAIN s /\ Head(s) = s[1] /\ s[1] \in Bloques /\ Tail(s) \in Seq(Bloques)
      /\ \A i \in DOMAIN Tail(s) : i + 1 \in DOMAIN s /\ i + 1 # 1 /\ Tail(s)[i] = s[i + 1]
  BY <1>1, <1>2, TailTipo
<1>4. /\ q \in Marco /\ q.paso = "borra" /\ q.e = e /\ q.b = s[1]
      /\ q.lista = Tail(s) /\ q.sigue = hilo[t].sigue
  BY <1>1, <1>2, <1>3 DEF Marco
<1> HIDE DEF q
<1>5. EnHecho(meta', q) /\ q.sigue = "libre"
  BY <1>1, <1>2, <1>4 DEF EnHecho, Fase, Escribiendo, Commiteando, SinCandado
<1>6. PICK r \in Marco :
              /\ Paso(t, e, r) /\ EnHecho(meta', r)
              /\ Fase(r) = q.paso /\ r.i = q.i /\ r.b = q.b
              /\ r.paso \notin {"enlaza", "enlaza2"} /\ (Suyo(r) => SoloElFisico(enlace, q.b))
              /\ \A z : ListasCon(z, r) = {q.lista}
  BY <1>1, <1>4, <1>5, LiberaSigue
<1>7. /\ Conservan /\ \A d \in Etiquetas \ {e} : meta'[d] = meta[d] /\ enlace'[d] = enlace[d]
  BY <1>1, <1>2, SinCambio DEF Conservan
<1>8. Orden'
  BY <1>1, <1>2, <1>6, <1>7, PasoOrden DEF Conservan
<1>9. /\ ListasCon(meta[e].bloques, hilo[t]) = {s} /\ ~Commiteando(hilo[t])
      /\ ListasCon(meta'[e].bloques, r) = {Tail(s)} /\ \A i : ~FirmeCon(meta[e], hilo[t], i)
  BY <1>1, <1>2, <1>4, <1>6 DEF ListasCon, ConLista, Fase, Commiteando, FirmeCon
<1> HIDE DEF e, s
<1>10. Mudanza(t, e, r, 1)
  BY <1>3, <1>9 DEF Mudanza
<1>11. ASSUME ~rota', Suyo(r) PROVE Gana(t, r)
  <2>1. enlace[BASE] = <<0>>
    BY DEF Orden, EnCero
  <2>2. r.b # 0
    BY <1>6, <1>11, <2>1, CeroNoSeLibera
  <2>3. ~rota /\ s[1] = r.b
    BY <1>1, <1>4, <1>6, <1>11
  <2>4. \A z \in ListasCon(meta'[e].bloques, r) : \A j \in DOMAIN z : z[j] = r.b =>
           \E y \in ListasCon(meta[e].bloques, hilo[t]) :
              j + 1 \in DOMAIN y /\ y[j + 1] = r.b /\ j + 1 # 1
    BY <1>3, <1>9
  <2> QED BY <1>2, <1>3, <1>6, <1>7, <1>8, <1>9, <2>2, <2>3, <2>4, PasoGana
<1>12. (~rota' => ~rota) /\ bitmap' = bitmap /\ indice' = indice
  BY <1>1
<1> QED BY <1>2, <1>6, <1>7, <1>8, <1>10, <1>11, <1>12, PasoSalvo

-----------------------------------------------------------------------------
(***************************************************************************)
(* The steps that put a block in place k of e: the one reserved, a zero,   *)
(* or the one the index names.                                             *)
(***************************************************************************)

\* Place k of e, which is in no other list, may take the block o.
Cabe(L, F, F2, e, k, o) ==
    \A d \in Etiquetas : \A s \in L[d] : \A j \in DOMAIN s :
        s[j] = o => \/ o = 0 \/ (d = e /\ j = k)
                    \/ <<d, j>> \in F /\ <<e, k>> \in F2

UnLugar(L, F, L2, F2, e, k, o) ==
    /\ \A d \in Etiquetas \ {e} : L2[d] = L[d]
    /\ \A x \in F : x \in F2
    /\ \A z \in L2[e] : \A j \in DOMAIN z :
          (j = k /\ z[j] = o) \/ \E s \in L[e] : j \in DOMAIN s /\ s[j] = z[j]
    /\ \A s \in L[e] : \A j \in DOMAIN s : <<e, j>> \in F =>
          \E z \in L2[e] : j \in DOMAIN z /\ z[j] = s[j]

LEMMA CambioUnLugar ==
    ASSUME NEW L, NEW F, NEW L2, NEW F2, NEW e \in Etiquetas, NEW k, NEW o,
           Propias(L, F), Cabe(L, F, F2, e, k, o), UnLugar(L, F, L2, F2, e, k, o)
    PROVE  /\ Propias(L2, F2)
           /\ \A bm : EnBitmap(L, bm) /\ o \in bm \ Ausentes => EnBitmap(L2, bm)
           /\ \A b : b # o /\ Nadie(L, b) => Nadie(L2, b)
           /\ \A b : Registrado(L, F, b) => Registrado(L2, F2, b)
<1>1. \A d \in Etiquetas : \A z \in L2[d] : \A j \in DOMAIN z :
         (d = e /\ j = k /\ z[j] = o) \/ \E s \in L[d] : j \in DOMAIN s /\ s[j] = z[j]
  <2> SUFFICES ASSUME NEW d \in Etiquetas, NEW z \in L2[d], NEW j \in DOMAIN z
               PROVE  (d = e /\ j = k /\ z[j] = o) \/ \E s \in L[d] : j \in DOMAIN s /\ s[j] = z[j]
    OBVIOUS
  <2>1. CASE d = e
    BY <2>1 DEF UnLugar
  <2>2. CASE d # e
    <3>1. z \in L[d]
      BY <2>2 DEF UnLugar
    <3> QED BY <3>1
  <2> QED BY <2>1, <2>2
<1>2. Propias(L2, F2)
  <2>1. ASSUME NEW c \in Etiquetas, NEW d \in Etiquetas, NEW s \in L2[c], NEW z \in L2[d],
               NEW i \in DOMAIN s, NEW j \in DOMAIN z, s[i] = z[j], s[i] # 0
        PROVE  (c = d /\ i = j) \/ (<<c, i>> \in F2 /\ <<d, j>> \in F2)
    <3>1. \/ c = e /\ i = k /\ s[i] = o
          \/ \E y \in L[c] : i \in DOMAIN y /\ y[i] = s[i]
      BY <1>1
    <3>2. \/ d = e /\ j = k /\ z[j] = o
          \/ \E y \in L[d] : j \in DOMAIN y /\ y[j] = z[j]
      BY <1>1
    <3>3. CASE c = e /\ i = k /\ s[i] = o /\ \E y \in L[d] : j \in DOMAIN y /\ y[j] = z[j]
      BY <2>1, <3>3 DEF Cabe, UnLugar
    <3>4. CASE d = e /\ j = k /\ z[j] = o /\ \E y \in L[c] : i \in DOMAIN y /\ y[i] = s[i]
      BY <2>1, <3>4 DEF Cabe, UnLugar
    <3>5. CASE /\ \E y \in L[c] : i \in DOMAIN y /\ y[i] = s[i]
               /\ \E y \in L[d] : j \in DOMAIN y /\ y[j] = z[j]
      <4>1. PICK y \in L[c] : i \in DOMAIN y /\ y[i] = s[i]
        BY <3>5
      <4>2. PICK x \in L[d] : j \in DOMAIN x /\ x[j] = z[j]
        BY <3>5
      <4>3. \/ c = d /\ i = j
            \/ <<c, i>> \in F /\ <<d, j>> \in F
        BY <2>1, <4>1, <4>2 DEF Propias
      <4> QED BY <4>3 DEF UnLugar
    <3> QED BY <3>1, <3>2, <3>3, <3>4, <3>5
  <2> QED BY <2>1, Zenon DEF Propias
<1>3. ASSUME NEW bm, EnBitmap(L, bm), o \in bm \ Ausentes PROVE EnBitmap(L2, bm)
  BY <1>1, <1>3 DEF EnBitmap
<1>4. ASSUME NEW b, b # o, Nadie(L, b) PROVE Nadie(L2, b)
  BY <1>1, <1>4 DEF Nadie
<1>5. ASSUME NEW b, Registrado(L, F, b), b # 0 PROVE Registrado(L2, F2, b)
  <2>1. PICK d \in Etiquetas : \E s \in L[d] : \E i \in DOMAIN s : s[i] = b /\ <<d, i>> \in F
    BY <1>5 DEF Registrado
  <2>2. PICK s \in L[d] : \E i \in DOMAIN s : s[i] = b /\ <<d, i>> \in F
    BY <2>1
  <2>3. PICK i \in DOMAIN s : s[i] = b /\ <<d, i>> \in F
    BY <2>2
  <2>4. <<d, i>> \in F2 /\ \E z \in L2[d] : i \in DOMAIN z /\ z[i] = b
    BY <2>3 DEF UnLugar
  <2> QED BY <2>4 DEF Registrado
<1> QED BY <1>2, <1>3, <1>4, <1>5 DEF Registrado

\* The same, of a step of t that leaves it as r.
Pone(t, e, r, k, o) ==
    /\ \A z \in ListasCon(meta'[e].bloques, r) : \A j \in DOMAIN z :
          (j = k /\ z[j] = o) \/ \E s \in ListasCon(meta[e].bloques, hilo[t]) :
                                    j \in DOMAIN s /\ s[j] = z[j]
    /\ \A s \in ListasCon(meta[e].bloques, hilo[t]) : \A j \in DOMAIN s :
          FirmeCon(meta[e], hilo[t], j) =>
             \E z \in ListasCon(meta'[e].bloques, r) : j \in DOMAIN z /\ z[j] = s[j]
    /\ \A i \in Nat : FirmeCon(meta[e], hilo[t], i) => FirmeCon(meta'[e], r, i)

LEMMA PasoUnLugar ==
    ASSUME Orden, Orden', NEW t \in Hilos, NEW e \in Etiquetas, NEW r \in Marco, NEW k \in Nat, NEW o,
           Paso(t, e, r), \A d \in Etiquetas \ {e} : meta'[d] = meta[d],
           Pone(t, e, r, k, o), Propias(Listas, Firmes), EnBitmap(Listas, bitmap),
           o \in bitmap \ Ausentes, Cabe(Listas, Firmes, Firmes', e, k, o)
    PROVE  /\ Propias(Listas', Firmes') /\ EnBitmap(Listas', bitmap)
           /\ \A b : b # o /\ Nadie(Listas, b) => Nadie(Listas', b)
           /\ \A b : Registrado(Listas, Firmes, b) => Registrado(Listas', Firmes', b)
<1>1. LasListas(t, e, r)
  <2>1. Tipos /\ Cerrojos
    BY DEF Orden
  <2> QED BY <2>1, PasoListas
<1>2. \A s \in Listas[e] : \A j \in DOMAIN s : j \in Nat
  <2>1. Listas[e] \subseteq Seq(Bloques)
    BY DeBloquesSiempre DEF DeBloques
  <2> QED BY <2>1, ListaTipo
<1>3. \A x \in Firmes : x \in Firmes'
  <2> SUFFICES ASSUME NEW x \in Firmes PROVE x \in Firmes'
    OBVIOUS
  <2>1. x \in Etiquetas \X Nat /\ x = <<x[1], x[2]>> /\ x[1] \in Etiquetas /\ x[2] \in Nat
    BY DEF Firmes
  <2>2. CASE x[1] = e
    <3>1. <<e, x[2]>> \in Firmes
      BY <2>1, <2>2
    <3>2. <<e, x[2]>> \in Firmes'
      BY <1>1, <2>1, <3>1 DEF LasListas, Pone
    <3> QED BY <2>1, <2>2, <3>2
  <2>3. CASE x[1] # e
    BY <1>1, <2>1, <2>3 DEF LasListas
  <2> QED BY <2>2, <2>3
<1>4. UnLugar(Listas, Firmes, Listas', Firmes', e, k, o)
  BY <1>1, <1>2, <1>3 DEF LasListas, Pone, UnLugar
<1> QED BY <1>4, CambioUnLugar

\* What the index names may be put in the next place to settle.
LEMMA CabeRegistrado ==
    ASSUME NEW L, NEW F, NEW F2, NEW e, NEW k, NEW o, Propias(L, F), Registrado(L, F, o),
           <<e, k>> \in F2
    PROVE  Cabe(L, F, F2, e, k, o)
<1>1. CASE o = 0
  BY <1>1 DEF Cabe
<1>2. CASE o # 0
  <2>1. PICK c \in Etiquetas : \E s \in L[c] : \E i \in DOMAIN s : s[i] = o /\ <<c, i>> \in F
    BY <1>2 DEF Registrado
  <2>2. PICK s \in L[c] : \E i \in DOMAIN s : s[i] = o /\ <<c, i>> \in F
    BY <2>1
  <2>3. PICK i \in DOMAIN s : s[i] = o /\ <<c, i>> \in F
    BY <2>2
  <2>4. ASSUME NEW d \in Etiquetas, NEW z \in L[d], NEW j \in DOMAIN z, z[j] = o
        PROVE  <<d, j>> \in F
    <3>1. (c = d /\ i = j) \/ (<<c, i>> \in F /\ <<d, j>> \in F)
      BY <1>2, <2>3, <2>4 DEF Propias
    <3> QED BY <2>3, <3>1
  <2> QED BY <2>4 DEF Cabe
<1> QED BY <1>1, <1>2

LEMMA RegistradoOcupado ==
    ASSUME NEW L, NEW F, NEW bm, NEW o, EnBitmap(L, bm), Registrado(L, F, o), << 0 >> \in L[BASE]
    PROVE  o \in bm \ Ausentes /\ ~Nadie(L, o)
BY CeroOcupado DEF Registrado, EnBitmap, Nadie

\* The block that t reserved is in no list, and no other thread has it.
LEMMA ReservadoSolo ==
    ASSUME Orden, ~rota, Salvo, NEW t \in Hilos, Suyo(hilo[t])
    PROVE  /\ hilo[t].b \in bitmap /\ hilo[t].b # 0 /\ Nadie(Listas, hilo[t].b)
           /\ \A x \in Suyos : x[2] \in bitmap /\ x[2] # 0 /\ Nadie(Listas, x[2])
           /\ \A x \in Suyos : x[1] # t => x[2] # hilo[t].b
<1>1. /\ EnBitmap(Listas, bitmap) /\ DeCadaHilo(Listas, bitmap, Suyos)
      /\ <<0>> \in Listas[BASE]
  BY DeBloquesSiempre DEF Salvo, Reparto, DeBloques
<1>2. <<t, hilo[t].b>> \in Suyos
  BY DEF Suyos
<1>3. \A x \in Suyos : x[2] \in bitmap /\ x[2] # 0 /\ Nadie(Listas, x[2])
  BY <1>1, CeroOcupado DEF DeCadaHilo
<1>4. \A x \in Suyos : x[1] # t => x[2] # hilo[t].b
  <2> SUFFICES ASSUME NEW x \in Suyos, x[1] # t, x[2] = hilo[t].b PROVE FALSE
    OBVIOUS
  <2>1. x = <<t, hilo[t].b>>
    BY <1>1, <1>2 DEF DeCadaHilo
  <2> QED BY <2>1
<1> QED BY <1>2, <1>3, <1>4

LEMMA EnlazaSalvo ==
    ASSUME Orden, Salvo, NEW t \in Hilos, Enlaza(t)
    PROVE  Orden' /\ Salvo'
<1> DEFINE e == hilo[t].e
           k == hilo[t].i
           b == hilo[t].b
           s == meta[e].bloques
           z == [s EXCEPT ![k] = b]
           r == [Libre EXCEPT !.paso = "guarda", !.e = e, !.lista = z]
<1>1. /\ hilo[t].paso = "enlaza2" /\ ~SinCandado(hilo[t]) /\ Va(t, r) /\ ConEnlace(e, k, b)
      /\ UNCHANGED <<meta, contenido, bitmap, indice, candado, rota>>
  BY DEF Enlaza, AGuardar, SinCandado, mutexes
<1>2. /\ Tipos /\ Cerrojos /\ hilo[t] \in Marco /\ e \in Etiquetas /\ EnHecho(meta, hilo[t])
      /\ meta[e].estado # "COMMITED" /\ s \in Seq(Bloques) /\ b \in Bloques
  BY <1>1, EnMarcha, HiloMarco, MetaMarco
<1>3. k \in DOMAIN s /\ k \in Nat \ {0}
  BY <1>1, <1>2, ListaTipo DEF EnHecho
<1>4. z \in Seq(Bloques) /\ DOMAIN z = DOMAIN s /\ z[k] = b /\ \A j \in DOMAIN s \ {k} : z[j] = s[j]
  BY <1>2, <1>3, CambiaUno
<1> HIDE DEF z
<1>5. r \in Marco /\ r.paso = "guarda" /\ r.e = e /\ r.lista = z /\ r.sigue = "libre"
  BY <1>2, <1>4, LibreMarco DEF Marco, Hechos, Libre
<1> HIDE DEF r
<1>6. Paso(t, e, r)
  BY <1>1, <1>5, AlSeguir DEF SinCandado
<1>7. /\ enlace' \in [Etiquetas -> Seq(Bloques \cup {SIN})]
      /\ \A d \in Etiquetas \ {e} : enlace'[d] = enlace[d]
  BY <1>1, <1>2, <1>3, ConEnlaceTipo
<1>8. Conservan
  BY <1>1, <1>2, <1>7, SinCambio DEF Conservan
<1>9. EnHecho(meta', r)
  BY <1>1, <1>2, <1>5 DEF EnHecho, Fase, Escribiendo, Commiteando, SinCandado
<1>10. /\ Orden' /\ \A d \in Etiquetas \ {e} : meta'[d] = meta[d]
  BY <1>1, <1>2, <1>5, <1>6, <1>7, <1>8, <1>9, PasoOrden DEF Conservan
<1>11. /\ ListasCon(meta[e].bloques, hilo[t]) = {s} /\ ListasCon(meta'[e].bloques, r) = {s, z}
       /\ \A i : ~FirmeCon(meta[e], hilo[t], i)
  BY <1>1, <1>2, <1>5 DEF ListasCon, ConLista, Fase, Commiteando, FirmeCon
<1>12. Suyo(hilo[t]) /\ ~Suyo(r) /\ r.paso \notin {"enlaza", "enlaza2"}
  BY <1>1, <1>5 DEF Suyo
<1>13. LosSuyos(t, r)
  BY <1>2, <1>5, <1>6, <1>10, PasoListas
<1>14. bitmap' = bitmap /\ indice' = indice /\ (~rota' => ~rota)
  BY <1>1
<1>15. ~rota => b \notin Ausentes
  BY <1>1 DEF Salvo, Existen
<1> HIDE DEF e, k, b, s
<1>16. Pone(t, e, r, k, b)
  BY <1>3, <1>4, <1>11 DEF Pone
<1> SUFFICES ASSUME ~rota
             PROVE  Reparto(Listas', Firmes', bitmap', Suyos', indice') /\ Existen'
  BY <1>10, <1>14 DEF Salvo
<1>17. /\ Propias(Listas, Firmes) /\ EnBitmap(Listas, bitmap) /\ DeCadaHilo(Listas, bitmap, Suyos)
       /\ \A v \in Valores : indice[v] # NULL => Registrado(Listas, Firmes, indice[v])
       /\ Existen
  BY DEF Salvo, Reparto
<1>18. /\ b \in bitmap \ Ausentes /\ Nadie(Listas, b)
       /\ \A x \in Suyos : x[2] \in bitmap /\ Nadie(Listas, x[2])
       /\ \A x \in Suyos : x[1] # t => x[2] # b
  BY <1>12, <1>15, ReservadoSolo DEF b
<1>19. Cabe(Listas, Firmes, Firmes', e, k, b)
  BY <1>18 DEF Cabe, Nadie
<1>20. /\ Propias(Listas', Firmes') /\ EnBitmap(Listas', bitmap)
       /\ \A c : c # b /\ Nadie(Listas, c) => Nadie(Listas', c)
       /\ \A c : Registrado(Listas, Firmes, c) => Registrado(Listas', Firmes', c)
  BY <1>2, <1>3, <1>5, <1>6, <1>10, <1>16, <1>17, <1>18, <1>19, PasoUnLugar
<1>21. DeCadaHilo(Listas', bitmap, Suyos')
  <2>1. \A x \in Suyos' : x \in Suyos /\ x[1] # t
    BY <1>12, <1>13 DEF LosSuyos
  <2> QED BY <1>17, <1>18, <1>20, <2>1 DEF DeCadaHilo
<1>22. Existen'
  BY <1>2, <1>5, <1>6, <1>12, <1>17, PasoMarco DEF Existen
<1> QED BY <1>14, <1>17, <1>20, <1>21, <1>22 DEF Reparto

LEMMA EnlazaCeroSalvo ==
    ASSUME Orden, Salvo, NEW t \in Hilos, EnlazaCero(t)
    PROVE  Orden' /\ Salvo'
<1> DEFINE e == hilo[t].e
           s == hilo[t].lista
           k == Len(s) + 1
           z == Append(s, 0)
           r == IF k = hilo[t].i THEN [Libre EXCEPT !.paso = "guarda", !.e = e, !.lista = z]
                ELSE [hilo[t] EXCEPT !.lista = z]
<1>1. /\ hilo[t].paso = "agranda" /\ ~SinCandado(hilo[t]) /\ Va(t, r) /\ ConEnlace(e, k, 0)
      /\ UNCHANGED <<meta, contenido, bitmap, indice, candado, rota>>
  BY DEF EnlazaCero, AGuardar, SinCandado, mutexes
<1>2. /\ Tipos /\ Cerrojos /\ hilo[t] \in Marco /\ e \in Etiquetas /\ EnHecho(meta, hilo[t])
      /\ meta[e].estado # "COMMITED" /\ s \in Seq(Bloques) /\ meta[e].bloques \in Seq(Bloques)
  BY <1>1, EnMarcha, HiloMarco, MetaMarco
<1>3. /\ z \in Seq(Bloques) /\ k \in Nat \ {0}
      /\ \A j \in DOMAIN z : (j \in DOMAIN s /\ z[j] = s[j]) \/ z[j] = 0
  <2>1. 0 \in Bloques /\ Len(s) \in Nat /\ DOMAIN s = 1..Len(s)
    BY <1>2, StorageSupuesto, ListaTipo
  <2>2. /\ z \in Seq(Bloques) /\ Len(z) = Len(s) + 1 /\ z[Len(s) + 1] = 0
        /\ \A j \in 1..Len(s) : z[j] = s[j]
    BY <1>2, <2>1, AppendProperties
  <2>3. DOMAIN z = 1..(Len(s) + 1)
    BY <2>2, LenProperties
  <2> QED BY <2>1, <2>2, <2>3
<1> HIDE DEF z, k
<1>4. /\ r \in Marco /\ r.paso \in {"guarda", "agranda"} /\ r.e = e /\ r.lista = z
      /\ r.sigue = "libre"
  <2>1. hilo[t].sigue = "libre"
    BY <1>1, <1>2 DEF EnHecho
  <2>2. [Libre EXCEPT !.paso = "guarda", !.e = e, !.lista = z] \in Marco
    BY <1>2, <1>3, LibreMarco DEF Marco, Hechos
  <2>3. [hilo[t] EXCEPT !.lista = z] \in Marco
    BY <1>2, <1>3 DEF Marco
  <2> QED BY <1>1, <1>2, <2>1, <2>2, <2>3 DEF Marco, Libre
<1> HIDE DEF r
<1>5. Paso(t, e, r)
  BY <1>1, <1>4, AlSeguir DEF SinCandado
<1>6. /\ enlace' \in [Etiquetas -> Seq(Bloques \cup {SIN})]
      /\ \A d \in Etiquetas \ {e} : enlace'[d] = enlace[d]
  BY <1>1, <1>2, <1>3, ConEnlaceTipo, StorageSupuesto
<1>7. Conservan
  BY <1>1, <1>2, <1>6, SinCambio DEF Conservan
<1>8. EnHecho(meta', r)
  BY <1>1, <1>2, <1>4 DEF EnHecho, Fase, Escribiendo, Commiteando, SinCandado
<1>9. /\ Orden' /\ \A d \in Etiquetas \ {e} : meta'[d] = meta[d]
  BY <1>1, <1>2, <1>4, <1>5, <1>6, <1>7, <1>8, PasoOrden DEF Conservan
<1>10. /\ ListasCon(meta[e].bloques, hilo[t]) = {meta[e].bloques, s}
       /\ ListasCon(meta'[e].bloques, r) = {meta[e].bloques, z}
       /\ \A i : ~FirmeCon(meta[e], hilo[t], i)
  BY <1>1, <1>2, <1>4 DEF ListasCon, ConLista, Fase, Commiteando, FirmeCon
<1>11. ~Suyo(r) /\ r.paso \notin {"enlaza", "enlaza2"}
  BY <1>4 DEF Suyo
<1>12. bitmap' = bitmap /\ indice' = indice /\ (~rota' => ~rota)
  BY <1>1
<1> HIDE DEF e, s
<1>13. Mudanza(t, e, r, 0)
  <2>1. /\ \A j \in DOMAIN meta[e].bloques : j + 0 = j
        /\ \A j \in DOMAIN s : j + 0 = j
    BY <1>2, ListaTipo
  <2> QED BY <1>3, <1>10, <2>1 DEF Mudanza
<1> QED BY <1>2, <1>4, <1>5, <1>9, <1>11, <1>12, <1>13, PasoSalvo

\* The thread has the hash of the block whose turn it is.
LEMMA ConIndice ==
    ASSUME Orden, NEW t \in Hilos, hilo[t].paso = "indice"
    PROVE  /\ Tipos /\ Cerrojos /\ hilo[t] \in Marco /\ hilo[t].e \in Etiquetas
           /\ EnHecho(meta, hilo[t]) /\ meta[hilo[t].e].estado # "COMMITED"
           /\ hilo[t].lista \in Seq(Bloques) /\ hilo[t].i \in DOMAIN hilo[t].lista
           /\ hilo[t].i \in Nat \ {0} /\ hilo[t].i <= Len(hilo[t].lista)
           /\ hilo[t].v \in Valores /\ hilo[t].sigue = "libre"
           /\ indice[hilo[t].v] \in Bloques \cup {NULL} /\ Len(hilo[t].lista) \in Nat
<1>1. ~SinCandado(hilo[t])
  BY DEF SinCandado
<1>2. /\ Tipos /\ Cerrojos /\ hilo[t] \in Marco /\ hilo[t].e \in Etiquetas
      /\ EnHecho(meta, hilo[t]) /\ meta[hilo[t].e].estado # "COMMITED"
      /\ hilo[t].lista \in Seq(Bloques)
  BY <1>1, EnMarcha, HiloMarco
<1>3. hilo[t].i \in DOMAIN hilo[t].lista /\ hilo[t].v \in Valores /\ hilo[t].sigue = "libre"
  BY <1>2 DEF EnHecho
<1>4. indice[hilo[t].v] \in Bloques \cup {NULL}
  BY <1>2, <1>3 DEF Tipos
<1> QED BY <1>2, <1>3, <1>4, ListaTipo

\* The lists stay, and one more place is settled: that of the block the index may get.
LEMMA ConservaSalvo ==
    ASSUME Orden, Salvo, NEW t \in Hilos, Conserva(t), UNCHANGED rota
    PROVE  Orden' /\ Salvo'
<1> DEFINE e == hilo[t].e
           i == hilo[t].i
           s == hilo[t].lista
           v == hilo[t].v
           r == [hilo[t] EXCEPT !.paso = "hash", !.i = i + 1]
<1>1. /\ hilo[t].paso = "indice" /\ ~SinCandado(hilo[t]) /\ Va(t, r)
      /\ indice' = [indice EXCEPT ![v] = s[i]] \/ indice' = indice
      /\ UNCHANGED <<meta, enlace, contenido, bitmap, candado, rota>>
  BY DEF Conserva, Registra, SinCandado
<1>2. /\ Tipos /\ Cerrojos /\ hilo[t] \in Marco /\ e \in Etiquetas /\ EnHecho(meta, hilo[t])
      /\ meta[e].estado # "COMMITED" /\ s \in Seq(Bloques) /\ i \in DOMAIN s
      /\ i \in Nat \ {0} /\ i <= Len(s) /\ v \in Valores /\ Len(s) \in Nat
      /\ hilo[t].sigue = "libre"
  BY <1>1, ConIndice
<1>3. /\ r \in Marco /\ r.paso = "hash" /\ r.e = e /\ r.i = i + 1
      /\ r.lista = s /\ r.sigue = "libre"
  <2>1. i + 1 \in Nat
    BY <1>2
  <2> QED BY <1>2, <2>1 DEF Marco, Hechos, Pasos
<1> HIDE DEF r
<1>4. Paso(t, e, r)
  BY <1>1, <1>3, AlSeguir DEF SinCandado
<1>5. Conservan /\ \A w \in Valores : indice'[w] = indice[w] \/ indice'[w] = s[i]
  <2>1. s[i] \in Bloques /\ indice \in [Valores -> Bloques \cup {NULL}]
    BY <1>2, ListaTipo DEF Tipos
  <2>2. /\ indice' \in [Valores -> Bloques \cup {NULL}]
        /\ \A w \in Valores : indice'[w] = indice[w] \/ indice'[w] = s[i]
    BY <1>1, <2>1
  <2> QED BY <1>1, <1>2, <2>2, SinCambio DEF Conservan
<1>6. EnHecho(meta', r)
  <2>1. i + 1 \in 1..(Len(s) + 1) /\ i + 1 # 1
    BY <1>2
  <2> QED BY <1>1, <1>2, <1>3, <2>1 DEF EnHecho, Fase, Escribiendo, Commiteando, SinCandado
<1>7. Orden'
  BY <1>1, <1>2, <1>3, <1>4, <1>5, <1>6, PasoOrden DEF Conservan
<1>8. /\ ListasCon(meta[e].bloques, hilo[t]) = {s} /\ ListasCon(meta'[e].bloques, r) = {s}
  BY <1>1, <1>3 DEF ListasCon, ConLista, Fase
<1>9. /\ \A j \in Nat : FirmeCon(meta[e], hilo[t], j) => FirmeCon(meta'[e], r, j)
      /\ FirmeCon(meta'[e], r, i)
  <2>1. Commiteando(r) /\ i < i + 1 /\ \A j \in Nat : j < i => j < i + 1
    BY <1>2, <1>3 DEF Commiteando, Fase
  <2> QED BY <1>1, <1>2, <1>3, <2>1 DEF FirmeCon
<1>10. Mudanza(t, e, r, 0)
  <2>1. \A j \in DOMAIN s : j \in Nat /\ j + 0 = j
    BY <1>2, ListaTipo
  <2> QED BY <1>8, <1>9, <2>1 DEF Mudanza
<1>11. LasListas(t, e, r)
  BY <1>1, <1>2, <1>3, <1>4, PasoListas
<1>12. Registrado(Listas', Firmes', s[i])
  <2>1. s \in Listas'[e] /\ <<e, i>> \in Firmes'
    BY <1>2, <1>8, <1>9, <1>11 DEF LasListas
  <2> QED BY <1>2, <2>1 DEF Registrado
<1>13. ~Suyo(r) /\ r.paso \notin {"enlaza", "enlaza2"} /\ bitmap' = bitmap /\ (~rota' => ~rota)
  BY <1>1, <1>3 DEF Suyo
<1>14. \A w \in Valores : indice'[w] \in {indice[w], NULL} \/ Registrado(Listas', Firmes', indice'[w])
  BY <1>5, <1>12
<1>15. \A d \in Etiquetas \ {e} : meta'[d] = meta[d]
  BY <1>1
<1> HIDE DEF e
<1> QED BY <1>2, <1>3, <1>4, <1>7, <1>10, <1>13, <1>14, <1>15, PasoSalvo

\* The place takes the block of the index, and gives up its own.
Duplicado(t) == [hilo[t] EXCEPT !.paso = "hash", !.i = @ + 1, !.b = hilo[t].lista[hilo[t].i],
                                !.lista = [@ EXCEPT ![hilo[t].i] = indice[hilo[t].v]]]

LEMMA DuplicadoSalvo ==
    ASSUME Orden, Salvo, NEW t \in Hilos, hilo[t].paso = "indice",
           indice[hilo[t].v] \notin {NULL, hilo[t].lista[hilo[t].i]},
           enlace' \in [Etiquetas -> Seq(Bloques \cup {SIN})],
           \A d \in Etiquetas \ {hilo[t].e} : enlace'[d] = enlace[d],
           Libera(t, enlace', Duplicado(t)),
           UNCHANGED <<meta, contenido, bitmap, indice, candado, rota>>
    PROVE  Orden' /\ Salvo'
<1> DEFINE e == hilo[t].e
           i == hilo[t].i
           s == hilo[t].lista
           o == indice[hilo[t].v]
           z == [s EXCEPT ![i] = o]
           q == [hilo[t] EXCEPT !.paso = "hash", !.i = i + 1, !.b = s[i], !.lista = z]
<1>1. /\ hilo[t].paso = "indice" /\ ~SinCandado(hilo[t]) /\ Libera(t, enlace', q)
      /\ UNCHANGED <<meta, contenido, bitmap, indice, candado, rota>>
  BY DEF SinCandado, Duplicado
<1>2. /\ Tipos /\ Cerrojos /\ hilo[t] \in Marco /\ e \in Etiquetas /\ EnHecho(meta, hilo[t])
      /\ meta[e].estado # "COMMITED" /\ s \in Seq(Bloques) /\ i \in DOMAIN s
      /\ i \in Nat \ {0} /\ i <= Len(s) /\ hilo[t].v \in Valores /\ Len(s) \in Nat
      /\ hilo[t].sigue = "libre" /\ o \in Bloques /\ o # NULL /\ o # s[i]
  BY <1>1, ConIndice
<1>3. /\ s[i] \in Bloques /\ z \in Seq(Bloques) /\ Len(z) = Len(s) /\ DOMAIN z = DOMAIN s
      /\ z[i] = o /\ \A j \in DOMAIN s \ {i} : z[j] = s[j]
  BY <1>2, CambiaUno, ListaTipo
<1> HIDE DEF z
<1>4. /\ q \in Marco /\ q.paso = "hash" /\ q.e = e /\ q.i = i + 1 /\ q.b = s[i]
      /\ q.lista = z /\ q.sigue = "libre"
  <2>1. i + 1 \in Nat
    BY <1>2
  <2> QED BY <1>2, <1>3, <2>1 DEF Marco, Hechos, Pasos
<1> HIDE DEF q
<1>5. EnHecho(meta', q)
  <2>1. i + 1 \in 1..(Len(z) + 1) /\ i + 1 # 1
    BY <1>2, <1>3
  <2> QED BY <1>1, <1>2, <1>4, <2>1 DEF EnHecho, Fase, Escribiendo, Commiteando, SinCandado
<1>6. PICK r \in Marco :
              /\ Paso(t, e, r) /\ EnHecho(meta', r)
              /\ Fase(r) = q.paso /\ r.i = q.i /\ r.b = q.b
              /\ r.paso \notin {"enlaza", "enlaza2"} /\ (Suyo(r) => SoloElFisico(enlace', q.b))
              /\ \A y : ListasCon(y, r) = {q.lista}
  BY <1>1, <1>4, <1>5, LiberaSigue
<1>7. /\ Conservan /\ \A d \in Etiquetas \ {e} : meta'[d] = meta[d] /\ enlace'[d] = enlace[d]
  BY <1>1, <1>2, SinCambio DEF Conservan
<1>8. Orden'
  BY <1>1, <1>2, <1>6, <1>7, PasoOrden DEF Conservan
<1>9. /\ ListasCon(meta[e].bloques, hilo[t]) = {s} /\ ListasCon(meta'[e].bloques, r) = {z}
  BY <1>1, <1>4, <1>6 DEF ListasCon, ConLista, Fase
<1>10. /\ \A j \in Nat : FirmeCon(meta[e], hilo[t], j) <=> j < i
       /\ \A j \in Nat : FirmeCon(meta'[e], r, j) <=> j < i + 1
  BY <1>1, <1>2, <1>4, <1>6 DEF FirmeCon, Commiteando, Fase
<1>11. LasListas(t, e, r)
  BY <1>1, <1>2, <1>6, PasoListas
<1>12. ~rota => Registrado(Listas, Firmes, o)
  BY <1>2 DEF Salvo, Reparto
<1>13. bitmap' = bitmap /\ indice' = indice /\ (~rota' => ~rota) /\ (rota' = rota)
  BY <1>1
<1> HIDE DEF e, i, s, o
<1>14. \A j \in DOMAIN s : j \in Nat
  BY <1>2, ListaTipo
<1>15. Pone(t, e, r, i, o)
  <2>1. \A j \in Nat : j < i => j < i + 1 /\ j # i
    BY <1>2
  <2>2. \A j \in DOMAIN z : (j = i /\ z[j] = o) \/ (j \in DOMAIN s /\ s[j] = z[j])
    BY <1>3
  <2>3. \A j \in DOMAIN s : j < i => j \in DOMAIN z /\ z[j] = s[j]
    BY <1>3, <1>14, <2>1
  <2> QED BY <1>9, <1>10, <1>14, <2>1, <2>2, <2>3 DEF Pone
<1> SUFFICES ASSUME ~rota
             PROVE  Reparto(Listas', Firmes', bitmap', Suyos', indice') /\ Existen'
  BY <1>8, <1>13 DEF Salvo
<1>16. /\ Propias(Listas, Firmes) /\ EnBitmap(Listas, bitmap) /\ DeCadaHilo(Listas, bitmap, Suyos)
       /\ \A v \in Valores : indice[v] # NULL => Registrado(Listas, Firmes, indice[v])
       /\ Existen /\ <<0>> \in Listas[BASE]
  BY DeBloquesSiempre DEF Salvo, Reparto, DeBloques
<1>17. o \in bitmap \ Ausentes /\ ~Nadie(Listas, o)
  BY <1>12, <1>16, RegistradoOcupado
<1>18. Cabe(Listas, Firmes, Firmes', e, i, o)
  <2>1. <<e, i>> \in Firmes'
    BY <1>2, <1>10, <1>11 DEF LasListas
  <2> QED BY <1>12, <1>16, <2>1, CabeRegistrado
<1>19. /\ Propias(Listas', Firmes') /\ EnBitmap(Listas', bitmap)
       /\ \A b : b # o /\ Nadie(Listas, b) => Nadie(Listas', b)
       /\ \A b : Registrado(Listas, Firmes, b) => Registrado(Listas', Firmes', b)
  BY <1>2, <1>6, <1>7, <1>8, <1>15, <1>16, <1>17, <1>18, PasoUnLugar
<1>20. \A b : b # 0 /\ Nadie(Listas, b) => Nadie(Listas', b)
  BY <1>17, <1>19
<1>21. ASSUME Suyo(r) PROVE Gana(t, r)
  <2>1. enlace'[BASE] = <<0>>
    BY <1>8 DEF Orden, EnCero
  <2>2. r.b # 0 /\ s[i] = r.b
    BY <1>4, <1>6, <1>21, <2>1, CeroNoSeLibera
  <2>3. ~FirmeCon(meta[e], hilo[t], i)
    BY <1>2, <1>10
  <2>4. \A y \in ListasCon(meta'[e].bloques, r) : \A j \in DOMAIN y : y[j] = r.b =>
           \E x \in ListasCon(meta[e].bloques, hilo[t]) :
              j + 0 \in DOMAIN x /\ x[j + 0] = r.b /\ j + 0 # i
    BY <1>2, <1>3, <1>9, <1>14, <2>2
  <2> QED BY <1>2, <1>6, <1>7, <1>8, <1>9, <2>2, <2>3, <2>4, PasoGana
<1>22. EnBitmap(Listas', bitmap') /\ DeCadaHilo(Listas', bitmap', Suyos')
  BY <1>2, <1>6, <1>7, <1>8, <1>13, <1>16, <1>19, <1>20, <1>21, PasoHilos
<1>23. Existen'
  BY <1>2, <1>6, <1>16, PasoMarco DEF Existen
<1> QED BY <1>13, <1>16, <1>19, <1>22, <1>23 DEF Reparto

LEMMA DeduplicaSalvo ==
    ASSUME Orden, Salvo, NEW t \in Hilos, Deduplica(t), UNCHANGED rota
    PROVE  Orden' /\ Salvo'
<1> DEFINE e == hilo[t].e
           i == hilo[t].i
           o == indice[hilo[t].v]
<1>1. /\ hilo[t].paso = "indice" /\ enlace' = [enlace EXCEPT ![e][i] = o]
      /\ o \notin {NULL, hilo[t].lista[i]}
      /\ UNCHANGED <<meta, contenido, bitmap, indice, candado, rota>>
      /\ Libera(t, enlace', Duplicado(t))
  BY DEF Deduplica, Duplicado
<1>2. Tipos /\ e \in Etiquetas /\ o \in Bloques
  BY <1>1, ConIndice
<1>3. enlace \in [Etiquetas -> Seq(Bloques \cup {SIN})] /\ enlace[e] \in Seq(Bloques \cup {SIN})
  BY <1>2 DEF Tipos
<1>4. [enlace[e] EXCEPT ![i] = o] \in Seq(Bloques \cup {SIN})
  <2>1. CASE i \in DOMAIN enlace[e]
    BY <1>2, <1>3, <2>1, CambiaUno
  <2>2. CASE i \notin DOMAIN enlace[e]
    <3>1. [enlace[e] EXCEPT ![i] = o] = enlace[e]
      BY <1>3, <2>2
    <3> QED BY <1>3, <3>1
  <2> QED BY <2>1, <2>2
<1>5. /\ enlace' \in [Etiquetas -> Seq(Bloques \cup {SIN})]
      /\ \A d \in Etiquetas \ {e} : enlace'[d] = enlace[d]
  BY <1>1, <1>3, <1>4
<1> QED BY <1>1, <1>5, DuplicadoSalvo

LEMMA DeduplicaMalSalvo ==
    ASSUME Orden, Salvo, NEW t \in Hilos, DeduplicaMal(t)
    PROVE  Orden' /\ Salvo'
<1>1. /\ hilo[t].paso = "indice" /\ indice[hilo[t].v] \notin {NULL, hilo[t].lista[hilo[t].i]}
      /\ ConEnlace(hilo[t].e, hilo[t].i, SIN) \/ UNCHANGED enlace
      /\ UNCHANGED <<meta, contenido, bitmap, indice, candado, rota>>
      /\ Libera(t, enlace', Duplicado(t))
  BY DEF DeduplicaMal, Duplicado
<1>2. Tipos /\ hilo[t].e \in Etiquetas /\ hilo[t].i \in Nat \ {0}
  BY <1>1, ConIndice
<1>3. /\ enlace' \in [Etiquetas -> Seq(Bloques \cup {SIN})]
      /\ \A d \in Etiquetas \ {hilo[t].e} : enlace'[d] = enlace[d]
  BY <1>1, <1>2, ConEnlaceTipo, SinCambio
<1> QED BY <1>1, <1>3, DuplicadoSalvo

-----------------------------------------------------------------------------
(***************************************************************************)
(* Kills.  Every list but that of the metadata is lost.                    *)
(***************************************************************************)

\* Who operates on e, if anyone does.
LEMMA Operador ==
    ASSUME Orden, NEW e \in Etiquetas
    PROVE  \/ Listas[e] = {meta[e].bloques} /\ \A i : <<e, i>> \in Firmes => meta[e].estado = "COMMITED"
           \/ \E t \in Hilos : /\ candado[Archivo(e)] = t /\ hilo[t].e = e /\ ~SinCandado(hilo[t])
                               /\ meta[e].estado # "COMMITED"
                               /\ Listas[e] = ListasCon(meta[e].bloques, hilo[t])
                               /\ \A i : <<e, i>> \in Firmes => Commiteando(hilo[t]) /\ i < hilo[t].i
<1> DEFINE t == candado[Archivo(e)]
<1>1. Tipos /\ Cerrojos /\ Archivo(e) \in Archivos
  BY ArchivoTipo DEF Orden
<1>2. t \in Hilos \cup {NULL} /\ (t # NULL => ~SinCandado(hilo[t]))
  BY <1>1 DEF Tipos, Cerrojos
<1>3. t # NULL /\ hilo[t].e = e => meta[e].estado # "COMMITED"
  BY <1>2 DEF Orden, EnHecho
<1>4. Listas[e] = ListasEn(meta, candado, hilo, e)
  BY DEF Listas
<1>5. \A i : <<e, i>> \in Firmes => FijaEn(meta, candado, hilo, e, i)
  BY DEF Firmes
<1>6. CASE t # NULL /\ hilo[t].e = e
  <2>1. Listas[e] = ListasCon(meta[e].bloques, hilo[t])
    BY <1>4, <1>6 DEF ListasEn
  <2>2. \A i : <<e, i>> \in Firmes => Commiteando(hilo[t]) /\ i < hilo[t].i
    BY <1>3, <1>5, <1>6 DEF FijaEn
  <2> QED BY <1>2, <1>3, <1>6, <2>1, <2>2
<1>7. CASE ~(t # NULL /\ hilo[t].e = e)
  BY <1>4, <1>5, <1>7 DEF ListasEn, FijaEn
<1> QED BY <1>6, <1>7

\* What each File:Tag is left with.
LEMMA AlMorir ==
    ASSUME Orden, Muere
    PROVE  /\ meta' \in [Etiquetas -> [bloques : Seq(Bloques), estado : EnDirectorio]]
           /\ \A e \in Etiquetas : \/ meta'[e] = meta[e]
                                   \/ /\ meta'[e].bloques = << >> /\ meta[e].estado # "COMMITED"
                                      /\ meta'[e].estado # "COMMITED"
                                      /\ candado[Archivo(e)] # NULL
           /\ hilo' = [t \in Hilos |-> Libre]
           /\ candado' = [f \in Archivos |-> NULL]
           /\ UNCHANGED <<enlace, contenido, bitmap>>
           /\ indice' \in [Valores -> Bloques \cup {NULL}]
           /\ \A v \in Valores : indice'[v] \in {indice[v], NULL}
           /\ rota' \in BOOLEAN
           /\ ~rota' => ~rota /\ \A t \in Hilos : ~Soltando(t)
<1> DEFINE vacia == [NoExiste EXCEPT !.estado = "VACIA"]
<1>1. Tipos /\ Cerrojos /\ NULL \notin Hilos
  BY StorageSupuesto DEF Orden
<1>2. PICK cortados \in SUBSET EnGuardado :
         meta' = [e \in Etiquetas |-> IF e \in cortados THEN vacia ELSE meta[e]]
  BY DEF Muere
<1>3. vacia \in [bloques : Seq(Bloques), estado : EnDirectorio] /\ vacia.bloques = << >>
      /\ vacia.estado = "VACIA"
  BY EmptySeq DEF NoExiste, EnDirectorio
<1> HIDE DEF vacia
<1>4. ASSUME NEW e \in EnGuardado
      PROVE  meta[e].estado # "COMMITED" /\ candado[Archivo(e)] # NULL
  <2>1. PICK t \in Hilos : hilo[t].e = e /\ hilo[t].paso \in {"guarda", "hash"}
    BY DEF EnGuardado
  <2>2. ~SinCandado(hilo[t])
    BY <2>1 DEF SinCandado
  <2> QED BY <1>1, <2>1, <2>2, EnMarcha
<1>5. \A e \in Etiquetas : meta[e] \in [bloques : Seq(Bloques), estado : EnDirectorio]
  BY <1>1, MetaMarco
<1>6. meta' \in [Etiquetas -> [bloques : Seq(Bloques), estado : EnDirectorio]]
  BY <1>2, <1>3, <1>5
<1>7. \A e \in Etiquetas : \/ meta'[e] = meta[e]
                           \/ /\ meta'[e].bloques = << >> /\ meta[e].estado # "COMMITED"
                              /\ meta'[e].estado # "COMMITED"
                              /\ candado[Archivo(e)] # NULL
  BY <1>2, <1>3, <1>4
<1>8. rota' \in BOOLEAN /\ (~rota' => ~rota /\ \A t \in Hilos : ~Soltando(t))
  BY <1>1 DEF Muere, Tipos
<1>9. /\ indice' \in [Valores -> Bloques \cup {NULL}]
      /\ \A v \in Valores : indice'[v] \in {indice[v], NULL}
  BY <1>1 DEF Muere, Tipos
<1> QED BY <1>6, <1>7, <1>8, <1>9 DEF Muere

LEMMA MuereSalvo ==
    ASSUME Orden, Salvo, Muere
    PROVE  Orden' /\ Salvo'
<1>1. /\ meta' \in [Etiquetas -> [bloques : Seq(Bloques), estado : EnDirectorio]]
      /\ \A e \in Etiquetas : \/ meta'[e] = meta[e]
                              \/ /\ meta'[e].bloques = << >> /\ meta[e].estado # "COMMITED"
                                 /\ meta'[e].estado # "COMMITED"
      /\ hilo' = [t \in Hilos |-> Libre]
      /\ candado' = [f \in Archivos |-> NULL]
      /\ UNCHANGED <<enlace, contenido, bitmap>>
      /\ indice' \in [Valores -> Bloques \cup {NULL}]
      /\ \A v \in Valores : indice'[v] \in {indice[v], NULL}
      /\ rota' \in BOOLEAN
      /\ ~rota' => ~rota /\ \A t \in Hilos : ~Soltando(t)
  BY AlMorir
<1>2. Tipos /\ Cerrojos /\ EnCero /\ NULL \notin Hilos /\ BASE \in Etiquetas
  BY StorageSupuesto DEF Orden
<1>3. /\ Libre \in Marco /\ SinCandado(Libre) /\ ~Suyo(Libre)
      /\ Libre.paso = "libre" /\ Libre.sigue = "libre"
  BY LibreMarco DEF SinCandado, Suyo
<1>4. Orden'
  <2>1. Tipos'
    BY <1>1, <1>2, <1>3 DEF Tipos
  <2>2. Cerrojos'
    BY <1>1, <1>3 DEF Cerrojos
  <2>3. EnCero'
    <3>1. meta[BASE].estado = "COMMITED" /\ enlace' = enlace
      BY <1>1, <1>2 DEF EnCero
    <3>2. meta'[BASE] = meta[BASE] /\ enlace'[BASE] = enlace[BASE]
      BY <1>1, <1>2, <3>1
    <3> QED BY <1>2, <3>2 DEF EnCero
  <2>4. \A t \in Hilos : EnHecho(meta', hilo'[t])
    BY <1>1, <1>3 DEF EnHecho, Fase, Escribiendo, Commiteando, SinCandado
  <2> QED BY <2>1, <2>2, <2>3, <2>4 DEF Orden
<1> SUFFICES ASSUME ~rota'
             PROVE  Reparto(Listas', Firmes', bitmap', Suyos', indice') /\ Existen'
  BY <1>4 DEF Salvo
<1>5. /\ Propias(Listas, Firmes) /\ EnBitmap(Listas, bitmap)
      /\ \A v \in Valores : indice[v] # NULL => Registrado(Listas, Firmes, indice[v])
      /\ <<0>> \in Listas[BASE] /\ \A e \in Etiquetas : Listas[e] \subseteq Seq(Bloques)
  BY <1>1, DeBloquesSiempre DEF Salvo, Reparto, DeBloques
<1>6. /\ \A e \in Etiquetas : Listas'[e] = {meta'[e].bloques}
      /\ \A e \in Etiquetas, i \in Nat : <<e, i>> \in Firmes' <=> meta'[e].estado = "COMMITED"
  <2>1. \A e \in Etiquetas : candado'[Archivo(e)] = NULL
    BY <1>1, ArchivoTipo
  <2> QED BY <2>1 DEF Listas, ListasEn, Firmes, FijaEn
<1>7. ASSUME NEW e \in Etiquetas
      PROVE  /\ meta[e].bloques \in Listas[e] \/ meta[e].bloques = << >>
             /\ \A i \in Nat \ {0} : <<e, i>> \in Firmes => meta[e].estado = "COMMITED"
             /\ meta[e].estado = "COMMITED" => Listas[e] = {meta[e].bloques}
  <2>1. CASE /\ Listas[e] = {meta[e].bloques}
             /\ \A i : <<e, i>> \in Firmes => meta[e].estado = "COMMITED"
    BY <2>1
  <2>2. ASSUME NEW t \in Hilos, hilo[t].e = e, ~SinCandado(hilo[t]),
               meta[e].estado # "COMMITED", Listas[e] = ListasCon(meta[e].bloques, hilo[t]),
               \A i : <<e, i>> \in Firmes => Commiteando(hilo[t]) /\ i < hilo[t].i
        PROVE  /\ meta[e].bloques \in Listas[e] \/ meta[e].bloques = << >>
               /\ \A i \in Nat \ {0} : <<e, i>> \in Firmes => meta[e].estado = "COMMITED"
    <3>1. ~Soltando(t) /\ EnHecho(meta, hilo[t]) /\ hilo[t].lista \in Seq(Bloques)
          /\ hilo[t].i \in Nat
      BY <1>1, <2>2, HiloMarco, EnMarcha
    <3>2. CASE Commiteando(hilo[t])
      <4>1. hilo[t].i \in 1..(Len(hilo[t].lista) + 1) /\ ~(hilo[t].i > 1)
        BY <3>1, <3>2 DEF EnHecho, Soltando, Commiteando, Fase
      <4>2. hilo[t].i = 1
        BY <3>1, <4>1
      <4>3. hilo[t].lista = meta[e].bloques
        BY <2>2, <3>1, <3>2, <4>2 DEF EnHecho
      <4>4. \A i \in Nat \ {0} : ~(i < 1)
        OBVIOUS
      <4> QED BY <2>2, <3>2, <4>2, <4>3, <4>4 DEF ListasCon, ConLista, Commiteando
    <3>3. CASE Fase(hilo[t]) = "achica"
      <4>1. hilo[t].lista = meta[e].bloques /\ ~Commiteando(hilo[t])
        BY <2>2, <3>1, <3>3 DEF Soltando, Fase, Commiteando
      <4> QED BY <2>2, <3>3, <4>1 DEF ListasCon, ConLista
    <3>4. CASE Fase(hilo[t]) = "borra"
      BY <2>2, <3>1, <3>4 DEF EnHecho, Commiteando
    <3>5. CASE ~ConLista(hilo[t])
      BY <2>2, <3>5 DEF ListasCon, ConLista, Commiteando
    <3> QED BY <3>2, <3>3, <3>4, <3>5 DEF ConLista, Commiteando
  <2> QED BY <2>1, <2>2, Operador
<1>8. ASSUME NEW e \in Etiquetas
      PROVE  Viene(Listas, Firmes, Listas', Firmes', e, 0) /\ Queda(Listas, Firmes, Listas', Firmes', e)
  <2>1. /\ \A s \in Listas[e] : \A i \in DOMAIN s : i \in Nat \ {0} /\ i + 0 = i
        /\ \A i \in DOMAIN meta[e].bloques : i \in Nat \ {0} /\ i + 0 = i
    BY <1>2, <1>5, MetaMarco, ListaTipo
  <2>2. CASE meta'[e] = meta[e]
    <3>1. Viene(Listas, Firmes, Listas', Firmes', e, 0)
      BY <1>6, <1>7, <2>1, <2>2 DEF Viene
    <3>2. Queda(Listas, Firmes, Listas', Firmes', e)
      BY <1>6, <1>7, <2>1, <2>2 DEF Queda
    <3> QED BY <3>1, <3>2
  <2>3. CASE meta'[e].bloques = << >> /\ meta[e].estado # "COMMITED"
    BY <1>6, <1>7, <2>1, <2>3 DEF Viene, Queda
  <2> QED BY <1>1, <2>2, <2>3
<1>9. /\ Propias(Listas', Firmes')
      /\ \A bm : EnBitmap(Listas, bm) /\ 0 \in bm \ Ausentes => EnBitmap(Listas', bm)
      /\ \A b : Registrado(Listas, Firmes, b) => Registrado(Listas', Firmes', b)
  <2> DEFINE M == [e \in Etiquetas |-> 0]
  <2>1. M \in [Etiquetas -> Nat] /\ \A e \in Etiquetas : M[e] = 0
    OBVIOUS
  <2>2. \A e \in Etiquetas : Listas'[e] \subseteq Seq(Bloques)
    BY <1>4, DeBloquesDespues DEF DeBloques
  <2>3. \A e \in Etiquetas : /\ Viene(Listas, Firmes, Listas', Firmes', e, M[e])
                              /\ Queda(Listas, Firmes, Listas', Firmes', e)
    BY <1>8, <2>1
  <2>4. Propias(Listas, Firmes)
    BY <1>5
  <2> HIDE DEF M
  <2>5. /\ Propias(Listas', Firmes')
        /\ \A bm : EnBitmap(Listas, bm) /\ 0 \in bm \ Ausentes => EnBitmap(Listas', bm)
        /\ \A b : b # 0 /\ Nadie(Listas, b) => Nadie(Listas', b)
        /\ \A b : Registrado(Listas, Firmes, b) => Registrado(Listas', Firmes', b)
    BY <2>1, <2>2, <2>3, <2>4, CambioReparto
  <2> QED BY <2>5
<1>10. 0 \in bitmap \ Ausentes
  BY <1>5, CeroOcupado
<1>11. DeCadaHilo(Listas', bitmap', Suyos')
  <2>1. \A x : x \notin Suyos'
    BY <1>1, <1>3 DEF Suyos
  <2> QED BY <2>1 DEF DeCadaHilo
<1>12. Existen'
  BY <1>1, <1>3 DEF Existen
<1>13. \A v \in Valores : indice'[v] # NULL => Registrado(Listas', Firmes', indice'[v])
  BY <1>1, <1>5, <1>9
<1> QED BY <1>1, <1>5, <1>9, <1>10, <1>11, <1>12, <1>13 DEF Reparto

-----------------------------------------------------------------------------
(***************************************************************************)
(* The invariant holds.                                                    *)
(***************************************************************************)

LEMMA Montado ==
    ASSUME InitMontaje
    PROVE  Orden /\ Salvo
<1>0. /\ 0 \in Bloques /\ 0 \in Valores /\ BASE \in Etiquetas /\ NULL \notin Bloques
      /\ NULL \notin Hilos /\ 0 \notin Ausentes /\ 0 # NULL
  BY StorageSupuesto, MontajeSupuesto
<1>1. /\ \A e \in Etiquetas : meta[e] = IF e = BASE THEN [bloques |-> <<0>>, estado |-> "COMMITED"]
                                        ELSE NoExiste
      /\ enlace = [e \in Etiquetas |-> meta[e].bloques]
      /\ contenido = [b \in Bloques |-> 0] /\ bitmap = {0}
      /\ indice = [v \in Valores |-> IF v = 0 THEN 0 ELSE NULL]
      /\ candado = [f \in Archivos |-> NULL]
      /\ hilo = [t \in Hilos |-> Libre] /\ rota = FALSE
  BY DEF InitMontaje, Init
<1>2. /\ <<0>> \in Seq(Bloques) /\ DOMAIN <<0>> = {1} /\ <<0>>[1] = 0
      /\ << >> \in Seq(Bloques) /\ DOMAIN << >> = {}
      /\ <<0>> \in Seq(Bloques \cup {SIN}) /\ << >> \in Seq(Bloques \cup {SIN})
  BY <1>0
<1>3. \A e \in Etiquetas : \/ /\ e = BASE /\ meta[e].bloques = <<0>> /\ meta[e].estado = "COMMITED"
                           \/ /\ e # BASE /\ meta[e].bloques = << >> /\ meta[e].estado = "NO_EXISTE"
  BY <1>1 DEF NoExiste
<1>4. /\ Libre \in Marco /\ SinCandado(Libre) /\ ~Suyo(Libre)
      /\ Libre.paso = "libre" /\ Libre.sigue = "libre"
  BY LibreMarco DEF SinCandado, Suyo
<1>5. Orden
  <2>1. meta \in [Etiquetas -> [bloques : Seq(Bloques), estado : EnDirectorio]]
    <3>1. /\ [bloques |-> <<0>>, estado |-> "COMMITED"] \in [bloques : Seq(Bloques), estado : EnDirectorio]
          /\ NoExiste \in [bloques : Seq(Bloques), estado : EnDirectorio]
      BY <1>2 DEF NoExiste, EnDirectorio, Estados
    <3> QED BY <3>1 DEF InitMontaje, Init
  <2>2. enlace \in [Etiquetas -> Seq(Bloques \cup {SIN})]
    <3>1. \A e \in Etiquetas : meta[e].bloques \in Seq(Bloques \cup {SIN})
      BY <1>2, <1>3
    <3> QED BY <1>1, <3>1
  <2>3. Tipos
    BY <1>0, <1>1, <1>4, <2>1, <2>2 DEF Tipos
  <2>4. Cerrojos
    BY <1>1, <1>4 DEF Cerrojos
  <2>5. EnCero
    BY <1>0, <1>1 DEF EnCero
  <2>6. \A t \in Hilos : EnHecho(meta, hilo[t])
    BY <1>1, <1>4 DEF EnHecho, Fase, Escribiendo, Commiteando, SinCandado
  <2> QED BY <2>3, <2>4, <2>5, <2>6 DEF Orden
<1>6. \A e \in Etiquetas : Listas[e] = {meta[e].bloques}
  <2>1. \A e \in Etiquetas : candado[Archivo(e)] = NULL
    BY <1>1, ArchivoTipo
  <2> QED BY <2>1 DEF Listas, ListasEn
<1>7. \A e \in Etiquetas : \A s \in Listas[e] : \A i \in DOMAIN s : s[i] = 0
  BY <1>2, <1>3, <1>6
<1>8. Propias(Listas, Firmes)
  BY <1>7 DEF Propias
<1>9. EnBitmap(Listas, bitmap)
  BY <1>0, <1>1, <1>7 DEF EnBitmap
<1>10. DeCadaHilo(Listas, bitmap, Suyos)
  <2>1. \A x : x \notin Suyos
    BY <1>1, <1>4 DEF Suyos
  <2> QED BY <2>1 DEF DeCadaHilo
<1>11. \A v \in Valores : indice[v] # NULL => Registrado(Listas, Firmes, indice[v])
  BY <1>1 DEF Registrado
<1>12. Existen
  BY <1>1, <1>4 DEF Existen
<1> QED BY <1>5, <1>8, <1>9, <1>10, <1>11, <1>12 DEF Salvo, Reparto

LEMMA ComoStorageSalvo ==
    ASSUME ~BorraCommiteado, Orden, Salvo, NEW t \in Hilos, ComoStorage(t)
    PROVE  Orden' /\ Salvo'
<1>0. UNCHANGED rota /\ Pedibles \subseteq Etiquetas /\ \A e \in Pedibles : Topes[e] \in Nat
  BY StorageSupuesto, MontajeSupuesto DEF ComoStorage
<1>1. CASE \/ reservarBloqueLibre(t) \/ LimpiaBit(t) \/ TerminaTruncate(t)
           \/ BloqueBorrado(t) \/ TerminaDelete(t)
           \/ Conserva(t) \/ Deduplica(t) \/ TerminaCommit(t)
  BY <1>0, <1>1, ReservaSalvo, LimpiaBitSalvo, TerminaTruncateSalvo, BloqueBorradoSalvo,
     TerminaDeleteSalvo, ConservaSalvo, DeduplicaSalvo, TerminaCommitSalvo
<1>2. ASSUME NEW e \in Pedibles, eliminarTag(t, e) \/ commitFile(t, e)
      PROVE  Orden' /\ Salvo'
  BY <1>0, <1>2, EliminarTagSalvo, CommitFileSalvo
<1>3. ASSUME NEW e \in Pedibles, NEW i \in 1..Topes[e], NEW v \in Valores, escribirBloque(t, e, i, v)
      PROVE  Orden' /\ Salvo'
  BY <1>0, <1>3, EscribirBloqueSalvo
<1>4. ASSUME NEW e \in Pedibles, NEW n \in 0..Topes[e], truncate_achica(t, e, n)
      PROVE  Orden' /\ Salvo'
  BY <1>0, <1>4, AchicaSalvo
<1> QED BY <1>1, <1>2, <1>3, <1>4 DEF ComoStorage

LEMMA PasoMontaje ==
    ASSUME ~BorraCommiteado, Orden, Salvo, NextMontaje
    PROVE  Orden' /\ Salvo'
<1>0. Pedibles \subseteq Etiquetas /\ \A e \in Pedibles : Topes[e] \in Nat
  BY StorageSupuesto, MontajeSupuesto
<1>1. CASE Mata
  BY <1>1, MuereSalvo DEF Mata
<1>2. ASSUME NEW t \in Hilos,
             \/ ComoStorage(t)
             \/ crearArchivo(t) \/ config_save(t) \/ NoGuarda(t)
             \/ Escribe(t) \/ NoEscribe(t) \/ BitSinBloque(t)
             \/ Desenlaza(t) \/ NoDesenlaza(t) \/ Enlaza(t) \/ NoEnlaza(t)
      PROVE  Orden' /\ Salvo'
  BY <1>2, ComoStorageSalvo, CrearArchivoSalvo, ConfigSaveSalvo, NoGuardaSalvo, EscribeSalvo,
     NoEscribeSalvo, BitSinBloqueSalvo, DesenlazaSalvo, NoDesenlazaSalvo, EnlazaSalvo, NoEnlazaSalvo
<1>3. ASSUME NEW t \in Hilos,
             \/ EnlazaCero(t) \/ NoEnlazaCero(t) \/ DesenlazaFinal(t) \/ NoAchica(t)
             \/ Hash(t) \/ DeduplicaMal(t) \/ NoCommit(t)
      PROVE  Orden' /\ Salvo'
  BY <1>3, EnlazaCeroSalvo, NoEnlazaCeroSalvo, DesenlazaFinalSalvo, NoAchicaSalvo, HashSalvo,
     DeduplicaMalSalvo, NoCommitSalvo
<1>4. ASSUME NEW t \in Hilos, NEW e \in Pedibles, CreaDirectorio(t, e) \/ MuereSola(t, e)
      PROVE  Orden' /\ Salvo'
  BY <1>0, <1>4, CreaDirectorioSalvo, MuereSalvo DEF MuereSola
<1>5. ASSUME NEW t \in Hilos, NEW e \in Pedibles, NEW n \in 1..Topes[e], Agranda(t, e, n)
      PROVE  Orden' /\ Salvo'
  BY <1>0, <1>5, AgrandaSalvo
<1> QED BY <1>1, <1>2, <1>3, <1>4, <1>5 DEF NextMontaje

LEMMA MontajeQuieto ==
    ASSUME Orden, Salvo, UNCHANGED todas
    PROVE  Orden' /\ Salvo'
<1>1. /\ meta' = meta /\ enlace' = enlace /\ contenido' = contenido /\ bitmap' = bitmap
      /\ indice' = indice /\ candado' = candado /\ hilo' = hilo /\ (rota' <=> rota) /\ rota' = rota
  BY DEF todas, vars
<1>2. Listas' = Listas /\ Firmes' = Firmes /\ Suyos' = Suyos /\ (Existen' <=> Existen)
  BY <1>1 DEF Listas, Firmes, Suyos, Existen
<1>3. Orden'
  BY <1>1 DEF Orden, Tipos, Cerrojos, EnCero
<1>4. Salvo'
  BY <1>1, <1>2 DEF Salvo
<1> QED BY <1>3, <1>4

LEMMA MontajeInvariante == ~BorraCommiteado => (SpecMontaje => [](Orden /\ Salvo))
<1> SUFFICES ASSUME ~BorraCommiteado PROVE SpecMontaje => [](Orden /\ Salvo)
  OBVIOUS
<1>1. Orden /\ Salvo /\ [NextMontaje]_todas => (Orden /\ Salvo)'
  BY PasoMontaje, MontajeQuieto
<1>2. InitMontaje => Orden /\ Salvo
  BY Montado
<1>3. SpecMontaje => InitMontaje /\ [][NextMontaje]_todas
  BY DEF SpecMontaje
<1> QED BY <1>1, <1>2, <1>3, PTL

-----------------------------------------------------------------------------
(***************************************************************************)
(* The results.                                                            *)
(***************************************************************************)

\* What a File:Tag uses is in one of its lists.
LEMMA UsadoEnLista ==
    ASSUME Orden, NEW b, Nadie(Listas, b)
    PROVE  b \notin Usados
<1> SUFFICES ASSUME b \in Usados PROVE FALSE
  OBVIOUS
<1>1. PICK e \in Etiquetas : b \in Range(BloquesDe(e))
  BY DEF Usados
<1>2. PICK i \in DOMAIN BloquesDe(e) : BloquesDe(e)[i] = b
  BY <1>1 DEF Range
<1>3. Tipos /\ Cerrojos /\ candado[Archivo(e)] \in Hilos \cup {NULL}
  BY ArchivoTipo DEF Orden, Tipos
<1>4. BloquesDe(e) = BloquesEn(meta, candado, hilo, e)
  <2>1. \A t \in Hilos : /\ hilo[t].paso = "libera" => hilo[t].sigue \in {"achica", "borra", "hash"}
                         /\ hilo[t].paso # "libera" => hilo[t].sigue = "libre"
    BY DEF Orden, EnHecho
  <2> QED BY <1>3, <2>1, BloquesConCandado
<1>5. Listas[e] = ListasEn(meta, candado, hilo, e)
  BY DEF Listas
<1>6. CASE ~(candado[Archivo(e)] # NULL /\ hilo[candado[Archivo(e)]].e = e)
  BY <1>2, <1>4, <1>5, <1>6 DEF BloquesEn, ListasEn, Nadie
<1>7. CASE candado[Archivo(e)] # NULL /\ hilo[candado[Archivo(e)]].e = e
  <2>1. PICK t \in Hilos : t = candado[Archivo(e)]
    BY <1>3, <1>7
  <2>2. hilo[t].lista \in Seq(Bloques) /\ hilo[t].i \in Nat /\ EnHecho(meta, hilo[t])
    BY <1>3, HiloMarco DEF Orden
  <2>3. Listas[e] = ListasCon(meta[e].bloques, hilo[t])
    BY <1>5, <1>7, <2>1 DEF ListasEn
  <2>4. CASE ~ConLista(hilo[t])
    BY <1>2, <1>4, <2>1, <2>3, <2>4 DEF BloquesEn, VaADejar, ConLista, ListasCon, Nadie
  <2>5. CASE Fase(hilo[t]) = "borra"
    <3>1. BloquesDe(e) = << >>
      BY <1>4, <1>7, <2>1, <2>2, <2>5 DEF BloquesEn, VaADejar, EnHecho
    <3> QED BY <1>2, <3>1
  <2>6. CASE Fase(hilo[t]) \in {"achica", "hash", "indice"}
    <3>1. Listas[e] = {hilo[t].lista} /\ BloquesDe(e) = Dejados(hilo[t])
      BY <1>4, <1>7, <2>1, <2>3, <2>6 DEF BloquesEn, VaADejar, ListasCon, ConLista
    <3>2. CASE Fase(hilo[t]) = "achica"
      <4>1. BloquesDe(e) = SubSeq(hilo[t].lista, 1, hilo[t].i) /\ hilo[t].i <= Len(hilo[t].lista)
        BY <2>2, <3>1, <3>2 DEF Dejados, EnHecho
      <4>2. i \in DOMAIN hilo[t].lista /\ hilo[t].lista[i] = b
        BY <1>2, <2>2, <4>1, PrefijoTipo
      <4> QED BY <3>1, <4>2 DEF Nadie
    <3>3. CASE Fase(hilo[t]) # "achica"
      BY <1>2, <3>1, <3>3 DEF Dejados, Nadie
    <3> QED BY <3>2, <3>3
  <2> QED BY <2>4, <2>5, <2>6 DEF ConLista
<1> QED BY <1>6, <1>7

LEMMA TodoASalvo == Orden /\ Salvo => BloquesASalvo
<1> SUFFICES ASSUME Orden, Salvo, ~rota PROVE BloquesASalvo
  BY DEF BloquesASalvo
<1>1. EnBitmap(Listas, bitmap) /\ DeCadaHilo(Listas, bitmap, Suyos)
  BY DEF Salvo, Reparto
<1>2. Usados \subseteq bitmap \ Ausentes
  <2> SUFFICES ASSUME NEW b \in Usados, b \notin bitmap \ Ausentes PROVE FALSE
    OBVIOUS
  <2>1. Nadie(Listas, b)
    BY <1>1 DEF EnBitmap, Nadie
  <2> QED BY <2>1, UsadoEnLista
<1>3. ASSUME NEW t \in Hilos, Suyo(hilo[t])
      PROVE  /\ hilo[t].b \in bitmap \ Usados
             /\ \A u \in Hilos \ {t} : Suyo(hilo[u]) => hilo[u].b # hilo[t].b
  <2>1. <<t, hilo[t].b>> \in Suyos /\ \A u \in Hilos : Suyo(hilo[u]) => <<u, hilo[u].b>> \in Suyos
    BY <1>3 DEF Suyos
  <2>2. hilo[t].b \in bitmap /\ Nadie(Listas, hilo[t].b)
    BY <1>1, <2>1 DEF DeCadaHilo
  <2>3. ASSUME NEW u \in Hilos \ {t}, Suyo(hilo[u]), hilo[u].b = hilo[t].b PROVE FALSE
    <3>1. <<u, hilo[u].b>> = <<t, hilo[t].b>>
      BY <1>1, <2>1, <2>3 DEF DeCadaHilo
    <3> QED BY <3>1
  <2> QED BY <2>2, <2>3, UsadoEnLista
<1>4. LiberadoSinUso
  BY <1>3 DEF LiberadoSinUso, Suyo
<1> QED BY <1>2, <1>3, <1>4 DEF BloquesASalvo, Suyo

\* Kills, restarts and failing system calls, as many as there may be, and any number of
\* threads, File:Tags and blocks: as long as DELETE leaves COMMITED File:Tags alone and no
\* TRUNCATE that shrinks nor COMMIT was left half done, no File:Tag is on a block that is
\* free, about to be freed or reserved by a WRITE, or that does not exist.
THEOREM CortesSinDanio == ~BorraCommiteado => (SpecMontaje => []BloquesASalvo)
<1>1. ~BorraCommiteado => (SpecMontaje => [](Orden /\ Salvo))
  BY MontajeInvariante
<1> QED BY <1>1, TodoASalvo, PTL

\* The step touches the metadata of File:Tags with an operation in course only.
SoloEnCurso ==
    \A e \in Etiquetas : \/ meta'[e] = meta[e]
                         \/ /\ meta[e].estado # "COMMITED"
                            /\ candado[Archivo(e)] # NULL \/ candado'[Archivo(e)] # NULL

LEMMA CambiaEnCurso ==
    ASSUME Orden, NEW t \in Hilos, ~SinCandado(hilo[t]), NEW m,
           meta' = [meta EXCEPT ![hilo[t].e] = m]
    PROVE  SoloEnCurso
<1>1. /\ Tipos /\ meta[hilo[t].e].estado # "COMMITED" /\ candado[Archivo(hilo[t].e)] # NULL
  BY EnMarcha, StorageSupuesto
<1> QED BY <1>1 DEF SoloEnCurso, Tipos

LEMMA CambiaAlTomar ==
    ASSUME Orden, NEW t \in Hilos, NEW e \in Etiquetas, lock_file_metadata(t, e),
           meta[e].estado # "COMMITED", NEW m, meta' = [meta EXCEPT ![e] = m]
    PROVE  SoloEnCurso
<1>1. /\ Tipos /\ candado'[Archivo(e)] # NULL
  BY ArchivoTipo, StorageSupuesto DEF lock_file_metadata, Orden, Tipos
<1> QED BY <1>1 DEF SoloEnCurso, Tipos

\* Nobody else is on the block that is written.
LEMMA EscribeEnCurso ==
    ASSUME Orden, Salvo, ~rota, NEW t \in Hilos, hilo[t].paso \in {"copia", "sobrescribe"},
           NEW e \in Etiquetas, meta[e].estado = "COMMITED" \/ candado[Archivo(e)] = NULL
    PROVE  \A i \in DOMAIN meta[e].bloques : meta[e].bloques[i] # hilo[t].b
<1>1. /\ ~SinCandado(hilo[t]) /\ ~ConLista(hilo[t]) /\ ~Commiteando(hilo[t])
  BY DEF SinCandado, ConLista, Commiteando, Fase
<1>2. /\ Tipos /\ Cerrojos /\ hilo[t].e \in Etiquetas /\ EnHecho(meta, hilo[t])
      /\ meta[hilo[t].e].estado # "COMMITED" /\ candado[Archivo(hilo[t].e)] = t /\ t # NULL
  BY <1>1, EnMarcha, StorageSupuesto
<1>3. Listas[e] = {meta[e].bloques} /\ e # hilo[t].e
  <2>1. ~\E u \in Hilos : candado[Archivo(e)] = u /\ meta[e].estado # "COMMITED"
    BY StorageSupuesto
  <2> QED BY <1>2, <2>1, Operador
<1>4. CASE hilo[t].paso = "copia"
  <2>1. Nadie(Listas, hilo[t].b)
    BY <1>4, ReservadoSolo DEF Suyo
  <2> QED BY <1>3, <2>1 DEF Nadie
<1>5. CASE hilo[t].paso = "sobrescribe"
  <2> DEFINE d == hilo[t].e
             k == hilo[t].i
  <2>1. k \in DOMAIN meta[d].bloques /\ hilo[t].b = meta[d].bloques[k] /\ hilo[t].b # 0
    BY <1>2, <1>5 DEF EnHecho, Escribiendo
  <2>2. meta[d].bloques \in Listas[d] /\ <<d, k>> \notin Firmes
    <3>1. t # NULL /\ candado[Archivo(d)] = t /\ hilo[t].e = d
      BY <1>2
    <3>2. meta[d].bloques \in ListasEn(meta, candado, hilo, d)
      BY <1>1, <3>1 DEF ListasEn, ListasCon
    <3>3. ~FijaEn(meta, candado, hilo, d, k)
      BY <1>1, <1>2, <3>1 DEF FijaEn
    <3> QED BY <1>2, <3>2, <3>3 DEF Listas, Firmes
  <2>3. Propias(Listas, Firmes)
    BY DEF Salvo, Reparto
  <2> QED BY <1>2, <1>3, <2>1, <2>2, <2>3 DEF Propias
<1> QED BY <1>4, <1>5

Ajeno(e) == ~rota /\ Contenido(e)' # Contenido(e) =>
               /\ meta[e].estado # "COMMITED"
               /\ candado[Archivo(e)] # NULL \/ candado'[Archivo(e)] # NULL

LEMMA AjenoPorMeta ==
    ASSUME SoloEnCurso, contenido' = contenido, NEW e \in Etiquetas
    PROVE  Ajeno(e)
BY DEF SoloEnCurso, Ajeno, Contenido

LEMMA AjenoAlEscribir ==
    ASSUME Orden, Salvo, NEW t \in Hilos, Escribe(t), NEW e \in Etiquetas
    PROVE  Ajeno(e)
<1> SUFFICES ASSUME ~rota, meta[e].estado = "COMMITED" \/ candado[Archivo(e)] = NULL
             PROVE  Contenido(e)' = Contenido(e)
  BY DEF Ajeno
<1>1. /\ hilo[t].paso \in {"copia", "sobrescribe"} /\ meta' = meta
      /\ contenido' = [contenido EXCEPT ![hilo[t].b] = hilo[t].v]
  BY DEF Escribe, escribirFisicoDirecto
<1>2. \A i \in DOMAIN meta[e].bloques : meta[e].bloques[i] # hilo[t].b
  BY <1>1, EscribeEnCurso
<1>3. \A i \in DOMAIN meta[e].bloques : contenido'[meta[e].bloques[i]] = contenido[meta[e].bloques[i]]
  <2>1. Tipos /\ meta[e].bloques \in Seq(Bloques)
    BY MetaMarco DEF Orden
  <2>2. \A i \in DOMAIN meta[e].bloques : meta[e].bloques[i] \in Bloques
    BY <2>1, ListaTipo
  <2> QED BY <1>1, <1>2, <2>1, <2>2 DEF Tipos
<1> QED BY <1>1, <1>3 DEF Contenido

\* The steps that change contents or metadata, one by one.
LEMMA PasoAjeno ==
    ASSUME ~BorraCommiteado, Orden, Salvo, NextMontaje, NEW e \in Etiquetas
    PROVE  Ajeno(e)
<1>0. Pedibles \subseteq Etiquetas
  BY StorageSupuesto
<1>1. CASE Muere
  <2>1. SoloEnCurso /\ contenido' = contenido
    BY <1>1, AlMorir DEF SoloEnCurso
  <2> QED BY <2>1, AjenoPorMeta
<1>2. CASE meta' = meta /\ contenido' = contenido
  BY <1>2, AjenoPorMeta DEF SoloEnCurso
<1>3. ASSUME NEW t \in Hilos, Escribe(t) PROVE Ajeno(e)
  BY <1>3, AjenoAlEscribir
<1>4. ASSUME NEW t \in Hilos,
             \/ crearArchivo(t) \/ config_save(t) \/ TerminaTruncate(t) \/ TerminaCommit(t)
      PROVE  Ajeno(e)
  <2> DEFINE d == hilo[t].e
             vacia == [meta[d] EXCEPT !.estado = "VACIA"]
             guardada == [bloques |-> hilo[t].lista, estado |-> "WORK_IN_PROGRESS"]
             corta == [meta[d] EXCEPT !.bloques = hilo[t].lista]
             firme == [bloques |-> hilo[t].lista, estado |-> "COMMITED"]
  <2>1. ~SinCandado(hilo[t]) /\ contenido' = contenido
    BY <1>4 DEF crearArchivo, config_save, TerminaTruncate, TerminaCommit, SinCandado
  <2>2. \/ meta' = [meta EXCEPT ![d] = vacia]
        \/ meta' = [meta EXCEPT ![d] = guardada]
        \/ meta' = [meta EXCEPT ![d] = corta]
        \/ meta' = [meta EXCEPT ![d] = firme]
    BY <1>4 DEF crearArchivo, config_save, TerminaTruncate, TerminaCommit
  <2> HIDE DEF vacia, guardada, corta, firme
  <2>3. SoloEnCurso
    BY <2>1, <2>2, CambiaEnCurso
  <2> QED BY <2>1, <2>3, AjenoPorMeta
<1>5. ASSUME NEW t \in Hilos, NEW d \in Pedibles, CreaDirectorio(t, d) \/ eliminarTag(t, d)
      PROVE  Ajeno(e)
  <2> DEFINE nueva == [meta[d] EXCEPT !.estado = "A_MEDIAS"]
  <2>1. /\ lock_file_metadata(t, d) /\ meta[d].estado # "COMMITED" /\ contenido' = contenido
    BY <1>5 DEF CreaDirectorio, eliminarTag
  <2>2. meta' = [meta EXCEPT ![d] = nueva] \/ meta' = [meta EXCEPT ![d] = NoExiste]
    BY <1>5 DEF CreaDirectorio, eliminarTag
  <2> HIDE DEF nueva
  <2>3. SoloEnCurso
    BY <1>0, <2>1, <2>2, CambiaAlTomar
  <2> QED BY <2>1, <2>3, AjenoPorMeta
<1>6. ASSUME NEW t \in Hilos, ComoStorage(t) PROVE Ajeno(e)
  <2>1. CASE \E d \in Pedibles : eliminarTag(t, d)
    BY <1>5, <2>1
  <2>2. CASE TerminaTruncate(t) \/ TerminaCommit(t)
    BY <1>4, <2>2
  <2>3. CASE \/ reservarBloqueLibre(t) \/ LimpiaBit(t) \/ BloqueBorrado(t) \/ TerminaDelete(t)
             \/ Conserva(t) \/ Deduplica(t)
    BY <1>2, <2>3 DEF reservarBloqueLibre, LimpiaBit, BloqueBorrado, TerminaDelete, Conserva, Deduplica
  <2>4. ASSUME NEW d \in Pedibles,
               \/ commitFile(t, d)
               \/ \E i \in 1..Topes[d], v \in Valores : escribirBloque(t, d, i, v)
               \/ \E n \in 0..Topes[d] : truncate_achica(t, d, n)
        PROVE  Ajeno(e)
    <3>1. CASE commitFile(t, d)
      BY <1>2, <3>1 DEF commitFile
    <3>2. ASSUME NEW i \in 1..Topes[d], NEW v \in Valores, escribirBloque(t, d, i, v) PROVE Ajeno(e)
      BY <1>2, <3>2 DEF escribirBloque
    <3>3. ASSUME NEW n \in 0..Topes[d], truncate_achica(t, d, n) PROVE Ajeno(e)
      BY <1>2, <3>3 DEF truncate_achica
    <3> QED BY <2>4, <3>1, <3>2, <3>3
  <2> QED BY <1>6, <2>1, <2>2, <2>3, <2>4 DEF ComoStorage
<1>7. ASSUME NEW t \in Hilos,
             \/ NoGuarda(t) \/ NoEscribe(t) \/ BitSinBloque(t) \/ Desenlaza(t) \/ NoDesenlaza(t)
             \/ Enlaza(t) \/ NoEnlaza(t) \/ EnlazaCero(t) \/ NoEnlazaCero(t)
             \/ DesenlazaFinal(t) \/ NoAchica(t) \/ Hash(t) \/ DeduplicaMal(t) \/ NoCommit(t)
             \/ \E d \in Pedibles : \E n \in 1..Topes[d] : Agranda(t, d, n)
      PROVE  Ajeno(e)
  <2>1. meta' = meta /\ contenido' = contenido
    <3>1. CASE NoGuarda(t) \/ NoEnlazaCero(t) \/ NoAchica(t) \/ NoCommit(t)
      BY <3>1 DEF NoGuarda, NoEnlazaCero, NoAchica, NoCommit, enDisco
    <3>2. CASE NoEscribe(t) \/ BitSinBloque(t)
      BY <3>2 DEF NoEscribe, BitSinBloque
    <3>3. CASE Desenlaza(t) \/ NoDesenlaza(t) \/ Enlaza(t) \/ NoEnlaza(t)
      BY <3>3 DEF Desenlaza, NoDesenlaza, Enlaza, NoEnlaza
    <3>4. CASE EnlazaCero(t) \/ DesenlazaFinal(t)
      BY <3>4 DEF EnlazaCero, DesenlazaFinal
    <3>5. CASE Hash(t)
      BY <3>5 DEF Hash, obtener_hash_bloque
    <3>6. CASE DeduplicaMal(t)
      BY <3>6 DEF DeduplicaMal
    <3>7. ASSUME NEW d \in Pedibles, NEW n \in 1..Topes[d], Agranda(t, d, n)
          PROVE  meta' = meta /\ contenido' = contenido
      BY <3>7 DEF Agranda, enDisco
    <3> QED BY <1>7, <3>1, <3>2, <3>3, <3>4, <3>5, <3>6, <3>7
  <2> QED BY <1>2, <2>1
<1>8. ASSUME NEW t \in Hilos, NEW d \in Pedibles, MuereSola(t, d) PROVE Ajeno(e)
  BY <1>1, <1>8 DEF MuereSola
<1>9. CASE Mata
  BY <1>1, <1>9 DEF Mata
<1> QED BY <1>3, <1>4, <1>5, <1>6, <1>7, <1>8, <1>9 DEF NextMontaje

LEMMA QuietoAjeno ==
    ASSUME UNCHANGED todas, NEW e \in Etiquetas
    PROVE  Ajeno(e)
<1>1. meta' = meta /\ contenido' = contenido
  BY DEF todas, vars
<1> QED BY <1>1, AjenoPorMeta DEF SoloEnCurso

\* What a READ of a File:Tag would find never changes once it is COMMITED, nor while nobody
\* has its lock: no kill, no failing system call and no operation on another File:Tag, with
\* which it may share blocks, reaches it.  Under the same conditions as CortesSinDanio.
THEOREM CortesNoAjenos == ~BorraCommiteado => (SpecMontaje => AjenoIntacto)
<1> SUFFICES ASSUME ~BorraCommiteado PROVE SpecMontaje => AjenoIntacto
  OBVIOUS
<1> DEFINE Intactos == \A e \in Etiquetas : ~rota /\ Contenido(e)' # Contenido(e) =>
                           /\ meta[e].estado # "COMMITED"
                           /\ candado[Archivo(e)] # NULL \/ candado'[Archivo(e)] # NULL
<1>1. SpecMontaje => [](Orden /\ Salvo)
  BY MontajeInvariante
<1>2. Orden /\ Salvo /\ [NextMontaje]_todas => [Intactos]_todas
  BY PasoAjeno, QuietoAjeno DEF Ajeno
<1>3. SpecMontaje => [][NextMontaje]_todas
  BY DEF SpecMontaje
<1>4. AjenoIntacto <=> [][Intactos]_todas
  BY DEF AjenoIntacto
<1> HIDE DEF Intactos
<1> QED BY <1>1, <1>2, <1>3, <1>4, PTL
=============================================================================
