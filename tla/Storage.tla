------------------------------- MODULE Storage -------------------------------
(***************************************************************************)
(* The Storage (src/storage/src/operaciones.c): File:Tags whose logical    *)
(* blocks are hard links to physical blocks, copy on write, deduplication  *)
(* at COMMIT, a bitmap of occupied blocks and an index from hashes to      *)
(* blocks.                                                                 *)
(*                                                                         *)
(* One thread per Worker (atender_worker) runs one operation at a time.    *)
(* Operations on the same file exclude each other (g_metadata_locks); what *)
(* they share across files - link counts, bitmap, index, contents - is     *)
(* read and written in the steps below.  A step that touches only its own  *)
(* file, or holds one mutex throughout, is one action; an unlink and the   *)
(* stat or link that follow it are taken together.  A request the code     *)
(* refuses changes nothing: it is a stuttering step.  The hash is taken to *)
(* be injective, and no system call fails.                                 *)
(***************************************************************************)
EXTENDS Integers, FiniteSetsExt, SequencesExt

CONSTANTS
    Hilos,            (* the threads, one per Worker                        *)
    Archivos,         (* names of files; their locks are taken as distinct  *)
    Etiquetas,        (* the File:Tags, <<file, tag>>                       *)
    BASE,             (* initial_file:BASE                                  *)
    Pedibles,         (* bound: the File:Tags that requests name            *)
    Bloques,          (* the physical blocks, as many as bits in the bitmap *)
    MaxTam,           (* bound: logical blocks of a File:Tag                *)
    Valores,          (* contents of a block; 0 is that of block 0          *)
    NULL,             (* no value                                           *)
    COPIA,            (* a logical block that is a file of its own          *)
    TagDeWIP,         (* whether the origin of a TAG may be WORK_IN_PROGRESS *)
    BorraCommiteado   (* whether a DELETE may name a COMMITED File:Tag      *)

ASSUME StorageSupuesto ==
    /\ Etiquetas \subseteq Archivos \X STRING /\ BASE \in Etiquetas /\ IsFiniteSet(Etiquetas)
    /\ Pedibles \subseteq Etiquetas
    /\ Bloques \subseteq Nat /\ IsFiniteSet(Bloques) /\ 0 \in Bloques /\ 0 \in Valores
    /\ MaxTam \in Nat \ {0} /\ COPIA \notin Bloques
    /\ NULL \notin Hilos \cup Bloques \cup Valores
    /\ TagDeWIP \in BOOLEAN /\ BorraCommiteado \in BOOLEAN

VARIABLES
    meta,       \* metadata.config: BLOCKS and ESTADO of each File:Tag
    enlace,     \* logical_blocks: the physical block each one is a link to
    contenido,  \* physical_blocks
    bitmap,     \* the blocks whose bit of g_bitmap is 1
    indice,     \* g_hash_config: the block registered for each hash
    candado,    \* g_metadata_locks
    mutexHash,  \* g_mutexHashIndex
    hilo        \* each thread: where it is in its operation, and its locals

vars == <<meta, enlace, contenido, bitmap, indice, candado, mutexHash, hilo>>

Estados == {"NO_EXISTE", "WORK_IN_PROGRESS", "COMMITED"}
Pasos == {"libre", "lee", "reserva", "copia", "enlaza", "sobrescribe", "achica", "borra",
          "hash", "indice", "libera"}
NoExiste == [bloques |-> << >>, estado |-> "NO_EXISTE"]
Libre == [paso |-> "libre", e |-> BASE, i |-> 0, v |-> NULL, b |-> 0, lista |-> << >>,
          sigue |-> "libre"]

\* A fresh start: only initial_file:BASE, on block 0, which is in the index.
Init ==
    /\ meta = [e \in Etiquetas |-> IF e = BASE THEN [bloques |-> <<0>>, estado |-> "COMMITED"]
                                   ELSE NoExiste]
    /\ enlace = [e \in Etiquetas |-> meta[e].bloques]
    /\ contenido = [b \in Bloques |-> 0]
    /\ bitmap = {0}
    /\ indice = [v \in Valores |-> IF v = 0 THEN 0 ELSE NULL]
    /\ candado = [f \in Archivos |-> NULL] /\ mutexHash = NULL
    /\ hilo = [t \in Hilos |-> Libre]

-----------------------------------------------------------------------------
(***************************************************************************)
(* Links and locks.                                                        *)
(***************************************************************************)

\* st_nlink of a physical block: its own name and one per logical block linked to it.
nlink(en, b) == 1 + Cardinality({x \in Etiquetas \X (1..MaxTam) :
                                    x[2] \in DOMAIN en[x[1]] /\ en[x[1]][x[2]] = b})

\* Mutant: the block is released while one File:Tag still links it.
SoloElFisico_Mut(en, b) == nlink(en, b) <= 2

SoloElFisico(en, b) == nlink(en, b) = 1

Archivo(e) == e[1]
lock_file_metadata(t, e) ==
    /\ hilo[t].paso = "libre" /\ candado[Archivo(e)] = NULL
    /\ candado' = [candado EXCEPT ![Archivo(e)] = t]
unlock_file_metadata(t) == candado' = [candado EXCEPT ![Archivo(hilo[t].e)] = NULL]

\* The lock is taken and released within the step.
Excluye(t, e) == hilo[t].paso = "libre" /\ candado[Archivo(e)] = NULL

Va(t, r) == hilo' = [hilo EXCEPT ![t] = r]
Termina(t) == unlock_file_metadata(t) /\ Va(t, Libre)

\* Mutant: the state is not looked at.
Modificable_Mut(e) == meta[e].estado # "NO_EXISTE"

Modificable(e) == meta[e].estado = "WORK_IN_PROGRESS"

-----------------------------------------------------------------------------
(***************************************************************************)
(* CREATE, TAG, READ.                                                      *)
(***************************************************************************)

create(t, e) ==
    /\ Excluye(t, e) /\ meta[e].estado = "NO_EXISTE"
    /\ meta' = [meta EXCEPT ![e] = [bloques |-> << >>, estado |-> "WORK_IN_PROGRESS"]]
    /\ UNCHANGED <<enlace, contenido, bitmap, indice, candado, mutexHash, hilo>>

\* cp -r: BLOCKS is that of the origin, and the logical blocks are new files.
tag(t, origen, destino) ==
    /\ Excluye(t, origen) /\ Archivo(origen) = Archivo(destino)
    /\ meta[origen].estado \in {"COMMITED"} \cup (IF TagDeWIP THEN {"WORK_IN_PROGRESS"} ELSE {})
    /\ meta[destino].estado = "NO_EXISTE"
    /\ meta' = [meta EXCEPT ![destino] = [meta[origen] EXCEPT !.estado = "WORK_IN_PROGRESS"]]
    /\ enlace' = [enlace EXCEPT ![destino] = [i \in DOMAIN enlace[origen] |-> COPIA]]
    /\ UNCHANGED <<contenido, bitmap, indice, candado, mutexHash, hilo>>

\* The physical block is looked up under the lock, and read without it.
leer(t, e, i) ==
    /\ Excluye(t, e) /\ i \in DOMAIN meta[e].bloques
    /\ Va(t, [Libre EXCEPT !.paso = "lee", !.e = e, !.i = i, !.b = meta[e].bloques[i],
                           !.v = IF meta[e].estado = "COMMITED" THEN contenido[meta[e].bloques[i]]
                                 ELSE NULL])
    /\ UNCHANGED <<meta, enlace, contenido, bitmap, indice, candado, mutexHash>>

leerBloqueFisico(t) ==
    /\ hilo[t].paso = "lee"
    /\ Va(t, Libre)
    /\ UNCHANGED <<meta, enlace, contenido, bitmap, indice, candado, mutexHash>>

-----------------------------------------------------------------------------
(***************************************************************************)
(* WRITE.                                                                  *)
(***************************************************************************)

escribirBloque(t, e, i, v) ==
    /\ lock_file_metadata(t, e)
    /\ Modificable(e) /\ i \in DOMAIN meta[e].bloques
    /\ LET b == meta[e].bloques[i] IN
       Va(t, [Libre EXCEPT !.paso = IF nlink(enlace, b) > 1 THEN "reserva" ELSE "sobrescribe",
                           !.e = e, !.i = i, !.v = v, !.b = b])
    /\ UNCHANGED <<meta, enlace, contenido, bitmap, indice, mutexHash>>

\* Mutant: the bit of the block is not set.
Marca_Mut(b) == UNCHANGED bitmap

Marca(b) == bitmap' = bitmap \cup {b}

\* Mutant: the block after the last occupied one.
Elegido_Mut(libres) == Max(bitmap) + 1

Elegido(libres) == Min(libres)

\* The lowest block whose bit is 0; with none, the WRITE fails.
reservarBloqueLibre(t) ==
    /\ hilo[t].paso = "reserva"
    /\ LET libres == Bloques \ bitmap IN
       IF libres = {} THEN Termina(t) /\ UNCHANGED bitmap
       ELSE /\ Marca(Elegido(libres))
            /\ Va(t, [hilo[t] EXCEPT !.paso = "copia", !.b = Elegido(libres)])
            /\ UNCHANGED candado
    /\ UNCHANGED <<meta, enlace, contenido, indice, mutexHash>>

\* On the new block, or on the block itself when only its own name is left.
escribirFisicoDirecto(t) ==
    /\ hilo[t].paso \in {"copia", "sobrescribe"}
    /\ contenido' = [contenido EXCEPT ![hilo[t].b] = hilo[t].v]
    /\ IF hilo[t].paso = "sobrescribe" THEN Termina(t)
       ELSE Va(t, [hilo[t] EXCEPT !.paso = "enlaza"]) /\ UNCHANGED candado
    /\ UNCHANGED <<meta, enlace, bitmap, indice, mutexHash>>

\* The logical block becomes a link to the new block.  The old one keeps its bit.
EnlazaCopia(t) ==
    /\ hilo[t].paso = "enlaza"
    /\ LET h == hilo[t] IN
          /\ enlace' = [enlace EXCEPT ![h.e][h.i] = h.b]
          /\ meta' = [meta EXCEPT ![h.e].bloques[h.i] = h.b]
    /\ Termina(t)
    /\ UNCHANGED <<contenido, bitmap, indice, mutexHash>>

-----------------------------------------------------------------------------
(***************************************************************************)
(* liberarBloqueSiEsNecesario: the link count first, the bit afterwards.   *)
(***************************************************************************)

\* Where the operation goes on from r once its block b, with links en, has been looked at.
Libera(t, en, r) ==
    Va(t, IF SoloElFisico(en, r.b) THEN [r EXCEPT !.paso = "libera", !.sigue = r.paso] ELSE r)

\* Under g_mutexBitmap; a COMMIT releases g_mutexHashIndex after it.
LimpiaBit(t) ==
    /\ hilo[t].paso = "libera"
    /\ bitmap' = bitmap \ {hilo[t].b}
    /\ mutexHash' = IF mutexHash = t THEN NULL ELSE mutexHash
    /\ Va(t, [hilo[t] EXCEPT !.paso = hilo[t].sigue, !.sigue = "libre"])
    /\ UNCHANGED <<meta, enlace, contenido, indice, candado>>

-----------------------------------------------------------------------------
(***************************************************************************)
(* TRUNCATE and DELETE.                                                    *)
(***************************************************************************)

\* Growing: links to block 0.
truncate_agranda(t, e, n) ==
    /\ Excluye(t, e) /\ Modificable(e) /\ n > Len(meta[e].bloques)
    /\ LET nuevos == [k \in 1..(n - Len(meta[e].bloques)) |-> 0] IN
          /\ meta' = [meta EXCEPT ![e].bloques = @ \o nuevos]
          /\ enlace' = [enlace EXCEPT ![e] = @ \o nuevos]
    /\ UNCHANGED <<contenido, bitmap, indice, candado, mutexHash, hilo>>

\* Shrinking: from the last block, the metadata at the end.
truncate_achica(t, e, n) ==
    /\ lock_file_metadata(t, e)
    /\ Modificable(e) /\ n < Len(meta[e].bloques)
    /\ Va(t, [Libre EXCEPT !.paso = "achica", !.e = e, !.i = n, !.lista = meta[e].bloques])
    /\ UNCHANGED <<meta, enlace, contenido, bitmap, indice, mutexHash>>

DesenlazaUltimo(t) ==
    /\ hilo[t].paso = "achica" /\ Len(hilo[t].lista) > hilo[t].i
    /\ LET h == hilo[t] IN
          /\ enlace' = [enlace EXCEPT ![h.e] = Front(@)]
          /\ Libera(t, enlace', [h EXCEPT !.b = Last(h.lista), !.lista = Front(h.lista)])
    /\ UNCHANGED <<meta, contenido, bitmap, indice, candado, mutexHash>>

TerminaTruncate(t) ==
    /\ hilo[t].paso = "achica" /\ Len(hilo[t].lista) = hilo[t].i
    /\ meta' = [meta EXCEPT ![hilo[t].e].bloques = hilo[t].lista]
    /\ Termina(t)
    /\ UNCHANGED <<enlace, contenido, bitmap, indice, mutexHash>>

\* rm -rf first; then each block of BLOCKS.
eliminarTag(t, e) ==
    /\ lock_file_metadata(t, e)
    /\ meta[e].estado \in {"WORK_IN_PROGRESS"} \cup (IF BorraCommiteado THEN {"COMMITED"} ELSE {})
    /\ meta' = [meta EXCEPT ![e] = NoExiste]
    /\ enlace' = [enlace EXCEPT ![e] = << >>]
    /\ Va(t, [Libre EXCEPT !.paso = "borra", !.e = e, !.lista = meta[e].bloques])
    /\ UNCHANGED <<contenido, bitmap, indice, mutexHash>>

BloqueBorrado(t) ==
    /\ hilo[t].paso = "borra" /\ hilo[t].lista # << >>
    /\ Libera(t, enlace, [hilo[t] EXCEPT !.b = Head(hilo[t].lista), !.lista = Tail(@)])
    /\ UNCHANGED <<meta, enlace, contenido, bitmap, indice, candado, mutexHash>>

TerminaDelete(t) ==
    /\ hilo[t].paso = "borra" /\ hilo[t].lista = << >>
    /\ Termina(t)
    /\ UNCHANGED <<meta, enlace, contenido, bitmap, indice, mutexHash>>

-----------------------------------------------------------------------------
(***************************************************************************)
(* COMMIT.                                                                 *)
(***************************************************************************)

commitFile(t, e) ==
    /\ lock_file_metadata(t, e)
    /\ meta[e].estado = "WORK_IN_PROGRESS"
    /\ Va(t, [Libre EXCEPT !.paso = "hash", !.e = e, !.i = 1, !.lista = meta[e].bloques])
    /\ UNCHANGED <<meta, enlace, contenido, bitmap, indice, mutexHash>>

\* obtener_hash_bloque, before g_mutexHashIndex is taken.
obtener_hash_bloque(t) ==
    /\ hilo[t].paso = "hash" /\ hilo[t].i <= Len(hilo[t].lista)
    /\ Va(t, [hilo[t] EXCEPT !.paso = "indice", !.v = contenido[hilo[t].lista[hilo[t].i]]])
    /\ UNCHANGED <<meta, enlace, contenido, bitmap, indice, candado, mutexHash>>

\* Mutant: the first block with a hash is not registered.
Registra_Mut(v, b) == UNCHANGED indice

Registra(v, b) == indice' = [indice EXCEPT ![v] = b]

\* The hash is new, or of this very block.
Conserva(t) ==
    /\ hilo[t].paso = "indice" /\ mutexHash = NULL
    /\ LET h == hilo[t] IN
          /\ indice[h.v] \in {NULL, h.lista[h.i]}
          /\ IF indice[h.v] = NULL THEN Registra(h.v, h.lista[h.i]) ELSE UNCHANGED indice
          /\ Va(t, [h EXCEPT !.paso = "hash", !.i = @ + 1])
    /\ UNCHANGED <<meta, enlace, contenido, bitmap, candado, mutexHash>>

\* The hash is of another block: the logical block becomes a link to that one.
Deduplica(t) ==
    /\ hilo[t].paso = "indice" /\ mutexHash = NULL
    /\ LET h == hilo[t]
           original == indice[h.v]
       IN /\ original \notin {NULL, h.lista[h.i]}
          /\ enlace' = [enlace EXCEPT ![h.e][h.i] = original]
          /\ mutexHash' = IF SoloElFisico(enlace', h.lista[h.i]) THEN t ELSE NULL
          /\ Libera(t, enlace', [h EXCEPT !.paso = "hash", !.i = @ + 1, !.b = h.lista[h.i],
                                          !.lista = [@ EXCEPT ![h.i] = original]])
    /\ UNCHANGED <<meta, contenido, bitmap, indice, candado>>

TerminaCommit(t) ==
    /\ hilo[t].paso = "hash" /\ hilo[t].i > Len(hilo[t].lista)
    /\ meta' = [meta EXCEPT ![hilo[t].e] = [bloques |-> hilo[t].lista, estado |-> "COMMITED"]]
    /\ Termina(t)
    /\ UNCHANGED <<enlace, contenido, bitmap, indice, mutexHash>>

-----------------------------------------------------------------------------
Pide(t) ==
    \E e \in Pedibles :
        \/ create(t, e) \/ eliminarTag(t, e) \/ commitFile(t, e)
        \/ \E d \in Pedibles : tag(t, e, d)
        \/ \E i \in 1..MaxTam : leer(t, e, i) \/ \E v \in Valores : escribirBloque(t, e, i, v)
        \/ \E n \in 0..MaxTam : truncate_agranda(t, e, n) \/ truncate_achica(t, e, n)

Sigue(t) ==
    \/ leerBloqueFisico(t)
    \/ reservarBloqueLibre(t) \/ escribirFisicoDirecto(t) \/ EnlazaCopia(t)
    \/ LimpiaBit(t)
    \/ DesenlazaUltimo(t) \/ TerminaTruncate(t) \/ BloqueBorrado(t) \/ TerminaDelete(t)
    \/ obtener_hash_bloque(t) \/ Conserva(t) \/ Deduplica(t) \/ TerminaCommit(t)

Next == \E t \in Hilos : Pide(t) \/ Sigue(t)

Spec == Init /\ [][Next]_vars

-----------------------------------------------------------------------------
(***************************************************************************)
(* Properties.                                                             *)
(***************************************************************************)

\* The variables hold values of their types.
TypeOK ==
    /\ meta \in [Etiquetas -> [bloques : Seq(Bloques), estado : Estados]]
    /\ enlace \in [Etiquetas -> Seq(Bloques \cup {COPIA})]
    /\ contenido \in [Bloques -> Valores] /\ bitmap \subseteq Bloques
    /\ indice \in [Valores -> Bloques \cup {NULL}]
    /\ candado \in [Archivos -> Hilos \cup {NULL}] /\ mutexHash \in Hilos \cup {NULL}
    /\ hilo \in [Hilos -> [paso : Pasos, e : Etiquetas, i : Nat, v : Valores \cup {NULL},
                           b : Bloques, lista : Seq(Bloques), sigue : Pasos]]

\* BLOCKS of e as the operation in course on it, if any, is going to leave it.
BloquesDe(e) ==
    LET en == {t \in Hilos : /\ hilo[t].e = e
                             /\ {hilo[t].paso, hilo[t].sigue} \cap {"achica", "hash", "indice"} # {}}
    IN  IF en = {} THEN meta[e].bloques
        ELSE LET h == hilo[CHOOSE t \in en : TRUE]
             IN  IF "achica" \in {h.paso, h.sigue} THEN SubSeq(h.lista, 1, h.i) ELSE h.lista

Usados == UNION {Range(BloquesDe(e)) : e \in Etiquetas}

\* "st_nlink es 1, significa que solo queda la referencia dentro de /physical_blocks.
\* Ningun archivo logico (en /files) lo esta apuntando" (operaciones.c:296): a block that is
\* about to be freed for its link count is used by no File:Tag.
LiberadoSinUso == \A t \in Hilos : hilo[t].paso = "libera" => hilo[t].b \notin Usados

\* A block that a File:Tag uses is never free, nor about to be freed by a thread that has
\* looked at its links; and the block that a WRITE has reserved is its own.
EnUsoOcupado ==
    LET Nuevo(t) == hilo[t].paso \in {"copia", "enlaza"}
    IN  /\ Usados \subseteq bitmap
        /\ LiberadoSinUso
        /\ \A t \in Hilos : Nuevo(t) =>
              /\ hilo[t].b \in bitmap \ Usados
              /\ \A u \in Hilos \ {t} : Nuevo(u) => hilo[u].b # hilo[t].b

Abstracto == INSTANCE Almacen WITH
    archivo <- [e \in Etiquetas |-> [estado |-> meta[e].estado,
                                     datos |-> [i \in DOMAIN BloquesDe(e) |->
                                                   contenido[BloquesDe(e)[i]]]]]

\* The operations are those of a store where every File:Tag has contents of its own: links,
\* copies on write, deduplication and freed blocks are never seen by a File:Tag, and
\* operations on different files take effect one at a time.
ImplementaAlmacen == Abstracto!Spec

\* Two equal blocks of COMMITED File:Tags are one physical block, whatever COMMITs overlap.
UnaCopiaPorContenido ==
    \A c, d \in {e \in Etiquetas : meta[e].estado = "COMMITED"} :
        \A i \in DOMAIN meta[c].bloques, j \in DOMAIN meta[d].bloques :
            contenido[meta[c].bloques[i]] = contenido[meta[d].bloques[j]]
                => meta[c].bloques[i] = meta[d].bloques[j]

\* A READ that found its File:Tag COMMITED returns what it had then, although the block is
\* read after the lock is released.
LecturaDeCommiteado ==
    \A t \in Hilos : hilo[t].paso = "lee" /\ hilo[t].v # NULL =>
        contenido[hilo[t].b] = hilo[t].v
=============================================================================
