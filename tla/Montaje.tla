------------------------------- MODULE Montaje -------------------------------
(***************************************************************************)
(* The mount point of the Storage when the process may be killed at any    *)
(* step and started again without FRESH_START (cargarPuntoMontaje), and    *)
(* when its system calls may fail.                                         *)
(*                                                                         *)
(* The operations are those of Storage, split where a kill or a failure    *)
(* leaves something different on disk: directories, links, bitmap (mmap of *)
(* a file, MAP_SHARED), blocks and index outlive the process; threads and  *)
(* mutexes do not.  A directory may be left without metadata.config        *)
(* ("A_MEDIAS"), or with an empty one ("VACIA": config_save truncates the  *)
(* file before it writes it); a request that reads a key of it compares    *)
(* with NULL and takes the process down.                                   *)
(*                                                                         *)
(* A TRUNCATE that shrinks frees blocks, and a COMMIT relinks them, before *)
(* the metadata says so.  From the moment one of them ends half done,      *)
(* after its first change, nothing is promised: rota says it has happened. *)
(* READ and TAG are left to Storage; a rm -rf is not cut, since system()   *)
(* runs it in a process of its own.                                        *)
(***************************************************************************)
EXTENDS Storage

CONSTANTS
    SIN,              (* a logical block without a file                     *)
    Topes,            (* bound: the logical blocks each File:Tag may reach  *)
    Ausentes,         (* bits of the bitmap that stand for no block         *)
    MaxFallas         (* bound: kills and failing system calls              *)

ASSUME MontajeSupuesto ==
    /\ SIN \notin Bloques \cup {COPIA}
    /\ Topes \in [Pedibles -> 0..MaxTam]
    /\ Ausentes \subseteq Bloques \ {0} /\ MaxFallas \in Nat

VARIABLES
    trabado,    \* blocks whose g_blocks_mutex was locked and never unlocked
    fallas,     \* how many kills and failures there have been
    rota        \* whether an operation that gives blocks up was left half done

enDisco == <<meta, enlace, contenido, bitmap, indice>>
mutexes == <<candado, mutexHash, trabado>>
todas == <<vars, trabado, fallas, rota>>

InitMontaje == Init /\ trabado = {} /\ fallas = 0 /\ rota = FALSE

\* A system call that fails, or a kill.
Falla == fallas < MaxFallas /\ fallas' = fallas + 1

\* The file of logical block i of e, and the directory once it is a link to b.
Enlace(e, i) == IF i \in DOMAIN enlace[e] THEN enlace[e][i] ELSE SIN
ConEnlace(e, i, b) ==
    enlace' = [enlace EXCEPT ![e] = [k \in 1..Max({i, Len(@)}) |->
                                        IF k = i THEN b ELSE Enlace(e, k)]]

-----------------------------------------------------------------------------
(***************************************************************************)
(* CREATE, and the saving of metadata.config, the last step of CREATE, of  *)
(* the copy on write and of a TRUNCATE that grows.                         *)
(***************************************************************************)

\* What is left to do is to save BLOCKS.
AGuardar(t, bloques) == Va(t, [Libre EXCEPT !.paso = "guarda", !.e = hilo[t].e, !.lista = bloques])

CreaDirectorio(t, e) ==
    /\ lock_file_metadata(t, e) /\ meta[e].estado = "NO_EXISTE"
    /\ meta' = [meta EXCEPT ![e].estado = "A_MEDIAS"]
    /\ Va(t, [Libre EXCEPT !.paso = "crea", !.e = e])
    /\ UNCHANGED <<enlace, contenido, bitmap, indice, mutexHash, trabado, fallas, rota>>

crearArchivo(t) ==
    /\ hilo[t].paso = "crea"
    /\ meta' = [meta EXCEPT ![hilo[t].e].estado = "VACIA"]
    /\ AGuardar(t, << >>)
    /\ UNCHANGED <<enlace, contenido, bitmap, indice, candado, mutexHash, trabado, fallas, rota>>

config_save(t) ==
    /\ hilo[t].paso = "guarda"
    /\ meta' = [meta EXCEPT ![hilo[t].e] = [bloques |-> hilo[t].lista,
                                            estado |-> "WORK_IN_PROGRESS"]]
    /\ Termina(t)
    /\ UNCHANGED <<enlace, contenido, bitmap, indice, mutexHash, trabado, fallas, rota>>

\* mkdir or open fails, or config_save does: nobody looks at what it returns.
NoGuarda(t) ==
    /\ hilo[t].paso \in {"crea", "guarda"} /\ Falla
    /\ Termina(t)
    /\ UNCHANGED <<enDisco, mutexHash, trabado, rota>>

-----------------------------------------------------------------------------
(***************************************************************************)
(* WRITE: the copy on write and its rollbacks.                             *)
(***************************************************************************)

Escribe(t) ==
    /\ hilo[t].b \notin Ausentes \cup trabado
    /\ escribirFisicoDirecto(t)
    /\ UNCHANGED <<trabado, fallas, rota>>

\* Mutant: the rollback gives back the block the file still has.
Sobrante_Mut(t) == meta[hilo[t].e].bloques[hilo[t].i]

Sobrante(t) == hilo[t].b

\* The bit of the block that was reserved is cleared, and the WRITE fails.
Deshace(t) == bitmap' = bitmap \ {Sobrante(t)} /\ Termina(t)

\* open fails, and the mutex of the block stays locked; or write does.  An overwrite in place
\* is always after a fault, and not counted.
NoEscribe(t) ==
    /\ hilo[t].paso \in {"copia", "sobrescribe"} /\ hilo[t].b \notin Ausentes \cup trabado
    /\ IF hilo[t].paso = "copia" THEN Falla ELSE UNCHANGED fallas
    /\ trabado' \in {trabado, trabado \cup {hilo[t].b}}
    /\ IF hilo[t].paso = "copia" THEN Deshace(t) ELSE Termina(t) /\ UNCHANGED bitmap
    /\ UNCHANGED <<meta, enlace, contenido, indice, mutexHash, rota>>

\* A bit past the last block has no mutex: what is locked is the memory after g_blocks_mutex,
\* malloc'ed for the blocks there are.  If that returns, open fails.  It may not return, and
\* the thread takes no more steps; MuereSola is the third outcome.
BitSinBloque(t) ==
    /\ hilo[t].paso = "copia" /\ hilo[t].b \in Ausentes
    /\ Deshace(t)
    /\ UNCHANGED <<meta, enlace, contenido, indice, mutexHash, trabado, fallas, rota>>

Desenlaza(t) ==
    /\ hilo[t].paso = "enlaza" /\ Enlace(hilo[t].e, hilo[t].i) # SIN
    /\ ConEnlace(hilo[t].e, hilo[t].i, SIN)
    /\ Va(t, [hilo[t] EXCEPT !.paso = "enlaza2", !.v = NULL])
    /\ UNCHANGED <<meta, contenido, bitmap, indice, mutexes, fallas, rota>>

NoDesenlaza(t) ==
    /\ hilo[t].paso = "enlaza"
    /\ IF Enlace(hilo[t].e, hilo[t].i) = SIN THEN UNCHANGED fallas ELSE Falla
    /\ Deshace(t)
    /\ UNCHANGED <<meta, enlace, contenido, indice, mutexHash, trabado, rota>>

Enlaza(t) ==
    /\ hilo[t].paso = "enlaza2"
    /\ LET h == hilo[t] IN
          /\ ConEnlace(h.e, h.i, h.b)
          /\ AGuardar(t, [meta[h.e].bloques EXCEPT ![h.i] = h.b])
    /\ UNCHANGED <<meta, contenido, bitmap, indice, mutexes, fallas, rota>>

\* link fails: the old link comes back, unless that fails too ("FATAL", operaciones.c:720).
NoEnlaza(t) ==
    /\ hilo[t].paso = "enlaza2" /\ Falla
    /\ \/ ConEnlace(hilo[t].e, hilo[t].i, meta[hilo[t].e].bloques[hilo[t].i])
       \/ UNCHANGED enlace
    /\ Deshace(t)
    /\ UNCHANGED <<meta, contenido, indice, mutexHash, trabado, rota>>

-----------------------------------------------------------------------------
(***************************************************************************)
(* TRUNCATE.                                                               *)
(***************************************************************************)

Agranda(t, e, n) ==
    /\ lock_file_metadata(t, e)
    /\ Modificable(e) /\ n > Len(meta[e].bloques)
    /\ Va(t, [Libre EXCEPT !.paso = "agranda", !.e = e, !.i = n, !.lista = meta[e].bloques])
    /\ UNCHANGED <<enDisco, mutexHash, trabado, fallas, rota>>

EnlazaCero(t) ==
    /\ hilo[t].paso = "agranda"
    /\ LET h == hilo[t]
           k == Len(h.lista) + 1
       IN /\ Enlace(h.e, k) = SIN
          /\ ConEnlace(h.e, k, 0)
          /\ IF k = h.i THEN AGuardar(t, Append(h.lista, 0))
             ELSE Va(t, [h EXCEPT !.lista = Append(@, 0)])
    /\ UNCHANGED <<meta, contenido, bitmap, indice, mutexes, fallas, rota>>

\* link fails, because the file is there (EEXIST) or otherwise: those made so far stay.
NoEnlazaCero(t) ==
    /\ hilo[t].paso = "agranda"
    /\ IF Enlace(hilo[t].e, Len(hilo[t].lista) + 1) # SIN THEN UNCHANGED fallas ELSE Falla
    /\ Termina(t)
    /\ UNCHANGED <<enDisco, mutexHash, trabado, rota>>

DesenlazaFinal(t) ==
    /\ hilo[t].paso = "achica" /\ Len(hilo[t].lista) > hilo[t].i
    /\ LET h == hilo[t] IN
          /\ Enlace(h.e, Len(h.lista)) # SIN
          /\ ConEnlace(h.e, Len(h.lista), SIN)
          /\ Libera(t, enlace', [h EXCEPT !.b = Last(h.lista), !.lista = Front(h.lista)])
    /\ UNCHANGED <<meta, contenido, bitmap, indice, mutexes, fallas, rota>>

\* unlink fails, because there is no such file or otherwise; or config_save does, at the end.
NoAchica(t) ==
    /\ hilo[t].paso = "achica"
    /\ \/ /\ Len(hilo[t].lista) > hilo[t].i /\ Enlace(hilo[t].e, Len(hilo[t].lista)) = SIN
          /\ UNCHANGED fallas
       \/ Falla
    /\ rota' = (rota \/ hilo[t].lista # meta[hilo[t].e].bloques)
    /\ Termina(t)
    /\ UNCHANGED <<enDisco, mutexHash, trabado>>

-----------------------------------------------------------------------------
(***************************************************************************)
(* COMMIT: what unlink and link return is not looked at.                   *)
(***************************************************************************)

\* The block whose turn it is, if any is left.
DeTurno(t) == {hilo[t].lista[k] : k \in {hilo[t].i} \cap DOMAIN hilo[t].lista}

Hash(t) ==
    /\ DeTurno(t) \cap trabado = {}
    /\ obtener_hash_bloque(t)
    /\ UNCHANGED <<trabado, fallas, rota>>

\* The old link stays if unlink fails (and link then finds it there), none if link does.
DeduplicaMal(t) ==
    /\ hilo[t].paso = "indice" /\ mutexHash = NULL /\ Falla
    /\ LET h == hilo[t]
           b == h.lista[h.i]
       IN /\ indice[h.v] \notin {NULL, b}
          /\ ConEnlace(h.e, h.i, SIN) \/ UNCHANGED enlace
          /\ mutexHash' = IF SoloElFisico(enlace', b) THEN t ELSE NULL
          /\ Libera(t, enlace', [h EXCEPT !.paso = "hash", !.i = @ + 1, !.b = b,
                                          !.lista = [@ EXCEPT ![h.i] = indice[h.v]]])
    /\ UNCHANGED <<meta, contenido, bitmap, indice, candado, trabado, rota>>

\* A block cannot be opened, and its mutex stays locked; or the metadata cannot be saved.
NoCommit(t) ==
    /\ hilo[t].paso = "hash" /\ DeTurno(t) \cap trabado = {} /\ Falla
    /\ trabado' = trabado \cup DeTurno(t)
    /\ rota' = (rota \/ hilo[t].i > 1)
    /\ Termina(t)
    /\ UNCHANGED <<enDisco, mutexHash>>

-----------------------------------------------------------------------------
(***************************************************************************)
(* Kills and restarts.                                                     *)
(***************************************************************************)

\* A thread in an operation that gives blocks up, past its first change.
Soltando(t) ==
    LET h == hilo[t] IN
       \/ "achica" \in {h.paso, h.sigue} /\ h.lista # meta[h.e].bloques
       \/ {"hash", "indice"} \cap {h.paso, h.sigue} # {} /\ h.i > 1

\* The metadata a thread may have truncated and not yet written.
EnGuardado == {hilo[t].e : t \in {u \in Hilos :
                  \/ hilo[u].paso = "guarda"
                  \/ hilo[u].paso = "hash" /\ hilo[u].i > Len(hilo[u].lista)}}

\* The index is being saved, and may have been truncated and not yet written.
GuardandoIndice == \E t \in Hilos : /\ hilo[t].paso = "indice" /\ mutexHash = NULL
                                    /\ indice[hilo[t].v] = NULL

\* The process dies, for whatever reason, and is started again on the same mount point.
Muere ==
    /\ \E cortados \in SUBSET EnGuardado :
          meta' = [e \in Etiquetas |-> IF e \in cortados THEN [NoExiste EXCEPT !.estado = "VACIA"]
                                       ELSE meta[e]]
    /\ \/ UNCHANGED indice
       \/ GuardandoIndice /\ indice' = [v \in Valores |-> NULL]
    /\ rota' = (rota \/ \E t \in Hilos : Soltando(t))
    /\ hilo' = [t \in Hilos |-> Libre]
    /\ candado' = [f \in Archivos |-> NULL] /\ mutexHash' = NULL /\ trabado' = {}
    /\ UNCHANGED <<enlace, contenido, bitmap>>

Mata == Falla /\ Muere

\* A request reads ESTADO or BLOCKS of an empty metadata.config, or COMMIT of none at all; or
\* a WRITE locks, and so changes, the memory after the mutexes.
MuereSola(t, e) ==
    /\ \/ Excluye(t, e) /\ meta[e].estado \in {"VACIA", "A_MEDIAS"}
       \/ hilo[t].paso = "copia" /\ hilo[t].e = e /\ hilo[t].b \in Ausentes
    /\ Muere /\ UNCHANGED fallas

-----------------------------------------------------------------------------
\* The steps that are those of Storage.
ComoStorage(t) ==
    /\ \/ reservarBloqueLibre(t) \/ LimpiaBit(t) \/ TerminaTruncate(t)
       \/ BloqueBorrado(t) \/ TerminaDelete(t)
       \/ Conserva(t) \/ Deduplica(t) \/ TerminaCommit(t)
       \/ \E e \in Pedibles :
             \/ eliminarTag(t, e) \/ commitFile(t, e)
             \/ \E i \in 1..Topes[e], v \in Valores : escribirBloque(t, e, i, v)
             \/ \E n \in 0..Topes[e] : truncate_achica(t, e, n)
    /\ UNCHANGED <<trabado, fallas, rota>>

NextMontaje ==
    \/ Mata
    \/ \E t \in Hilos :
          \/ ComoStorage(t)
          \/ crearArchivo(t) \/ config_save(t) \/ NoGuarda(t)
          \/ Escribe(t) \/ NoEscribe(t) \/ BitSinBloque(t)
          \/ Desenlaza(t) \/ NoDesenlaza(t) \/ Enlaza(t) \/ NoEnlaza(t)
          \/ EnlazaCero(t) \/ NoEnlazaCero(t) \/ DesenlazaFinal(t) \/ NoAchica(t)
          \/ Hash(t) \/ DeduplicaMal(t) \/ NoCommit(t)
          \/ \E e \in Pedibles :
                \/ CreaDirectorio(t, e) \/ MuereSola(t, e)
                \/ \E n \in 1..Topes[e] : Agranda(t, e, n)

SpecMontaje == InitMontaje /\ [][NextMontaje]_todas

-----------------------------------------------------------------------------
(***************************************************************************)
(* Properties.                                                             *)
(***************************************************************************)

\* Whatever was cut or failed, but an operation that gives blocks up (rota): no File:Tag is
\* left on a block that is free, about to be freed, reserved by a WRITE for itself, or that
\* does not exist; so the rollbacks give back the block they took and no other.
BloquesASalvo ==
    LET Nuevo(t) == hilo[t].paso \in {"copia", "enlaza", "enlaza2"}
    IN  ~rota => /\ Usados \subseteq bitmap \ Ausentes
                 /\ LiberadoSinUso
                 /\ \A t \in Hilos : Nuevo(t) =>
                       /\ hilo[t].b \in bitmap \ Usados
                       /\ \A u \in Hilos \ {t} : Nuevo(u) => hilo[u].b # hilo[t].b

\* The same with no exception, which does not hold: "Libera un bloque fisico si ya
\* no esta siendo referenciado por ningun archivo logico" (operaciones.h:52).
NadaSobreLibres == Usados \subseteq bitmap

\* What a READ of e would find.
Contenido(e) == [estado |-> meta[e].estado,
                 datos |-> [i \in DOMAIN meta[e].bloques |-> contenido[meta[e].bloques[i]]]]

\* No step, kill or failure changes a File:Tag but those with an operation in course, and
\* none changes a COMMITED one.
AjenoIntacto ==
    [][\A e \in Etiquetas : ~rota /\ Contenido(e)' # Contenido(e) =>
          /\ meta[e].estado # "COMMITED"
          /\ candado[Archivo(e)] # NULL \/ candado'[Archivo(e)] # NULL]_todas
=============================================================================
