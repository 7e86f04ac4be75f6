------------------------------- MODULE Almacen -------------------------------
(***************************************************************************)
(* What the Storage promises to the Queries: each File:Tag has contents of *)
(* its own, block by block, that only its own operations change, one at a  *)
(* time, and that nothing but a DELETE changes after its COMMIT.           *)
(***************************************************************************)
EXTENDS Naturals, Sequences

CONSTANTS Etiquetas, BASE, Valores, MaxTam

VARIABLE archivo   \* for each File:Tag, its state and the contents of its blocks

Ausente == [estado |-> "NO_EXISTE", datos |-> << >>]
Largos == 0..MaxTam

Crea(e) == /\ archivo[e] = Ausente
           /\ archivo' = [archivo EXCEPT ![e].estado = "WORK_IN_PROGRESS"]

Copia(e) == /\ archivo[e] = Ausente
            /\ \E o \in Etiquetas \ {e} :
                  /\ archivo[o].estado # "NO_EXISTE"
                  /\ archivo' = [archivo EXCEPT ![e] = [estado |-> "WORK_IN_PROGRESS",
                                                        datos |-> archivo[o].datos]]

Borra(e) == archivo[e] # Ausente /\ archivo' = [archivo EXCEPT ![e] = Ausente]

Cambia(e, datos) ==
    /\ archivo[e].estado = "WORK_IN_PROGRESS"
    /\ archivo' = [archivo EXCEPT ![e].datos = datos]

\* TRUNCATE keeps what fits, and new blocks are zeros.
Trunca(e) == \E n \in Largos :
    Cambia(e, [i \in 1..n |-> IF i <= Len(archivo[e].datos) THEN archivo[e].datos[i] ELSE 0])

Escribe(e) == \E i \in DOMAIN archivo[e].datos, v \in Valores :
    Cambia(e, [archivo[e].datos EXCEPT ![i] = v])

Commit(e) == /\ archivo[e].estado = "WORK_IN_PROGRESS"
             /\ archivo' = [archivo EXCEPT ![e].estado = "COMMITED"]

Next == \E e \in Etiquetas : \/ Crea(e) \/ Copia(e) \/ Borra(e) \/ Trunca(e)
                             \/ Escribe(e) \/ Commit(e)

Init ==
    archivo = [e \in Etiquetas |-> IF e = BASE THEN [estado |-> "COMMITED", datos |-> <<0>>]
                                   ELSE Ausente]

Spec == Init /\ [][Next]_archivo
=============================================================================
