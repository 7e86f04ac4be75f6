---------------------------- MODULE CicloDeVida ----------------------------
(***************************************************************************)
(* What the Master promises about a query, whatever its threads do: it is  *)
(* admitted once, dispatched only from READY, given back to READY or       *)
(* finished only from EXEC, withdrawn only from READY, and EXIT is final.  *)
(* Master.tla is checked to implement Spec.                                *)
(***************************************************************************)
CONSTANT Queries

VARIABLE estado   \* the state of every query, "NUEVA" before it is admitted

Init == estado = [q \in Queries |-> "NUEVA"]

Pasa(q, de, a) == estado[q] = de /\ estado' = [estado EXCEPT ![q] = a]

Admite(q)   == Pasa(q, "NUEVA", "READY")
Despacha(q) == Pasa(q, "READY", "EXEC")
Devuelve(q) == Pasa(q, "EXEC", "READY")
Termina(q)  == Pasa(q, "EXEC", "EXIT")
Retira(q)   == Pasa(q, "READY", "EXIT")

Next == \E q \in Queries : \/ Admite(q) \/ Despacha(q) \/ Devuelve(q)
                           \/ Termina(q) \/ Retira(q)

Spec == Init /\ [][Next]_estado
=============================================================================
