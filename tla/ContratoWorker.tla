--------------------------- MODULE ContratoWorker ---------------------------
(***************************************************************************)
(* One Worker of ProtocoloWorker with the most general Master around it:   *)
(* the abstract specification WorkerHilos.tla implements.                  *)
(***************************************************************************)
EXTENDS ProtocoloWorker

VARIABLE worker

Init == worker = WorkerInicial

Envia == \E p \in Pedidos : worker' = [worker EXCEPT !.entrada = Append(@, p)]
Recibe == /\ worker.salida # << >>
          /\ worker' = [worker EXCEPT !.salida = Tail(@)]
Worker == worker' \in PasosWorker(worker)

Next == Envia \/ Recibe \/ Worker
Spec == Init /\ [][Next]_worker
=============================================================================
