--------------------------- MODULE ListasPruebas ----------------------------
(***************************************************************************)
(* Proofs about ListasQueries: no query is lost or repeated while threads  *)
(* move it under its mutex, and FIFO takes queries out of READY in their   *)
(* order, for any number of queries and both algorithms.                   *)
(***************************************************************************)
EXTENDS ListasQueries, SecuenciasPruebas

-----------------------------------------------------------------------------
(***************************************************************************)
(* The invariant.                                                          *)
(***************************************************************************)

\* A thread has taken q out of its old list and not yet put it in the new one.
Moviendo(q) == \E h \in Hilos : mutexQuery[q] = h /\ llamada[h].paso = "pone"

\* The mutex of a query is held by the one thread that is between taking and leaving it.
MutexCoherente ==
    /\ \A h \in Hilos : llamada[h].paso # "no" => llamada[h].q \in Queries
    /\ \A h \in Hilos : llamada[h].paso \in {"saca", "pone"} => mutexQuery[llamada[h].q] = h
    /\ \A q \in Queries : mutexQuery[q] # LIBRE =>
          llamada[mutexQuery[q]].paso \in {"saca", "pone"} /\ llamada[mutexQuery[q]].q = q
    /\ \A h \in Hilos : llamada[h].paso = "pone" => estado[llamada[h].q] = llamada[h].nuevo

\* A query is once in the list of its state, unless it is being moved, and in no other.
EnSuLista ==
    /\ \A e \in Estados : SinRepetidos(listas[e])
    /\ \A e \in Estados : \A q \in Queries :
          Contains(listas[e], q) <=> estado[q] = e /\ ~Moviendo(q)

\* The scheduler walks a list only while it holds its mutex, and never past its end.
PlanCoherente ==
    /\ plan.paso \in {"leeA", "leeB"} => algoritmo # "FIFO"
    /\ plan.paso \in {"leeA", "leeB"} =>
          plan.v \in Queries /\ mutexLista[plan.lista] = Plan /\ plan.i >= 1
    /\ plan.paso \in {"leeA", "leeB"} => Contains(listas[plan.lista], plan.v)
    /\ plan.paso = "leeB" => plan.i <= Len(listas[plan.lista])
    /\ plan.paso \in {"decide", "mideQ", "mideV"} \/ plan.lista = "EXEC" => plan.q \in Queries
    /\ plan.paso \in {"mideQ", "mideV"} => plan.v \in Queries
    /\ plan.paso # "duerme" => llamada[Plan].paso = "no"

\* A Worker has q, or its thread is giving it back.
Vuelve(q) == q \in asignada \/ llamada[HiloWorker(q)].paso # "no"

\* The scheduler has chosen q and has not yet moved it.
Elegida(q) ==
    \/ plan.paso = "decide" /\ plan.q = q
    \/ llamada[Plan].paso # "no" /\ llamada[Plan].q = q

\* Only the thread of its Worker brings a query to READY; so, while the scheduler keeps the
\* query it chose, nothing comes before it and it does not come back.
Orden ==
    /\ \A q \in Queries : llamada[HiloQC(q)].nuevo = "READY" => llamada[HiloQC(q)].paso = "no"
    /\ llamada[Plan].nuevo = "READY" => llamada[Plan].paso = "no"
    /\ \A q \in Queries : llamada[HiloWorker(q)].paso # "no" => llamada[HiloWorker(q)].q = q
    /\ \A q \in Queries : Contains(listas["READY"], q) => ~Vuelve(q)
    /\ \A q \in asignada : llamada[HiloWorker(q)].paso = "no"
    /\ \A q \in Queries : Elegida(q) => ~Vuelve(q)
    /\ algoritmo = "FIFO" => \A q \in Queries :
          Elegida(q) /\ Contains(listas["READY"], q) => Head(listas["READY"]) = q

IInv == TypeOK /\ MutexCoherente /\ EnSuLista /\ PlanCoherente /\ Orden

-----------------------------------------------------------------------------
(***************************************************************************)
(* The threads, and the first contents of READY.                           *)
(***************************************************************************)

\* Each thread is one of its kind and of its query.
LEMMA HilosDistintos ==
    /\ Plan \in Hilos
    /\ \A q \in Queries : HiloQC(q) \in Hilos /\ HiloWorker(q) \in Hilos
    /\ \A q \in Queries : Plan # HiloQC(q) /\ Plan # HiloWorker(q)
    /\ \A p, q \in Queries : HiloQC(p) # HiloWorker(q)
    /\ \A p, q \in Queries : HiloWorker(p) = HiloWorker(q) => p = q
    /\ \A h \in Hilos : h = Plan \/ \E q \in Queries : h = HiloQC(q) \/ h = HiloWorker(q)
BY DEF Plan, HiloQC, HiloWorker, Hilos

\* SetToSeq gives a list of all the queries, each once.
LEMMA SetToSeqDe ==
    ASSUME NEW S, IsFiniteSet(S)
    PROVE  /\ SetToSeq(S) \in Seq(S) /\ SinRepetidos(SetToSeq(S))
           /\ \A x \in S : Contains(SetToSeq(S), x)
<1> DEFINE n == Cardinality(S)
           s == SetToSeq(S)
<1>1. n \in Nat /\ ExistsBijection(1..n, S)
  BY FS_CardinalityType
<1>2. \E f \in [1..n -> S] : IsInjective(f)
  <2>1. PICK f \in Bijection(1..n, S) : TRUE
    BY <1>1 DEF ExistsBijection
  <2> QED BY <2>1 DEF Bijection, Injection, IsInjective
<1>3. s \in [1..n -> S] /\ IsInjective(s)
  BY <1>2 DEF SetToSeq
<1>4. s \in Seq(S) /\ Len(s) = n /\ DOMAIN s = 1..n
  <2> HIDE DEF s
  <2> QED BY <1>1, <1>3, SeqDef, LenProperties
<1>5. SinRepetidos(s)
  <2> HIDE DEF s
  <2> QED BY <1>3, <1>4 DEF IsInjective, SinRepetidos
<1>6. \A x \in S : Contains(s, x)
  <2>1. IsFiniteSet(1..n) /\ Cardinality(1..n) = n
    BY <1>1, FS_Interval
  <2>2. s \in Injection(1..n, S)
    <3> HIDE DEF s
    <3> QED BY <1>3, <1>4 DEF Injection, IsInjective
  <2>3. s \in Surjection(1..n, S)
    <3> HIDE DEF s
    <3> QED BY <2>1, <2>2, FS_Injection
  <2> HIDE DEF s
  <2> QED BY <1>4, <2>3 DEF Surjection, Contains
<1> QED BY <1>4, <1>5, <1>6

\* The invariant holds at the start.
LEMMA InitIInv == Init => IInv
<1> SUFFICES ASSUME Init PROVE IInv
  OBVIOUS
<1> DEFINE s == SetToSeq(Queries)
<1>1. s \in Seq(Queries) /\ SinRepetidos(s) /\ \A q \in Queries : Contains(s, q)
  BY ListasSupuesto, SetToSeqDe
<1>2. << >> \in Seq(Queries) /\ SinRepetidos(<< >>) /\ \A q : ~Contains(<< >>, q)
  BY DEF SinRepetidos, Contains
<1> HIDE DEF s
<1>3. listas["READY"] = s /\ listas["EXEC"] = << >> /\ listas["EXIT"] = << >>
  BY DEF Init, Estados, s
<1>4. TypeOK
  <2>1. listas \in [Estados -> Seq(Queries)]
    BY <1>1, <1>2 DEF Init, Estados, s
  <2>2. prioridad \in [Queries -> 0..PrioridadMaxima]
    BY ListasSupuesto DEF Init
  <2>3. llamada \in [Hilos -> LlamadaTipo]
    BY DEF Init, SinLlamada, LlamadaTipo, Estados
  <2>4. plan \in PlanTipo
    BY ListasSupuesto DEF Init, Dormido, PlanTipo
  <2> QED BY <2>1, <2>2, <2>3, <2>4 DEF Init, TypeOK, Estados
<1>5. \A h \in Hilos : llamada[h].paso = "no" /\ llamada[h] = SinLlamada
  BY DEF Init, SinLlamada
<1>6. MutexCoherente
  BY <1>5 DEF Init, MutexCoherente
<1>7. EnSuLista
  <2>1. \A q \in Queries : ~Moviendo(q) /\ estado[q] = "READY"
    BY <1>5 DEF Init, Moviendo
  <2> QED BY <1>1, <1>2, <1>3, <2>1 DEF EnSuLista, Estados
<1>8. PlanCoherente
  BY DEF Init, Dormido, PlanCoherente
<1>9. Orden
  BY <1>5, HilosDistintos DEF Init, Dormido, Orden, Vuelve, Elegida
<1> QED BY <1>4, <1>6, <1>7, <1>8, <1>9 DEF IInv

-----------------------------------------------------------------------------
(***************************************************************************)
(* The steps that move no query: the scheduler's walk, and aging.          *)
(***************************************************************************)

\* They only have to keep the scheduler's own part.
LEMMA SinMover ==
    ASSUME IInv, UNCHANGED <<algoritmo, estado, listas, mutexQuery, llamada, asignada>>,
           TypeOK', PlanCoherente',
           plan'.paso = "decide" => \/ plan' = plan
                                    \/ /\ Contains(listas["READY"], plan'.q)
                                       /\ algoritmo = "FIFO" => Head(listas["READY"]) = plan'.q
    PROVE  IInv'
<1>1. MutexCoherente' /\ EnSuLista'
  BY DEF IInv, MutexCoherente, EnSuLista, Moviendo
<1>2. \A q \in Queries : Vuelve(q)' <=> Vuelve(q)
  BY DEF Vuelve
<1>3. ASSUME NEW q \in Queries, Elegida(q)'
      PROVE  /\ ~Vuelve(q)
             /\ algoritmo = "FIFO" /\ Contains(listas["READY"], q) => Head(listas["READY"]) = q
  <2>1. CASE Elegida(q)
    BY <1>3, <2>1 DEF IInv, Orden
  <2>2. CASE ~Elegida(q)
    <3>1. plan'.paso = "decide" /\ plan'.q = q /\ plan' # plan
      BY <1>3, <2>2 DEF Elegida
    <3> QED BY <1>3, <3>1 DEF IInv, Orden
  <2> QED BY <2>1, <2>2
<1>4. Orden'
  BY <1>2, <1>3 DEF IInv, Orden
<1> QED BY <1>1, <1>4 DEF IInv

\* A step of the scheduler that calls nobody.
LEMMA RecorreIInv ==
    ASSUME IInv,
           Despierta \/ EligeFifo \/ EmpiezaARecorrer \/ LeeA \/ LeeB \/ TerminaDeRecorrer
             \/ BuscaVictima \/ Mide
    PROVE  IInv'
<1>0. TypeOK /\ PlanCoherente /\ plan \in PlanTipo
  BY DEF IInv, TypeOK
<1>u. UNCHANGED <<algoritmo, estado, listas, mutexQuery, llamada, asignada, prioridad, qc>>
  BY DEF Despierta, EligeFifo, EmpiezaARecorrer, LeeA, LeeB, TerminaDeRecorrer, BuscaVictima, Mide,
     varsListas
<1>l. \A e \in Estados : listas[e] \in Seq(Queries) /\ (listas[e] # << >> => Len(listas[e]) >= 1)
  BY <1>0, EmptySeq, LenProperties DEF TypeOK
<1>h. \A e \in Estados : listas[e] # << >> =>
         Head(listas[e]) \in Queries /\ Contains(listas[e], Head(listas[e]))
  <2> SUFFICES ASSUME NEW e \in Estados, listas[e] # << >>
               PROVE  Head(listas[e]) \in Queries /\ Contains(listas[e], Head(listas[e]))
    OBVIOUS
  <2> QED BY <1>l, HeadTailProperties, LenProperties DEF Contains
<1>t. ASSUME plan' \in PlanTipo, mutexLista' \in [Estados -> {Plan, LIBRE}] PROVE TypeOK'
  BY <1>0, <1>u, <1>t DEF TypeOK
<1>d. Dormido \in PlanTipo /\ Dormido.paso = "duerme" /\ Dormido.lista = "READY"
  BY ListasSupuesto DEF Dormido, PlanTipo
<1>m. mutexLista \in [Estados -> {Plan, LIBRE}]
  BY <1>0 DEF TypeOK
<1>n. llamada'[Plan].paso = "no"
  BY <1>0, <1>u DEF PlanCoherente, Despierta, EligeFifo, EmpiezaARecorrer, LeeA, LeeB,
     TerminaDeRecorrer, BuscaVictima, Mide, SinLlamada
<1>1. CASE Despierta
  <2>0. mutexLista' = mutexLista /\ plan' = [Dormido EXCEPT !.paso = "elige"]
    BY <1>1 DEF Despierta, varsListas
  <2>1. plan' \in PlanTipo /\ plan'.paso = "elige" /\ plan'.lista = "READY" /\ mutexLista' = mutexLista
    <3>1. Dormido \in PlanTipo /\ Dormido.lista = "READY"
      BY <1>d
    <3> QED BY <2>0, <3>1 DEF PlanTipo
  <2>2. TypeOK' /\ PlanCoherente'
    BY <1>m, <1>n, <1>t, <2>1 DEF PlanCoherente
  <2> QED BY <1>u, <2>1, <2>2, SinMover
<1>2. CASE EligeFifo
  <2>0. mutexLista' = mutexLista
    BY <1>2 DEF EligeFifo, varsListas
  <2>1. CASE listas["READY"] = << >>
    <3>1. plan' = Dormido
      BY <1>2, <2>1 DEF EligeFifo
    <3>2. TypeOK' /\ PlanCoherente'
      BY <1>d, <1>m, <1>n, <1>t, <2>0, <3>1 DEF PlanCoherente
    <3> QED BY <1>d, <1>u, <3>1, <3>2, SinMover
  <2>2. CASE listas["READY"] # << >>
    <3>0. Head(listas["READY"]) \in Queries /\ Contains(listas["READY"], Head(listas["READY"]))
      BY <1>h, <2>2 DEF Estados
    <3>1. plan' \in PlanTipo /\ plan'.paso = "decide" /\ plan'.q = Head(listas["READY"])
      BY <1>0, <1>2, <2>2, <3>0 DEF EligeFifo, PlanTipo
    <3>2. TypeOK' /\ PlanCoherente'
      BY <1>m, <1>n, <1>t, <2>0, <3>0, <3>1 DEF PlanCoherente
    <3> QED BY <1>u, <3>0, <3>1, <3>2, SinMover
  <2> QED BY <2>1, <2>2
<1>3. CASE EmpiezaARecorrer
  <2>1. CASE listas[plan.lista] = << >>
    <3>1. plan' = Dormido /\ mutexLista' = mutexLista
      BY <1>3, <2>1 DEF EmpiezaARecorrer
    <3>2. TypeOK' /\ PlanCoherente'
      BY <1>d, <1>m, <1>n, <1>t, <3>1 DEF PlanCoherente
    <3> QED BY <1>d, <1>u, <3>1, <3>2, SinMover
  <2>2. CASE listas[plan.lista] # << >>
    <3>0. plan.lista \in Estados /\ Head(listas[plan.lista]) \in Queries
      BY <1>0, <1>h, <2>2 DEF PlanTipo, Estados
    <3>a. PICK x \in Queries : x = Head(listas[plan.lista])
      BY <3>0
    <3>b. plan' = [plan EXCEPT !.paso = "leeA", !.v = x, !.i = 2]
      BY <1>3, <2>2, <3>a DEF EmpiezaARecorrer
    <3>1. /\ plan' \in PlanTipo /\ plan'.paso = "leeA" /\ plan'.v = x
          /\ plan'.i = 2 /\ plan'.lista = plan.lista /\ plan'.q = plan.q
      BY <1>0, <3>b DEF PlanTipo
    <3>c. algoritmo # "FIFO"
      BY <1>3 DEF EmpiezaARecorrer
    <3>2. mutexLista' = [mutexLista EXCEPT ![plan.lista] = Plan]
      BY <1>3, <2>2 DEF EmpiezaARecorrer
    <3>3. mutexLista' \in [Estados -> {Plan, LIBRE}] /\ mutexLista'[plan.lista] = Plan
      BY <1>m, <3>0, <3>2
    <3>4. TypeOK' /\ PlanCoherente'
      BY <1>0, <1>h, <1>n, <1>t, <1>u, <2>2, <3>0, <3>1, <3>3, <3>a, <3>c DEF PlanCoherente
    <3> QED BY <1>u, <3>1, <3>4, SinMover
  <2> QED BY <2>1, <2>2
<1>4. CASE LeeA
  <2>1. plan.paso = "leeA" /\ plan.i <= Len(listas[plan.lista]) /\ mutexLista' = mutexLista
    BY <1>4 DEF LeeA, varsListas
  <2>2. plan.v \in Queries /\ prioridad[plan.v] \in 0..PrioridadMaxima
    BY <1>0, <2>1 DEF PlanCoherente, TypeOK
  <2>3. /\ plan' \in PlanTipo /\ plan'.paso = "leeB" /\ plan'.v = plan.v /\ plan'.i = plan.i
        /\ plan'.lista = plan.lista /\ plan'.q = plan.q
    BY <1>0, <1>4, <2>2 DEF LeeA, PlanTipo
  <2>4. TypeOK' /\ PlanCoherente'
    BY <1>0, <1>m, <1>n, <1>t, <1>u, <2>1, <2>3 DEF PlanCoherente
  <2> QED BY <1>u, <2>3, <2>4, SinMover
<1>5. CASE LeeB
  <2> DEFINE b == listas[plan.lista][plan.i]
  <2>1. plan.paso = "leeB" /\ mutexLista' = mutexLista
    BY <1>5 DEF LeeB, varsListas
  <2>2. plan.v \in Queries /\ plan.i \in 1..Len(listas[plan.lista]) /\ plan.i \in Nat
    BY <1>0, <1>l, <2>1 DEF PlanCoherente, PlanTipo, Estados
  <2>3. b \in Queries /\ Contains(listas[plan.lista], b)
    BY <1>0, <1>l, <2>2, LenProperties, ElementOfSeq DEF PlanTipo, Estados, Contains
  <2>4. PICK x \in Queries : /\ plan' = [plan EXCEPT !.paso = "leeA", !.i = plan.i + 1, !.v = x]
                            /\ Contains(listas[plan.lista], x)
    <3> HIDE DEF b
    <3>1. plan' = [plan EXCEPT !.paso = "leeA", !.i = @ + 1,
                               !.v = IF plan.p <= prioridad[b] THEN @ ELSE b]
      BY <1>5 DEF LeeB, b
    <3>2. Contains(listas[plan.lista], plan.v)
      BY <1>0, <2>1 DEF PlanCoherente
    <3> QED BY <2>2, <2>3, <3>1, <3>2
  <2>5. /\ plan' \in PlanTipo /\ plan'.paso = "leeA" /\ plan'.v = x /\ plan'.i = plan.i + 1
        /\ plan'.lista = plan.lista /\ plan'.q = plan.q
    <3>1. plan.i + 1 \in Nat
      BY <2>2
    <3>2. PICK n \in Nat : n = plan.i + 1
      BY <3>1
    <3>3. plan' = [plan EXCEPT !.paso = "leeA", !.i = n, !.v = x]
      BY <2>4, <3>2
    <3>4. /\ plan' \in PlanTipo /\ plan'.paso = "leeA" /\ plan'.v = x /\ plan'.i = n
          /\ plan'.lista = plan.lista /\ plan'.q = plan.q
      BY <1>0, <3>3 DEF PlanTipo
    <3> QED BY <3>2, <3>4
  <2>6. TypeOK' /\ PlanCoherente'
    BY <1>0, <1>m, <1>n, <1>t, <1>u, <2>1, <2>2, <2>4, <2>5 DEF PlanCoherente
  <2> QED BY <1>u, <2>5, <2>6, SinMover
<1>6. CASE TerminaDeRecorrer
  <2>1. plan.paso = "leeA" /\ plan.v \in Queries /\ algoritmo # "FIFO"
    BY <1>0, <1>6 DEF TerminaDeRecorrer, PlanCoherente
  <2>2. mutexLista' \in [Estados -> {Plan, LIBRE}]
    BY <1>m, <1>6 DEF TerminaDeRecorrer
  <2>3. CASE plan.lista = "READY"
    <3>1. /\ plan' \in PlanTipo /\ plan'.paso = "decide" /\ plan'.q = plan.v /\ plan'.lista = "READY"
      BY <1>0, <1>6, <2>1, <2>3 DEF TerminaDeRecorrer, PlanTipo
    <3>2. TypeOK' /\ PlanCoherente'
      BY <1>n, <1>t, <2>1, <2>2, <3>1 DEF PlanCoherente
    <3>3. Contains(listas["READY"], plan'.q)
      BY <1>0, <2>1, <2>3, <3>1 DEF PlanCoherente
    <3> QED BY <1>u, <2>1, <3>1, <3>2, <3>3, SinMover
  <2>4. CASE plan.lista # "READY"
    <3>1. /\ plan' \in PlanTipo /\ plan'.paso = "mideQ" /\ plan'.q = plan.q /\ plan'.v = plan.v
          /\ plan.lista = "EXEC"
      BY <1>0, <1>6, <2>1, <2>4 DEF TerminaDeRecorrer, PlanTipo
    <3>2. TypeOK' /\ PlanCoherente'
      BY <1>0, <1>n, <1>t, <2>1, <2>2, <3>1 DEF PlanCoherente
    <3> QED BY <1>u, <3>1, <3>2, SinMover
  <2> QED BY <2>3, <2>4
<1>7. CASE BuscaVictima
  <2>1. plan.paso = "decide" /\ mutexLista' = mutexLista
    BY <1>7 DEF BuscaVictima, varsListas
  <2>2. plan' \in PlanTipo /\ plan'.paso = "elige" /\ plan'.q = plan.q
    BY <1>0, <1>7 DEF BuscaVictima, PlanTipo
  <2>3. TypeOK' /\ PlanCoherente'
    BY <1>0, <1>m, <1>n, <1>t, <2>1, <2>2 DEF PlanCoherente
  <2> QED BY <1>u, <2>2, <2>3, SinMover
<1>8. CASE Mide
  <2>0. mutexLista' = mutexLista
    BY <1>8 DEF Mide, varsListas
  <2>1. CASE plan.paso = "mideQ"
    <3>1. plan' \in PlanTipo /\ plan'.paso = "mideV" /\ plan'.q = plan.q /\ plan'.v = plan.v
      BY <1>0, <1>8, <2>1 DEF Mide, PlanTipo
    <3>2. TypeOK' /\ PlanCoherente'
      BY <1>0, <1>m, <1>n, <1>t, <2>0, <2>1, <3>1 DEF PlanCoherente
    <3> QED BY <1>u, <3>1, <3>2, SinMover
  <2>2. CASE plan' = Dormido
    <3>1. TypeOK' /\ PlanCoherente'
      BY <1>d, <1>m, <1>n, <1>t, <2>0, <2>2 DEF PlanCoherente
    <3> QED BY <1>d, <1>u, <2>2, <3>1, SinMover
  <2> QED BY <1>8, <2>1, <2>2 DEF Mide
<1> QED BY <1>1, <1>2, <1>3, <1>4, <1>5, <1>6, <1>7, <1>8

\* A step of the aging thread of a query.
LEMMA EnvejeceIInv ==
    ASSUME IInv, NEW q \in Queries, Envejece(q)
    PROVE  IInv'
<1>1. UNCHANGED <<algoritmo, estado, listas, mutexQuery, mutexLista, llamada, plan, qc, asignada>>
  BY DEF Envejece, varsListas
<1>2. prioridad' \in [Queries -> 0..PrioridadMaxima]
  <2>1. prioridad \in [Queries -> 0..PrioridadMaxima] /\ prioridad' = [prioridad EXCEPT ![q] = @ - 1]
    BY DEF Envejece, IInv, TypeOK
  <2>2. prioridad[q] - 1 \in 0..PrioridadMaxima
    BY <2>1, ListasSupuesto DEF Envejece, PuedeEnvejecer
  <2> QED BY <2>1, <2>2
<1>3. TypeOK' /\ PlanCoherente'
  BY <1>1, <1>2 DEF IInv, TypeOK, PlanCoherente
<1>4. UNCHANGED <<algoritmo, estado, listas, mutexQuery, llamada, asignada>>
  BY <1>1
<1>5. plan' = plan
  BY <1>1
<1> QED BY <1>3, <1>4, <1>5, SinMover

-----------------------------------------------------------------------------
(***************************************************************************)
(* The callers of actualizarEstadoQuery.                                   *)
(***************************************************************************)

\* A thread calls it.
LEMMA LlamaCampos ==
    ASSUME IInv, NEW h \in Hilos, NEW q \in Queries, NEW n \in Estados, Llama(h, q, n),
           UNCHANGED <<estado, listas, mutexQuery>>
    PROVE  /\ llamada' \in [Hilos -> LlamadaTipo] /\ MutexCoherente' /\ EnSuLista'
           /\ llamada[h].paso = "no"
           /\ llamada'[h].paso = "pide" /\ llamada'[h].q = q /\ llamada'[h].nuevo = n
           /\ \A k \in Hilos \ {h} : llamada'[k] = llamada[k]
<1>0. TypeOK /\ MutexCoherente /\ EnSuLista
  BY DEF IInv
<1>1. llamada \in [Hilos -> LlamadaTipo] /\ mutexQuery \in [Queries -> Hilos \cup {LIBRE}]
  BY <1>0 DEF TypeOK
<1>2. llamada[h].paso = "no" /\ llamada' = [llamada EXCEPT ![h] = [paso |-> "pide", q |-> q, nuevo |-> n]]
  BY DEF Llama, SinLlamada
<1>3. /\ llamada' \in [Hilos -> LlamadaTipo]
      /\ llamada'[h].paso = "pide" /\ llamada'[h].q = q /\ llamada'[h].nuevo = n
      /\ \A k \in Hilos \ {h} : llamada'[k] = llamada[k]
  BY <1>1, <1>2 DEF LlamadaTipo
<1>4. MutexCoherente'
  BY <1>0, <1>1, <1>2, <1>3 DEF MutexCoherente
<1>5. \A p \in Queries : Moviendo(p)' <=> Moviendo(p)
  BY <1>2, <1>3 DEF Moviendo
<1>6. EnSuLista'
  BY <1>0, <1>5 DEF EnSuLista
<1> QED BY <1>2, <1>3, <1>4, <1>6

\* The thread of a Query Control, of a Worker, or the scheduler.
LEMMA LlamadorIInv ==
    ASSUME IInv, (\E q \in Queries : SeVaElQC(q) \/ VuelveDelWorker(q)) \/ Despacha
    PROVE  IInv'
<1>0. TypeOK /\ PlanCoherente /\ Orden /\ plan \in PlanTipo
  BY DEF IInv, TypeOK
<1>e. "READY" \in Estados /\ "EXEC" \in Estados /\ "EXIT" \in Estados
  BY DEF Estados
<1>d. Dormido \in PlanTipo /\ Dormido.paso = "duerme" /\ Dormido.lista = "READY"
  BY ListasSupuesto DEF Dormido, PlanTipo
<1>1. ASSUME NEW q \in Queries, SeVaElQC(q) PROVE IInv'
  <2>0. UNCHANGED <<algoritmo, estado, listas, mutexQuery, mutexLista, prioridad, plan, asignada>>
    BY <1>1 DEF SeVaElQC
  <2>1. qc' \in [Queries -> BOOLEAN]
    BY <1>0, <1>1 DEF SeVaElQC, TypeOK
  <2>2. CASE llamada' = llamada
    <3>1. TypeOK' /\ PlanCoherente'
      BY <1>0, <2>0, <2>1, <2>2 DEF TypeOK, PlanCoherente
    <3>2. UNCHANGED <<algoritmo, estado, listas, mutexQuery, llamada, asignada>>
      BY <2>0, <2>2
    <3>3. plan' = plan
      BY <2>0
    <3> QED BY <3>1, <3>2, <3>3, SinMover
  <2>3. CASE Llama(HiloQC(q), q, "EXIT")
    <3>0. UNCHANGED <<estado, listas, mutexQuery>>
      BY <2>0
    <3>1. /\ llamada' \in [Hilos -> LlamadaTipo] /\ MutexCoherente' /\ EnSuLista'
          /\ llamada'[HiloQC(q)].nuevo = "EXIT"
          /\ \A k \in Hilos \ {HiloQC(q)} : llamada'[k] = llamada[k]
      BY <1>e, <2>3, <3>0, HilosDistintos, LlamaCampos
    <3>2. /\ llamada'[Plan] = llamada[Plan]
          /\ \A p \in Queries : llamada'[HiloWorker(p)] = llamada[HiloWorker(p)]
          /\ \A p \in Queries : HiloQC(p) = HiloQC(q) \/ llamada'[HiloQC(p)] = llamada[HiloQC(p)]
      BY <3>1, HilosDistintos
    <3>3. TypeOK' /\ PlanCoherente'
      BY <1>0, <2>0, <2>1, <3>1, <3>2 DEF TypeOK, PlanCoherente
    <3>4. /\ \A p \in Queries : Vuelve(p)' <=> Vuelve(p)
          /\ \A p \in Queries : Elegida(p)' <=> Elegida(p)
      BY <2>0, <3>2 DEF Vuelve, Elegida
    <3>5. \A p \in Queries : llamada'[HiloQC(p)].nuevo = "READY" => llamada'[HiloQC(p)].paso = "no"
      BY <1>0, <3>1, <3>2 DEF Orden
    <3>6. Orden'
      <4>1. /\ llamada'[Plan].nuevo = "READY" => llamada'[Plan].paso = "no"
            /\ \A p \in Queries : llamada'[HiloWorker(p)].paso # "no" => llamada'[HiloWorker(p)].q = p
            /\ \A p \in asignada' : llamada'[HiloWorker(p)].paso = "no"
        BY <1>0, <2>0, <3>2 DEF Orden, TypeOK
      <4>2. /\ \A p \in Queries : Contains(listas'["READY"], p) => ~Vuelve(p)'
            /\ \A p \in Queries : Elegida(p)' => ~Vuelve(p)'
            /\ algoritmo' = "FIFO" => \A p \in Queries :
                  Elegida(p)' /\ Contains(listas'["READY"], p) => Head(listas'["READY"]) = p
        BY <1>0, <2>0, <3>4 DEF Orden
      <4> QED BY <3>5, <4>1, <4>2 DEF Orden
    <3> QED BY <3>1, <3>3, <3>6 DEF IInv
  <2> QED BY <1>1, <2>2, <2>3 DEF SeVaElQC
<1>2. ASSUME NEW q \in Queries, VuelveDelWorker(q) PROVE IInv'
  <2>0. UNCHANGED <<algoritmo, estado, listas, mutexQuery, mutexLista, prioridad, plan, qc>>
    BY <1>2 DEF VuelveDelWorker
  <2>1. q \in asignada /\ asignada' = asignada \ {q}
    BY <1>2 DEF VuelveDelWorker
  <2>2. PICK n \in {"READY", "EXIT"} : Llama(HiloWorker(q), q, n)
    BY <1>2 DEF VuelveDelWorker
  <2>3. UNCHANGED <<estado, listas, mutexQuery>>
    BY <2>0
  <2>4. /\ llamada' \in [Hilos -> LlamadaTipo] /\ MutexCoherente' /\ EnSuLista'
        /\ llamada'[HiloWorker(q)].q = q /\ llamada'[HiloWorker(q)].paso = "pide"
        /\ \A k \in Hilos \ {HiloWorker(q)} : llamada'[k] = llamada[k]
    BY <1>e, <2>2, <2>3, HilosDistintos, LlamaCampos
  <2>5. /\ llamada'[Plan] = llamada[Plan]
        /\ \A p \in Queries : llamada'[HiloQC(p)] = llamada[HiloQC(p)]
        /\ \A p \in Queries \ {q} : llamada'[HiloWorker(p)] = llamada[HiloWorker(p)]
    BY <2>4, HilosDistintos
  <2>6. TypeOK' /\ PlanCoherente'
    BY <1>0, <2>0, <2>1, <2>4, <2>5 DEF TypeOK, PlanCoherente
  <2>7. /\ \A p \in Queries : Vuelve(p)' <=> Vuelve(p)
        /\ \A p \in Queries : Elegida(p)' <=> Elegida(p)
    BY <2>0, <2>1, <2>4, <2>5 DEF Vuelve, Elegida
  <2>8. /\ \A p \in Queries : llamada'[HiloWorker(p)].paso # "no" => llamada'[HiloWorker(p)].q = p
        /\ \A p \in asignada' : llamada'[HiloWorker(p)].paso = "no"
    BY <1>0, <2>1, <2>4, <2>5 DEF Orden, TypeOK
  <2>9. Orden'
    BY <1>0, <2>0, <2>5, <2>7, <2>8 DEF Orden
  <2> QED BY <2>4, <2>6, <2>9 DEF IInv
<1>3. CASE Despacha
  <2>0. /\ UNCHANGED <<algoritmo, estado, listas, mutexQuery, mutexLista, prioridad, qc, asignada>>
        /\ plan.paso = "decide" /\ plan' = Dormido /\ Llama(Plan, plan.q, "EXEC")
    BY <1>3 DEF Despacha
  <2>1. plan.q \in Queries
    BY <1>0, <2>0 DEF PlanCoherente
  <2>2. UNCHANGED <<estado, listas, mutexQuery>>
    BY <2>0
  <2>3. /\ llamada' \in [Hilos -> LlamadaTipo] /\ MutexCoherente' /\ EnSuLista'
        /\ llamada'[Plan].q = plan.q /\ llamada'[Plan].nuevo = "EXEC"
        /\ \A k \in Hilos \ {Plan} : llamada'[k] = llamada[k]
    BY <1>e, <2>0, <2>1, <2>2, HilosDistintos, LlamaCampos
  <2>4. /\ \A p \in Queries : llamada'[HiloQC(p)] = llamada[HiloQC(p)]
        /\ \A p \in Queries : llamada'[HiloWorker(p)] = llamada[HiloWorker(p)]
    BY <2>3, HilosDistintos
  <2>5. TypeOK' /\ PlanCoherente'
    BY <1>0, <1>d, <2>0, <2>3 DEF TypeOK, PlanCoherente
  <2>6. /\ \A p \in Queries : Vuelve(p)' <=> Vuelve(p)
        /\ \A p \in Queries : Elegida(p)' => Elegida(p)
    BY <1>d, <2>0, <2>3, <2>4 DEF Vuelve, Elegida
  <2>7. Orden'
    <3>1. /\ llamada'[Plan].nuevo # "READY"
          /\ \A p \in Queries : llamada'[HiloQC(p)].nuevo = "READY" => llamada'[HiloQC(p)].paso = "no"
          /\ \A p \in Queries : llamada'[HiloWorker(p)].paso # "no" => llamada'[HiloWorker(p)].q = p
          /\ \A p \in asignada' : llamada'[HiloWorker(p)].paso = "no"
      BY <1>0, <2>0, <2>3, <2>4 DEF Orden, TypeOK
    <3>2. /\ \A p \in Queries : Contains(listas'["READY"], p) => ~Vuelve(p)'
          /\ \A p \in Queries : Elegida(p)' => ~Vuelve(p)'
          /\ algoritmo' = "FIFO" => \A p \in Queries :
                Elegida(p)' /\ Contains(listas'["READY"], p) => Head(listas'["READY"]) = p
      BY <1>0, <2>0, <2>6 DEF Orden
    <3> QED BY <3>1, <3>2 DEF Orden
  <2> QED BY <2>3, <2>5, <2>7 DEF IInv
<1> QED BY <1>1, <1>2, <1>3

-----------------------------------------------------------------------------
(***************************************************************************)
(* actualizarEstadoQuery itself.                                           *)
(***************************************************************************)

\* What takes out one query leaves another at the head.
LEMMA RemoveFirstCabeza ==
    ASSUME NEW S, NEW s \in Seq(S), s # << >>, NEW e, Head(s) # e
    PROVE  Head(RemoveFirst(s, e)) = Head(s)
<1>1. Len(s) \in Nat /\ Len(s) >= 1 /\ Head(s) = s[1]
  BY EmptySeq, HeadTailProperties, LenProperties
<1>2. CASE RemoveFirst(s, e) = s
  BY <1>2
<1>3. ASSUME NEW k \in 1..Len(s), s[k] = e, RemoveFirst(s, e) = RemoveAt(s, k)
      PROVE  Head(RemoveFirst(s, e)) = Head(s)
  <2> DEFINE r == RemoveAt(s, k)
  <2>1. k > 1
    BY <1>1, <1>3
  <2>2. r \in Seq(S) /\ Len(r) = Len(s) - 1 /\ r[1] = s[1]
    <3>1. /\ r \in Seq(S) /\ Len(r) = Len(s) - 1
          /\ \A j \in 1..(Len(s) - 1) : r[j] = IF j < k THEN s[j] ELSE s[j + 1]
      BY RemoveAtElementos
    <3> HIDE DEF r
    <3> QED BY <1>1, <2>1, <3>1
  <2> HIDE DEF r
  <2>3. Len(r) >= 1
    BY <1>1, <2>1, <2>2
  <2>4. Head(r) = r[1]
    BY <2>2, <2>3, EmptySeq, HeadTailProperties
  <2> QED BY <1>1, <1>3, <2>2, <2>4 DEF r
<1> QED BY <1>2, <1>3, RemoveFirstPosicion

\* And what is added goes behind the head.
LEMMA AppendCabeza ==
    ASSUME NEW S, NEW s \in Seq(S), s # << >>, NEW e \in S
    PROVE  Head(Append(s, e)) = Head(s)
<1>1. Len(s) \in Nat /\ Len(s) >= 1 /\ Head(s) = s[1]
  BY EmptySeq, HeadTailProperties, LenProperties
<1>2. /\ Append(s, e) \in Seq(S) /\ Append(s, e) # << >> /\ Append(s, e)[1] = s[1]
  BY <1>1, AppendProperties
<1> QED BY <1>1, <1>2, HeadTailProperties

\* The mutex of the query is taken.
LEMMA PideIInv ==
    ASSUME IInv, NEW h \in Hilos, PideQuery(h)
    PROVE  IInv'
<1>0. TypeOK /\ MutexCoherente /\ EnSuLista /\ PlanCoherente /\ Orden
  BY DEF IInv
<1>p. PICK q \in Queries : q = llamada[h].q
  BY <1>0 DEF PideQuery, MutexCoherente
<1>1. llamada \in [Hilos -> LlamadaTipo] /\ mutexQuery \in [Queries -> Hilos \cup {LIBRE}]
  BY <1>0 DEF TypeOK
<1>2. llamada[h].paso = "pide" /\ mutexQuery[q] = LIBRE
  BY <1>p DEF PideQuery, Puede
<1>3. /\ UNCHANGED <<algoritmo, estado, listas, mutexLista, prioridad, plan, qc, asignada>>
      /\ mutexQuery' = [mutexQuery EXCEPT ![q] = h]
      /\ llamada' = [llamada EXCEPT ![h].paso = "saca"]
  BY <1>p DEF PideQuery
<1>4. /\ llamada' \in [Hilos -> LlamadaTipo]
      /\ llamada'[h].paso = "saca" /\ llamada'[h].q = q /\ llamada'[h].nuevo = llamada[h].nuevo
      /\ \A k \in Hilos \ {h} : llamada'[k] = llamada[k]
  BY <1>1, <1>3, <1>p DEF LlamadaTipo
<1>5. /\ mutexQuery' \in [Queries -> Hilos \cup {LIBRE}] /\ mutexQuery'[q] = h
      /\ \A p \in Queries \ {q} : mutexQuery'[p] = mutexQuery[p]
  BY <1>1, <1>2, <1>3
<1>6. MutexCoherente'
  <2>1. \A k \in Hilos : llamada'[k].paso # "no" => llamada'[k].q \in Queries
    BY <1>0, <1>2, <1>4 DEF MutexCoherente
  <2>2. \A k \in Hilos : llamada'[k].paso \in {"saca", "pone"} => mutexQuery'[llamada'[k].q] = k
    BY <1>0, <1>2, <1>4, <1>5, LibreSupuesto DEF MutexCoherente
  <2>3. \A p \in Queries : mutexQuery'[p] # LIBRE =>
           llamada'[mutexQuery'[p]].paso \in {"saca", "pone"} /\ llamada'[mutexQuery'[p]].q = p
    <3> SUFFICES ASSUME NEW p \in Queries, mutexQuery'[p] # LIBRE
                 PROVE  /\ llamada'[mutexQuery'[p]].paso \in {"saca", "pone"}
                        /\ llamada'[mutexQuery'[p]].q = p
      OBVIOUS
    <3>1. CASE p = q
      BY <1>4, <1>5, <3>1
    <3>2. CASE p # q
      <4>1. PICK k \in Hilos : mutexQuery[p] = k /\ mutexQuery'[p] = k
        BY <1>1, <1>5, <3>2
      <4>2. llamada[k].paso \in {"saca", "pone"} /\ llamada[k].q = p
        BY <1>0, <1>5, <3>2, <4>1 DEF MutexCoherente
      <4> QED BY <1>2, <1>4, <4>1, <4>2
    <3> QED BY <3>1, <3>2
  <2>4. \A k \in Hilos : llamada'[k].paso = "pone" => estado'[llamada'[k].q] = llamada'[k].nuevo
    BY <1>0, <1>3, <1>4 DEF MutexCoherente
  <2> QED BY <2>1, <2>2, <2>3, <2>4 DEF MutexCoherente
<1>7. \A p \in Queries : Moviendo(p)' <=> Moviendo(p)
  <2>1. ~Moviendo(q)' /\ ~Moviendo(q)
    BY <1>2, <1>4, <1>5, LibreSupuesto DEF Moviendo
  <2>2. \A p \in Queries \ {q} : Moviendo(p)' <=> Moviendo(p)
    BY <1>2, <1>4, <1>5 DEF Moviendo
  <2> QED BY <2>1, <2>2
<1>8. EnSuLista'
  BY <1>0, <1>3, <1>7 DEF EnSuLista
<1>9. TypeOK'
  BY <1>0, <1>3, <1>4, <1>5 DEF TypeOK
<1>10. \A k \in Hilos : /\ llamada'[k].paso = "no" <=> llamada[k].paso = "no"
                        /\ llamada'[k].q = llamada[k].q /\ llamada'[k].nuevo = llamada[k].nuevo
  BY <1>2, <1>4, <1>p
<1>11. PlanCoherente'
  BY <1>0, <1>3, <1>10, HilosDistintos DEF PlanCoherente
<1>12. Orden'
  BY <1>0, <1>3, <1>10, HilosDistintos DEF Orden, Vuelve, Elegida, TypeOK
<1> QED BY <1>6, <1>8, <1>9, <1>11, <1>12 DEF IInv

\* The query is taken out of the list of its state, where it always is.
LEMMA SacaEfecto ==
    ASSUME IInv, NEW h \in Hilos, Saca(h), NEW q \in Queries, q = llamada[h].q
    PROVE  /\ llamada[h].paso = "saca" /\ estado[q] \in Estados /\ mutexLista[estado[q]] = LIBRE
           /\ Contains(listas[estado[q]], q)
           /\ listas' = [listas EXCEPT ![estado[q]] = RemoveFirst(@, q)]
           /\ estado' = [estado EXCEPT ![q] = llamada[h].nuevo]
           /\ llamada' = [llamada EXCEPT ![h].paso = "pone"]
           /\ UNCHANGED <<algoritmo, mutexQuery, mutexLista, prioridad, plan, qc, asignada>>
<1>0. TypeOK /\ MutexCoherente /\ EnSuLista
  BY DEF IInv
<1>1. llamada[h].paso = "saca" /\ mutexQuery[q] = h
  BY <1>0 DEF Saca, MutexCoherente
<1>2. ~Moviendo(q)
  BY <1>1 DEF Moviendo
<1>3. estado[q] \in Estados /\ Contains(listas[estado[q]], q)
  BY <1>0, <1>2 DEF EnSuLista, TypeOK
<1> QED BY <1>1, <1>3 DEF Saca

\* That step keeps the invariant.
LEMMA SacaIInv ==
    ASSUME IInv, NEW h \in Hilos, Saca(h)
    PROVE  IInv'
<1>0. TypeOK /\ MutexCoherente /\ EnSuLista /\ PlanCoherente /\ Orden
  BY DEF IInv
<1>p. PICK q \in Queries : q = llamada[h].q
  BY <1>0 DEF Saca, MutexCoherente
<1> DEFINE v == estado[q]
           n == llamada[h].nuevo
<1>1. /\ llamada[h].paso = "saca" /\ v \in Estados /\ mutexLista[v] = LIBRE
      /\ Contains(listas[v], q)
      /\ listas' = [listas EXCEPT ![v] = RemoveFirst(@, q)]
      /\ estado' = [estado EXCEPT ![q] = n]
      /\ llamada' = [llamada EXCEPT ![h].paso = "pone"]
      /\ UNCHANGED <<algoritmo, mutexQuery, mutexLista, prioridad, plan, qc, asignada>>
  BY <1>p, SacaEfecto
<1>2. /\ llamada \in [Hilos -> LlamadaTipo] /\ mutexQuery \in [Queries -> Hilos \cup {LIBRE}]
      /\ estado \in [Queries -> Estados] /\ listas \in [Estados -> Seq(Queries)] /\ n \in Estados
  BY <1>0 DEF TypeOK, LlamadaTipo
<1>3. mutexQuery[q] = h
  BY <1>0, <1>1, <1>p DEF MutexCoherente
<1>4. /\ llamada' \in [Hilos -> LlamadaTipo]
      /\ llamada'[h].paso = "pone" /\ llamada'[h].q = q /\ llamada'[h].nuevo = n
      /\ \A k \in Hilos \ {h} : llamada'[k] = llamada[k]
  BY <1>1, <1>2, <1>p DEF LlamadaTipo
<1>5. /\ listas[v] \in Seq(Queries) /\ SinRepetidos(listas[v])
      /\ RemoveFirst(listas[v], q) \in Seq(Queries) /\ SinRepetidos(RemoveFirst(listas[v], q))
      /\ \A x : Contains(RemoveFirst(listas[v], q), x) <=> Contains(listas[v], x) /\ x # q
  BY <1>0, <1>1, <1>2, RemoveFirstTipo, RemoveFirstQuita DEF EnSuLista
<1>6. /\ listas' \in [Estados -> Seq(Queries)] /\ listas'[v] = RemoveFirst(listas[v], q)
      /\ \A e \in Estados \ {v} : listas'[e] = listas[e]
      /\ estado' \in [Queries -> Estados] /\ estado'[q] = n
      /\ \A p \in Queries \ {q} : estado'[p] = estado[p]
  <2> HIDE DEF v, n
  <2> QED BY <1>1, <1>2, <1>5
<1>7. \A k \in Hilos : /\ llamada'[k].paso = "no" <=> llamada[k].paso = "no"
                       /\ llamada'[k].q = llamada[k].q /\ llamada'[k].nuevo = llamada[k].nuevo
  BY <1>1, <1>4, <1>p
<1>8. \A k \in Hilos \ {h} : llamada[k].paso \in {"saca", "pone"} => llamada[k].q # q
  BY <1>0, <1>3 DEF MutexCoherente
<1> HIDE DEF v, n
<1>9. MutexCoherente'
  <2>1. \A k \in Hilos : llamada'[k].paso # "no" => llamada'[k].q \in Queries
    BY <1>0, <1>7 DEF MutexCoherente
  <2>2. \A k \in Hilos : llamada'[k].paso \in {"saca", "pone"} => mutexQuery'[llamada'[k].q] = k
    BY <1>0, <1>1, <1>3, <1>4 DEF MutexCoherente
  <2>3. \A p \in Queries : mutexQuery'[p] # LIBRE =>
           llamada'[mutexQuery'[p]].paso \in {"saca", "pone"} /\ llamada'[mutexQuery'[p]].q = p
    <3> SUFFICES ASSUME NEW p \in Queries, NEW k \in Hilos, mutexQuery[p] = k
                 PROVE  llamada'[k].paso \in {"saca", "pone"} /\ llamada'[k].q = p
      BY <1>1, <1>2
    <3>1. llamada[k].paso \in {"saca", "pone"} /\ llamada[k].q = p
      BY <1>0, LibreSupuesto DEF MutexCoherente
    <3> QED BY <1>4, <1>p, <3>1
  <2>4. \A k \in Hilos : llamada'[k].paso = "pone" => estado'[llamada'[k].q] = llamada'[k].nuevo
    <3> SUFFICES ASSUME NEW k \in Hilos, llamada'[k].paso = "pone"
                 PROVE  estado'[llamada'[k].q] = llamada'[k].nuevo
      OBVIOUS
    <3>1. CASE k = h
      BY <1>4, <1>6, <3>1
    <3>2. CASE k # h
      <4>1. llamada[k].paso = "pone" /\ llamada[k].q \in Queries \ {q}
        BY <1>0, <1>4, <1>8, <3>2 DEF MutexCoherente
      <4> QED BY <1>0, <1>4, <1>6, <3>2, <4>1 DEF MutexCoherente
    <3> QED BY <3>1, <3>2
  <2> QED BY <2>1, <2>2, <2>3, <2>4 DEF MutexCoherente
<1>10. EnSuLista'
  <2>1. Moviendo(q)'
    BY <1>1, <1>3, <1>4 DEF Moviendo
  <2>m. \A p \in Queries \ {q} : Moviendo(p)' <=> Moviendo(p)
    <3>1. \A p \in Queries \ {q} : mutexQuery[p] # h
      BY <1>0, <1>p, LibreSupuesto DEF MutexCoherente
    <3> QED BY <1>1, <1>4, <3>1 DEF Moviendo
  <2>2. \A e \in Estados : ~Contains(listas'[e], q)
    <3>1. ~Contains(listas'[v], q)
      BY <1>5, <1>6
    <3>2. \A e \in Estados \ {v} : ~Contains(listas[e], q)
      BY <1>0 DEF EnSuLista, v
    <3> QED BY <1>6, <3>1, <3>2
  <2>3. \A e \in Estados : \A p \in Queries \ {q} : Contains(listas'[e], p) <=> Contains(listas[e], p)
    BY <1>5, <1>6
  <2>4. \A e \in Estados : SinRepetidos(listas'[e])
    BY <1>0, <1>5, <1>6 DEF EnSuLista
  <2> QED BY <1>0, <1>6, <2>1, <2>m, <2>2, <2>3, <2>4 DEF EnSuLista
<1>11. TypeOK'
  BY <1>0, <1>1, <1>4, <1>6 DEF TypeOK
<1>12. PlanCoherente'
  <2>1. plan.paso \in {"leeA", "leeB"} => listas'[plan.lista] = listas[plan.lista]
    <3>1. plan.lista \in Estados
      BY <1>0 DEF TypeOK, PlanTipo, Estados
    <3>2. Plan # LIBRE
      BY HilosDistintos, LibreSupuesto
    <3> QED BY <1>0, <1>1, <1>6, <3>1, <3>2 DEF PlanCoherente
  <2> QED BY <1>0, <1>1, <1>7, <2>1, HilosDistintos DEF PlanCoherente
<1>13. Orden'
  <2>1. /\ \A p \in Queries : Vuelve(p)' <=> Vuelve(p)
        /\ \A p \in Queries : Elegida(p)' <=> Elegida(p)
    BY <1>1, <1>7, HilosDistintos DEF Vuelve, Elegida
  <2>2. /\ \A p \in Queries : llamada'[HiloQC(p)].nuevo = "READY" => llamada'[HiloQC(p)].paso = "no"
        /\ llamada'[Plan].nuevo = "READY" => llamada'[Plan].paso = "no"
        /\ \A p \in Queries : llamada'[HiloWorker(p)].paso # "no" => llamada'[HiloWorker(p)].q = p
        /\ \A p \in asignada' : llamada'[HiloWorker(p)].paso = "no"
    BY <1>0, <1>1, <1>7, HilosDistintos DEF Orden, TypeOK
  <2>3. \A p \in Queries : Contains(listas'["READY"], p) => Contains(listas["READY"], p) /\ p # q
    BY <1>0, <1>5, <1>6 DEF Estados, EnSuLista, v
  <2>4. ASSUME algoritmo = "FIFO", NEW p \in Queries, Elegida(p), Contains(listas'["READY"], p)
        PROVE  Head(listas'["READY"]) = p
    <3>1. Contains(listas["READY"], p) /\ p # q /\ Head(listas["READY"]) = p
      BY <1>0, <2>3, <2>4 DEF Orden
    <3>2. listas["READY"] # << >>
      BY <3>1 DEF Contains
    <3>3. CASE v = "READY"
      BY <1>5, <1>6, <3>1, <3>2, <3>3, RemoveFirstCabeza
    <3>4. CASE v # "READY"
      BY <1>6, <3>1, <3>4 DEF Estados
    <3> QED BY <3>3, <3>4
  <2>5. /\ \A p \in Queries : Contains(listas'["READY"], p) => ~Vuelve(p)'
        /\ \A p \in Queries : Elegida(p)' => ~Vuelve(p)'
        /\ algoritmo' = "FIFO" => \A p \in Queries :
              Elegida(p)' /\ Contains(listas'["READY"], p) => Head(listas'["READY"]) = p
    BY <1>0, <1>1, <2>1, <2>3, <2>4 DEF Orden
  <2> QED BY <2>2, <2>5 DEF Orden
<1> QED BY <1>9, <1>10, <1>11, <1>12, <1>13 DEF IInv

\* The query is put in the list of its new state, and its mutex left.
LEMMA PoneIInv ==
    ASSUME IInv, NEW h \in Hilos, Pone(h)
    PROVE  IInv'
<1>0. TypeOK /\ MutexCoherente /\ EnSuLista /\ PlanCoherente /\ Orden
  BY DEF IInv
<1>p. PICK q \in Queries, n \in Estados : q = llamada[h].q /\ n = llamada[h].nuevo
  BY <1>0 DEF Pone, MutexCoherente, TypeOK, LlamadaTipo
<1>1. /\ llamada[h].paso = "pone" /\ mutexLista[n] = LIBRE
      /\ listas' = [listas EXCEPT ![n] = Append(@, q)]
      /\ mutexQuery' = [mutexQuery EXCEPT ![q] = LIBRE]
      /\ llamada' = [llamada EXCEPT ![h] = SinLlamada]
      /\ asignada' = IF h = Plan THEN asignada \cup {q} ELSE asignada
      /\ UNCHANGED <<algoritmo, estado, mutexLista, prioridad, plan, qc>>
  BY <1>p DEF Pone, Agrega, Suelta
<1>2. /\ llamada \in [Hilos -> LlamadaTipo] /\ mutexQuery \in [Queries -> Hilos \cup {LIBRE}]
      /\ estado \in [Queries -> Estados] /\ listas \in [Estados -> Seq(Queries)]
  BY <1>0 DEF TypeOK
<1>3. mutexQuery[q] = h /\ estado[q] = n
  BY <1>0, <1>1, <1>p DEF MutexCoherente
<1>4. /\ llamada' \in [Hilos -> LlamadaTipo] /\ llamada'[h] = SinLlamada /\ llamada'[h].paso = "no"
      /\ \A k \in Hilos \ {h} : llamada'[k] = llamada[k]
  <2>1. SinLlamada \in LlamadaTipo /\ SinLlamada.paso = "no"
    BY DEF SinLlamada, LlamadaTipo, Estados
  <2> QED BY <1>1, <1>2, <2>1
<1>5. /\ ~Contains(listas[n], q) /\ Moviendo(q)
      /\ Append(listas[n], q) \in Seq(Queries) /\ SinRepetidos(Append(listas[n], q))
      /\ \A x : Contains(Append(listas[n], q), x) <=> Contains(listas[n], x) \/ x = q
  <2>1. Moviendo(q)
    BY <1>1, <1>3 DEF Moviendo
  <2>2. ~Contains(listas[n], q) /\ SinRepetidos(listas[n])
    BY <1>0, <2>1 DEF EnSuLista
  <2> QED BY <1>2, <2>1, <2>2, AppendAgrega
<1>6. /\ listas' \in [Estados -> Seq(Queries)] /\ listas'[n] = Append(listas[n], q)
      /\ \A e \in Estados \ {n} : listas'[e] = listas[e]
      /\ mutexQuery' \in [Queries -> Hilos \cup {LIBRE}] /\ mutexQuery'[q] = LIBRE
      /\ \A p \in Queries \ {q} : mutexQuery'[p] = mutexQuery[p]
  BY <1>1, <1>2, <1>5
<1>7. /\ \A k \in Hilos \ {h} : llamada[k].paso \in {"saca", "pone"} => llamada[k].q # q
      /\ \A p \in Queries \ {q} : mutexQuery[p] # h
  BY <1>0, <1>3, <1>p, LibreSupuesto DEF MutexCoherente
<1>8. MutexCoherente'
  <2>1. \A k \in Hilos : llamada'[k].paso # "no" => llamada'[k].q \in Queries
    BY <1>0, <1>4 DEF MutexCoherente
  <2>2. \A k \in Hilos : llamada'[k].paso \in {"saca", "pone"} => mutexQuery'[llamada'[k].q] = k
    BY <1>0, <1>4, <1>6, <1>7 DEF MutexCoherente
  <2>3. \A p \in Queries : mutexQuery'[p] # LIBRE =>
           llamada'[mutexQuery'[p]].paso \in {"saca", "pone"} /\ llamada'[mutexQuery'[p]].q = p
    <3> SUFFICES ASSUME NEW p \in Queries \ {q}, NEW k \in Hilos \ {h}, mutexQuery[p] = k
                 PROVE  llamada'[k].paso \in {"saca", "pone"} /\ llamada'[k].q = p
      BY <1>2, <1>6, <1>7
    <3> QED BY <1>0, <1>4, LibreSupuesto DEF MutexCoherente
  <2>4. \A k \in Hilos : llamada'[k].paso = "pone" => estado'[llamada'[k].q] = llamada'[k].nuevo
    BY <1>0, <1>1, <1>4 DEF MutexCoherente
  <2> QED BY <2>1, <2>2, <2>3, <2>4 DEF MutexCoherente
<1>9. EnSuLista'
  <2>1. ~Moviendo(q)'
    BY <1>6, LibreSupuesto DEF Moviendo
  <2>2. \A p \in Queries \ {q} : Moviendo(p)' <=> Moviendo(p)
    BY <1>4, <1>6, <1>7 DEF Moviendo
  <2>3. \A e \in Estados : Contains(listas'[e], q) <=> e = n
    <3>1. \A e \in Estados \ {n} : ~Contains(listas[e], q)
      BY <1>0, <1>3 DEF EnSuLista
    <3> QED BY <1>5, <1>6, <3>1
  <2>4. \A e \in Estados : \A p \in Queries \ {q} : Contains(listas'[e], p) <=> Contains(listas[e], p)
    BY <1>5, <1>6
  <2>5. \A e \in Estados : SinRepetidos(listas'[e])
    BY <1>0, <1>5, <1>6 DEF EnSuLista
  <2> QED BY <1>0, <1>1, <1>3, <2>1, <2>2, <2>3, <2>4, <2>5 DEF EnSuLista
<1>10. TypeOK'
  BY <1>0, <1>1, <1>4, <1>6 DEF TypeOK
<1>11. PlanCoherente'
  <2>1. plan.paso \in {"leeA", "leeB"} => listas'[plan.lista] = listas[plan.lista]
    <3>1. plan.lista \in Estados
      BY <1>0 DEF TypeOK, PlanTipo, Estados
    <3>2. Plan # LIBRE
      BY HilosDistintos, LibreSupuesto
    <3> QED BY <1>0, <1>1, <1>6, <3>1, <3>2 DEF PlanCoherente
  <2>2. llamada[Plan].paso = "no" => llamada'[Plan].paso = "no"
    BY <1>4, HilosDistintos
  <2> QED BY <1>0, <1>1, <2>1, <2>2 DEF PlanCoherente
<1>12. Orden'
  <2>h. \A k \in Hilos : llamada'[k].paso # "no" => k # h /\ llamada'[k] = llamada[k]
    BY <1>4
  <2>1. /\ \A p \in Queries : llamada'[HiloQC(p)].nuevo = "READY" => llamada'[HiloQC(p)].paso = "no"
        /\ llamada'[Plan].nuevo = "READY" => llamada'[Plan].paso = "no"
        /\ \A p \in Queries : llamada'[HiloWorker(p)].paso # "no" => llamada'[HiloWorker(p)].q = p
    BY <1>0, <2>h, HilosDistintos DEF Orden
  \* The scheduler gives q to a Worker, and holds no query any more.
  <2>2. CASE h = Plan
    <3>1. Elegida(q)
      BY <1>1, <1>p, <2>2 DEF Elegida
    <3>2. n # "READY" /\ ~Vuelve(q)
      BY <1>0, <1>1, <1>p, <2>2, <3>1 DEF Orden
    <3>3. listas'["READY"] = listas["READY"] /\ ~Contains(listas["READY"], q)
      BY <1>0, <1>3, <1>6, <3>2 DEF Estados, EnSuLista
    <3>4. \A p \in Queries : llamada'[HiloWorker(p)] = llamada[HiloWorker(p)]
      BY <1>4, <2>2, HilosDistintos
    <3>5. \A p \in Queries \ {q} : Vuelve(p)' <=> Vuelve(p)
      BY <1>1, <2>2, <3>4 DEF Vuelve
    <3>6. \A p \in asignada' : llamada'[HiloWorker(p)].paso = "no"
      BY <1>0, <1>1, <2>2, <3>2, <3>4 DEF Orden, Vuelve
    <3>7. \A p \in Queries : ~Elegida(p)'
      BY <1>0, <1>1, <1>4, <2>2 DEF PlanCoherente, Elegida
    <3>8. \A p \in Queries : Contains(listas'["READY"], p) => ~Vuelve(p)'
      BY <1>0, <3>3, <3>5 DEF Orden
    <3> QED BY <2>1, <3>6, <3>7, <3>8 DEF Orden
  \* Another thread: to READY, only the one that gives q back.
  <2>3. CASE h # Plan
    <3>1. asignada' = asignada /\ \A p \in Queries : Elegida(p)' <=> Elegida(p)
      BY <1>1, <1>4, <2>3, HilosDistintos DEF Elegida
    <3>2. \A p \in Queries : Vuelve(p)' => Vuelve(p)
      BY <2>h, <3>1, HilosDistintos DEF Vuelve
    <3>3. n = "READY" => h = HiloWorker(q)
      <4>1. CASE \E x \in Queries : h = HiloQC(x)
        BY <1>0, <1>1, <1>p, <4>1 DEF Orden
      <4>2. CASE \E x \in Queries : h = HiloWorker(x)
        BY <1>0, <1>1, <1>p, <4>2 DEF Orden
      <4> QED BY <2>3, <4>1, <4>2, HilosDistintos
    <3>4. n = "READY" => Vuelve(q) /\ ~Vuelve(q)'
      <4> SUFFICES ASSUME h = HiloWorker(q) PROVE Vuelve(q) /\ ~Vuelve(q)'
        BY <3>3
      <4>1. llamada[HiloWorker(q)].paso # "no" /\ llamada'[HiloWorker(q)].paso = "no"
        BY <1>1, <1>4
      <4>2. q \notin asignada
        BY <1>0, <4>1 DEF Orden
      <4> QED BY <3>1, <4>1, <4>2 DEF Vuelve
    <3>5. \A p \in Queries : Contains(listas'["READY"], p) =>
             Contains(listas["READY"], p) \/ (p = q /\ n = "READY")
      BY <1>5, <1>6 DEF Estados
    <3>6. \A p \in Queries : Contains(listas'["READY"], p) => ~Vuelve(p)'
      BY <1>0, <3>2, <3>4, <3>5 DEF Orden
    <3>7. \A p \in Queries : Elegida(p)' => ~Vuelve(p)'
      BY <1>0, <3>1, <3>2 DEF Orden
    <3>8. \A p \in asignada' : llamada'[HiloWorker(p)].paso = "no"
      BY <1>0, <2>h, <3>1, HilosDistintos DEF Orden, TypeOK
    <3>9. ASSUME algoritmo = "FIFO", NEW p \in Queries, Elegida(p), Contains(listas'["READY"], p)
          PROVE  Head(listas'["READY"]) = p
      <4>1. Contains(listas["READY"], p)
        BY <1>0, <3>4, <3>5, <3>9 DEF Orden
      <4>2. Head(listas["READY"]) = p /\ listas["READY"] # << >>
        BY <1>0, <3>9, <4>1 DEF Orden, Contains
      <4>3. CASE n = "READY"
        <5>1. listas["READY"] \in Seq(Queries) /\ q \in Queries
          BY <1>2, <1>p DEF Estados
        <5>2. Head(Append(listas["READY"], q)) = Head(listas["READY"])
          BY <4>2, <5>1, AppendCabeza
        <5> QED BY <1>6, <4>2, <4>3, <5>2
      <4>4. CASE n # "READY"
        BY <1>6, <4>2, <4>4 DEF Estados
      <4> QED BY <4>3, <4>4
    <3>10. algoritmo' = "FIFO" => \A p \in Queries :
              Elegida(p)' /\ Contains(listas'["READY"], p) => Head(listas'["READY"]) = p
      BY <1>1, <3>1, <3>9
    <3> QED BY <2>1, <3>6, <3>7, <3>8, <3>10 DEF Orden
  <2> QED BY <2>2, <2>3
<1> QED BY <1>8, <1>9, <1>10, <1>11, <1>12 DEF IInv

-----------------------------------------------------------------------------
(***************************************************************************)
(* Every step, and the theorems.                                           *)
(***************************************************************************)

\* Every step keeps the invariant.
LEMMA NextIInv == IInv /\ [Next]_vars => IInv'
<1> SUFFICES ASSUME IInv, [Next]_vars PROVE IInv'
  OBVIOUS
<1>1. CASE Planificador
  BY <1>1, RecorreIInv, LlamadorIInv DEF Planificador
<1>2. CASE \E h \in Hilos : ActualizarEstadoQuery(h)
  BY <1>2, PideIInv, SacaIInv, PoneIInv DEF ActualizarEstadoQuery
<1>3. CASE \E q \in Queries : SeVaElQC(q) \/ VuelveDelWorker(q) \/ Envejece(q)
  BY <1>3, LlamadorIInv, EnvejeceIInv
<1>4. CASE UNCHANGED vars
  <2>1. /\ UNCHANGED <<algoritmo, estado, listas, mutexQuery, llamada, asignada>>
        /\ UNCHANGED <<mutexLista, prioridad, plan, qc>>
    BY <1>4 DEF vars, varsListas
  <2>2. TypeOK' /\ PlanCoherente'
    BY <2>1 DEF IInv, TypeOK, PlanCoherente
  <2> QED BY <2>1, <2>2, SinMover
<1> QED BY <1>1, <1>2, <1>3, <1>4 DEF Next, EnReposo

\* So the invariant always holds.
LEMMA Invariante == Spec => []IInv
<1>1. Spec => Init /\ [][Next]_vars
  BY DEF Spec
<1> QED BY <1>1, InitIInv, NextIInv, PTL

\* The variables keep their types; in particular the scheduler only compares queries of the
\* list it walks, although another thread may be moving them.
THEOREM ListasTipos == Spec => []TypeOK
<1>1. IInv => TypeOK
  BY DEF IInv
<1> QED BY <1>1, Invariante, PTL

\* How often an element is in a list without repetitions.
LEMMA VecesEsContiene ==
    ASSUME NEW S, NEW s \in Seq(S), SinRepetidos(s), NEW x
    PROVE  Cardinality({i \in DOMAIN s : s[i] = x}) = IF Contains(s, x) THEN 1 ELSE 0
<1>0. DOMAIN s = 1..Len(s)
  BY LenProperties
<1>1. CASE Contains(s, x)
  <2>1. PICK k \in DOMAIN s : s[k] = x
    BY <1>0, <1>1 DEF Contains
  <2>2. {i \in DOMAIN s : s[i] = x} = {k}
    BY <2>1 DEF SinRepetidos
  <2> QED BY <1>1, <2>2, FS_Singleton
<1>2. CASE ~Contains(s, x)
  <2>1. {i \in DOMAIN s : s[i] = x} = {}
    BY <1>0, <1>2 DEF Contains
  <2> QED BY <1>2, <2>1, FS_EmptySet
<1> QED BY <1>1, <1>2

\* No query is lost and none repeated: it is once in the list of its state, and in none only
\* while the thread that moves it holds its mutex (actualizarEstadoQuery).
THEOREM NingunaSeHaPerdido == Spec => []NingunaSePierde
<1>1. IInv => NingunaSePierde
  <2> SUFFICES ASSUME IInv, NEW q \in Queries
               PROVE  /\ \A e \in Estados \ {estado[q]} : Veces(q, e) = 0
                      /\ Veces(q, estado[q]) = IF Moviendo(q) THEN 0 ELSE 1
    BY DEF NingunaSePierde, Moviendo
  <2>1. estado[q] \in Estados
    BY DEF IInv, TypeOK
  <2>2. \A e \in Estados : Veces(q, e) = IF Contains(listas[e], q) THEN 1 ELSE 0
    BY VecesEsContiene DEF IInv, TypeOK, EnSuLista, Veces
  <2>3. \A e \in Estados : Contains(listas[e], q) <=> estado[q] = e /\ ~Moviendo(q)
    BY DEF IInv, EnSuLista
  <2> QED BY <2>1, <2>2, <2>3
<1> QED BY <1>1, Invariante, PTL

\* With FIFO, the query that goes from READY to EXEC is the one that has waited longest,
\* although the scheduler let go of the mutex of READY after it chose it.
THEOREM FifoRespetaElOrden == Spec => RespetaElOrden
<1> DEFINE A == \A q \in Queries :
          algoritmo = "FIFO" /\ llamada[Plan].paso = "saca" /\ llamada'[Plan].paso = "pone"
            /\ llamada[Plan].q = q /\ estado[q] = "READY" => Head(listas["READY"]) = q
<1>1. IInv => A
  <2> SUFFICES ASSUME IInv, NEW q \in Queries, algoritmo = "FIFO", llamada[Plan].paso = "saca",
                      llamada[Plan].q = q, estado[q] = "READY"
               PROVE  Head(listas["READY"]) = q
    OBVIOUS
  <2>1. mutexQuery[q] = Plan
    BY HilosDistintos DEF IInv, MutexCoherente
  <2>2. Contains(listas["READY"], q)
    BY <2>1 DEF IInv, EnSuLista, Moviendo, Estados
  <2> QED BY <2>2 DEF IInv, Orden, Elegida
<1> HIDE DEF A
<1>2. IInv /\ [Next]_vars => [A]_vars
  BY <1>1
<1>3. Spec => [][A]_vars
  <2>1. Spec => [][Next]_vars
    BY DEF Spec
  <2> QED BY <1>2, <2>1, Invariante, PTL
<1> QED BY <1>3 DEF RespetaElOrden, A
=============================================================================
