\* Both algorithms, two Workers: queries are evicted, go back to READY and are given to the
\* other Worker, and a Query Control or one of the Workers leaves meanwhile.
\* A query given to a Worker that has gone stays in EXEC: the system may stop there.
CONSTANTS
    NULL = NULL
    BASURA = BASURA
    Queries <- DosQueries
    Workers <- DosWorkers
    Algoritmos <- Ambos
    PrioridadMaxima = 1
    MaxPc = 0
    PuedeIrse <- DosQueries
    PuedeCaer <- ElSegundo
    PunterosSinInicializar <- ConBasura
SPECIFICATION Spec
CONSTRAINT UnaSalida
CHECK_DEADLOCK FALSE
INVARIANTS
    ListasConsistentes
    AsignacionUnica
    ResultadoDeSuQuery
    CorteSoloASuQuery
    SinDespertarPerdido
