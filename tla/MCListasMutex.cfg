\* Both algorithms, two queries whose Query Controls may leave.  The PRIORIDADES
\* selection may stop for ever (MCListasPrioridades.cfg).
CONSTANTS
    NULL = NULL
    LIBRE = LIBRE
    Queries <- DosQueries
    Algoritmos <- Ambos
    PrioridadMaxima = 2
    PuedeIrse <- DosQueries
SPECIFICATION SpecEquitativa
CHECK_DEADLOCK FALSE
INVARIANTS
    TypeOK
    NingunaSePierde
PROPERTIES
    RespetaElOrden
    TodaLlamadaVuelve
