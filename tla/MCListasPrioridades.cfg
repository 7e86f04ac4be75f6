\* PRIORIDADES: the mutexes of a list and of a query are taken in both orders.
CONSTANTS
    NULL = NULL
    LIBRE = LIBRE
    Queries <- DosQueries
    Algoritmos <- SoloPrioridades
    PrioridadMaxima = 1
    PuedeIrse <- Una
SPECIFICATION SpecEquitativa
CHECK_DEADLOCK FALSE
PROPERTY
    VuelveADormir
