\* A descriptor is reused while a query still runs for its old owner.
CONSTANTS
    NULL = NULL
    BASURA = BASURA
    Queries <- DosQueries
    Workers <- UnWorker
    Algoritmos <- SoloFifo
    PrioridadMaxima = 0
    MaxPc = 1
    PuedeIrse <- DosQueries
    PuedeCaer <- Ninguno
    PunterosSinInicializar <- ConCeros
SPECIFICATION Spec
CHECK_DEADLOCK FALSE
INVARIANT
    EntregaASuQC
