\* No process leaves: both algorithms, two queries that share one Worker.
CONSTANTS
    NULL = NULL
    BASURA = BASURA
    Queries <- DosQueries
    Workers <- UnWorker
    Algoritmos <- Ambos
    PrioridadMaxima = 1
    MaxPc = 1
    PuedeIrse <- Ninguno
    PuedeCaer <- Ninguno
    PunterosSinInicializar <- ConCeros
SPECIFICATION SpecEquitativa
INVARIANTS
    TypeOK
    SinDesalojoPerdido
PROPERTIES
    TodaQueryTermina
    ImplementaCicloDeVida
