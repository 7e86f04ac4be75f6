\* Three pages of two File:Tags over two frames, both algorithms; no File:Tag shrinks.
\* Once CLOCK-M writes outside the memory there is no next step.
CONSTANTS
    a = a
    b = b
    NULL = NULL
    Archivos <- DosArchivos
    MaxBloques <- DosYUno
    Marcos = 2
    Valores <- Binarios
    MaxReloj = 1
    Algoritmos <- LosDos
    PuedeAchicar = FALSE
SPECIFICATION Spec
CHECK_DEADLOCK FALSE
INVARIANTS
    TypeOK
    MarcosExclusivos
    SinEscriturasPerdidas
    VictimaDeLaMejorClase
PROPERTY
    CommitPersisteTodo
