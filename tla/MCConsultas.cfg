\* Two frames per Worker and two preemptions in all.
SPECIFICATION Spec
CONSTANTS
    Queries = {1, 2}
    Workers = {w1, w2}
    NULL = NULL
    Archivos <- MCArchivos
    Programas <- MCProgramas
    TamInicial <- MCTamInicial
    MaxBloques = 2
    Marcos = 2
    MaxDesalojos = 2
    Espacio = {TRUE, FALSE}
INVARIANTS
    TypeOK
    FinEsVerdad
    DesalojoInvisible
CHECK_DEADLOCK FALSE
