\* A Worker and two Query Controls; one process may be killed at any moment, and one
\* client may have the wrong port.  The system stops when every client has been served.
CONSTANTS
    NULL = NULL
    w1 = w1
    q1 = q1
    q2 = q2
    Workers <- UnWorker
    QueryControls <- DosQueryControls
    Errores <- AlgunError
    MaxCaidas = 1
SPECIFICATION Spec
CHECK_DEADLOCK FALSE
INVARIANTS
    TypeOK
    
    ServidoresResisten
PROPERTIES
    ClienteAtendido
    QueryAsignada
