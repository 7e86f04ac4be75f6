\* Two queries of up to two lines, one of them with an empty line; two packets in flight.
\* The system may stop when the Master sends nothing more.
CONSTANTS
    NULL = NULL
    Queries <- DosQueries
    MaxPc = 1
    MaxEnVuelo = 2
    Vacias <- LaSegunda
SPECIFICATION Spec
CHECK_DEADLOCK FALSE
INVARIANT
    TypeOK
PROPERTIES
    RegistrosEstables
    SinCorteHeredado
    TodaAsignacionSeResponde
    ImplementaContrato
