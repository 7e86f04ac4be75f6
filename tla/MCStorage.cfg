\* Two threads, two tags of one file and one of another, of one block each, three
\* physical blocks. TAG copies COMMITED File:Tags and DELETE leaves those alone.
CONSTANTS
    h1 = h1
    h2 = h2
    f = f
    g = g
    inicial = inicial
    Hilos <- DosHilos
    Archivos <- LosArchivos
    Etiquetas <- LasEtiquetas
    BASE <- Base
    Pedibles <- LosPedibles
    Bloques <- TresBloques
    MaxTam = 1
    Valores <- Binarios
    NULL = NULL
    COPIA = COPIA
    TagDeWIP = FALSE
    BorraCommiteado = FALSE
SPECIFICATION Spec
CHECK_DEADLOCK FALSE
INVARIANTS
    TypeOK
    EnUsoOcupado
    UnaCopiaPorContenido
    LecturaDeCommiteado
PROPERTY
    ImplementaAlmacen
SYMMETRY Simetria
