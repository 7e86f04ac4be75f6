\* Two threads, two files of one tag and up to two blocks and one, three physical blocks
\* in a bitmap of four bits, one kill or failing system call.
CONSTANTS
    h1 = h1
    h2 = h2
    f = f
    g = g
    inicial = inicial
    Hilos <- DosHilos
    Archivos <- LosArchivos
    Etiquetas <- LasEtiquetas
    BASE <- Base
    Pedibles <- LosPedibles
    Bloques <- Bits
    Ausentes <- SinBloque
    MaxTam = 2
    Topes <- LosTopes
    MaxFallas = 1
    Valores <- Binarios
    NULL = NULL
    COPIA = COPIA
    SIN = SIN
    TagDeWIP = FALSE
    BorraCommiteado = FALSE
SPECIFICATION SpecMontaje
CONSTRAINT HastaRota
CHECK_DEADLOCK FALSE
INVARIANT
    BloquesASalvo
PROPERTY
    AjenoIntacto
SYMMETRY Simetria
