SPECIFICATION Spec
CONSTANTS
    BASE = 4
    Basura = Basura
    MaxMensajes = 3
    Enteros <- UnEntero
    Resultados <- OkYError
    Textos <- DosTextos
    Datos <- DosBloques
INVARIANTS
    EntregaFiel
    NadieEsperaDeMas
CHECK_DEADLOCK FALSE
