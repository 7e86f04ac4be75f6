------------------------------ MODULE Mensajeria ------------------------------
(***************************************************************************)
(* What utils/mensajeria.c puts on a socket and reads back from it: words, *)
(* strings and packets as bytes, one connection in one direction at a      *)
(* time.  `canal` says between which processes; what its two ends send and *)
(* expect is in Canales.  The receiver knows beforehand if the next thing  *)
(* is a packet, a string (the confirmation of a handshake) or an integer   *)
(* (the answer of the Storage): `plan`.  The sender may close, or be       *)
(* killed in the middle of a send, and the bytes not delivered are lost.   *)
(*                                                                         *)
(* A byte is a number below BASE (256 in the code) or Basura, what memory  *)
(* nobody wrote holds.  A struct is the sequence of its fields.            *)
(***************************************************************************)
EXTENDS Integers, SequencesExt, FiniteSetsExt

CONSTANTS
    BASE,         \* values of a byte
    Enteros,      \* the numbers sent
    Resultados,   \* the t_resultado_ejecucion sent
    Textos,       \* the strings sent, without their NUL
    Datos,        \* the contents of blocks sent
    Basura,       \* an uninitialised byte, or what is computed from one
    MaxMensajes   \* bound: things sent over the connection

ASSUME MensajeriaSupuesto ==
    /\ BASE \in Nat \ {0, 1}
    /\ MaxMensajes \in Nat \ {0}
    /\ Enteros \cup Resultados \subseteq Int
    /\ Textos \subseteq Seq(1..(BASE - 1))
    /\ Datos \subseteq Seq(0..(BASE - 1))

-----------------------------------------------------------------------------
(***************************************************************************)
(* Bytes.                                                                  *)
(***************************************************************************)
U32 == 4     \* sizeof(uint32_t), sizeof(int) and sizeof of an enum
NUL == 1     \* the "+ 1" of strlen(s) + 1
Modulo == BASE * BASE * BASE * BASE

\* A number of four bytes, the least significant first.
Palabra(n) == LET u == n % Modulo
              IN  <<u % BASE, (u \div BASE) % BASE,
                    (u \div (BASE * BASE)) % BASE, u \div (BASE * BASE * BASE)>>

Sano(bytes) == Basura \notin Range(bytes)

Numero(b) == IF Sano(b) THEN b[1] + BASE * (b[2] + BASE * (b[3] + BASE * b[4])) ELSE Basura

ConSigno(n) == IF n # Basura /\ n >= Modulo \div 2 THEN n - Modulo ELSE n

\* What a reader of char* sees: the bytes before the first NUL.
CString(b) == IF 0 \in Range(b) THEN SubSeq(b, 1, SelectInSeq(b, LAMBDA x : x = 0) - 1) ELSE b

Relleno(b, n) == b \o [i \in 1..(n - Len(b)) |-> Basura]

\* The first n bytes of s, Basura beyond its end (buffer_read does not look).
Primeros(s, n) == Relleno(SubSeq(s, 1, Min({n, Len(s)})), n)

Resto(s, n) == SubSeq(s, n + 1, Len(s))

-----------------------------------------------------------------------------
(***************************************************************************)
(* t_buffer: its size is fixed when it is created, and what does not fit   *)
(* is dropped with a message on stderr.                                    *)
(***************************************************************************)
crear_buffer(size) == [size |-> size, stream |-> << >>]

buffer_add(buffer, data) ==
    IF Len(buffer.stream) + Len(data) > buffer.size THEN buffer
    ELSE [buffer EXCEPT !.stream = @ \o data]

\* The pieces a field is added as: a length and its bytes are two.
Piezas(tipo, v) ==
    CASE tipo \in {"u32", "int"} -> <<Palabra(v)>>
      [] tipo \in {"str", "bytes"} -> <<Palabra(Len(v)), v>>
      [] tipo = "strz" -> <<Palabra(Len(v) + 1), Append(v, 0)>>

\* Reading: what is left of the stream and the fields read so far.
buffer_read_uint32(l) == [resto |-> Resto(l.resto, U32), n |-> Numero(Primeros(l.resto, U32))]

LeeCampo(l, tipo) ==
    LET w == buffer_read_uint32(l)
        n == w.n
    IN  IF tipo \in {"u32", "int"}
        THEN [resto |-> w.resto,
              campos |-> Append(l.campos, IF tipo = "int" THEN ConSigno(n) ELSE n)]
        ELSE IF n = Basura THEN [resto |-> << >>, campos |-> Append(l.campos, Basura)]
        ELSE LET b == Primeros(w.resto, n)
             IN  [resto |-> Resto(w.resto, n),
                  campos |-> Append(l.campos,
                      IF ~Sano(b) THEN Basura ELSE IF tipo = "str" THEN CString(b) ELSE b)]

-----------------------------------------------------------------------------
(***************************************************************************)
(* serializar_X and deserializar_X: the fields as they are added, the size *)
(* asked to crear_buffer (`fijo` and the lengths of the fields in `suma`), *)
(* the fields as they are read.                                            *)
(***************************************************************************)
handshake_qc_master ==
    [agrega |-> <<"u32", "str">>, fijo |-> 2 * U32, suma |-> {2}, lee |-> <<"u32", "str">>]

handshake_worker_storage == [agrega |-> <<"u32">>, fijo |-> U32, suma |-> {}, lee |-> <<"u32">>]

handshake_worker_master == [agrega |-> <<"u32">>, fijo |-> U32, suma |-> {}, lee |-> <<"u32">>]

asignacion_query ==
    [agrega |-> <<"str", "u32", "u32">>, fijo |-> 3 * U32, suma |-> {1},
     lee |-> <<"str", "u32", "u32">>]

tam_pagina == [agrega |-> <<"u32">>, fijo |-> U32, suma |-> {}, lee |-> <<"u32">>]

resultado_query ==
    [agrega |-> <<"u32", "int", "u32">>, fijo |-> 3 * U32, suma |-> {},
     lee |-> <<"u32", "int", "u32">>]

create ==
    [agrega |-> <<"u32", "strz", "strz">>, fijo |-> 3 * U32 + 2 * NUL, suma |-> {2, 3},
     lee |-> <<"u32", "str", "str">>]

truncate ==
    [agrega |-> <<"u32", "strz", "strz", "u32">>, fijo |-> 4 * U32 + 2 * NUL, suma |-> {2, 3},
     lee |-> <<"u32", "str", "str", "u32">>]

tag ==
    [agrega |-> <<"u32", "strz", "strz", "strz", "strz">>, fijo |-> 5 * U32 + 4 * NUL,
     suma |-> 2..5, lee |-> <<"u32", "str", "str", "str", "str">>]

commit ==
    [agrega |-> <<"u32", "strz", "strz">>, fijo |-> 3 * U32 + 2 * NUL, suma |-> {2, 3},
     lee |-> <<"u32", "str", "str">>]

delete ==
    [agrega |-> <<"u32", "strz", "strz">>, fijo |-> 3 * U32 + 2 * NUL, suma |-> {2, 3},
     lee |-> <<"u32", "str", "str">>]

solicitud_read ==
    [agrega |-> <<"u32", "strz", "strz", "u32", "u32">>, fijo |-> 5 * U32 + 2 * NUL,
     suma |-> {2, 3}, lee |-> <<"u32", "str", "str", "u32", "u32">>]

\* Mutant: the NUL of the tag is forgotten in the size.
bloque_leido_Mut ==
    [agrega |-> <<"u32", "strz", "strz", "bytes">>, fijo |-> 4 * U32 + NUL,
     suma |-> {2, 3, 4}, lee |-> <<"u32", "str", "str", "bytes">>]

bloque_leido ==
    [agrega |-> <<"u32", "strz", "strz", "bytes">>, fijo |-> 4 * U32 + 2 * NUL,
     suma |-> {2, 3, 4}, lee |-> <<"u32", "str", "str", "bytes">>]

solicitud_write ==
    [agrega |-> <<"u32", "strz", "strz", "u32", "bytes">>, fijo |-> 5 * U32 + 2 * NUL,
     suma |-> {2, 3, 5}, lee |-> <<"u32", "str", "str", "u32", "bytes">>]

cod_error == [agrega |-> <<"int">>, fijo |-> U32, suma |-> {}, lee |-> <<"int">>]

\* What the Query Control reads where the Worker wrote a bloque_leido.
lectura == [agrega |-> bloque_leido.agrega, fijo |-> bloque_leido.fijo,
            suma |-> bloque_leido.suma, lee |-> <<"u32", "str", "str", "str">>]

\* OP_DESALOJO_QUERY and OP_FIN_QUERY: crear_buffer(0).
vacio == [agrega |-> << >>, fijo |-> 0, suma |-> {}, lee |-> << >>]

serializar(f, campos) ==
    LET size == f.fijo + FoldSet(LAMBDA i, s : s + Len(campos[i]), 0, f.suma)
        piezas == FoldLeft(LAMBDA s, i : s \o Piezas(f.agrega[i], campos[i]), << >>,
                           [i \in DOMAIN f.agrega |-> i])
        buffer == FoldLeft(buffer_add, crear_buffer(size), piezas)
    IN  Relleno(buffer.stream, size)

deserializar(f, stream) == FoldLeft(LeeCampo, [resto |-> stream, campos |-> << >>], f.lee).campos

-----------------------------------------------------------------------------
(***************************************************************************)
(* Who sends what to whom, and how it is read.                             *)
(***************************************************************************)
e_codigo_operacion ==
    <<"HANDSHAKE_QC_MASTER", "HANDSHAKE_WORKER_STORAGE", "HANDSHAKE_WORKER_MASTER",
      "OP_ASIGNAR_QUERY", "OP_DESALOJO_QUERY", "OP_FIN_QUERY", "OP_INST_OK", "OP_ERROR",
      "OP_CREATE", "OP_TRUNCATE", "OP_WRITE", "OP_READ", "OP_TAG", "OP_COMMIT", "OP_FLUSH",
      "OP_DELETE", "OP_END", "OP_RESULTADO_QUERY">>

Codigo(op) == SelectInSeq(e_codigo_operacion, LAMBDA x : x = op) - 1

\* The first packet of each connection, and the cases of each receiver.  The
\* Master forwards a bloque_leido as it came, without reading its fields.
qc_a_master == [HANDSHAKE_QC_MASTER |-> handshake_qc_master]

worker_a_master ==
    [HANDSHAKE_WORKER_MASTER |-> handshake_worker_master,
     OP_READ |-> bloque_leido, OP_RESULTADO_QUERY |-> resultado_query]

master_a_worker ==
    [OP_ASIGNAR_QUERY |-> asignacion_query, OP_DESALOJO_QUERY |-> vacio, OP_FIN_QUERY |-> vacio]

master_a_qc == [OP_READ |-> lectura, OP_RESULTADO_QUERY |-> resultado_query]

worker_a_storage ==
    [HANDSHAKE_WORKER_STORAGE |-> handshake_worker_storage, OP_CREATE |-> create,
     OP_TRUNCATE |-> truncate, OP_TAG |-> tag, OP_COMMIT |-> commit, OP_DELETE |-> delete,
     OP_READ |-> solicitud_read, OP_WRITE |-> solicitud_write]

storage_a_worker ==
    [HANDSHAKE_WORKER_STORAGE |-> tam_pagina, OP_READ |-> bloque_leido, OP_ERROR |-> cod_error]

Canales == [qc_a_master |-> qc_a_master, worker_a_master |-> worker_a_master,
            master_a_worker |-> master_a_worker, master_a_qc |-> master_a_qc,
            worker_a_storage |-> worker_a_storage, storage_a_worker |-> storage_a_worker]

\* A handshake with the Master is answered with a string; a request to the
\* Storage with a packet if it is a READ and with an integer if not.
Planes(c) ==
    {p \in [1..MaxMensajes -> {"paquete", "string", "entero"}] :
        \A i \in 1..MaxMensajes :
            CASE c \in {"master_a_qc", "master_a_worker"} ->
                     p[i] = IF i = 1 THEN "string" ELSE "paquete"
              [] c = "storage_a_worker" -> p[i] # "string" /\ (i = 1 => p[i] = "paquete")
              [] OTHER -> p[i] = "paquete"}

Valores(tipo) == CASE tipo = "u32" -> Enteros
                   [] tipo = "int" -> Resultados
                   [] tipo \in {"str", "strz"} -> Textos
                   [] tipo = "bytes" -> Datos

EsHandshake(op) == Codigo(op) <= Codigo("HANDSHAKE_WORKER_MASTER")

\* Every choice of fields for a struct.
Campos(f) == FoldLeft(LAMBDA vs, tipo : {Append(v, x) : v \in vs, x \in Valores(tipo)},
                      {<< >>}, f.agrega)

-----------------------------------------------------------------------------
VARIABLES
    canal,      \* which connection, and in which direction
    plan,       \* what the receiver knows it will read: packet, string or integer
    enviados,   \* what has been sent; once closed, what was delivered whole
    stream,     \* bytes sent and not read
    abierta,    \* the sender has not closed
    rec,        \* the receiver: its step and what it holds
    recibidos   \* what it has read

vars == <<canal, plan, enviados, stream, abierta, rec, recibidos>>

Espera == [paso |-> "espera", op |-> 0, size |-> 0]

Init ==
    /\ canal \in DOMAIN Canales /\ plan \in Planes(canal)
    /\ enviados = << >> /\ stream = << >> /\ abierta = TRUE
    /\ rec = Espera /\ recibidos = << >>

(***************************************************************************)
(* The sender.                                                             *)
(***************************************************************************)

\* Mutant: the size that travels counts its own bytes too.
armar_stream_Mut(p) ==
    LET datos == serializar(Canales[canal][p.op], p.campos)
    IN  Palabra(Codigo(p.op)) \o Palabra(Len(datos) + U32) \o datos

armar_stream(p) ==
    LET datos == serializar(Canales[canal][p.op], p.campos)
    IN  Palabra(Codigo(p.op)) \o Palabra(Len(datos)) \o datos

Turno(forma) ==
    /\ abierta /\ Len(enviados) < MaxMensajes /\ plan[Len(enviados) + 1] = forma
    \* The Storage answers a request the Worker has made after reading the last answer.
    /\ canal = "storage_a_worker" => Len(recibidos) = Len(enviados)

Emite(cosa, bytes) ==
    /\ enviados' = Append(enviados, cosa) /\ stream' = stream \o bytes
    /\ UNCHANGED <<canal, plan, abierta, rec, recibidos>>

\* The first packet of a client is its handshake; so is the answer of the Storage.
EsPrimero == enviados = << >>

enviar_paquete ==
    /\ Turno("paquete")
    /\ \E op \in {o \in DOMAIN Canales[canal] : EsHandshake(o) = EsPrimero} :
           \E campos \in Campos(Canales[canal][op]) :
               LET p == [op |-> op, campos |-> campos] IN Emite(p, armar_stream(p))

enviar_string ==
    /\ Turno("string")
    /\ \E s \in Textos : Emite([op |-> "string", campos |-> <<s>>],
                               Palabra(Len(s) + 1) \o Append(s, 0))

enviar_entero ==
    /\ Turno("entero")
    /\ \E n \in Resultados : Emite([op |-> "entero", campos |-> <<n>>], Palabra(n))

Largo(cosa) == CASE cosa.op = "string" -> U32 + Len(cosa.campos[1]) + 1
                 [] cosa.op = "entero" -> U32
                 [] OTHER -> Len(armar_stream(cosa))

\* The sender closes or is killed; only the first k bytes of the last thing arrive.
Cierra ==
    /\ abierta /\ abierta' = FALSE
    /\ \/ UNCHANGED <<enviados, stream>>
       \/ /\ enviados # << >>
          /\ LET falta == Min({Len(stream), Largo(Last(enviados))})
             IN  \E k \in 1..falta :
                     /\ stream' = SubSeq(stream, 1, Len(stream) - k)
                     /\ enviados' = Front(enviados)
    /\ UNCHANGED <<canal, plan, rec, recibidos>>

-----------------------------------------------------------------------------
(***************************************************************************)
(* The receiver: each recv(MSG_WAITALL) waits for n bytes or the end.      *)
(***************************************************************************)
Listo(n) == Len(stream) >= n \/ ~abierta

Lee(n) == stream' = Resto(stream, n)

Guarda(cosa) == recibidos' = Append(recibidos, cosa) /\ rec' = Espera

Termina == rec' = [Espera EXCEPT !.paso = "fin"]

\* destruir_paquete, of a packet whose data were never asked for: it frees a pointer nobody
\* wrote, which is harmless if the malloc left a NULL there and may kill the process if not.
Abandona == \E fin \in {"fin", "muere"} : rec' = [Espera EXCEPT !.paso = fin]

Toca(forma) ==
    /\ rec.paso = "espera" /\ Len(recibidos) < MaxMensajes /\ plan[Len(recibidos) + 1] = forma

\* A packet for whom the receiver has a case, or an operation it only logs.
Abre(op, datos) ==
    LET conocidas == {o \in DOMAIN Canales[canal] : Codigo(o) = op}
    IN  IF conocidas = {} THEN [op |-> "?", campos |-> << >>]
        ELSE LET o == CHOOSE o \in conocidas : TRUE
             IN  [op |-> o, campos |-> deserializar(Canales[canal][o], datos)]

\* recibir_paquete: the code of the operation.
RecibeOperacion ==
    /\ Toca("paquete") /\ Listo(U32) /\ Lee(U32)
    /\ IF stream = << >> THEN Abandona
       ELSE rec' = [paso |-> "tamanio", op |-> Numero(Primeros(stream, U32)), size |-> 0]
    /\ UNCHANGED <<canal, plan, enviados, abierta, recibidos>>

\* The size; a short one leaves bytes of a malloc in it, which may make it zero.
RecibeTamanio ==
    /\ rec.paso = "tamanio" /\ Listo(U32) /\ Lee(U32)
    /\ LET size == Numero(Primeros(stream, U32))
       IN  \/ stream = << >> /\ Abandona /\ UNCHANGED recibidos
           \/ /\ stream # << >> /\ size # 0
              /\ rec' = [rec EXCEPT !.paso = "datos", !.size = size] /\ UNCHANGED recibidos
           \/ stream # << >> /\ size \in {0, Basura} /\ Guarda(Abre(rec.op, << >>))
    /\ UNCHANGED <<canal, plan, enviados, abierta>>

\* The data; a short read is not told from a whole one.
RecibeDatos ==
    /\ rec.paso = "datos"
    /\ LET n == IF rec.size = Basura THEN Len(stream) + 1 ELSE rec.size
       IN  /\ Listo(n) /\ Lee(n)
           /\ IF stream = << >> THEN Termina /\ UNCHANGED recibidos
              ELSE Guarda(Abre(rec.op, Primeros(stream, n)))
    /\ UNCHANGED <<canal, plan, enviados, abierta>>

\* recibir_string: its size.
RecibeLargo ==
    /\ Toca("string") /\ Listo(U32) /\ Lee(U32)
    /\ IF stream = << >> THEN Termina
       ELSE rec' = [paso |-> "texto", op |-> 0, size |-> Numero(Primeros(stream, U32))]
    /\ UNCHANGED <<canal, plan, enviados, abierta, recibidos>>

RecibeTexto ==
    /\ rec.paso = "texto"
    /\ LET n == IF rec.size = Basura THEN Len(stream) + 1 ELSE rec.size
           b == Primeros(stream, n - 1)
       IN  /\ Listo(n) /\ Lee(n)
           /\ IF stream = << >> THEN Termina /\ UNCHANGED recibidos
              ELSE Guarda([op |-> "string", campos |-> <<IF Sano(b) THEN CString(b) ELSE Basura>>])
    /\ UNCHANGED <<canal, plan, enviados, abierta>>

\* recibir_entero: 0 bytes, the end of the connection, is no error for it.
recibir_entero ==
    /\ Toca("entero") /\ Listo(U32) /\ Lee(U32)
    /\ Guarda([op |-> "entero", campos |-> <<ConSigno(Numero(Primeros(stream, U32)))>>])
    /\ UNCHANGED <<canal, plan, enviados, abierta>>

Recibe == RecibeOperacion \/ RecibeTamanio \/ RecibeDatos \/ RecibeLargo \/ RecibeTexto
              \/ recibir_entero

Next == enviar_paquete \/ enviar_string \/ enviar_entero \/ Cierra \/ Recibe

Spec == Init /\ [][Next]_vars

-----------------------------------------------------------------------------
(***************************************************************************)
(* Properties.                                                             *)
(***************************************************************************)
\* A struct as its receiver should see it: strings up to their NUL.
Visto(cosa) ==
    IF cosa.op \in {"string", "entero"} THEN cosa
    ELSE LET lee == Canales[canal][cosa.op].lee
         IN  [cosa EXCEPT !.campos =
                 [i \in DOMAIN lee |-> IF lee[i] = "str" THEN CString(cosa.campos[i])
                                       ELSE cosa.campos[i]]]

\* Every packet, string and integer that arrived whole is read as what was
\* sent, field by field and in order, whoever wrote it and whoever reads it,
\* and while the sender is there nothing else is read.
EntregaFiel ==
    /\ \A i \in 1..Min({Len(enviados), Len(recibidos)}) : recibidos[i] = Visto(enviados[i])
    /\ abierta => Len(recibidos) <= Len(enviados)

\* While the sender is there, a receiver that has things to read never waits
\* for more bytes than were sent: two ends that disagree on a size would stop
\* there for ever, and one that gave up would leave the rest unread.
NadieEsperaDeMas ==
    (abierta /\ Len(recibidos) < Len(enviados)) =>
        /\ rec.paso \notin {"fin", "muere"}
        /\ Len(stream) >= IF rec.paso \in {"datos", "texto"} THEN rec.size ELSE U32

\* mensajeria.h:72, of recibir_entero: "@return 0 si se recibio correctamente,
\* -1 si hay error": an integer taken as received was sent.
EnteroRecibido ==
    \A i \in DOMAIN recibidos : recibidos[i].op = "entero" => i <= Len(enviados)
=============================================================================
