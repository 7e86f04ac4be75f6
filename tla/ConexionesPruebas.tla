-------------------------- MODULE ConexionesPruebas --------------------------
(***************************************************************************)
(* Proofs about Conexiones: its types and counts, that the answer to a     *)
(* handshake comes before anything else, and that no server dies writing,  *)
(* for any sets of Workers and Query Controls, any ports and any number of *)
(* processes killed.                                                       *)
(***************************************************************************)
EXTENDS Conexiones, SequenceTheorems, FiniteSetTheorems, TLAPS

(***************************************************************************)
(* The invariant.                                                          *)
(***************************************************************************)

\* A closed end has nothing left to read, and nothing is lost between two open ends.
Canales == {k \in [abierto : SUBSET Lados, rst : BOOLEAN, hacia : [Lados -> Seq(Mensajes)]] :
               /\ \A l \in Lados : l \notin k.abierto => k.hacia[l] = << >>
               /\ k.rst => k.abierto # Lados}

Donde == {"conecta", "saluda", "espera", "sirve", "desfasado", "fin"}
Sirviendo == {"sirve", "desfasado"}
Fases == {"no", "confirma", "registra", "avisa", "lee", "fin"}
Puertas == [en : {"acepta", "lee", "fin"}, de : Enlaces \cup {NULL}]

Tipos ==
    /\ vivo \subseteq Clientes \cup Servidores /\ sigpipe \subseteq Clientes
    /\ paso \in [Clientes -> [con : Servidores, en : Donde]]
    /\ sock \in [Enlaces -> Canales]
    /\ cola \in [Servidores -> Seq(Enlaces)] /\ receptor \in [Servidores -> Puertas]
    /\ hilo \in [Enlaces -> Fases]
    /\ semListo \in BOOLEAN /\ sem \in Nat
    /\ asignada \in [Workers -> QueryControls \cup {NULL}]
    /\ estado \in [QueryControls -> {"NINGUNO", "READY", "EXEC", "EXIT"}]
    /\ socketQuery \in [QueryControls -> Enlaces]
    /\ pagina \subseteq Workers
    /\ hm \in [Workers -> {"no", "recibe", "fin"}]
    /\ qi \in [Workers -> {"no", "espera", "ejecuta", "respuesta", "lectura", "notifica"}]

\* How far the main of a client is with connection e.
Vive(e) == e[1] \in vivo
PorConectar(e) == /\ paso[e[1]].en = "conecta" \/ paso[e[1]].con # e[2]
                  /\ paso[e[1]].con = "master" => e[2] = "master"
Presentado(e) == \/ paso[e[1]].con = "master" /\ e[2] = "storage"
                 \/ paso[e[1]].con = e[2] /\ paso[e[1]].en \in {"espera"} \cup Sirviendo
SinRespuesta(e) == paso[e[1]].con = e[2] /\ paso[e[1]].en \in {"saluda", "espera"}
Espera(e) == paso[e[1]].con = e[2] /\ paso[e[1]].en = "espera"

\* What its server knows of it.
EnCamino(e) == EnCola(e) \/ receptor[Destino(e)].de = e
SinContestar == {"no", "confirma"}
Atendiendo == {"confirma", "registra", "avisa", "lee"}
Conocido == {"avisa", "lee", "fin"}
Respuesta(e) == IF e[2] = "master" THEN "CONFIRMACION" ELSE "PAGINA"
Primero(e, m) == m = Respuesta(e) \/ (m = "READ" /\ Heredada(e))

\* The Workers that each server counts.
Registrados == {w \in Workers : hilo[ConMaster(w)] \in {"avisa", "lee"}}
EnStorage == {w \in Workers : hilo[ConStorage(w)] = "lee"}

Cuentas ==
    /\ lista = Registrados /\ IsFiniteSet(Registrados) /\ IsFiniteSet(EnStorage)
    /\ cuenta = [s \in Servidores |-> IF s = "master" THEN Cardinality(Registrados)
                                      ELSE Cardinality(EnStorage)]

\* A connection waits for the server it was made to, once.
Puerta(s) ==
    /\ receptor[s].en = "lee" => receptor[s].de \in Enlaces /\ Destino(receptor[s].de) = s
    /\ receptor[s].en # "lee" => receptor[s].de = NULL
    /\ \A i \in DOMAIN cola[s] : Destino(cola[s][i]) = s /\ cola[s][i] # receptor[s].de
    /\ \A i, j \in DOMAIN cola[s] : cola[s][i] = cola[s][j] => i = j

\* The thread of a connection: its server has read the handshake.
DelHilo(e) ==
    /\ hilo[e] # "no" => /\ Destino(e) = e[2] /\ ~EnCamino(e)
                         /\ Vive(e) => Presentado(e) /\ hilo[e] # "fin"
    /\ hilo[e] \in {"registra", "avisa"} => e[2] = "master"

\* The end of the server: what waits to be read first is the handshake; and nothing has been
\* sent through it before its thread answers, unless a query had its number.
DelServidor(e) ==
    Destino(e) \in vivo =>
       /\ EnCamino(e) \/ hilo[e] \in Atendiendo => "servidor" \in sock[e].abierto
       /\ EnCamino(e) =>
             /\ sock[e].hacia.servidor # << >> => Head(sock[e].hacia.servidor) = Saludo(e)
             /\ Vive(e) => (sock[e].hacia.servidor # << >> <=> Presentado(e))
       /\ (EnCamino(e) \/ hilo[e] = "confirma") /\ ~Heredada(e) =>
             sock[e].hacia.cliente = << >> /\ ~sock[e].rst

\* The end of the client: what waits to be read first is the answer to the handshake, or a
\* READ of the query that had the number.
DelCliente(e) ==
    Vive(e) =>
       /\ PorConectar(e) => ~EnCamino(e)
       /\ ~PorConectar(e) => "cliente" \in sock[e].abierto
       /\ SinRespuesta(e) =>
             /\ sock[e].hacia.cliente # << >> => Primero(e, Head(sock[e].hacia.cliente))
             /\ e[2] \in vivo /\ sock[e].hacia.cliente = << >> => hilo[e] \in SinContestar
             /\ e[2] \in vivo /\ hilo[e] \in SinContestar /\ ~Heredada(e) =>
                   sock[e].hacia.cliente = << >>

Bien(e) == DelHilo(e) /\ DelServidor(e) /\ DelCliente(e)

\* A Worker and the Storage take turns: between them there is one packet at most.
Turnos(w) ==
    LET e == ConStorage(w)
        k == sock[e] IN
    /\ Vive(e) => IF paso[w].en \in Sirviendo THEN paso[w].con = "master" ELSE qi[w] = "no"
    /\ "storage" \in vivo /\ Destino(e) = "storage" =>
          /\ Len(k.hacia.servidor) <= 1 /\ Len(k.hacia.cliente) <= 1
          /\ k.hacia.servidor # << >> => k.hacia.cliente = << >> /\ ~k.rst
          /\ Vive(e) /\ ~PorConectar(e) /\ ~Espera(e) /\ qi[w] # "respuesta" =>
                k.hacia.servidor = << >> /\ k.hacia.cliente = << >>
          /\ hilo[e] = "confirma" => k.hacia.servidor = << >>
          /\ hilo[e] \in SinContestar /\ Vive(e) /\ Presentado(e) => Espera(e)

\* A query writes to its own Query Control until the Master has closed that connection, and
\* then to nobody, or to a connection the Master has accepted.
DelNumero(q) ==
    /\ "master" \in vivo /\ hilo[ConMaster(q)] # "fin" => socketQuery[q] = ConMaster(q)
    /\ socketQuery[q] # ConMaster(q) => Destino(socketQuery[q]) = "master"

\* The Master has given queries to Workers it has registered only, of Query Controls it has
\* registered only; and a Worker goes to the Master with the size of the page.
DelMaster ==
    /\ \A w \in Workers : asignada[w] # NULL => /\ hilo[ConMaster(w)] \in Conocido
                                                /\ hilo[ConMaster(asignada[w])] \in Conocido
    /\ \A q \in QueryControls : estado[q] # "NINGUNO" => hilo[ConMaster(q)] \in Conocido
    /\ \A w \in Workers \cap vivo : paso[w].con = "master" => w \in pagina
    /\ \A q \in QueryControls : paso[q].con = "master" /\ DelNumero(q)

Inv ==
    /\ Tipos /\ Cuentas /\ DelMaster
    /\ \A s \in Servidores : Puerta(s)
    /\ \A e \in Enlaces : Bien(e)
    /\ \A w \in Workers : Turnos(w)

-----------------------------------------------------------------------------
(***************************************************************************)
(* The numbers the queries write to.                                       *)
(***************************************************************************)
\* The step takes no number from a connection that is open.
Guarda(e) == hilo[e] # "fin" /\ Heredada(e) => Heredada(e)'

LEMMA NumerosIguales ==
    ASSUME socketQuery' = socketQuery
    PROVE  \A e \in Enlaces : Guarda(e) /\ (Heredada(e)' <=> Heredada(e))
BY DEF Guarda, Heredada, ConMaster

LEMMA HeredadaMaster ==
    ASSUME DelMaster, NEW e, Heredada(e)
    PROVE  Destino(e) = "master"
BY DEF DelMaster, DelNumero, Heredada

-----------------------------------------------------------------------------
(***************************************************************************)
(* Connections.                                                            *)
(***************************************************************************)
LEMMA EnlaceTipo ==
    ASSUME NEW e \in Enlaces
    PROVE  /\ e[1] \in Clientes /\ e[2] \in Servidores /\ e = <<e[1], e[2]>>
           /\ e[2] = "storage" => e[1] \in Workers
           /\ e[1] \in QueryControls => e[2] = "master"
           /\ e[1] \in Workers \/ e[1] \in QueryControls
           /\ Destino(e) \in Servidores /\ Saludo(e) \in Mensajes /\ e # NULL
<1>1. e # NULL
  BY ConexionesSupuesto
<1>2. /\ e[1] \in Clientes /\ e[2] \in Servidores /\ e = <<e[1], e[2]>>
      /\ e[2] = "storage" => e[1] \in Workers
      /\ e[1] \in QueryControls => e[2] = "master"
      /\ e[1] \in Workers \/ e[1] \in QueryControls
  BY ConexionesSupuesto DEF Enlaces, Clientes, Servidores
<1>3. Destino(e) \in Servidores /\ Saludo(e) \in Mensajes
  BY <1>2 DEF Servidores, Destino, Saludo, Mensajes
<1> QED BY <1>1, <1>2, <1>3

LEMMA EnlacesDe ==
    /\ \A c \in Clientes : ConMaster(c) \in Enlaces /\ ConMaster(c)[1] = c /\ ConMaster(c)[2] = "master"
    /\ \A w \in Workers : ConStorage(w) \in Enlaces /\ ConStorage(w)[1] = w
                          /\ ConStorage(w)[2] = "storage"
BY DEF ConMaster, ConStorage, Enlaces, Clientes, Servidores

LEMMA CanalTipo ==
    ASSUME NEW k \in Canales
    PROVE  /\ k.abierto \subseteq Lados /\ k.rst \in BOOLEAN
           /\ k.hacia \in [Lados -> Seq(Mensajes)]
           /\ k.hacia.cliente \in Seq(Mensajes) /\ k.hacia.servidor \in Seq(Mensajes)
           /\ \A l \in Lados : l \notin k.abierto => k.hacia[l] = << >>
           /\ k.rst => k.abierto # Lados
BY DEF Canales, Lados

LEMMA CierraCanal ==
    ASSUME NEW k \in Canales, NEW l \in Lados
    PROVE  /\ Cierra(k, l) \in Canales /\ Cierra(k, l).abierto = k.abierto \ {l}
           /\ Cierra(k, l).hacia[l] = << >> /\ Cierra(k, l).hacia[Otro(l)] = k.hacia[Otro(l)]
           /\ Cierra(k, l).rst = (k.rst \/ k.hacia[l] # << >>)
<1>1. [k.hacia EXCEPT ![l] = << >>] \in [Lados -> Seq(Mensajes)]
  BY CanalTipo, EmptySeq
<1>2. Otro(l) \in Lados /\ Otro(l) # l
  BY DEF Otro, Lados
<1> DEFINE f == [k.hacia EXCEPT ![l] = << >>]
<1>3. f[l] = << >> /\ \A x \in Lados \ {l} : f[x] = k.hacia[x]
  BY CanalTipo
<1> HIDE DEF f
<1>4. Cierra(k, l) = [abierto |-> k.abierto \ {l}, hacia |-> f, rst |-> k.rst \/ k.hacia[l] # << >>]
  BY DEF Cierra, f
<1>5. f \in [Lados -> Seq(Mensajes)]
  BY <1>1 DEF f
<1>6. \A x \in Lados : x \notin k.abierto \ {l} => f[x] = << >>
  BY <1>3, CanalTipo
<1> QED BY <1>2, <1>3, <1>4, <1>5, <1>6, CanalTipo DEF Canales

LEMMA EscribeCanal ==
    ASSUME NEW k \in Canales, NEW l \in Lados, NEW m \in Mensajes
    PROVE  /\ Escribe(k, l, m) \in Canales /\ Escribe(k, l, m).abierto = k.abierto
           /\ Escribe(k, l, m).hacia[l] = k.hacia[l]
           /\ Otro(l) \in k.abierto =>
                 /\ Escribe(k, l, m).rst = k.rst
                 /\ Escribe(k, l, m).hacia[Otro(l)] = Append(k.hacia[Otro(l)], m)
           /\ Otro(l) \notin k.abierto => Escribe(k, l, m).hacia[Otro(l)] = << >>
<1>1. Otro(l) \in Lados /\ Otro(l) # l
  BY DEF Otro, Lados
<1>2. CASE Otro(l) \in k.abierto
  <2> DEFINE o == Otro(l)
             f == [k.hacia EXCEPT ![o] = Append(k.hacia[o], m)]
  <2>1. k.hacia[o] \in Seq(Mensajes)
    BY <1>1, CanalTipo
  <2>2. f \in [Lados -> Seq(Mensajes)] /\ f[o] = Append(k.hacia[o], m)
        /\ \A x \in Lados \ {o} : f[x] = k.hacia[x]
    BY <1>1, <2>1, CanalTipo, AppendProperties
  <2>3. Escribe(k, l, m) = [k EXCEPT !.hacia = f]
    BY <1>2 DEF Escribe
  <2> HIDE DEF f, o
  <2>4. \A x \in Lados : x \notin k.abierto => f[x] = << >>
    BY <1>2, <2>2, CanalTipo DEF o
  <2>5. k = [abierto |-> k.abierto, rst |-> k.rst, hacia |-> k.hacia]
    BY DEF Canales
  <2>6. Escribe(k, l, m) = [abierto |-> k.abierto, rst |-> k.rst, hacia |-> f]
    BY <2>3, <2>5
  <2> QED BY <1>1, <1>2, <2>2, <2>4, <2>6, CanalTipo DEF Canales, o
<1>3. CASE Otro(l) \notin k.abierto
  <2>1. k = [abierto |-> k.abierto, rst |-> k.rst, hacia |-> k.hacia]
    BY DEF Canales
  <2>2. Escribe(k, l, m) = [abierto |-> k.abierto, rst |-> TRUE, hacia |-> k.hacia]
    BY <1>3, <2>1 DEF Escribe
  <2>3. /\ k.abierto \subseteq Lados /\ k.hacia \in [Lados -> Seq(Mensajes)] /\ k.abierto # Lados
        /\ \A x \in Lados : x \notin k.abierto => k.hacia[x] = << >>
    BY <1>1, <1>3, CanalTipo
  <2>4. Escribe(k, l, m) \in Canales
    BY <2>2, <2>3 DEF Canales
  <2>5. Escribe(k, l, m).abierto = k.abierto /\ Escribe(k, l, m).hacia = k.hacia
    BY <2>2
  <2>6. k.hacia[Otro(l)] = << >>
    BY <1>1, <1>3, <2>3
  <2> QED BY <1>3, <2>4, <2>5, <2>6
<1> QED BY <1>2, <1>3

LEMMA DeCliente ==
    ASSUME NEW k \in Canales, NEW m \in Mensajes
    PROVE  LET k2 == Escribe(k, "cliente", m) IN
           /\ k2 \in Canales /\ k2.abierto = k.abierto /\ k2.hacia.cliente = k.hacia.cliente
           /\ "servidor" \in k.abierto => /\ k2.hacia.servidor = Append(k.hacia.servidor, m)
                                          /\ k2.rst = k.rst
           /\ "servidor" \notin k.abierto => k2.hacia.servidor = << >>
<1>1. "cliente" \in Lados /\ Otro("cliente") = "servidor"
  BY DEF Lados, Otro
<1>2. PICK l \in Lados : l = "cliente"
  BY <1>1
<1> DEFINE k2 == Escribe(k, l, m)
<1>3. /\ k2 \in Canales /\ k2.abierto = k.abierto /\ k2.hacia[l] = k.hacia[l]
      /\ Otro(l) \in k.abierto => /\ k2.rst = k.rst
                                  /\ k2.hacia[Otro(l)] = Append(k.hacia[Otro(l)], m)
      /\ Otro(l) \notin k.abierto => k2.hacia[Otro(l)] = << >>
  BY EscribeCanal
<1> HIDE DEF k2
<1>4. Escribe(k, "cliente", m) = k2
  BY <1>2 DEF k2
<1> QED BY <1>1, <1>2, <1>3, <1>4

LEMMA DeServidor ==
    ASSUME NEW k \in Canales, NEW m \in Mensajes
    PROVE  LET k2 == Escribe(k, "servidor", m) IN
           /\ k2 \in Canales /\ k2.abierto = k.abierto /\ k2.hacia.servidor = k.hacia.servidor
           /\ "cliente" \in k.abierto => /\ k2.hacia.cliente = Append(k.hacia.cliente, m)
                                          /\ k2.rst = k.rst
           /\ "cliente" \notin k.abierto => k2.hacia.cliente = << >>
<1>1. "servidor" \in Lados /\ Otro("servidor") = "cliente"
  BY DEF Lados, Otro
<1>2. PICK l \in Lados : l = "servidor"
  BY <1>1
<1> DEFINE k2 == Escribe(k, l, m)
<1>3. /\ k2 \in Canales /\ k2.abierto = k.abierto /\ k2.hacia[l] = k.hacia[l]
      /\ Otro(l) \in k.abierto => /\ k2.rst = k.rst
                                  /\ k2.hacia[Otro(l)] = Append(k.hacia[Otro(l)], m)
      /\ Otro(l) \notin k.abierto => k2.hacia[Otro(l)] = << >>
  BY EscribeCanal
<1> HIDE DEF k2
<1>4. Escribe(k, "servidor", m) = k2
  BY <1>2 DEF k2
<1> QED BY <1>1, <1>2, <1>3, <1>4

LEMMA AlFinal ==
    ASSUME NEW s \in Seq(Mensajes), NEW m \in Mensajes
    PROVE  /\ Append(s, m) # << >>
           /\ Head(Append(s, m)) = IF s = << >> THEN m ELSE Head(s)
           /\ s = << >> => Len(Append(s, m)) = 1
<1>1. /\ Len(Append(s, m)) = Len(s) + 1 /\ Len(s) \in Nat /\ Append(s, m) \in Seq(Mensajes)
      /\ Append(s, m)[Len(s) + 1] = m /\ \A i \in 1..Len(s) : Append(s, m)[i] = s[i]
  BY AppendProperties, LenProperties
<1>2. Append(s, m) # << >> /\ Head(Append(s, m)) = Append(s, m)[1]
  <2>1. Append(s, m) # << >>
    BY <1>1, EmptySeq
  <2> QED BY <1>1, <2>1, HeadTailProperties
<1>3. s = << >> => Len(s) = 0
  BY EmptySeq
<1>4. s # << >> => Len(s) >= 1 /\ Head(s) = s[1]
  BY <1>1, EmptySeq, HeadTailProperties
<1> QED BY <1>1, <1>2, <1>3, <1>4

LEMMA LeeCanal ==
    ASSUME NEW k \in Canales, NEW l \in Lados, Hay(k, l)
    PROVE  /\ Lee(k, l) \in Canales /\ Lee(k, l).abierto = k.abierto /\ Lee(k, l).rst = k.rst
           /\ Lee(k, l).hacia[l] = Tail(k.hacia[l])
           /\ Lee(k, l).hacia[Otro(l)] = k.hacia[Otro(l)]
           /\ Head(k.hacia[l]) \in Mensajes /\ l \in k.abierto
           /\ Len(Lee(k, l).hacia[l]) = Len(k.hacia[l]) - 1
<1>1. Otro(l) \in Lados /\ Otro(l) # l
  BY DEF Otro, Lados
<1>2. k.hacia[l] \in Seq(Mensajes) /\ k.hacia[l] # << >>
  BY CanalTipo DEF Hay
<1>3. Tail(k.hacia[l]) \in Seq(Mensajes) /\ Head(k.hacia[l]) \in Mensajes
      /\ Len(Tail(k.hacia[l])) = Len(k.hacia[l]) - 1
  BY <1>2, HeadTailProperties
<1> DEFINE f == [k.hacia EXCEPT ![l] = Tail(k.hacia[l])]
<1>4. f \in [Lados -> Seq(Mensajes)] /\ f[l] = Tail(k.hacia[l])
      /\ \A x \in Lados \ {l} : f[x] = k.hacia[x]
  BY <1>3, CanalTipo
<1>5. Lee(k, l) = [k EXCEPT !.hacia = f]
  BY DEF Lee
<1> HIDE DEF f
<1>6. k = [abierto |-> k.abierto, rst |-> k.rst, hacia |-> k.hacia]
  BY DEF Canales
<1>7. Lee(k, l) = [abierto |-> k.abierto, rst |-> k.rst, hacia |-> f]
  BY <1>5, <1>6
<1>8. l \in k.abierto
  BY <1>2, CanalTipo
<1>9. \A x \in Lados : x \notin k.abierto => f[x] = << >>
  BY <1>4, <1>8, CanalTipo
<1> QED BY <1>1, <1>3, <1>4, <1>7, <1>8, <1>9, CanalTipo DEF Canales

-----------------------------------------------------------------------------
(***************************************************************************)
(* Steps that leave a connection as it was, for whoever is still running.  *)
(***************************************************************************)
LadoCliente(k, k2) == ("cliente" \in k2.abierto <=> "cliente" \in k.abierto)
                      /\ k2.hacia.cliente = k.hacia.cliente

LadoServidor(k, k2) == /\ "servidor" \in k2.abierto <=> "servidor" \in k.abierto
                       /\ k2.hacia.servidor = k.hacia.servidor
                       /\ k2.hacia.cliente \in {k.hacia.cliente, << >>}
                       /\ k.hacia.cliente = << >> => k2.rst = k.rst

MismoPaso(e) == /\ PorConectar(e)' <=> PorConectar(e)
                /\ Presentado(e)' <=> Presentado(e)
                /\ SinRespuesta(e)' <=> SinRespuesta(e)
                /\ Espera(e)' <=> Espera(e)

Quieto(e) ==
    /\ vivo' \subseteq vivo
    /\ Vive(e)' => MismoPaso(e) /\ LadoCliente(sock[e], sock'[e])
    /\ Destino(e)' = Destino(e)
    /\ Destino(e) \in vivo' => LadoServidor(sock[e], sock'[e])
    /\ EnCamino(e)' => EnCamino(e)
    /\ hilo'[e] = hilo[e] \/ (hilo'[e] = "no" /\ e[2] \notin vivo')
    /\ Guarda(e)

LEMMA QuietoBien ==
    ASSUME NEW e \in Enlaces, Bien(e), Quieto(e)
    PROVE  Bien(e)'
<1>1. /\ vivo' \subseteq vivo /\ Destino(e)' = Destino(e) /\ Saludo(e)' = Saludo(e)
      /\ Respuesta(e)' = Respuesta(e)
      /\ Vive(e)' => Vive(e) /\ MismoPaso(e)
      /\ EnCamino(e)' => EnCamino(e)
      /\ hilo'[e] = hilo[e] \/ (hilo'[e] = "no" /\ e[2] \notin vivo')
  BY DEF Quieto, Vive, Saludo, Respuesta
<1>2. DelHilo(e)'
  BY <1>1 DEF DelHilo, Bien, MismoPaso
<1>3. DelServidor(e)'
  <2> SUFFICES ASSUME Destino(e) \in vivo' PROVE DelServidor(e)'
    BY <1>1 DEF DelServidor
  <2>1. LadoServidor(sock[e], sock'[e]) /\ Destino(e) \in vivo
    BY <1>1 DEF Quieto
  <2>2. hilo'[e] \in Atendiendo => hilo[e] \in Atendiendo
    BY <1>1 DEF Atendiendo
  <2>3. hilo'[e] = "confirma" => hilo[e] = "confirma"
    BY <1>1
  <2>4. (EnCamino(e) \/ hilo[e] = "confirma") /\ ~Heredada(e)' => ~Heredada(e)
    BY DEF Bien, DelHilo, Quieto, Guarda
  <2> QED BY <1>1, <2>1, <2>2, <2>3, <2>4 DEF DelServidor, Bien, LadoServidor, MismoPaso
<1>4. DelCliente(e)'
  <2> SUFFICES ASSUME Vive(e)' PROVE DelCliente(e)'
    BY DEF DelCliente
  <2>1. Vive(e) /\ MismoPaso(e) /\ LadoCliente(sock[e], sock'[e])
    BY <1>1 DEF Quieto
  <2>2. e[2] \in vivo' => e[2] \in vivo /\ hilo'[e] = hilo[e]
    BY <1>1
  <2>3. Heredada(e) => Heredada(e)'
    BY <2>1 DEF Bien, DelHilo, Quieto, Guarda
  <2> QED BY <1>1, <2>1, <2>2, <2>3 DEF DelCliente, Bien, LadoCliente, MismoPaso, Primero
<1> QED BY <1>2, <1>3, <1>4 DEF Bien

LEMMA QuietoTurnos ==
    ASSUME NEW w \in Workers, Turnos(w), Quieto(ConStorage(w)),
           Vive(ConStorage(w))' =>
              /\ paso'[w].en \notin Sirviendo => paso[w].en \notin Sirviendo /\ qi'[w] = qi[w]
              /\ paso'[w].en \in Sirviendo => paso'[w].con = "master" \/ paso'[w] = paso[w]
              /\ qi'[w] # "respuesta" => qi[w] # "respuesta"
    PROVE  Turnos(w)'
<1> DEFINE e == ConStorage(w)
<1>1. ConStorage(w)' = e /\ e[1] = w /\ e \in Enlaces
  BY EnlacesDe DEF ConStorage
<1>2. (Vive(e)' => Vive(e)) /\ (Vive(e)' <=> w \in vivo') /\ Destino(e)' = Destino(e)
  BY <1>1 DEF Quieto, Vive
<1> HIDE DEF e
<1>3. Vive(e)' => IF paso'[w].en \in Sirviendo THEN paso'[w].con = "master" ELSE qi'[w] = "no"
  BY <1>1, <1>2 DEF Turnos, e
<1>4. ASSUME "storage" \in vivo', Destino(e) = "storage"
      PROVE  LET k == sock'[e] IN
             /\ Len(k.hacia.servidor) <= 1 /\ Len(k.hacia.cliente) <= 1
             /\ k.hacia.servidor # << >> => k.hacia.cliente = << >> /\ ~k.rst
             /\ Vive(e)' /\ ~PorConectar(e)' /\ ~Espera(e)' /\ qi'[w] # "respuesta" =>
                   k.hacia.servidor = << >> /\ k.hacia.cliente = << >>
             /\ hilo'[e] = "confirma" => k.hacia.servidor = << >>
             /\ hilo'[e] \in SinContestar /\ Vive(e)' /\ Presentado(e)' => Espera(e)'
  <2>1. LadoServidor(sock[e], sock'[e]) /\ "storage" \in vivo
    BY <1>4 DEF Quieto, e
  <2>2. LET k == sock[e] IN
        /\ Len(k.hacia.servidor) <= 1 /\ Len(k.hacia.cliente) <= 1
        /\ k.hacia.servidor # << >> => k.hacia.cliente = << >> /\ ~k.rst
        /\ Vive(e) /\ ~PorConectar(e) /\ ~Espera(e) /\ qi[w] # "respuesta" =>
              k.hacia.servidor = << >> /\ k.hacia.cliente = << >>
        /\ hilo[e] = "confirma" => k.hacia.servidor = << >>
        /\ hilo[e] \in SinContestar /\ Vive(e) /\ Presentado(e) => Espera(e)
    BY <1>4, <2>1 DEF Turnos, e
  <2>3. Vive(e)' => MismoPaso(e)
    BY DEF Quieto, e
  <2>4. Vive(e)' /\ qi'[w] # "respuesta" => qi[w] # "respuesta"
    BY DEF e
  <2>5. hilo'[e] = hilo[e]
    BY <1>1, <1>4, EnlacesDe DEF Quieto, e
  <2> QED BY <1>2, <2>1, <2>2, <2>3, <2>4, <2>5 DEF LadoServidor, MismoPaso
<1> QED BY <1>1, <1>2, <1>3, <1>4 DEF Turnos, SinContestar

\* The end of a process: the connections of the others are as they were.
LEMMA TerminaEfecto ==
    ASSUME NEW s \in [Enlaces -> Canales], NEW p \in Clientes \cup Servidores, Termina(p, s)
    PROVE  /\ vivo' = vivo \ {p} /\ sock' \in [Enlaces -> Canales]
           /\ \A e \in Enlaces : /\ e[1] # p => LadoCliente(s[e], sock'[e])
                                 /\ Destino(e) # p => LadoServidor(s[e], sock'[e])
<1>1. vivo' = vivo \ {p} /\ sock' = Sin(p, s)
  BY DEF Termina
<1>2. ASSUME NEW e \in Enlaces
      PROVE  /\ Sin(p, s)[e] \in Canales
             /\ e[1] # p => LadoCliente(s[e], Sin(p, s)[e])
             /\ Destino(e) # p => LadoServidor(s[e], Sin(p, s)[e])
  <2>0. s[e] \in Canales /\ "cliente" \in Lados /\ "servidor" \in Lados
        /\ Otro("cliente") = "servidor" /\ Otro("servidor") = "cliente"
    BY DEF Lados, Otro
  <2>1. CASE e[1] = p
    <3>1. Sin(p, s)[e] = Cierra(s[e], "cliente")
      BY <2>1 DEF Sin
    <3> DEFINE k == Cierra(s[e], "cliente")
    <3>2. /\ k \in Canales /\ k.abierto = s[e].abierto \ {"cliente"} /\ k.hacia.cliente = << >>
          /\ k.hacia.servidor = s[e].hacia.servidor
          /\ k.rst = (s[e].rst \/ s[e].hacia.cliente # << >>)
      BY <2>0, CierraCanal
    <3>3. s[e].rst \in BOOLEAN
      BY <2>0, CanalTipo
    <3> HIDE DEF k
    <3>4. s[e].hacia.cliente = << >> => k.rst = s[e].rst
      BY <3>2, <3>3
    <3>5. LadoServidor(s[e], k)
      BY <3>2, <3>4 DEF LadoServidor
    <3> QED BY <2>1, <3>1, <3>2, <3>5 DEF k
  <2>2. CASE e[1] # p /\ Destino(e) = p /\ "servidor" \in s[e].abierto
    <3> DEFINE k == Cierra(s[e], "servidor")
               r == k.rst \/ EnCola(e)
    <3>1. Sin(p, s)[e] = [k EXCEPT !.rst = r]
      BY <2>2 DEF Sin
    <3>2. k \in Canales /\ r \in BOOLEAN
      BY <2>0, CierraCanal, CanalTipo DEF EnCola
    <3>3. k.hacia.cliente = s[e].hacia.cliente /\ ("cliente" \in k.abierto <=> "cliente" \in s[e].abierto)
          /\ k.abierto # Lados
      BY <2>0, CierraCanal
    <3> HIDE DEF k, r
    <3>4. k = [abierto |-> k.abierto, rst |-> k.rst, hacia |-> k.hacia]
      BY <3>2 DEF Canales
    <3>5. Sin(p, s)[e] = [abierto |-> k.abierto, rst |-> r, hacia |-> k.hacia]
      BY <3>1, <3>4
    <3>6. Sin(p, s)[e] \in Canales
      BY <3>2, <3>3, <3>5, CanalTipo DEF Canales
    <3> QED BY <2>2, <3>3, <3>5, <3>6 DEF LadoCliente
  <2>3. CASE e[1] # p /\ ~(Destino(e) = p /\ "servidor" \in s[e].abierto)
    <3>1. Sin(p, s)[e] = s[e]
      BY <2>3 DEF Sin
    <3> QED BY <2>0, <3>1 DEF LadoCliente, LadoServidor
  <2> QED BY <2>1, <2>2, <2>3
<1>3. sock' \in [Enlaces -> Canales]
  BY <1>1, <1>2 DEF Sin
<1> QED BY <1>1, <1>2, <1>3

LEMMA EnviaEfecto ==
    ASSUME NEW p, NEW s \in [Enlaces -> Canales], NEW e \in Enlaces, NEW l \in Lados,
           NEW m \in Mensajes, Envia(p, s, e, l, m)
    PROVE  \/ /\ vivo' = vivo /\ sigpipe' = sigpipe /\ sock' \in [Enlaces -> Canales]
              /\ \A d \in Enlaces \ {e} : sock'[d] = s[d]
              /\ \/ sock'[e] = s[e] /\ (Rota(s[e], l) \/ l \notin s[e].abierto)
                 \/ sock'[e] = Escribe(s[e], l, m) /\ ~Rota(s[e], l) /\ l \in s[e].abierto
           \/ Rota(s[e], l) /\ Muere(p)
<1> DEFINE k == Escribe(s[e], l, m)
<1>1. k \in Canales /\ s[e] \in Canales
  BY EscribeCanal
<1>2. CASE Rota(s[e], l) /\ Muere(p)
  BY <1>2
<1>3. CASE /\ sock' = IF Rota(s[e], l) \/ l \notin s[e].abierto THEN s
                      ELSE [s EXCEPT ![e] = k]
           /\ UNCHANGED <<vivo, sigpipe>>
  <2> HIDE DEF k
  <2>1. CASE Rota(s[e], l) \/ l \notin s[e].abierto
    BY <1>3, <2>1
  <2>2. CASE ~(Rota(s[e], l) \/ l \notin s[e].abierto)
    BY <1>1, <1>3, <2>2 DEF k
  <2> QED BY <2>1, <2>2
<1> QED BY <1>2, <1>3 DEF Envia

LEMMA MuereQuieto ==
    ASSUME Tipos, NEW p \in Clientes \cup Servidores, Termina(p, sock),
           equivocados' = equivocados, socketQuery' = socketQuery,
           \A c \in Clientes \ {p} : paso'[c] = paso[c],
           \A e \in Enlaces : /\ EnCamino(e)' => EnCamino(e)
                              /\ hilo'[e] = hilo[e] \/ (hilo'[e] = "no" /\ e[2] = p)
    PROVE  \A e \in Enlaces : Quieto(e)
<1> SUFFICES ASSUME NEW e \in Enlaces PROVE Quieto(e)
  OBVIOUS
<1>1. /\ vivo' = vivo \ {p}
      /\ e[1] # p => LadoCliente(sock[e], sock'[e])
      /\ Destino(e) # p => LadoServidor(sock[e], sock'[e])
  BY TerminaEfecto DEF Tipos
<1>2. e[1] \in Clientes /\ Destino(e)' = Destino(e)
  BY EnlaceTipo DEF Destino
<1>3. e[1] # p => MismoPaso(e)
  BY <1>2 DEF MismoPaso, PorConectar, Presentado, SinRespuesta, Espera
<1> QED BY <1>1, <1>2, <1>3, NumerosIguales DEF Quieto, Vive

LEMMA IgualQuieto ==
    ASSUME NEW e \in Enlaces, vivo' \subseteq vivo, equivocados' = equivocados,
           socketQuery' = socketQuery \/ Guarda(e),
           sock'[e] = sock[e], hilo'[e] = hilo[e], EnCamino(e)' => EnCamino(e),
           Vive(e)' => paso'[e[1]] = paso[e[1]] \/ MismoPaso(e)
    PROVE  Quieto(e)
<1>1. Destino(e)' = Destino(e)
  BY DEF Destino
<1>2. paso'[e[1]] = paso[e[1]] => MismoPaso(e)
  BY DEF MismoPaso, PorConectar, Presentado, SinRespuesta, Espera
<1> QED BY <1>1, <1>2, NumerosIguales DEF Quieto, LadoCliente, LadoServidor

LEMMA CuentasIguales ==
    ASSUME Cuentas, hilo' = hilo, lista' = lista, cuenta' = cuenta
    PROVE  Cuentas'
<1>1. Registrados' = Registrados /\ EnStorage' = EnStorage
  BY DEF Registrados, EnStorage, ConMaster, ConStorage
<1> QED BY <1>1 DEF Cuentas

LEMMA PuertasIguales ==
    ASSUME \A s \in Servidores : Puerta(s), cola' = cola, receptor' = receptor,
           equivocados' = equivocados
    PROVE  /\ \A s \in Servidores : Puerta(s)'
           /\ \A e \in Enlaces : (EnCamino(e)' <=> EnCamino(e)) /\ Destino(e)' = Destino(e)
BY DEF Puerta, EnCamino, EnCola, Destino

LEMMA MasterIgual ==
    ASSUME DelMaster,
           \A e \in Enlaces : /\ hilo[e] \in Conocido => hilo'[e] \in Conocido
                              /\ hilo[e] = "fin" => hilo'[e] = "fin",
           equivocados' = equivocados, socketQuery' = socketQuery,
           asignada' = asignada, asignada \in [Workers -> QueryControls \cup {NULL}],
           estado' = estado, vivo' \subseteq vivo,
           \A w \in Workers \cap vivo' : /\ paso'[w].con = "master" => paso[w].con = "master" \/ w \in pagina'
                                         /\ w \in pagina => w \in pagina',
           \A q \in QueryControls : paso'[q].con = paso[q].con
    PROVE  DelMaster'
<1>1. \A c \in Clientes : hilo[ConMaster(c)] \in Conocido => hilo'[ConMaster(c)] \in Conocido
  BY EnlacesDe
<1>2. ASSUME NEW w \in Workers, asignada[w] # NULL
      PROVE  hilo'[ConMaster(w)] \in Conocido /\ hilo'[ConMaster(asignada[w])] \in Conocido
  BY <1>1, <1>2 DEF DelMaster, Clientes
<1>3. \A q \in QueryControls : estado[q] # "NINGUNO" => hilo'[ConMaster(q)] \in Conocido
  BY <1>1 DEF DelMaster, Clientes
<1>4. \A w \in Workers \cap vivo' : paso'[w].con = "master" => w \in pagina'
  BY DEF DelMaster
<1>5. ASSUME NEW q \in QueryControls PROVE DelNumero(q)'
  <2>1. ConMaster(q)' = ConMaster(q) /\ ConMaster(q) \in Enlaces /\ DelNumero(q)
    BY EnlacesDe DEF ConMaster, Clientes, DelMaster
  <2> QED BY <2>1 DEF DelNumero, Destino
<1> QED BY <1>2, <1>3, <1>4, <1>5 DEF DelMaster, ConMaster, Conocido

\* The servers take no part in the step.
LEMMA SinServidor ==
    ASSUME Inv, UNCHANGED <<servidor, equivocados>>
    PROVE  /\ Cuentas' /\ \A s \in Servidores : Puerta(s)'
           /\ \A e \in Enlaces : (EnCamino(e)' <=> EnCamino(e)) /\ Destino(e)' = Destino(e)
           /\ hilo' = hilo /\ asignada' = asignada /\ estado' = estado
           /\ cola' = cola /\ receptor' = receptor /\ cuenta' = cuenta /\ lista' = lista
           /\ semListo' = semListo /\ sem' = sem /\ socketQuery' = socketQuery
<1>1. /\ hilo' = hilo /\ asignada' = asignada /\ estado' = estado
      /\ cola' = cola /\ receptor' = receptor /\ cuenta' = cuenta /\ lista' = lista
      /\ semListo' = semListo /\ sem' = sem /\ equivocados' = equivocados
      /\ socketQuery' = socketQuery
  BY DEF servidor, maestro
<1>2. Cuentas /\ \A s \in Servidores : Puerta(s)
  BY DEF Inv
<1> QED BY <1>1, <1>2, CuentasIguales, PuertasIguales

-----------------------------------------------------------------------------
(***************************************************************************)
(* The steps of the clients.                                               *)
(***************************************************************************)
Hilos == [hm : [Workers -> {"no", "recibe", "fin"}],
          qi : [Workers -> {"no", "espera", "ejecuta", "respuesta", "lectura", "notifica"}]]

\* A client ends, whatever it was doing.
LEMMA ClienteMuereInv ==
    ASSUME Inv, NEW c \in Clientes, Termina(c, sock), UNCHANGED <<servidor, equivocados>>,
           sigpipe' \in {sigpipe, sigpipe \cup {c}},
           paso' \in [Clientes -> [con : Servidores, en : Donde]],
           \A d \in Clientes \ {c} : paso'[d] = paso[d],
           paso'[c].con = "master" \/ paso'[c].con = paso[c].con,
           pagina' \subseteq Workers, pagina \ {c} \subseteq pagina',
           [hm |-> hm', qi |-> qi'] \in Hilos, \A w \in Workers \ {c} : qi'[w] = qi[w]
    PROVE  Inv'
<1>1. /\ vivo' = vivo \ {c} /\ sock' \in [Enlaces -> Canales] /\ Tipos
  BY TerminaEfecto DEF Inv, Tipos
<1>2. /\ Cuentas' /\ \A s \in Servidores : Puerta(s)'
      /\ \A e \in Enlaces : (EnCamino(e)' <=> EnCamino(e)) /\ Destino(e)' = Destino(e)
      /\ hilo' = hilo /\ asignada' = asignada /\ estado' = estado
      /\ cola' = cola /\ receptor' = receptor /\ cuenta' = cuenta /\ lista' = lista
      /\ semListo' = semListo /\ sem' = sem /\ socketQuery' = socketQuery
  BY SinServidor
<1>3. hm' \in [Workers -> {"no", "recibe", "fin"}]
      /\ qi' \in [Workers -> {"no", "espera", "ejecuta", "respuesta", "lectura", "notifica"}]
  BY DEF Hilos
<1>4. Tipos'
  BY <1>1, <1>2, <1>3 DEF Tipos
<1>5. \A e \in Enlaces : Quieto(e)
  BY <1>1, <1>2, MuereQuieto
<1>6. \A e \in Enlaces : Bien(e)'
  BY <1>5, QuietoBien DEF Inv
<1>7. ASSUME NEW w \in Workers PROVE Turnos(w)'
  <2>1. ConStorage(w) \in Enlaces /\ ConStorage(w)[1] = w /\ w \in Clientes
    BY EnlacesDe DEF Clientes
  <2>2. Vive(ConStorage(w))' => w # c
    BY <1>1, <2>1 DEF Vive, ConStorage
  <2>3. w # c => paso'[w] = paso[w] /\ qi'[w] = qi[w]
    BY <2>1
  <2> QED BY <1>5, <2>1, <2>2, <2>3, QuietoTurnos DEF Inv
<1>8. DelMaster'
  <2>1. ASSUME NEW w \in Workers \cap vivo'
        PROVE  /\ paso'[w].con = "master" => paso[w].con = "master" \/ w \in pagina'
               /\ w \in pagina => w \in pagina'
    BY <1>1 DEF Clientes
  <2>2. ASSUME NEW q \in QueryControls PROVE paso'[q].con = paso[q].con
    <3>1. q \in Clientes /\ paso[q].con = "master"
      BY DEF Inv, DelMaster, Clientes
    <3> QED BY <3>1
  <2> QED BY <1>1, <1>2, <2>1, <2>2, MasterIgual DEF Inv, Tipos
<1> QED BY <1>2, <1>4, <1>6, <1>7, <1>8 DEF Inv

LEMMA EnlaceDe ==
    ASSUME Inv, NEW c \in vivo, c \in Clientes
    PROVE  /\ Enlace(c) \in Enlaces /\ Enlace(c)[1] = c /\ Enlace(c)[2] = paso[c].con
           /\ paso[c].con \in Servidores /\ paso[c].en \in Donde
           /\ Vive(Enlace(c)) /\ Bien(Enlace(c)) /\ sock[Enlace(c)] \in Canales
           /\ Enlace(c)[2] = "storage" => c \in Workers /\ Enlace(c) = ConStorage(c)
<1>1. paso[c] \in [con : Servidores, en : Donde] /\ (c \in QueryControls => paso[c].con = "master")
  BY DEF Inv, Tipos, DelMaster
<1>2. /\ Enlace(c) \in Enlaces /\ Enlace(c)[1] = c /\ Enlace(c)[2] = paso[c].con
      /\ paso[c].con = "storage" => c \in Workers
  BY <1>1 DEF Enlace, Enlaces, Clientes, Servidores
<1> QED BY <1>1, <1>2 DEF Inv, Tipos, Vive, Enlace, ConStorage

\* Nothing but the connection of the client changes, and no Worker's turn.
LEMMA ClienteInv ==
    ASSUME Inv, NEW c \in Clientes, UNCHANGED <<vivo, sigpipe, servidor, equivocados>>,
           sock' \in [Enlaces -> Canales],
           paso' \in [Clientes -> [con : Servidores, en : Donde]],
           paso'[c].con = "master" => paso[c].con = "master" \/ c \in pagina',
           c \in QueryControls => paso'[c].con = paso[c].con,
           \A d \in Clientes \ {c} : paso'[d] = paso[d],
           pagina' \subseteq Workers, pagina \subseteq pagina',
           [hm |-> hm', qi |-> qi'] \in Hilos,
           \A e \in Enlaces : Bien(e)', \A w \in Workers : Turnos(w)'
    PROVE  Inv'
<1>1. /\ Cuentas' /\ \A s \in Servidores : Puerta(s)'
      /\ hilo' = hilo /\ asignada' = asignada /\ estado' = estado
      /\ cola' = cola /\ receptor' = receptor /\ cuenta' = cuenta /\ lista' = lista
      /\ semListo' = semListo /\ sem' = sem /\ socketQuery' = socketQuery
  BY SinServidor
<1>2. hm' \in [Workers -> {"no", "recibe", "fin"}]
      /\ qi' \in [Workers -> {"no", "espera", "ejecuta", "respuesta", "lectura", "notifica"}]
  BY DEF Hilos
<1>3. Tipos'
  BY <1>1, <1>2 DEF Inv, Tipos
<1>4. DelMaster'
  <2>1. ASSUME NEW w \in Workers \cap vivo'
        PROVE  /\ paso'[w].con = "master" => paso[w].con = "master" \/ w \in pagina'
               /\ w \in pagina => w \in pagina'
    BY DEF Clientes
  <2>2. ASSUME NEW q \in QueryControls PROVE paso'[q].con = paso[q].con
    BY DEF Clientes
  <2> QED BY <1>1, <2>1, <2>2, MasterIgual DEF Inv, Tipos
<1> QED BY <1>1, <1>3, <1>4 DEF Inv

\* The other connection of a client, when its main goes on with the one it is at.
LEMMA OtroEnlace ==
    ASSUME Tipos, NEW c \in Clientes, NEW donde, paso' = [paso EXCEPT ![c].en = donde],
           NEW d \in Enlaces, d # Enlace(c)
    PROVE  MismoPaso(d)
<1>1. d[1] \in Clientes /\ d[2] \in Servidores /\ d = <<d[1], d[2]>>
  BY EnlaceTipo
<1>2. paso[c] \in [con : Servidores, en : Donde] /\ paso'[c].con = paso[c].con
      /\ \A x \in Clientes \ {c} : paso'[x] = paso[x]
  BY DEF Tipos
<1>3. CASE d[1] # c
  BY <1>1, <1>2, <1>3 DEF MismoPaso, PorConectar, Presentado, SinRespuesta, Espera
<1>4. CASE d[1] = c
  <2>1. d[2] # paso[c].con
    BY <1>1, <1>4 DEF Enlace
  <2> QED BY <1>2, <1>4, <2>1 DEF Sirviendo, MismoPaso, PorConectar, Presentado, SinRespuesta, Espera
<1> QED BY <1>3, <1>4

LEMMA ConectaInv ==
    ASSUME Inv, NEW c \in Clientes, Conecta(c)
    PROVE  Inv'
<1>0. PICK e \in Enlaces : e = Enlace(c)
  BY EnlaceDe DEF Conecta, En
<1> DEFINE s == Destino(e)
<1>1. /\ c \in vivo /\ paso[c].en = "conecta" /\ Tipos
      /\ UNCHANGED <<receptor, hilo, cuenta, maestro, pagina, hilosWorker, sigpipe, equivocados>>
  BY DEF Conecta, En, Inv, historia
<1>2. /\ e \in Enlaces /\ e[1] = c /\ e[2] = paso[c].con /\ paso[c].con \in Servidores
      /\ Vive(e) /\ Bien(e) /\ s \in Servidores /\ e # NULL
      /\ e[2] = "storage" => c \in Workers /\ e = ConStorage(c)
  BY <1>0, <1>1, EnlaceDe, EnlaceTipo
<1>3. PorConectar(e) /\ ~Presentado(e) /\ ~EnCamino(e) /\ hilo[e] = "no"
  BY <1>1, <1>2 DEF Sirviendo, PorConectar, Presentado, Bien, DelCliente, DelHilo
<1>4. [hm |-> hm', qi |-> qi'] \in Hilos
  BY <1>1 DEF Hilos, hilosWorker, Tipos
<1>5. CASE s \notin vivo /\ Termina(c, sock) /\ UNCHANGED <<cola, paso>>
  <2>1. UNCHANGED <<servidor, equivocados>> /\ pagina' = pagina /\ qi' = qi
    BY <1>1, <1>5 DEF servidor, hilosWorker
  <2> QED BY <1>1, <1>4, <1>5, <2>1, ClienteMuereInv DEF Tipos
<1>6. CASE /\ s \in vivo /\ sock' = [sock EXCEPT ![e] = Nueva]
           /\ cola' = [cola EXCEPT ![s] = Append(@, e)]
           /\ Avanza(c, "saluda") /\ UNCHANGED vivo
  <2> HIDE DEF s
  <2>1. /\ Nueva \in Canales /\ Nueva.abierto = Lados /\ Nueva.rst = FALSE
        /\ Nueva.hacia.cliente = << >> /\ Nueva.hacia.servidor = << >>
    BY EmptySeq DEF Nueva, SinConexion, Nada, Canales, Lados
  <2>2. /\ sock' \in [Enlaces -> Canales] /\ sock'[e] = Nueva
        /\ \A d \in Enlaces \ {e} : sock'[d] = sock[d]
    BY <1>1, <1>2, <1>6, <2>1 DEF Tipos
  <2>3. /\ paso' = [paso EXCEPT ![c].en = "saluda"]
        /\ paso' \in [Clientes -> [con : Servidores, en : Donde]]
        /\ paso'[c].con = paso[c].con /\ paso'[c].en = "saluda"
        /\ \A d \in Clientes \ {c} : paso'[d] = paso[d]
    BY <1>1, <1>6 DEF Avanza, Tipos, Donde
  <2>4. /\ cola[s] \in Seq(Enlaces) /\ cola'[s] = Append(cola[s], e)
        /\ cola' \in [Servidores -> Seq(Enlaces)]
        /\ \A x \in Servidores \ {s} : cola'[x] = cola[x]
    BY <1>1, <1>2, <1>6, AppendProperties DEF Tipos
  <2>5. /\ Len(cola'[s]) = Len(cola[s]) + 1 /\ cola'[s][Len(cola[s]) + 1] = e
        /\ \A i \in 1..Len(cola[s]) : cola'[s][i] = cola[s][i]
        /\ DOMAIN cola[s] = 1..Len(cola[s]) /\ DOMAIN cola'[s] = 1..(Len(cola[s]) + 1)
        /\ Len(cola[s]) \in Nat
    BY <1>2, <2>4, AppendProperties, LenProperties
  <2>6. /\ receptor' = receptor /\ \A d : Destino(d)' = Destino(d)
        /\ \A i \in DOMAIN cola[s] : cola[s][i] # e
        /\ receptor[s].de # e
    BY <1>1, <1>3 DEF EnCamino, EnCola, Destino, s
  <2>7. ASSUME NEW x \in Servidores PROVE Puerta(x)'
    <3>1. Puerta(x)
      BY DEF Inv
    <3>2. CASE x # s
      BY <2>4, <2>6, <3>1, <3>2 DEF Puerta
    <3>3. CASE x = s
      <4>1. \A i \in DOMAIN cola'[s] : Destino(cola'[s][i]) = s /\ cola'[s][i] # receptor[s].de
        BY <2>5, <2>6, <3>1, <3>3 DEF Puerta, s
      <4>2. \A i, j \in DOMAIN cola'[s] : cola'[s][i] = cola'[s][j] => i = j
        BY <2>5, <2>6, <3>1, <3>3 DEF Puerta
      <4> QED BY <2>6, <3>1, <3>3, <4>1, <4>2 DEF Puerta
    <3> QED BY <3>2, <3>3
  <2>8. ASSUME NEW d \in Enlaces, d # e PROVE Quieto(d)
    <3>1. EnCamino(d)' => EnCamino(d)
      <4>1. Destino(d) \in Servidores
        BY EnlaceTipo
      <4> QED BY <2>4, <2>5, <2>6, <2>8, <4>1 DEF EnCamino, EnCola
    <3>2. MismoPaso(d)
      BY <1>0, <1>1, <2>3, <2>8, OtroEnlace
    <3>3. socketQuery' = socketQuery
      BY <1>1 DEF maestro
    <3> QED BY <1>1, <1>6, <2>2, <2>8, <3>1, <3>2, <3>3, IgualQuieto
  <2>9. Bien(e)'
    <3>1. /\ ~PorConectar(e)' /\ ~Presentado(e)' /\ SinRespuesta(e)' /\ Vive(e)' /\ hilo'[e] = "no"
          /\ vivo' = vivo
      BY <1>1, <1>2, <1>3, <1>6, <2>3 DEF Sirviendo, PorConectar, Presentado, SinRespuesta, Vive
    <3>2. DelHilo(e)'
      BY <3>1 DEF DelHilo
    <3>3. DelServidor(e)'
      BY <2>1, <2>2, <3>1 DEF DelServidor, Lados, Atendiendo
    <3>4. DelCliente(e)'
      BY <2>1, <2>2, <3>1 DEF DelCliente, Lados, SinContestar
    <3> QED BY <3>2, <3>3, <3>4 DEF Bien
  <2>10. \A d \in Enlaces : Bien(d)'
    BY <2>8, <2>9, QuietoBien DEF Inv
  <2>11. ASSUME NEW w \in Workers PROVE Turnos(w)'
    <3>0. Turnos(w) /\ ConStorage(w) \in Enlaces /\ ConStorage(w)[1] = w /\ w \in Clientes
          /\ ConStorage(w)' = ConStorage(w) /\ qi' = qi
      BY <1>1, EnlacesDe DEF Inv, Clientes, ConStorage, hilosWorker
    <3>1. CASE ConStorage(w) = e
      <4>1. w = c /\ Vive(e)' /\ ~Presentado(e)' /\ paso'[w].en \notin Sirviendo
        BY <1>1, <1>2, <1>6, <2>3, <3>0, <3>1 DEF Vive, Presentado, Sirviendo
      <4>2. qi[w] = "no"
        BY <1>1, <1>2, <3>0, <3>1, <4>1 DEF Turnos, Sirviendo
      <4> QED BY <1>1, <1>3, <2>1, <2>2, <3>0, <3>1, <4>1, <4>2 DEF Turnos
    <3>2. CASE ConStorage(w) # e
      <4>1. IF w = c THEN paso'[w].en \notin Sirviendo /\ paso[w].en \notin Sirviendo
            ELSE paso'[w] = paso[w]
        BY <1>1, <2>3, <3>0 DEF Sirviendo
      <4> QED BY <2>8, <3>0, <3>2, <4>1, QuietoTurnos
    <3> QED BY <3>1, <3>2
  <2>12. Cuentas'
    BY <1>1, CuentasIguales DEF Inv, maestro
  <2>13. DelMaster'
    BY <1>1, <1>6, <2>3, MasterIgual DEF Inv, Tipos, maestro, Clientes
  <2>14. Tipos'
    BY <1>1, <1>6, <2>2, <2>3, <2>4 DEF Tipos, maestro, hilosWorker
  <2> QED BY <2>7, <2>10, <2>11, <2>12, <2>13, <2>14 DEF Inv
<1> QED BY <1>0, <1>5, <1>6 DEF Conecta

LEMMA SaludaInv ==
    ASSUME Inv, NEW c \in Clientes, Saluda(c)
    PROVE  Inv'
<1>0. PICK e \in Enlaces : e = Enlace(c)
  BY EnlaceDe DEF Saluda, En
<1>1. /\ c \in vivo /\ paso[c].en = "saluda" /\ Tipos
      /\ UNCHANGED <<servidor, equivocados, pagina, hilosWorker>>
  BY DEF Saluda, En, Inv, historia
<1>2. /\ e[1] = c /\ e[2] = paso[c].con /\ paso[c].con \in Servidores
      /\ Vive(e) /\ Bien(e) /\ sock[e] \in Canales /\ Saludo(e) \in Mensajes
      /\ e[2] = "storage" => c \in Workers /\ e = ConStorage(c)
  BY <1>0, <1>1, EnlaceDe, EnlaceTipo
<1>3. /\ ~PorConectar(e) /\ ~Presentado(e) /\ SinRespuesta(e) /\ ~Espera(e) /\ hilo[e] = "no"
      /\ "cliente" \in sock[e].abierto
  BY <1>1, <1>2 DEF Sirviendo, PorConectar, Presentado, SinRespuesta, Espera, Bien, DelCliente, DelHilo
<1>4. [hm |-> hm', qi |-> qi'] \in Hilos /\ qi' = qi
  BY <1>1 DEF Hilos, hilosWorker, Tipos
<1>5. CASE Termina(c, sock) /\ UNCHANGED paso /\ sigpipe' \in {sigpipe, sigpipe \cup {c}}
  BY <1>1, <1>4, <1>5, ClienteMuereInv DEF Tipos
<1>6. ASSUME Avanza(c, "espera"), UNCHANGED <<vivo, sigpipe>>,
             \/ sock' = [sock EXCEPT ![e] = Escribe(@, "cliente", Saludo(e))] /\ ~Rota(sock[e], "cliente")
             \/ sock' = sock /\ Rota(sock[e], "cliente") /\ e[2] = "master"
      PROVE  Inv'
  <2> DEFINE k == Escribe(sock[e], "cliente", Saludo(e))
  <2>1. /\ k \in Canales /\ k.abierto = sock[e].abierto /\ k.hacia.cliente = sock[e].hacia.cliente
        /\ "servidor" \in k.abierto => /\ k.hacia.servidor = Append(sock[e].hacia.servidor, Saludo(e))
                                       /\ k.rst = sock[e].rst
        /\ "servidor" \notin k.abierto => k.hacia.servidor = << >>
    BY <1>2, DeCliente
  <2> HIDE DEF k
  <2>2. /\ sock' \in [Enlaces -> Canales]
        /\ \/ sock'[e] = k
           \/ sock'[e] = sock[e] /\ "servidor" \notin sock[e].abierto /\ e[2] = "master"
        /\ \A d \in Enlaces \ {e} : sock'[d] = sock[d]
    BY <1>1, <1>6, <2>1 DEF Tipos, Rota, Otro, k
  <2>3. /\ paso' = [paso EXCEPT ![c].en = "espera"]
        /\ paso' \in [Clientes -> [con : Servidores, en : Donde]]
        /\ paso'[c].con = paso[c].con /\ paso'[c].en = "espera"
        /\ \A d \in Clientes \ {c} : paso'[d] = paso[d]
    BY <1>1, <1>6 DEF Avanza, Tipos, Donde
  <2>4. /\ \A d \in Enlaces : (EnCamino(d)' <=> EnCamino(d)) /\ Destino(d)' = Destino(d)
        /\ hilo' = hilo /\ vivo' = vivo /\ equivocados' = equivocados
        /\ socketQuery' = socketQuery /\ (Heredada(e)' <=> Heredada(e))
    BY <1>1, <1>6, SinServidor, NumerosIguales
  <2>5. ASSUME NEW d \in Enlaces, d # e PROVE Quieto(d)
    <3>1. MismoPaso(d)
      BY <1>0, <1>1, <2>3, <2>5, OtroEnlace
    <3> QED BY <2>2, <2>4, <2>5, <3>1, IgualQuieto
  <2>6. Bien(e)'
    <3>1. /\ ~PorConectar(e)' /\ Presentado(e)' /\ SinRespuesta(e)' /\ Vive(e)' /\ hilo'[e] = "no"
      BY <1>1, <1>2, <1>3, <2>3, <2>4 DEF Sirviendo, PorConectar, Presentado, SinRespuesta, Vive
    <3>2. DelHilo(e)'
      BY <3>1 DEF DelHilo
    <3>3. DelServidor(e)'
      <4> SUFFICES ASSUME Destino(e) \in vivo, EnCamino(e) PROVE DelServidor(e)'
        BY <2>4, <3>1 DEF DelServidor, Atendiendo
      <4>1. /\ "servidor" \in sock[e].abierto /\ sock[e].hacia.servidor = << >>
            /\ ~Heredada(e) => sock[e].hacia.cliente = << >> /\ ~sock[e].rst
        BY <1>2, <1>3 DEF Bien, DelServidor
      <4>2. sock'[e] = k
        BY <2>2, <4>1
      <4>3. k.hacia.servidor # << >> /\ Head(k.hacia.servidor) = Saludo(e)
        <5>1. k.hacia.servidor = Append(sock[e].hacia.servidor, Saludo(e))
              /\ sock[e].hacia.servidor \in Seq(Mensajes)
          BY <1>2, <2>1, <4>1, CanalTipo
        <5> QED BY <1>2, <4>1, <5>1, AlFinal
      <4> QED BY <2>1, <2>4, <3>1, <4>1, <4>2, <4>3 DEF DelServidor, Saludo
    <3>4. DelCliente(e)'
      BY <1>2, <1>3, <2>1, <2>2, <2>4, <3>1
         DEF Bien, DelCliente, SinContestar, Respuesta, Primero
    <3> QED BY <3>2, <3>3, <3>4 DEF Bien
  <2>7. \A d \in Enlaces : Bien(d)'
    BY <2>5, <2>6, QuietoBien DEF Inv
  <2>8. ASSUME NEW w \in Workers PROVE Turnos(w)'
    <3>0. Turnos(w) /\ ConStorage(w) \in Enlaces /\ ConStorage(w)[1] = w /\ w \in Clientes
          /\ ConStorage(w)' = ConStorage(w) /\ ConStorage(w)[2] = "storage"
      BY EnlacesDe DEF Inv, Clientes, ConStorage
    <3>1. CASE ConStorage(w) = e
      <4>1. w = c /\ Vive(e)' /\ Espera(e)' /\ sock'[e] = k /\ paso'[w].en \notin Sirviendo
        BY <1>1, <1>2, <2>2, <2>3, <2>4, <3>0, <3>1 DEF Vive, Espera, Sirviendo
      <4>2. qi[w] = "no"
        BY <1>1, <1>2, <3>0, <3>1, <4>1 DEF Turnos, Sirviendo
      <4>3. ASSUME "storage" \in vivo, Destino(e) = "storage"
            PROVE  /\ Len(k.hacia.servidor) <= 1 /\ Len(k.hacia.cliente) <= 1
                   /\ k.hacia.servidor # << >> => k.hacia.cliente = << >> /\ ~k.rst
        <5>1. sock[e].hacia.servidor = << >> /\ sock[e].hacia.cliente = << >>
          BY <1>2, <1>3, <3>0, <3>1, <4>2, <4>3 DEF Turnos
        <5>2. k.hacia.cliente = << >> /\ Len(k.hacia.cliente) = 0
          BY <2>1, <5>1, EmptySeq
        <5>3. Len(k.hacia.servidor) <= 1
          <6>1. sock[e].hacia.servidor \in Seq(Mensajes)
            BY <1>2, CanalTipo
          <6>2. Len(Append(sock[e].hacia.servidor, Saludo(e))) = 1
            BY <1>2, <5>1, <6>1, AlFinal
          <6>3. CASE "servidor" \in k.abierto
            BY <2>1, <6>2, <6>3
          <6>4. CASE "servidor" \notin k.abierto
            BY <2>1, <6>4, EmptySeq
          <6> QED BY <6>3, <6>4
        <5>4. k.hacia.servidor # << >> => ~k.rst
          <6> SUFFICES ASSUME k.hacia.servidor # << >> PROVE ~k.rst
            OBVIOUS
          <6>1. k.abierto = Lados
            BY <1>3, <2>1, CanalTipo DEF Lados
          <6> QED BY <2>1, <6>1, CanalTipo
        <5> QED BY <5>2, <5>3, <5>4
      <4> QED BY <1>3, <1>4, <2>4, <3>0, <3>1, <4>1, <4>2, <4>3 DEF Turnos
    <3>2. CASE ConStorage(w) # e
      <4>1. IF w = c THEN paso'[w].en \notin Sirviendo /\ paso[w].en \notin Sirviendo
            ELSE paso'[w] = paso[w]
        BY <1>1, <2>3, <3>0 DEF Sirviendo
      <4> QED BY <1>4, <2>5, <3>0, <3>2, <4>1, QuietoTurnos
    <3> QED BY <3>1, <3>2
  <2> QED BY <1>1, <1>4, <1>6, <2>2, <2>3, <2>7, <2>8, ClienteInv DEF Tipos
<1> QED BY <1>0, <1>1, <1>5, <1>6 DEF Saluda, Muere, Sigue

\* What is left of a connection once its client has read from it.
LEMMA BienAlLeer ==
    ASSUME Inv, NEW e \in Enlaces, Vive(e), UNCHANGED <<vivo, servidor, equivocados>>,
           \/ Hay(sock[e], "cliente") /\ sock'[e] = Lee(sock[e], "cliente")
           \/ Cortada(sock[e], "cliente") /\ sock'[e] = sock[e],
           Presentado(e), Presentado(e)', ~SinRespuesta(e)',
           e[2] = "storage" => Hay(sock[e], "cliente") \/ ~Espera(e)
    PROVE  /\ Bien(e)' /\ sock'[e] \in Canales
           /\ e[2] = "storage" /\ "storage" \in vivo /\ Destino(e) = "storage" /\ Turnos(e[1]) =>
                 /\ sock'[e].hacia.cliente = << >> /\ sock'[e].hacia.servidor = << >>
                 /\ hilo'[e] \notin SinContestar
<1>0. /\ sock[e] \in Canales /\ "cliente" \in Lados /\ "servidor" \in Lados
      /\ Otro("cliente") = "servidor" /\ Bien(e)
  BY DEF Inv, Tipos, Lados, Otro
<1>1. /\ \A d \in Enlaces : (EnCamino(d)' <=> EnCamino(d)) /\ Destino(d)' = Destino(d)
      /\ hilo' = hilo /\ vivo' = vivo /\ Vive(e)' /\ (Heredada(e)' <=> Heredada(e))
  BY SinServidor, NumerosIguales DEF Vive
<1>2. ~PorConectar(e) /\ ~PorConectar(e)'
  BY DEF Sirviendo, Presentado, PorConectar
<1>3. /\ sock'[e].abierto = sock[e].abierto /\ sock'[e].hacia.servidor = sock[e].hacia.servidor
      /\ sock'[e].rst = sock[e].rst /\ sock'[e] \in Canales
  BY <1>0, LeeCanal
<1>4. ~Hay(sock[e], "cliente") => sock[e].hacia.cliente = << >> /\ sock'[e].hacia.cliente = << >>
  BY DEF Hay
<1>5. DelHilo(e)'
  BY <1>0, <1>1 DEF DelHilo, Bien
<1>6. DelServidor(e)'
  <2>1. Destino(e) \in vivo /\ (EnCamino(e) \/ hilo[e] = "confirma") /\ ~Heredada(e) =>
           sock'[e].hacia.cliente = << >> /\ ~sock'[e].rst
    BY <1>0, <1>3, <1>4 DEF Bien, DelServidor, Hay
  <2> QED BY <1>0, <1>1, <1>3, <2>1 DEF DelServidor, Bien, Saludo
<1>7. DelCliente(e)'
  BY <1>0, <1>1, <1>2, <1>3 DEF DelCliente, Bien
<1>8. ASSUME e[2] = "storage", "storage" \in vivo, Destino(e) = "storage", Turnos(e[1])
      PROVE  /\ sock'[e].hacia.cliente = << >> /\ sock'[e].hacia.servidor = << >>
             /\ hilo'[e] \notin SinContestar
  <2>1. e = ConStorage(e[1])
    BY <1>8, EnlaceTipo DEF ConStorage
  <2>2. /\ Len(sock[e].hacia.cliente) <= 1
        /\ sock[e].hacia.servidor # << >> => sock[e].hacia.cliente = << >>
        /\ hilo[e] \in SinContestar => Espera(e)
    BY <1>8, <2>1 DEF Turnos
  <2>5. hilo'[e] \notin SinContestar
    <3>1. CASE Espera(e)
      <4>1. SinRespuesta(e) /\ sock[e].hacia.cliente # << >>
        BY <1>8, <3>1 DEF Espera, SinRespuesta, Hay
      <4>2. ~Heredada(e)
        BY <1>8, HeredadaMaster DEF Inv
      <4> QED BY <1>0, <1>1, <1>8, <4>1, <4>2 DEF Bien, DelCliente
    <3>2. CASE ~Espera(e)
      BY <1>1, <2>2, <3>2
    <3> QED BY <3>1, <3>2
  <2>3. CASE Hay(sock[e], "cliente") /\ sock'[e] = Lee(sock[e], "cliente")
    <3>1. /\ Len(sock'[e].hacia.cliente) = Len(sock[e].hacia.cliente) - 1
      BY <1>0, <2>3, LeeCanal
    <3>2. sock'[e].hacia.cliente \in Seq(Mensajes) /\ sock[e].hacia.cliente \in Seq(Mensajes)
      BY <1>0, <1>3, CanalTipo
    <3>3. Len(sock'[e].hacia.cliente) = 0
      <4>1. Len(sock'[e].hacia.cliente) \in Nat /\ Len(sock[e].hacia.cliente) \in Nat
        BY <3>2, LenProperties
      <4> DEFINE a == Len(sock[e].hacia.cliente)
                 b == Len(sock'[e].hacia.cliente)
      <4>2. a \in Nat /\ b \in Nat /\ a <= 1 /\ b = a - 1
        BY <2>2, <3>1, <4>1
      <4> HIDE DEF a, b
      <4>3. b = 0
        BY <4>2
      <4> QED BY <4>3 DEF b
    <3>4. sock'[e].hacia.cliente = << >>
      BY <3>2, <3>3, EmptySeq
    <3> QED BY <1>3, <2>2, <2>3, <2>5, <3>4 DEF Hay
  <2>4. CASE Cortada(sock[e], "cliente") /\ sock'[e] = sock[e]
    <3>1. "servidor" \notin sock[e].abierto /\ sock[e].hacia.cliente = << >>
      BY <1>0, <2>4 DEF Cortada, Hay
    <3>2. sock[e].hacia["servidor"] = << >>
      BY <1>0, <3>1, CanalTipo
    <3> QED BY <2>4, <2>5, <3>1, <3>2
  <2> QED BY <2>3, <2>4
<1> QED BY <1>3, <1>5, <1>6, <1>7, <1>8 DEF Bien

\* A client reads one of its connections, or learns that the server has left.
LEMMA LecturaInv ==
    ASSUME Inv, NEW c \in Clientes, c \in vivo, NEW e \in Enlaces, e[1] = c,
           UNCHANGED <<vivo, sigpipe, servidor, equivocados>>,
           \/ Hay(sock[e], "cliente") /\ sock' = [sock EXCEPT ![e] = Lee(sock[e], "cliente")]
           \/ Cortada(sock[e], "cliente") /\ sock' = sock,
           Presentado(e), Presentado(e)', ~SinRespuesta(e)',
           e[2] = "storage" => Hay(sock[e], "cliente") \/ ~Espera(e),
           \A d \in Enlaces \ {e} : d[1] = c => MismoPaso(d),
           paso' \in [Clientes -> [con : Servidores, en : Donde]],
           paso'[c].con = "master" => paso[c].con = "master" \/ c \in pagina',
           c \in QueryControls => paso'[c].con = paso[c].con,
           \A d \in Clientes \ {c} : paso'[d] = paso[d],
           pagina' \subseteq Workers, pagina \subseteq pagina',
           [hm |-> hm', qi |-> qi'] \in Hilos, \A w \in Workers \ {c} : qi'[w] = qi[w],
           c \in Workers => /\ paso'[c].en \notin Sirviendo => paso[c].en \notin Sirviendo /\ qi'[c] = qi[c]
                            /\ paso'[c].en \in Sirviendo => paso'[c].con = "master"
                            /\ qi'[c] # "respuesta" => qi[c] # "respuesta" \/ e = ConStorage(c)
    PROVE  Inv'
<1>1. sock[e] \in Canales /\ sock \in [Enlaces -> Canales] /\ "cliente" \in Lados /\ Vive(e)
  BY DEF Inv, Tipos, Lados, Vive
<1>2. /\ \A d \in Enlaces \ {e} : sock'[d] = sock[d]
      /\ \/ Hay(sock[e], "cliente") /\ sock'[e] = Lee(sock[e], "cliente")
         \/ Cortada(sock[e], "cliente") /\ sock'[e] = sock[e]
  BY <1>1
<1>3. /\ Bien(e)'
      /\ e[2] = "storage" /\ "storage" \in vivo /\ Destino(e) = "storage" /\ Turnos(e[1]) =>
            /\ sock'[e].hacia.cliente = << >> /\ sock'[e].hacia.servidor = << >>
            /\ hilo'[e] \notin SinContestar
  BY <1>1, <1>2, BienAlLeer
<1>4. sock' \in [Enlaces -> Canales]
  <2>1. Hay(sock[e], "cliente") => Lee(sock[e], "cliente") \in Canales
    BY <1>1, LeeCanal
  <2> QED BY <1>1, <2>1
<1>5. /\ \A d \in Enlaces : (EnCamino(d)' <=> EnCamino(d)) /\ Destino(d)' = Destino(d)
      /\ hilo' = hilo /\ vivo' = vivo /\ socketQuery' = socketQuery
  BY SinServidor
<1>6. ASSUME NEW d \in Enlaces, d # e PROVE Quieto(d)
  <2>1. paso'[d[1]] = paso[d[1]] \/ MismoPaso(d)
    BY <1>6, EnlaceTipo
  <2> QED BY <1>2, <1>5, <1>6, <2>1, IgualQuieto
<1>7. \A d \in Enlaces : Bien(d)'
  BY <1>3, <1>6, QuietoBien DEF Inv
<1>8. ASSUME NEW w \in Workers PROVE Turnos(w)'
  <2>0. Turnos(w) /\ ConStorage(w) \in Enlaces /\ ConStorage(w)[1] = w /\ w \in Clientes
        /\ ConStorage(w)' = ConStorage(w) /\ ConStorage(w)[2] = "storage"
    BY EnlacesDe DEF Inv, Clientes, ConStorage
  <2>1. CASE ConStorage(w) = e
    <3>1. w = c /\ Vive(e)'
      BY <1>5, <2>0, <2>1 DEF Vive
    <3>2. IF paso'[w].en \in Sirviendo THEN paso'[w].con = "master" ELSE qi'[w] = "no"
      BY <1>1, <2>0, <2>1, <3>1 DEF Turnos
    <3>3. "storage" \in vivo' /\ Destino(e)' = "storage" =>
             /\ sock'[e].hacia.cliente = << >> /\ sock'[e].hacia.servidor = << >>
             /\ hilo'[e] \notin SinContestar
      BY <1>3, <1>5, <2>0, <2>1, <3>1
    <3> QED BY <2>0, <2>1, <3>2, <3>3, EmptySeq DEF Turnos, SinContestar
  <2>2. CASE ConStorage(w) # e
    <3>1. paso'[w].en \in Sirviendo => paso'[w].con = "master" \/ paso'[w] = paso[w]
      BY <2>0
    <3>2. /\ paso'[w].en \notin Sirviendo => paso[w].en \notin Sirviendo /\ qi'[w] = qi[w]
          /\ qi'[w] # "respuesta" => qi[w] # "respuesta"
      BY <2>0, <2>2
    <3> QED BY <1>6, <2>0, <2>2, <3>1, <3>2, QuietoTurnos
  <2> QED BY <2>1, <2>2
<1> QED BY <1>4, <1>7, <1>8, ClienteInv

LEMMA RecibePaginaInv ==
    ASSUME Inv, NEW c \in Clientes, RecibePagina(c)
    PROVE  Inv'
<1>0. PICK e \in Enlaces : e = Enlace(c)
  BY EnlaceDe DEF RecibePagina, En
<1>1. /\ c \in vivo /\ paso[c].en = "espera" /\ Tipos /\ c \in Workers /\ e[2] = "storage"
      /\ UNCHANGED <<servidor, equivocados, hilosWorker, sigpipe>>
  BY <1>0 DEF RecibePagina, En, Inv, historia
<1>2. /\ e[1] = c /\ e[2] = paso[c].con /\ e # NULL /\ c \notin QueryControls
  BY <1>0, <1>1, EnlaceDe, EnlaceTipo, ConexionesSupuesto
<1>3. [hm |-> hm', qi |-> qi'] \in Hilos /\ qi' = qi
  BY <1>1 DEF Hilos, hilosWorker, Tipos
<1>4. CASE Termina(c, sock) /\ UNCHANGED clientes
  BY <1>1, <1>3, <1>4, ClienteMuereInv DEF Tipos, clientes
<1>5. CASE /\ Hay(sock[e], "cliente") /\ sock' = [sock EXCEPT ![e] = Lee(@, "cliente")]
           /\ pagina' = pagina \cup {c} /\ UNCHANGED vivo
           /\ paso' = [paso EXCEPT ![c] = [con |-> "master", en |-> "conecta"]]
  <2>1. /\ paso' \in [Clientes -> [con : Servidores, en : Donde]]
        /\ paso'[c].con = "master" /\ paso'[c].en = "conecta"
        /\ \A d \in Clientes \ {c} : paso'[d] = paso[d]
        /\ pagina' \subseteq Workers /\ pagina \subseteq pagina' /\ c \in pagina'
    BY <1>1, <1>5 DEF Tipos, Servidores, Donde
  <2>2. Presentado(e) /\ Presentado(e)' /\ ~SinRespuesta(e)'
    BY <1>1, <1>2, <2>1 DEF Sirviendo, Presentado, SinRespuesta
  <2>3. ASSUME NEW d \in Enlaces \ {e}, d[1] = c PROVE MismoPaso(d)
    <3>1. d[2] = "master"
      BY <1>1, <1>2, <2>3, EnlaceTipo DEF Servidores
    <3> QED BY <1>1, <1>2, <2>1, <2>3, <3>1
            DEF MismoPaso, PorConectar, Presentado, SinRespuesta, Espera, Sirviendo
  <2>4. sock' = [sock EXCEPT ![e] = Lee(sock[e], "cliente")]
    BY <1>5
  <2>5. paso'[c].en \notin Sirviendo /\ paso[c].en \notin Sirviendo
    BY <1>1, <2>1 DEF Sirviendo
  <2> QED BY <1>1, <1>2, <1>3, <1>5, <2>1, <2>2, <2>3, <2>4, <2>5, LecturaInv
<1> QED BY <1>0, <1>4, <1>5 DEF RecibePagina

LEMMA ConfirmaInv ==
    ASSUME Inv, NEW c \in Clientes, Confirma(c)
    PROVE  Inv'
<1>0. PICK e \in Enlaces : e = Enlace(c)
  BY EnlaceDe DEF Confirma, En
<1>1. /\ c \in vivo /\ paso[c].en = "espera" /\ Tipos /\ e[2] = "master"
      /\ UNCHANGED <<servidor, equivocados, pagina, sigpipe>>
  BY <1>0 DEF Confirma, En, Inv, historia
<1>2. /\ e[1] = c /\ e[2] = paso[c].con /\ e # NULL
  BY <1>0, <1>1, EnlaceDe, EnlaceTipo
<1>5. ASSUME NEW donde \in Sirviendo,
             /\ Hay(sock[e], "cliente") \/ (c \in Workers /\ Cortada(sock[e], "cliente"))
             /\ sock' = IF Hay(sock[e], "cliente")
                        THEN [sock EXCEPT ![e] = Lee(@, "cliente")] ELSE sock
             /\ Avanza(c, donde) /\ UNCHANGED vivo
             /\ hm' = [w \in Workers |-> IF w = c THEN "recibe" ELSE hm[w]]
             /\ qi' = [w \in Workers |-> IF w = c THEN "espera" ELSE qi[w]]
      PROVE  Inv'
  <2>1. /\ paso' = [paso EXCEPT ![c].en = donde]
        /\ paso' \in [Clientes -> [con : Servidores, en : Donde]]
        /\ paso'[c].con = paso[c].con /\ paso'[c].en = donde
        /\ \A d \in Clientes \ {c} : paso'[d] = paso[d]
    BY <1>1, <1>5 DEF Avanza, Tipos, Donde, Sirviendo
  <2>2. Presentado(e) /\ Presentado(e)' /\ ~SinRespuesta(e)'
    BY <1>1, <1>2, <1>5, <2>1 DEF Presentado, SinRespuesta, Sirviendo
  <2>3. ASSUME NEW d \in Enlaces \ {e}, d[1] = c PROVE MismoPaso(d)
    BY <1>0, <1>1, <2>1, <2>3, OtroEnlace
  <2>4. \/ Hay(sock[e], "cliente") /\ sock' = [sock EXCEPT ![e] = Lee(sock[e], "cliente")]
        \/ Cortada(sock[e], "cliente") /\ sock' = sock
    BY <1>5
  <2>5. [hm |-> hm', qi |-> qi'] \in Hilos /\ \A w \in Workers : qi'[w] = IF w = c THEN "espera" ELSE qi[w]
    BY <1>1, <1>5 DEF Hilos, Tipos
  <2>6. c \in Workers => qi[c] = "no"
    BY <1>1, <1>2, EnlacesDe DEF Inv, Turnos, Vive, Sirviendo
  <2>7. c \in Workers => /\ paso'[c].en \in Sirviendo /\ paso'[c].con = "master"
                         /\ qi'[c] # "respuesta" => qi[c] # "respuesta" \/ e = ConStorage(c)
    BY <1>1, <1>2, <1>5, <2>1, <2>5, <2>6
  <2>8. /\ pagina' = pagina /\ pagina \subseteq Workers /\ vivo' = vivo
        /\ \A w \in Workers \ {c} : qi'[w] = qi[w]
    BY <1>1, <1>5, <2>5 DEF Tipos
  <2> QED BY <1>1, <1>2, <2>1, <2>2, <2>3, <2>4, <2>5, <2>7, <2>8, LecturaInv
<1>6. CASE Termina(c, sock) /\ UNCHANGED <<paso, hilosWorker>>
  <2>1. [hm |-> hm', qi |-> qi'] \in Hilos /\ qi' = qi
    BY <1>1, <1>6 DEF Hilos, hilosWorker, Tipos
  <2> QED BY <1>1, <1>6, <2>1, ClienteMuereInv DEF Tipos
<1>7. ASSUME Hay(sock[e], "cliente"), sock' = [sock EXCEPT ![e] = Lee(@, "cliente")],
             Avanza(c, IF Head(sock[e].hacia.cliente) = "CONFIRMACION" THEN "sirve" ELSE "desfasado"),
             UNCHANGED vivo,
             hm' = [w \in Workers |-> IF w = c THEN "recibe" ELSE hm[w]],
             qi' = [w \in Workers |-> IF w = c THEN "espera" ELSE qi[w]]
      PROVE  Inv'
  <2>1. PICK donde \in Sirviendo :
           donde = IF Head(sock[e].hacia.cliente) = "CONFIRMACION" THEN "sirve" ELSE "desfasado"
    BY DEF Sirviendo
  <2> QED BY <1>5, <1>7, <2>1
<1>8. ASSUME c \in Workers, Cortada(sock[e], "cliente"), UNCHANGED <<sock, vivo>>, Avanza(c, "sirve"),
             hm' = [w \in Workers |-> IF w = c THEN "recibe" ELSE hm[w]],
             qi' = [w \in Workers |-> IF w = c THEN "espera" ELSE qi[w]]
      PROVE  Inv'
  <2>1. "sirve" \in Sirviendo /\ ~Hay(sock[e], "cliente")
    BY <1>8 DEF Sirviendo, Cortada
  <2> QED BY <1>5, <1>8, <2>1
<1> QED BY <1>0, <1>6, <1>7, <1>8 DEF Confirma

LEMMA EscuchaInv ==
    ASSUME Inv, NEW c \in Clientes, Escucha(c)
    PROVE  Inv'
<1>0. PICK e \in Enlaces : e = Enlace(c)
  BY EnlaceDe DEF Escucha, En
<1>1. /\ c \in vivo /\ paso[c].en = "sirve" /\ Tipos /\ c \in QueryControls
      /\ UNCHANGED <<servidor, equivocados, paso, pagina, hilosWorker, sigpipe>>
  BY DEF Escucha, En, Inv, historia, clientes
<1>2. /\ e[1] = c /\ e[2] = paso[c].con /\ e # NULL /\ c \notin Workers
  BY <1>0, <1>1, EnlaceDe, EnlaceTipo, ConexionesSupuesto
<1>3. [hm |-> hm', qi |-> qi'] \in Hilos /\ qi' = qi
  BY <1>1 DEF Hilos, hilosWorker, Tipos
<1>4. CASE Termina(c, sock)
  BY <1>1, <1>3, <1>4, ClienteMuereInv DEF Tipos
<1>5. CASE UNCHANGED vivo /\ Hay(sock[e], "cliente") /\ sock' = [sock EXCEPT ![e] = Lee(@, "cliente")]
  <2>1. Presentado(e) /\ Presentado(e)' /\ ~SinRespuesta(e)' /\ \A d \in Enlaces : d[1] = c => MismoPaso(d)
    BY <1>1, <1>2 DEF Presentado, Sirviendo, SinRespuesta, MismoPaso, PorConectar, Espera
  <2>2. sock' = [sock EXCEPT ![e] = Lee(sock[e], "cliente")]
    BY <1>5
  <2> QED BY <1>1, <1>2, <1>3, <1>5, <2>1, <2>2, LecturaInv DEF Tipos
<1> QED BY <1>0, <1>4, <1>5 DEF Escucha, FinDeEscucha

LEMMA DesfasadoInv ==
    ASSUME Inv, NEW c \in Clientes, Desfasado(c)
    PROVE  Inv'
<1>0. PICK e \in Enlaces : e = Enlace(c)
  BY EnlaceDe DEF Desfasado, En
<1>1. /\ c \in vivo /\ paso[c].en \in Sirviendo /\ Tipos
      /\ UNCHANGED <<servidor, equivocados, paso, pagina, hilosWorker, sigpipe>>
  BY DEF Desfasado, En, Inv, historia, clientes, Sirviendo
<1>2. /\ e[1] = c /\ e[2] = paso[c].con /\ e # NULL
  BY <1>0, <1>1, EnlaceDe, EnlaceTipo
<1>3. [hm |-> hm', qi |-> qi'] \in Hilos /\ qi' = qi
  BY <1>1 DEF Hilos, hilosWorker, Tipos
<1>4. CASE Termina(c, sock)
  BY <1>1, <1>3, <1>4, ClienteMuereInv DEF Tipos
<1>5. CASE UNCHANGED vivo /\ Hay(sock[e], "cliente") /\ sock' = [sock EXCEPT ![e] = Lee(@, "cliente")]
  <2>1. Presentado(e) /\ Presentado(e)' /\ ~SinRespuesta(e)' /\ \A d \in Enlaces : d[1] = c => MismoPaso(d)
    BY <1>1, <1>2 DEF Presentado, Sirviendo, SinRespuesta, MismoPaso, PorConectar, Espera
  <2>2. sock' = [sock EXCEPT ![e] = Lee(sock[e], "cliente")]
    BY <1>5
  <2>3. c \in Workers => paso[c].con = "master"
    BY <1>1, EnlacesDe DEF Inv, Turnos, Vive
  <2> QED BY <1>1, <1>2, <1>3, <1>5, <2>1, <2>2, <2>3, LecturaInv DEF Tipos
<1> QED BY <1>0, <1>4, <1>5 DEF Desfasado

\* The threads of a Worker run once its main has both connections.
LEMMA Trabajando ==
    ASSUME Inv, NEW w \in Workers, Trabaja(w)
    PROVE  /\ w \in Clientes /\ w \in vivo /\ w \notin QueryControls
           /\ paso[w].con = "master" /\ paso[w].en = "sirve"
           /\ \A e \in Enlaces : e[1] = w => /\ Vive(e) /\ Presentado(e) /\ ~SinRespuesta(e)
                                             /\ ~PorConectar(e) /\ ~Espera(e)
<1>1. /\ w \in Clientes /\ w \in vivo /\ w \notin QueryControls /\ paso[w].en = "sirve"
  BY ConexionesSupuesto DEF Trabaja, En, Clientes
<1>2. paso[w].con = "master"
  BY <1>1, EnlacesDe DEF Inv, Turnos, Vive, Sirviendo
<1>3. ASSUME NEW e \in Enlaces, e[1] = w
      PROVE  Vive(e) /\ Presentado(e) /\ ~SinRespuesta(e) /\ ~PorConectar(e) /\ ~Espera(e)
  <2>1. e[2] \in {"storage", "master"}
    BY EnlaceTipo DEF Servidores
  <2> QED BY <1>1, <1>2, <1>3, <2>1 DEF Vive, Presentado, Sirviendo, SinRespuesta, PorConectar, Espera
<1> QED BY <1>1, <1>2, <1>3

\* A thread of a Worker reads.
LEMMA LeeHiloInv ==
    ASSUME Inv, NEW w \in Workers, Trabaja(w), NEW e \in Enlaces, e[1] = w,
           UNCHANGED <<vivo, sigpipe, servidor, equivocados, clientes>>,
           \/ Hay(sock[e], "cliente") /\ sock' = [sock EXCEPT ![e] = Lee(sock[e], "cliente")]
           \/ Cortada(sock[e], "cliente") /\ sock' = sock,
           [hm |-> hm', qi |-> qi'] \in Hilos, \A v \in Workers \ {w} : qi'[v] = qi[v],
           qi'[w] # "respuesta" => qi[w] # "respuesta" \/ e = ConStorage(w)
    PROVE  Inv'
<1>1. /\ w \in Clientes /\ w \in vivo /\ w \notin QueryControls
      /\ paso[w].con = "master" /\ paso[w].en = "sirve" /\ Presentado(e) /\ ~SinRespuesta(e)
      /\ ~Espera(e)
  BY Trabajando
<1>2. paso' = paso /\ pagina' = pagina /\ Tipos
  BY DEF clientes, Inv
<1>3. /\ Presentado(e)' /\ ~SinRespuesta(e)' /\ \A d \in Enlaces : MismoPaso(d)
  BY <1>1, <1>2 DEF Sirviendo, Presentado, SinRespuesta, MismoPaso, PorConectar, Espera
<1>4. paso \in [Clientes -> [con : Servidores, en : Donde]] /\ pagina \subseteq Workers
  BY <1>2 DEF Tipos
<1>5. paso'[w].en \in Sirviendo
  BY <1>1, <1>2 DEF Sirviendo
<1> QED BY <1>1, <1>2, <1>3, <1>4, <1>5, LecturaInv

LEMMA HiloMasterInv ==
    ASSUME Inv, NEW w \in Workers, HiloMaster(w)
    PROVE  Inv'
<1> DEFINE k == sock[ConMaster(w)]
           m == IF Hay(k, "cliente") THEN Head(k.hacia.cliente) ELSE "CORTE"
<1>0. PICK e \in Enlaces : e = ConMaster(w)
  BY EnlacesDe DEF Clientes
<1>1. /\ Trabaja(w) /\ hm[w] = "recibe" /\ Tipos /\ e[1] = w
      /\ UNCHANGED <<vivo, servidor, clientes, sigpipe, equivocados>>
  BY <1>0, EnlacesDe DEF HiloMaster, Inv, historia, Clientes
<1>2. CASE /\ Hay(k, "cliente") /\ (m = "ASIGNAR" => qi[w] = "espera")
           /\ sock' = [sock EXCEPT ![ConMaster(w)] = Lee(@, "cliente")]
           /\ qi' = IF m = "ASIGNAR" THEN [qi EXCEPT ![w] = "ejecuta"] ELSE qi
           /\ UNCHANGED hm
  <2>1. Hay(sock[e], "cliente") /\ sock' = [sock EXCEPT ![e] = Lee(sock[e], "cliente")]
    BY <1>0, <1>2
  <2> HIDE DEF m
  <2>2. [hm |-> hm', qi |-> qi'] \in Hilos /\ (\A v \in Workers \ {w} : qi'[v] = qi[v])
        /\ (qi'[w] # "respuesta" => qi[w] # "respuesta")
    BY <1>1, <1>2 DEF Hilos, Tipos
  <2> QED BY <1>1, <2>1, <2>2, LeeHiloInv
<1>3. CASE Cortada(k, "cliente") /\ hm' = [hm EXCEPT ![w] = "fin"] /\ UNCHANGED <<sock, qi>>
  <2>1. Cortada(sock[e], "cliente") /\ sock' = sock /\ qi' = qi
    BY <1>0, <1>3
  <2>2. [hm |-> hm', qi |-> qi'] \in Hilos
    BY <1>1, <1>3 DEF Hilos, Tipos
  <2> QED BY <1>1, <2>1, <2>2, LeeHiloInv
<1> QED BY <1>2, <1>3 DEF HiloMaster

LEMMA InterpreteEfecto ==
    ASSUME Inv, NEW w \in Workers, NEW donde, NEW sigue \in {"espera", "respuesta", "lectura", "notifica"},
           Interprete(w, donde, sigue)
    PROVE  /\ Trabaja(w) /\ qi[w] = donde /\ qi'[w] = sigue
           /\ UNCHANGED <<servidor, clientes, equivocados>>
           /\ [hm |-> hm', qi |-> qi'] \in Hilos /\ \A v \in Workers \ {w} : qi'[v] = qi[v]
BY DEF Interprete, Inv, Tipos, Hilos, historia

LEMMA RecibeRespuestaInv ==
    ASSUME Inv, NEW w \in Workers, RecibeRespuesta(w)
    PROVE  Inv'
<1>0. PICK e \in Enlaces : e = ConStorage(w)
  BY EnlacesDe
<1>1. PICK sigue \in {"lectura", "notifica"} : Interprete(w, "respuesta", sigue)
  BY DEF RecibeRespuesta
<1>2. /\ UNCHANGED <<vivo, sigpipe>> /\ e[1] = w
      /\ \/ Hay(sock[e], "cliente") /\ sock' = [sock EXCEPT ![e] = Lee(sock[e], "cliente")]
         \/ Cortada(sock[e], "cliente") /\ sock' = sock
  BY <1>0, EnlacesDe DEF RecibeRespuesta
<1>3. /\ Trabaja(w) /\ UNCHANGED <<servidor, clientes, equivocados>>
      /\ [hm |-> hm', qi |-> qi'] \in Hilos /\ \A v \in Workers \ {w} : qi'[v] = qi[v]
  BY <1>1, InterpreteEfecto
<1> QED BY <1>0, <1>2, <1>3, LeeHiloInv

\* A thread of a Worker sends, or dies doing it.
LEMMA EscribeHiloInv ==
    ASSUME Inv, NEW w \in Workers, Trabaja(w), NEW e \in Enlaces, e[1] = w,
           NEW m \in Mensajes, Envia(w, sock, e, "cliente", m),
           UNCHANGED <<servidor, equivocados, clientes>>,
           [hm |-> hm', qi |-> qi'] \in Hilos, \A v \in Workers \ {w} : qi'[v] = qi[v],
           qi[w] # "respuesta",
           IF e = ConStorage(w) THEN qi'[w] = "respuesta" \/ Rota(sock[e], "cliente")
           ELSE qi'[w] # "respuesta"
    PROVE  Inv'
<1>1. /\ w \in Clientes /\ w \in vivo /\ w \notin QueryControls
      /\ paso[w].con = "master" /\ paso[w].en = "sirve" /\ Presentado(e) /\ ~SinRespuesta(e)
      /\ ~PorConectar(e) /\ Vive(e)
  BY Trabajando
<1>2. /\ paso' = paso /\ pagina' = pagina /\ Tipos
      /\ paso \in [Clientes -> [con : Servidores, en : Donde]] /\ pagina \subseteq Workers
  BY DEF clientes, Inv, Tipos
<1>3. /\ sock \in [Enlaces -> Canales] /\ sock[e] \in Canales /\ Bien(e)
      /\ "cliente" \in Lados /\ "servidor" \in Lados /\ Otro("cliente") = "servidor"
  BY <1>2 DEF Inv, Tipos, Lados, Otro
<1>4. \A d \in Enlaces : MismoPaso(d)
  BY <1>2 DEF Sirviendo, Presentado, SinRespuesta, MismoPaso, PorConectar, Espera
<1> DEFINE k == Escribe(sock[e], "cliente", m)
<1>5. /\ k \in Canales /\ k.abierto = sock[e].abierto /\ k.hacia.cliente = sock[e].hacia.cliente
      /\ "servidor" \in k.abierto => /\ k.hacia.servidor = Append(sock[e].hacia.servidor, m)
                                     /\ k.rst = sock[e].rst
      /\ "servidor" \notin k.abierto => k.hacia.servidor = << >>
  BY <1>3, DeCliente
<1>6. \/ /\ vivo' = vivo /\ sigpipe' = sigpipe /\ sock' \in [Enlaces -> Canales]
         /\ \A d \in Enlaces \ {e} : sock'[d] = sock[d]
         /\ \/ sock'[e] = sock[e] /\ (Rota(sock[e], "cliente") \/ "cliente" \notin sock[e].abierto)
            \/ sock'[e] = k /\ ~Rota(sock[e], "cliente") /\ "cliente" \in sock[e].abierto
      \/ Rota(sock[e], "cliente") /\ Muere(w)
  BY <1>3, EnviaEfecto
<1> HIDE DEF k
<1>7. CASE Muere(w)
  <2>1. Termina(w, sock) /\ sigpipe' = sigpipe \cup {w}
    BY <1>7 DEF Muere
  <2> QED BY <1>1, <1>2, <2>1, ClienteMuereInv
<1>8. CASE /\ vivo' = vivo /\ sigpipe' = sigpipe /\ sock' \in [Enlaces -> Canales]
           /\ \A d \in Enlaces \ {e} : sock'[d] = sock[d]
           /\ sock'[e] = k \/ (sock'[e] = sock[e] /\ Rota(sock[e], "cliente"))
           /\ Rota(sock[e], "cliente") => sock'[e] = sock[e]
  <2>1. /\ \A d \in Enlaces : (EnCamino(d)' <=> EnCamino(d)) /\ Destino(d)' = Destino(d)
        /\ hilo' = hilo /\ vivo' = vivo /\ equivocados' = equivocados
        /\ socketQuery' = socketQuery /\ (Heredada(e)' <=> Heredada(e))
    BY <1>8, SinServidor, NumerosIguales
  <2>2. ASSUME NEW d \in Enlaces, sock'[d] = sock[d] PROVE Quieto(d)
    BY <1>4, <2>1, <2>2, IgualQuieto
  <2>3. ASSUME sock'[e] = k PROVE Bien(e)'
    <3>1. DelHilo(e)'
      BY <1>2, <1>3, <2>1, Trabajando DEF Sirviendo, Bien, DelHilo, Vive, Presentado
    <3>2. DelServidor(e)'
      <4> SUFFICES ASSUME Destino(e) \in vivo PROVE DelServidor(e)'
        BY <2>1 DEF DelServidor
      <4>1. EnCamino(e) \/ hilo[e] \in Atendiendo => "servidor" \in k.abierto
        BY <1>3, <1>5 DEF Bien, DelServidor
      <4>2. ASSUME EnCamino(e)
            PROVE  k.hacia.servidor # << >> /\ Head(k.hacia.servidor) = Saludo(e)
        <5>1. sock[e].hacia.servidor # << >> /\ Head(sock[e].hacia.servidor) = Saludo(e)
          BY <1>1, <1>3, <4>2 DEF Bien, DelServidor
        <5>2. k.hacia.servidor = Append(sock[e].hacia.servidor, m)
              /\ sock[e].hacia.servidor \in Seq(Mensajes)
          BY <1>3, <1>5, <4>1, <4>2, CanalTipo
        <5> QED BY <5>1, <5>2, AlFinal
      <4>3. (EnCamino(e) \/ hilo[e] = "confirma") /\ ~Heredada(e) => k.hacia.cliente = << >> /\ ~k.rst
        BY <1>3, <1>5, <4>1 DEF Bien, DelServidor, Atendiendo
      <4>4. Presentado(e)' /\ (Vive(e)' <=> Vive(e)) /\ Saludo(e)' = Saludo(e)
        BY <1>1, <1>4, <2>1 DEF Vive, Saludo, MismoPaso
      <4> QED BY <2>1, <2>3, <4>1, <4>2, <4>3, <4>4 DEF DelServidor
    <3>3. DelCliente(e)'
      <4>1. ~PorConectar(e)' /\ ~SinRespuesta(e)' /\ "cliente" \in k.abierto
        BY <1>1, <1>3, <1>4, <1>5 DEF Bien, DelCliente, MismoPaso
      <4> QED BY <2>3, <4>1 DEF DelCliente
    <3> QED BY <3>1, <3>2, <3>3 DEF Bien
  <2>4. \A d \in Enlaces : Bien(d)'
    BY <1>8, <2>2, <2>3, QuietoBien DEF Inv
  <2>5. ASSUME NEW v \in Workers PROVE Turnos(v)'
    <3>0. Turnos(v) /\ ConStorage(v) \in Enlaces /\ ConStorage(v)[1] = v /\ v \in Clientes
          /\ ConStorage(v)' = ConStorage(v) /\ ConStorage(v)[2] = "storage"
      BY EnlacesDe DEF Inv, Clientes, ConStorage
    <3>1. CASE ConStorage(v) # e
      <4>1. v = w => paso'[v].en \in Sirviendo /\ qi'[v] # "respuesta"
        BY <1>1, <1>2, <3>1 DEF Sirviendo
      <4>2. paso'[v] = paso[v] /\ (v # w => qi'[v] = qi[v])
        BY <1>2
      <4> QED BY <1>8, <2>2, <3>0, <3>1, <4>1, <4>2, QuietoTurnos
    <3>2. CASE ConStorage(v) = e
      <4>1. v = w /\ Vive(e)' /\ paso'[v].en \in Sirviendo /\ paso'[v].con = "master"
        BY <1>1, <1>2, <2>1, <3>0, <3>2 DEF Vive, Sirviendo
      <4>2. ASSUME "storage" \in vivo, Destino(e) = "storage"
            PROVE  /\ Len(sock'[e].hacia.servidor) <= 1 /\ Len(sock'[e].hacia.cliente) <= 1
                   /\ sock'[e].hacia.servidor # << >> => sock'[e].hacia.cliente = << >> /\ ~sock'[e].rst
                   /\ qi'[v] # "respuesta" =>
                         sock'[e].hacia.servidor = << >> /\ sock'[e].hacia.cliente = << >>
                   /\ hilo'[e] \notin SinContestar
        <5>0. hilo'[e] \notin SinContestar
          BY <1>1, <2>1, <3>0, <3>2, <4>1, <4>2, Trabajando DEF Turnos
        <5>1. sock[e].hacia.servidor = << >> /\ sock[e].hacia.cliente = << >> /\ ~Espera(e)
          BY <1>1, <3>0, <3>2, <4>1, <4>2, Trabajando DEF Turnos
        <5>2. CASE sock'[e] = sock[e]
          BY <5>0, <5>1, <5>2, EmptySeq
        <5>3. CASE sock'[e] = k /\ ~Rota(sock[e], "cliente")
          <6>1. qi'[v] = "respuesta"
            BY <3>2, <4>1, <5>3
          <6>2. k.hacia.cliente = << >> /\ Len(k.hacia.cliente) = 0
            BY <1>5, <5>1, EmptySeq
          <6>3. Len(k.hacia.servidor) <= 1
            <7>1. Len(Append(sock[e].hacia.servidor, m)) = 1
              BY <1>3, <5>1, AlFinal, CanalTipo
            <7>2. CASE "servidor" \in k.abierto
              BY <1>5, <7>1, <7>2
            <7>3. CASE "servidor" \notin k.abierto
              BY <1>5, <7>3, EmptySeq
            <7> QED BY <7>2, <7>3
          <6>4. ASSUME k.hacia.servidor # << >> PROVE ~k.rst
            <7>1. "servidor" \in k.abierto /\ "cliente" \in k.abierto
              BY <1>1, <1>3, <1>5, <6>4 DEF Bien, DelCliente
            <7>2. k.abierto = Lados
              BY <1>5, <7>1, CanalTipo DEF Lados
            <7> QED BY <1>5, <7>2, CanalTipo
          <6> QED BY <5>0, <5>3, <6>1, <6>2, <6>3, <6>4
        <5> QED BY <1>8, <5>2, <5>3
      <4> QED BY <2>1, <3>0, <3>2, <4>1, <4>2 DEF Turnos, SinContestar
    <3> QED BY <3>1, <3>2
  <2> QED BY <1>1, <1>2, <1>8, <2>4, <2>5, ClienteInv
<1> QED
  <2>1. "cliente" \in sock[e].abierto
    BY <1>1, <1>3 DEF Bien, DelCliente
  <2> QED BY <1>6, <1>7, <1>8, <2>1

LEMMA HiloQueryInterpreterInv ==
    ASSUME Inv, NEW w \in Workers, HiloQueryInterpreter(w)
    PROVE  Inv'
<1> USE DEF Mensajes
<1>1. CASE SinPedidos(w)
  <2>1. Interprete(w, "ejecuta", "notifica") /\ Sigue
    BY <1>1 DEF SinPedidos
  <2>2. /\ Trabaja(w) /\ qi[w] = "ejecuta" /\ qi'[w] = "notifica"
        /\ UNCHANGED <<servidor, clientes, equivocados>>
        /\ [hm |-> hm', qi |-> qi'] \in Hilos /\ \A v \in Workers \ {w} : qi'[v] = qi[v]
    BY <2>1, InterpreteEfecto
  <2>3. /\ vivo' = vivo /\ sock' = sock /\ sigpipe' = sigpipe /\ paso' = paso /\ pagina' = pagina
        /\ Tipos
    BY <2>1, <2>2 DEF Sigue, clientes, Inv
  <2>4. \A d \in Enlaces : Quieto(d)
    BY <2>2, <2>3, IgualQuieto, SinServidor
  <2>5. \A d \in Enlaces : Bien(d)'
    BY <2>4, QuietoBien DEF Inv
  <2>6. ASSUME NEW v \in Workers PROVE Turnos(v)'
    <3>1. paso[w].en \in Sirviendo /\ Turnos(v) /\ ConStorage(v) \in Enlaces
      BY <2>2, EnlacesDe DEF Trabaja, En, Inv, Sirviendo
    <3>2. paso'[v] = paso[v] /\ (IF v = w
                                 THEN paso'[v].en \in Sirviendo /\ qi'[v] # "respuesta" /\ qi[v] # "respuesta"
                                 ELSE qi'[v] = qi[v])
      BY <2>2, <2>3, <3>1
    <3> QED BY <2>4, <3>1, <3>2, QuietoTurnos
  <2> QED BY <2>2, <2>3, <2>5, <2>6, ClienteInv DEF Tipos, Clientes
<1>2. CASE Pide(w)
  <2>0. PICK e \in Enlaces : e = ConStorage(w)
    BY EnlacesDe
  <2>1. PICK sigue \in {"notifica", "respuesta"} :
           /\ Interprete(w, "ejecuta", sigue) /\ Envia(w, sock, e, "cliente", "PEDIDO")
           /\ sigue = "respuesta" \/ Rota(sock[e], "cliente")
    BY <1>2, <2>0 DEF Pide
  <2>2. /\ Trabaja(w) /\ qi[w] = "ejecuta" /\ qi'[w] = sigue
        /\ UNCHANGED <<servidor, clientes, equivocados>>
        /\ [hm |-> hm', qi |-> qi'] \in Hilos /\ \A v \in Workers \ {w} : qi'[v] = qi[v]
    BY <2>1, InterpreteEfecto
  <2>3. e[1] = w
    BY <2>0, EnlacesDe
  <2> QED BY <2>0, <2>1, <2>2, <2>3, EscribeHiloInv
<1>3. CASE RecibeRespuesta(w)
  BY <1>3, RecibeRespuestaInv
<1>4. ASSUME NEW donde, NEW sigue \in {"espera", "notifica"}, NEW m \in Mensajes,
             Interprete(w, donde, sigue), donde # "respuesta",
             Envia(w, sock, ConMaster(w), "cliente", m)
      PROVE  Inv'
  <2>0. PICK e \in Enlaces : e = ConMaster(w)
    BY EnlacesDe DEF Clientes
  <2>1. Envia(w, sock, e, "cliente", m)
    BY <1>4, <2>0
  <2>2. /\ Trabaja(w) /\ qi[w] = donde /\ qi'[w] = sigue
        /\ UNCHANGED <<servidor, clientes, equivocados>>
        /\ [hm |-> hm', qi |-> qi'] \in Hilos /\ \A v \in Workers \ {w} : qi'[v] = qi[v]
    BY <1>4, InterpreteEfecto
  <2>3. e[1] = w /\ e # ConStorage(w)
    BY <2>0, EnlacesDe DEF Clientes
  <2> QED BY <1>4, <2>1, <2>2, <2>3, EscribeHiloInv
<1> QED BY <1>1, <1>2, <1>3, <1>4 DEF HiloQueryInterpreter, EnviaLectura, Notifica

-----------------------------------------------------------------------------
(***************************************************************************)
(* The steps of the servers.                                               *)
(***************************************************************************)
\* The clients take no part in the step.
LEMMA SinCliente ==
    ASSUME Inv, UNCHANGED <<clientes, hilosWorker, equivocados>>
    PROVE  /\ paso' = paso /\ pagina' = pagina /\ hm' = hm /\ qi' = qi /\ equivocados' = equivocados
           /\ Tipos /\ sock \in [Enlaces -> Canales]
           /\ \A e \in Enlaces : /\ MismoPaso(e) /\ Destino(e)' = Destino(e)
                                 /\ Saludo(e)' = Saludo(e) /\ Respuesta(e)' = Respuesta(e)
                                 /\ vivo' = vivo => (Vive(e)' <=> Vive(e))
BY DEF Sirviendo, clientes, hilosWorker, Inv, Tipos, MismoPaso, PorConectar, Presentado, SinRespuesta,
       Espera, Destino, Saludo, Respuesta, Vive

\* A server does something with one connection that the client does not see, or does not
\* take for the answer to its handshake.
LEMMA DelClienteIgual ==
    ASSUME Inv, UNCHANGED <<clientes, hilosWorker, equivocados>>, vivo' \subseteq vivo,
           NEW e \in Enlaces, EnCamino(e)' => EnCamino(e), socketQuery' = socketQuery,
           Vive(e)' => LadoCliente(sock[e], sock'[e]),
           Vive(e)' /\ e[2] \in vivo' => (hilo'[e] \in SinContestar <=> hilo[e] \in SinContestar)
    PROVE  DelCliente(e)'
<1>1. MismoPaso(e) /\ Respuesta(e)' = Respuesta(e) /\ Bien(e)
  BY SinCliente DEF Inv
<1>2. Vive(e)' => Vive(e)
  BY DEF Vive
<1>3. Heredada(e)' <=> Heredada(e)
  BY NumerosIguales
<1> QED BY <1>1, <1>2, <1>3 DEF Bien, DelCliente, LadoCliente, MismoPaso, SinContestar, Primero

LEMMA AceptaInv ==
    ASSUME Inv, NEW s \in Servidores, Acepta(s)
    PROVE  Inv'
<1>1. /\ s \in vivo /\ receptor[s].en = "acepta" /\ cola[s] # << >>
      /\ receptor' = [receptor EXCEPT ![s] = [en |-> "lee", de |-> Head(cola[s])]]
      /\ cola' = [cola EXCEPT ![s] = Tail(cola[s])]
      /\ UNCHANGED <<vivo, sock, hilo, cuenta, clientes, semListo, sem, lista, asignada, estado,
                     hilosWorker, sigpipe, equivocados>>
  BY DEF Acepta, Recibe, historia
<1>2. /\ paso' = paso /\ pagina' = pagina /\ hm' = hm /\ qi' = qi
      /\ Tipos /\ \A e \in Enlaces : MismoPaso(e) /\ Destino(e)' = Destino(e)
  BY <1>1, SinCliente
<1>3. /\ cola[s] \in Seq(Enlaces) /\ receptor \in [Servidores -> Puertas]
      /\ cola \in [Servidores -> Seq(Enlaces)] /\ Puerta(s)
  BY <1>2 DEF Tipos, Inv
<1> DEFINE h == Head(cola[s])
           t == Tail(cola[s])
           n == Len(cola[s])
<1>4. /\ h \in Enlaces /\ t \in Seq(Enlaces) /\ h = cola[s][1] /\ 1 \in DOMAIN cola[s]
      /\ \A i \in DOMAIN t : /\ i \in Nat /\ i + 1 \in DOMAIN cola[s] /\ i + 1 # 1
                              /\ t[i] = cola[s][i + 1]
  <2>1. h \in Enlaces /\ t \in Seq(Enlaces) /\ Len(t) = n - 1
        /\ \A i \in 1..Len(t) : t[i] = cola[s][i + 1]
    BY <1>1, <1>3, HeadTailProperties
  <2>2. n \in Nat /\ DOMAIN cola[s] = 1..n /\ DOMAIN t = 1..Len(t) /\ Len(t) \in Nat
    BY <1>3, <2>1, LenProperties
  <2>3. h = cola[s][1]
    BY <1>1, <1>3, HeadTailProperties
  <2>4. n >= 1
    BY <2>1, <2>2
  <2>5. ASSUME NEW i \in DOMAIN t
        PROVE  i \in Nat /\ i + 1 \in DOMAIN cola[s] /\ i + 1 # 1 /\ t[i] = cola[s][i + 1]
    <3>1. i \in 1..Len(t)
      BY <2>2, <2>5
    <3>2. i \in Nat /\ i >= 1 /\ i + 1 <= n
      BY <2>1, <2>2, <3>1
    <3> QED BY <2>1, <2>2, <3>1, <3>2
  <2> QED BY <2>1, <2>2, <2>3, <2>4, <2>5
<1> HIDE DEF h, t, n
<1>5. /\ receptor'[s] = [en |-> "lee", de |-> h] /\ cola'[s] = t
      /\ \A x \in Servidores \ {s} : receptor'[x] = receptor[x] /\ cola'[x] = cola[x]
      /\ cola' \in [Servidores -> Seq(Enlaces)] /\ receptor' \in [Servidores -> Puertas]
  <2>1. [en |-> "lee", de |-> h] \in Puertas
    BY <1>4 DEF Puertas
  <2> QED BY <1>1, <1>3, <1>4, <2>1 DEF h, t
<1>6. /\ receptor[s].de = NULL
      /\ \A i \in DOMAIN cola[s] : Destino(cola[s][i]) = s
      /\ \A i, j \in DOMAIN cola[s] : cola[s][i] = cola[s][j] => i = j
  BY <1>1, <1>3 DEF Puerta
<1>7. ASSUME NEW x \in Servidores PROVE Puerta(x)'
  <2>1. Puerta(x) /\ \A d : Destino(d)' = Destino(d)
    BY <1>1 DEF Inv, Destino
  <2>2. CASE x # s
    BY <1>5, <2>1, <2>2 DEF Puerta
  <2>3. CASE x = s
    <3>1. Destino(h) = s
      BY <1>4, <1>6
    <3>2. \A i \in DOMAIN t : Destino(t[i]) = s /\ t[i] # h
      BY <1>4, <1>6
    <3>3. \A i, j \in DOMAIN t : t[i] = t[j] => i = j
      BY <1>4, <1>6
    <3> QED BY <1>4, <1>5, <2>1, <2>3, <3>1, <3>2, <3>3 DEF Puerta
  <2> QED BY <2>2, <2>3
<1>8. ASSUME NEW e \in Enlaces, EnCamino(e)' PROVE EnCamino(e)
  <2>1. Destino(e) \in Servidores /\ Destino(e)' = Destino(e) /\ e # NULL
    BY <1>2, EnlaceTipo
  <2>2. CASE Destino(e) # s
    BY <1>5, <1>8, <2>1, <2>2 DEF EnCamino, EnCola
  <2>3. CASE Destino(e) = s
    <3>1. e = h \/ \E i \in DOMAIN t : t[i] = e
      BY <1>5, <1>8, <2>1, <2>3 DEF EnCamino, EnCola
    <3>2. \E i \in DOMAIN cola[s] : cola[s][i] = e
      BY <1>4, <3>1
    <3> QED BY <2>3, <3>2 DEF EnCamino, EnCola
  <2> QED BY <2>2, <2>3
<1>14. \/ socketQuery' = socketQuery
       \/ /\ s = "master"
          /\ \E x \in Enlaces : /\ hilo[x] = "fin"
                               /\ socketQuery' = [q \in QueryControls |->
                                                    IF socketQuery[q] = x THEN h ELSE socketQuery[q]]
  BY DEF Acepta, Reusa, h
<1>15. socketQuery \in [QueryControls -> Enlaces] /\ socketQuery' \in [QueryControls -> Enlaces]
  BY <1>2, <1>4, <1>14 DEF Tipos
<1>16. ASSUME NEW e \in Enlaces PROVE Guarda(e)
  <2> SUFFICES ASSUME hilo[e] # "fin", NEW q \in QueryControls, ConMaster(q) # e, socketQuery[q] = e
               PROVE  socketQuery'[q] = e
    BY DEF Guarda, Heredada, ConMaster
  <2> QED BY <1>14
<1>17. ASSUME NEW q \in QueryControls PROVE DelNumero(q)'
  <2>0. Destino(h) = s
    BY <1>3, <1>4 DEF Puerta
  <2> HIDE DEF h
  <2>1. DelNumero(q) /\ ConMaster(q)' = ConMaster(q) /\ vivo' = vivo /\ hilo' = hilo
        /\ equivocados' = equivocados
    BY <1>1 DEF Inv, DelMaster, ConMaster
  <2>2. CASE socketQuery'[q] = socketQuery[q]
    BY <2>1, <2>2 DEF DelNumero, Destino
  <2>3. CASE /\ s = "master" /\ socketQuery'[q] = h /\ hilo[socketQuery[q]] = "fin"
    BY <2>0, <2>1, <2>3 DEF DelNumero, Destino
  <2> QED BY <1>14, <2>2, <2>3
<1>9. \A e \in Enlaces : Quieto(e)
  BY <1>1, <1>2, <1>8, <1>16, IgualQuieto
<1>10. \A e \in Enlaces : Bien(e)'
  BY <1>9, QuietoBien DEF Inv
<1>11. \A w \in Workers : Turnos(w)'
  BY <1>2, <1>9, QuietoTurnos, EnlacesDe DEF Inv
<1>12. Cuentas' /\ DelMaster'
  BY <1>1, <1>2, <1>17, CuentasIguales DEF Inv, DelMaster, ConMaster
<1>13. Tipos'
  BY <1>1, <1>2, <1>5, <1>15 DEF Tipos
<1> QED BY <1>7, <1>10, <1>11, <1>12, <1>13 DEF Inv

\* The thread that accepts is done with the connection it was reading.
LEMMA ReceptorSuelta ==
    ASSUME Inv, NEW s \in Servidores, NEW en \in {"acepta", "fin"}, receptor[s].en = "lee",
           Recibe(s, en, NULL), cola' = cola, equivocados' = equivocados
    PROVE  /\ receptor' \in [Servidores -> Puertas] /\ \A x \in Servidores : Puerta(x)'
           /\ \A d \in Enlaces : EnCamino(d)' => EnCamino(d) /\ d # receptor[s].de
           /\ receptor[s].de \in Enlaces /\ Destino(receptor[s].de) = s /\ EnCamino(receptor[s].de)
<1>1. /\ receptor \in [Servidores -> Puertas] /\ \A x \in Servidores : Puerta(x)
      /\ cola \in [Servidores -> Seq(Enlaces)]
  BY DEF Inv, Tipos
<1>2. /\ receptor'[s] = [en |-> en, de |-> NULL] /\ receptor' \in [Servidores -> Puertas]
      /\ \A x \in Servidores \ {s} : receptor'[x] = receptor[x]
  BY <1>1 DEF Recibe, Puertas
<1>3. receptor[s].de \in Enlaces /\ Destino(receptor[s].de) = s /\ EnCamino(receptor[s].de)
  BY <1>1 DEF Puerta, EnCamino
<1>4. ASSUME NEW x \in Servidores PROVE Puerta(x)'
  <2>1. Puerta(x) /\ \A d : Destino(d)' = Destino(d)
    BY <1>1 DEF Destino
  <2>2. \A i \in DOMAIN cola[x] : cola[x][i] \in Enlaces /\ cola[x][i] # NULL
    BY <1>1, ConexionesSupuesto
  <2> QED BY <1>2, <2>1, <2>2 DEF Puerta
<1>5. ASSUME NEW d \in Enlaces, EnCamino(d)' PROVE EnCamino(d) /\ d # receptor[s].de
  <2>1. Destino(d)' = Destino(d) /\ Destino(d) \in Servidores /\ d # NULL
    BY EnlaceTipo DEF Destino
  <2>2. EnCola(d)' => EnCola(d)
    BY <2>1 DEF EnCola
  <2>3. EnCola(d) /\ Destino(d) = s => d # receptor[s].de
    BY <1>1 DEF EnCola, Puerta
  <2> QED BY <1>2, <1>3, <1>5, <2>1, <2>2, <2>3 DEF EnCamino
<1> QED BY <1>2, <1>3, <1>4, <1>5

LEMMA SaludoReconocido ==
    ASSUME NEW e \in Enlaces, NEW s \in Servidores
    PROVE  Saludo(e) \in Reconoce(s) <=> e[2] = s
BY EnlaceTipo, ConexionesSupuesto DEF Saludo, Reconoce, Servidores

LEMMA RecibeHandshakeInv ==
    ASSUME Inv, NEW s \in Servidores, RecibeHandshake(s)
    PROVE  Inv'
<1>0. PICK en \in {"acepta", "fin"} : /\ receptor[s].en = "lee" /\ Recibe(s, en, NULL)
                                      /\ UNCHANGED <<cola, equivocados>>
  BY DEF RecibeHandshake, historia
<1>1. /\ receptor' \in [Servidores -> Puertas] /\ \A x \in Servidores : Puerta(x)'
      /\ \A d \in Enlaces : EnCamino(d)' => EnCamino(d) /\ d # receptor[s].de
      /\ receptor[s].de \in Enlaces /\ Destino(receptor[s].de) = s /\ EnCamino(receptor[s].de)
  BY <1>0, ReceptorSuelta
<1>2. PICK e \in Enlaces : e = receptor[s].de
  BY <1>1
<1> DEFINE m == Head(sock[e].hacia.servidor)
           leido == [sock EXCEPT ![e] = Lee(sock[e], "servidor")]
<1>3. /\ s \in vivo /\ Hay(sock[e], "servidor") /\ EnCamino(e) /\ ~EnCamino(e)' /\ Destino(e) = s
      /\ UNCHANGED <<cola, cuenta, clientes, maestro, hilosWorker, sigpipe, equivocados>>
  BY <1>1, <1>2 DEF RecibeHandshake, historia
<1>4. \/ /\ m \in Reconoce(s) /\ hilo' = [hilo EXCEPT ![e] = "confirma"]
         /\ sock' = leido /\ UNCHANGED vivo
      \/ /\ m \notin Reconoce(s) /\ UNCHANGED hilo
         /\ IF s = "storage" THEN Termina(s, leido) ELSE sock' = leido /\ UNCHANGED vivo
  <2>1. Despues.no = "confirma"
    BY DEF Despues
  <2> QED BY <1>2, <2>1 DEF RecibeHandshake
<1>5. /\ paso' = paso /\ pagina' = pagina /\ hm' = hm /\ qi' = qi
      /\ Tipos /\ sock \in [Enlaces -> Canales] /\ maestro' = maestro
      /\ \A d \in Enlaces : MismoPaso(d) /\ Destino(d)' = Destino(d)
      /\ socketQuery' = socketQuery
      /\ \A d \in Enlaces : Guarda(d) /\ (Heredada(d)' <=> Heredada(d))
  BY <1>3, SinCliente, NumerosIguales DEF maestro
<1>6. /\ sock[e] \in Canales /\ Bien(e) /\ "servidor" \in Lados /\ Otro("servidor") = "cliente"
      /\ hilo[e] = "no" /\ hilo \in [Enlaces -> Fases]
  BY <1>3, <1>5 DEF Inv, Bien, DelHilo, Tipos, Lados, Otro
<1>7. /\ sock[e].hacia.servidor # << >> /\ m = Saludo(e)
      /\ "servidor" \in sock[e].abierto
      /\ ~Heredada(e) => sock[e].hacia.cliente = << >> /\ ~sock[e].rst
      /\ Vive(e) => Presentado(e)
  BY <1>3, <1>6 DEF Bien, DelServidor, Hay
<1> DEFINE k == Lee(sock[e], "servidor")
<1>8. /\ k \in Canales /\ k.abierto = sock[e].abierto /\ k.rst = sock[e].rst
      /\ k.hacia.cliente = sock[e].hacia.cliente
      /\ Len(k.hacia.servidor) = Len(sock[e].hacia.servidor) - 1
  BY <1>3, <1>6, LeeCanal
<1>9. /\ leido \in [Enlaces -> Canales] /\ leido[e] = k
      /\ \A d \in Enlaces \ {e} : leido[d] = sock[d]
  BY <1>5, <1>8
<1>10. m \in Reconoce(s) <=> e[2] = s
  BY <1>7, SaludoReconocido
<1> HIDE DEF m, leido, k
<1>11. CASE e[2] = s
  <2>1. /\ hilo' = [hilo EXCEPT ![e] = "confirma"] /\ sock' = leido /\ vivo' = vivo
    BY <1>4, <1>10, <1>11
  <2>2. /\ hilo'[e] = "confirma" /\ hilo' \in [Enlaces -> Fases]
        /\ \A d \in Enlaces \ {e} : hilo'[d] = hilo[d]
    BY <1>6, <2>1 DEF Fases
  <2>3. ASSUME NEW d \in Enlaces, d # e PROVE Quieto(d)
    BY <1>1, <1>3, <1>5, <1>9, <2>1, <2>2, <2>3, IgualQuieto
  <2>4. Bien(e)'
    <3>1. DelHilo(e)'
      BY <1>3, <1>5, <1>7, <1>11, <2>1, <2>2 DEF DelHilo, MismoPaso, Vive
    <3>2. DelServidor(e)'
      BY <1>3, <1>5, <1>7, <1>8, <1>9, <2>1 DEF DelServidor
    <3>3. LadoCliente(sock[e], sock'[e])
      BY <1>8, <1>9, <2>1 DEF LadoCliente
    <3>4. DelCliente(e)'
      BY <1>3, <1>5, <1>6, <2>1, <2>2, <3>3, DelClienteIgual DEF SinContestar
    <3> QED BY <3>1, <3>2, <3>4 DEF Bien
  <2>5. \A d \in Enlaces : Bien(d)'
    BY <2>3, <2>4, QuietoBien DEF Inv
  <2>6. ASSUME NEW w \in Workers PROVE Turnos(w)'
    <3>0. Turnos(w) /\ ConStorage(w) \in Enlaces /\ ConStorage(w)[1] = w /\ w \in Clientes
          /\ ConStorage(w)' = ConStorage(w)
      BY EnlacesDe DEF Inv, Clientes, ConStorage
    <3>1. CASE ConStorage(w) # e
      BY <1>5, <2>3, <3>0, <3>1, QuietoTurnos
    <3>2. CASE ConStorage(w) = e
      <4>1. ASSUME "storage" \in vivo, Destino(e) = "storage"
            PROVE  /\ k.hacia.servidor = << >> /\ k.hacia.cliente = << >>
                   /\ Vive(e) => Espera(e)
        <5>1. Len(sock[e].hacia.servidor) <= 1 /\ (Vive(e) => Espera(e))
          BY <1>6, <1>7, <3>0, <3>2, <4>1 DEF Turnos, SinContestar
        <5>2. k.hacia.servidor \in Seq(Mensajes) /\ sock[e].hacia.servidor \in Seq(Mensajes)
          BY <1>6, <1>8, CanalTipo
        <5> DEFINE a == Len(sock[e].hacia.servidor)
                   b == Len(k.hacia.servidor)
        <5>3. a \in Nat /\ b \in Nat /\ a <= 1 /\ b = a - 1
          BY <1>8, <5>1, <5>2, LenProperties
        <5> HIDE DEF a, b
        <5>5. ~Heredada(e)
          BY <4>1, HeredadaMaster DEF Inv
        <5>4. b = 0
          BY <5>3
        <5> QED BY <1>7, <1>8, <5>1, <5>2, <5>4, <5>5, EmptySeq DEF b
      <4>2. (Vive(e)' <=> Vive(e)) /\ (Espera(e)' <=> Espera(e))
        BY <1>5, <2>1 DEF Vive, MismoPaso
      <4>3. sock'[e] = k
        BY <1>9, <2>1
      <4> QED BY <1>5, <2>1, <3>0, <3>2, <4>1, <4>2, <4>3, EmptySeq DEF Turnos
    <3> QED BY <3>1, <3>2
  <2>7. Cuentas'
    <3>1. Registrados' = Registrados /\ EnStorage' = EnStorage
      BY <1>6, <2>2, EnlacesDe DEF Registrados, EnStorage, ConMaster, ConStorage, Clientes
    <3> QED BY <1>3, <1>5, <3>1 DEF Cuentas, Inv, maestro
  <2>8. DelMaster'
    <3>1. \A d \in Enlaces : /\ hilo[d] \in Conocido => hilo'[d] \in Conocido
                             /\ hilo[d] = "fin" => hilo'[d] = "fin"
      BY <1>6, <2>2 DEF Conocido
    <3>2. vivo' = vivo /\ equivocados' = equivocados
      BY <1>3, <2>1
    <3>3. asignada' = asignada /\ estado' = estado
          /\ asignada \in [Workers -> QueryControls \cup {NULL}]
      BY <1>5 DEF Tipos, maestro
    <3> QED BY <1>5, <3>1, <3>2, <3>3, MasterIgual DEF Inv
  <2>9. Tipos'
    BY <1>1, <1>3, <1>5, <1>9, <2>1, <2>2 DEF Tipos, maestro
  <2> QED BY <1>1, <2>5, <2>6, <2>7, <2>8, <2>9 DEF Inv
<1>12. CASE e[2] # s
  <2>1. /\ hilo' = hilo
        /\ IF s = "storage" THEN Termina(s, leido) ELSE sock' = leido /\ UNCHANGED vivo
    BY <1>4, <1>10, <1>12
  <2>2. /\ vivo' \subseteq vivo /\ sock' \in [Enlaces -> Canales]
        /\ s = "storage" => s \notin vivo'
        /\ \A d \in Enlaces : /\ LadoCliente(leido[d], sock'[d]) \/ d[1] = s
                              /\ Destino(d) # s => LadoServidor(leido[d], sock'[d])
                              /\ s # "storage" => sock'[d] = leido[d]
    <3>1. CASE s = "storage"
      BY <1>9, <2>1, <3>1, TerminaEfecto DEF Servidores
    <3>2. CASE s # "storage"
      <4>1. \A d \in Enlaces : leido[d] \in Canales
        BY <1>9
      <4> QED BY <1>9, <2>1, <3>2, <4>1 DEF LadoCliente, LadoServidor
    <3> QED BY <3>1, <3>2
  <2>3. \A d \in Enlaces : d[1] # s
    BY EnlaceTipo, ConexionesSupuesto
  <2>4. \A d \in Enlaces : LadoCliente(sock[d], sock'[d])
    BY <1>8, <1>9, <2>2, <2>3 DEF LadoCliente
  <2>5. ASSUME NEW d \in Enlaces, d # e \/ s = "storage" PROVE Quieto(d)
    <3>1. Destino(d) \in vivo' => LadoServidor(sock[d], sock'[d])
      <4>1. CASE d # e /\ Destino(d) # s
        BY <1>9, <2>2, <4>1
      <4>2. CASE s = "storage" /\ Destino(d) = s
        BY <2>2, <4>2
      <4>3. CASE s # "storage" /\ d # e
        BY <1>9, <2>2, <4>3 DEF LadoServidor
      <4> QED BY <1>3, <2>5, <4>1, <4>2, <4>3
    <3> QED BY <1>1, <1>5, <2>1, <2>2, <2>4, <3>1 DEF Quieto
  <2>6. Bien(e)'
    <3>1. DelHilo(e)' /\ DelServidor(e)'
      BY <1>3, <1>6, <2>1 DEF DelHilo, DelServidor, Atendiendo
    <3>2. DelCliente(e)'
      BY <1>3, <1>5, <2>1, <2>2, <2>4, DelClienteIgual
    <3> QED BY <3>1, <3>2 DEF Bien
  <2>7. \A d \in Enlaces : Bien(d)'
    BY <2>5, <2>6, QuietoBien DEF Inv
  <2>8. ASSUME NEW w \in Workers PROVE Turnos(w)'
    <3>0. Turnos(w) /\ ConStorage(w) \in Enlaces /\ ConStorage(w)[1] = w /\ w \in Clientes
          /\ ConStorage(w)' = ConStorage(w) /\ ConStorage(w)[2] = "storage"
      BY EnlacesDe DEF Inv, Clientes, ConStorage
    <3>1. CASE ConStorage(w) # e
      BY <1>5, <2>5, <3>0, <3>1, QuietoTurnos
    <3>2. CASE ConStorage(w) = e
      BY <1>3, <1>5, <1>12, <2>2, <3>0, <3>2 DEF Turnos, Vive
    <3> QED BY <3>1, <3>2
  <2>9. Cuentas' /\ DelMaster'
    BY <1>3, <1>5, <2>1, <2>2, CuentasIguales, MasterIgual DEF Inv, Tipos, maestro
  <2>10. Tipos'
    BY <1>1, <1>3, <1>5, <2>1, <2>2 DEF Tipos, maestro
  <2> QED BY <1>1, <2>7, <2>8, <2>9, <2>10 DEF Inv
<1> QED BY <1>11, <1>12

LEMMA SinHandshakeInv ==
    ASSUME Inv, NEW s \in Servidores, SinHandshake(s)
    PROVE  Inv'
<1>0. /\ receptor[s].en = "lee" /\ Recibe(s, "fin", NULL) /\ s \in vivo
      /\ UNCHANGED <<cola, hilo, cuenta, clientes, maestro, hilosWorker, sigpipe, equivocados>>
  BY DEF SinHandshake
<1>1. /\ receptor' \in [Servidores -> Puertas] /\ \A x \in Servidores : Puerta(x)'
      /\ \A d \in Enlaces : EnCamino(d)' => EnCamino(d) /\ d # receptor[s].de
      /\ receptor[s].de \in Enlaces /\ Destino(receptor[s].de) = s /\ EnCamino(receptor[s].de)
  BY <1>0, ReceptorSuelta
<1>2. PICK e \in Enlaces : e = receptor[s].de
  BY <1>1
<1>3. /\ paso' = paso /\ pagina' = pagina /\ hm' = hm /\ qi' = qi
      /\ Tipos /\ sock \in [Enlaces -> Canales] /\ maestro' = maestro
      /\ socketQuery' = socketQuery
      /\ \A d \in Enlaces : MismoPaso(d) /\ Destino(d)' = Destino(d)
  BY <1>0, SinCliente DEF maestro
<1>4. /\ vivo' \subseteq vivo /\ sock' \in [Enlaces -> Canales]
      /\ \A d \in Enlaces \ {e} : Quieto(d)
      /\ Bien(e)' /\ \A w \in Workers : ConStorage(w) = e => Turnos(w)'
  <2>1. CASE s = "storage" /\ Termina(s, sock)
    <3>1. /\ \A d \in Enlaces : Quieto(d)
      BY <1>0, <1>1, <1>3, <2>1, MuereQuieto
    <3>2. vivo' \subseteq vivo /\ sock' \in [Enlaces -> Canales]
      BY <1>3, <2>1, TerminaEfecto
    <3>3. \A w \in Workers : Turnos(w)'
      BY <1>3, <3>1, QuietoTurnos, EnlacesDe DEF Inv
    <3> QED BY <3>1, <3>2, <3>3, QuietoBien DEF Inv
  <2>2. CASE s = "master" /\ sock' = [sock EXCEPT ![e] = Cierra(@, "servidor")] /\ vivo' = vivo
    <3>1. /\ sock[e] \in Canales /\ Bien(e) /\ "servidor" \in Lados /\ Otro("servidor") = "cliente"
          /\ hilo[e] = "no"
      BY <1>1, <1>2, <1>3 DEF Inv, Bien, DelHilo, Tipos, Lados, Otro
    <3> DEFINE k == Cierra(sock[e], "servidor")
    <3>2. k \in Canales /\ k.abierto = sock[e].abierto \ {"servidor"}
          /\ k.hacia.cliente = sock[e].hacia.cliente
      BY <3>1, CierraCanal
    <3> HIDE DEF k
    <3>3. sock' \in [Enlaces -> Canales] /\ sock'[e] = k /\ \A d \in Enlaces \ {e} : sock'[d] = sock[d]
      BY <1>3, <2>2, <3>2 DEF k
    <3>4. LadoCliente(sock[e], sock'[e])
      BY <3>2, <3>3 DEF LadoCliente
    <3>5. \A d \in Enlaces \ {e} : Quieto(d)
      BY <1>0, <1>1, <1>3, <2>2, <3>3, IgualQuieto
    <3>6. DelHilo(e)' /\ DelServidor(e)'
      BY <1>0, <1>1, <1>2, <3>1 DEF DelHilo, DelServidor, Atendiendo
    <3>7. DelCliente(e)'
      BY <1>0, <1>1, <1>3, <2>2, <3>4, DelClienteIgual
    <3>8. ASSUME NEW w \in Workers, ConStorage(w) = e PROVE Turnos(w)'
      BY <1>1, <1>2, <1>3, <2>2, <3>8 DEF Inv, Turnos, Vive, ConStorage
    <3> QED BY <2>2, <3>3, <3>5, <3>6, <3>7, <3>8 DEF Bien
  <2> QED BY <1>2, <2>1, <2>2 DEF SinHandshake
<1>5. \A d \in Enlaces : Bien(d)'
  BY <1>4, QuietoBien DEF Inv
<1>6. ASSUME NEW w \in Workers PROVE Turnos(w)'
  <2>1. Turnos(w) /\ ConStorage(w) \in Enlaces
    BY EnlacesDe DEF Inv
  <2> QED BY <1>3, <1>4, <2>1, QuietoTurnos
<1>7. Cuentas' /\ DelMaster'
  BY <1>0, <1>3, <1>4, CuentasIguales, MasterIgual DEF Inv, Tipos, maestro
<1>8. Tipos'
  BY <1>0, <1>1, <1>3, <1>4 DEF Tipos, maestro
<1> QED BY <1>1, <1>5, <1>6, <1>7, <1>8 DEF Inv

-----------------------------------------------------------------------------
(***************************************************************************)
(* The threads of the connections.                                         *)
(***************************************************************************)
\* What a thread knows of its connection.
LEMMA HiloSabe ==
    ASSUME Inv, NEW e \in Enlaces, e[2] \in vivo, hilo[e] \in Atendiendo
    PROVE  /\ Destino(e) = e[2] /\ ~EnCamino(e) /\ Bien(e) /\ sock[e] \in Canales
           /\ "servidor" \in sock[e].abierto
           /\ hilo[e] = "confirma" /\ ~Heredada(e) => sock[e].hacia.cliente = << >> /\ ~sock[e].rst
           /\ Vive(e) => Presentado(e) /\ ~PorConectar(e) /\ "cliente" \in sock[e].abierto
           /\ Vive(e) /\ SinRespuesta(e) /\ hilo[e] # "confirma" =>
                 sock[e].hacia.cliente # << >> /\ Primero(e, Head(sock[e].hacia.cliente))
<1>1. Bien(e) /\ sock[e] \in Canales /\ hilo[e] # "no" /\ hilo[e] # "fin"
  BY DEF Inv, Tipos, Atendiendo
<1>2. Destino(e) = e[2] /\ ~EnCamino(e) /\ (Vive(e) => Presentado(e))
  BY <1>1 DEF Bien, DelHilo
<1>3. Vive(e) => ~PorConectar(e)
  BY <1>2 DEF Sirviendo, Presentado, PorConectar
<1> QED BY <1>1, <1>2, <1>3 DEF Bien, DelServidor, DelCliente, Atendiendo, SinContestar

\* The first thing a thread sends: the answer to the handshake.
LEMMA BienAlContestar ==
    ASSUME Inv, NEW e \in Enlaces, e[2] \in vivo, hilo[e] = "confirma",
           UNCHANGED <<clientes, hilosWorker, equivocados>>, EnCamino(e)' => EnCamino(e),
           Envia(e[2], sock, e, "servidor", Respuesta(e)), socketQuery' = socketQuery,
           hilo'[e] = IF e[2] = "master" THEN "registra" ELSE "lee"
    PROVE  /\ vivo' = vivo /\ sigpipe' = sigpipe /\ sock' \in [Enlaces -> Canales]
           /\ \A d \in Enlaces \ {e} : sock'[d] = sock[d]
           /\ Bien(e)' /\ (e[2] = "storage" => Len(sock'[e].hacia.cliente) <= 1)
           /\ sock'[e].hacia.servidor = sock[e].hacia.servidor
<1>1. /\ Destino(e) = e[2] /\ ~EnCamino(e) /\ Bien(e) /\ sock[e] \in Canales
      /\ "servidor" \in sock[e].abierto
      /\ ~Heredada(e) => sock[e].hacia.cliente = << >> /\ ~sock[e].rst
      /\ Vive(e) => Presentado(e) /\ ~PorConectar(e) /\ "cliente" \in sock[e].abierto
  BY HiloSabe DEF Atendiendo
<1>2. /\ paso' = paso /\ sock \in [Enlaces -> Canales] /\ MismoPaso(e) /\ Destino(e)' = Destino(e)
      /\ Respuesta(e)' = Respuesta(e) /\ (vivo' = vivo => (Vive(e)' <=> Vive(e)))
      /\ Heredada(e)' <=> Heredada(e)
  BY SinCliente, NumerosIguales
<1>3. Respuesta(e) \in Mensajes /\ "servidor" \in Lados /\ e[2] \in Servidores
      /\ Otro("servidor") = "cliente"
  BY EnlaceTipo DEF Respuesta, Mensajes, Lados, Otro
<1>11. e[2] = "storage" => ~Heredada(e)
  BY <1>1, HeredadaMaster DEF Inv
<1> DEFINE k == Escribe(sock[e], "servidor", Respuesta(e))
<1>4. /\ k \in Canales /\ k.abierto = sock[e].abierto /\ k.hacia.servidor = sock[e].hacia.servidor
      /\ "cliente" \in k.abierto => /\ k.hacia.cliente = Append(sock[e].hacia.cliente, Respuesta(e))
                                    /\ k.rst = sock[e].rst
      /\ "cliente" \notin k.abierto => k.hacia.cliente = << >>
  BY <1>1, <1>3, DeServidor
<1>5. /\ vivo' = vivo /\ sigpipe' = sigpipe /\ sock' \in [Enlaces -> Canales]
      /\ \A d \in Enlaces \ {e} : sock'[d] = sock[d]
      /\ sock'[e] = k \/ (sock'[e] = sock[e] /\ ~Vive(e) /\ e[2] # "storage")
  <2>1. ~Heredada(e) => ~Rota(sock[e], "servidor")
    BY <1>1 DEF Rota
  <2>2. ~(Rota(sock[e], "servidor") /\ Muere(e[2]))
    BY <1>3, <1>11, <2>1 DEF Muere, IgnoranSigpipe, Servidores
  <2>3. Rota(sock[e], "servidor") => ~Vive(e) /\ e[2] # "storage"
    BY <1>1, <1>3, <1>11, <2>1 DEF Rota
  <2> QED BY <1>1, <1>2, <1>3, <2>2, <2>3, EnviaEfecto
<1> HIDE DEF k
<1>6. "cliente" \in k.abierto =>
         /\ k.hacia.cliente # << >>
         /\ sock[e].hacia.cliente = << >> => Head(k.hacia.cliente) = Respuesta(e)
         /\ sock[e].hacia.cliente # << >> => Head(k.hacia.cliente) = Head(sock[e].hacia.cliente)
         /\ sock[e].hacia.cliente = << >> => Len(k.hacia.cliente) = 1
  <2> SUFFICES ASSUME "cliente" \in k.abierto
               PROVE  /\ k.hacia.cliente # << >>
                      /\ sock[e].hacia.cliente = << >> => Head(k.hacia.cliente) = Respuesta(e)
                      /\ sock[e].hacia.cliente # << >> =>
                            Head(k.hacia.cliente) = Head(sock[e].hacia.cliente)
                      /\ sock[e].hacia.cliente = << >> => Len(k.hacia.cliente) = 1
    OBVIOUS
  <2>1. sock[e].hacia.cliente \in Seq(Mensajes)
    BY <1>1, CanalTipo
  <2> QED BY <1>3, <1>4, <2>1, AlFinal
<1>12. e[2] = "storage" => Len(sock'[e].hacia.cliente) <= 1
  <2> SUFFICES ASSUME e[2] = "storage" PROVE Len(sock'[e].hacia.cliente) <= 1
    OBVIOUS
  <2>1. sock[e].hacia.cliente = << >> /\ sock'[e] = k
    BY <1>1, <1>5, <1>11
  <2>2. CASE "cliente" \in k.abierto
    <3>1. Len(k.hacia.cliente) = 1
      BY <1>6, <2>1, <2>2
    <3> QED BY <2>1, <3>1
  <2>3. CASE "cliente" \notin k.abierto
    BY <1>4, <2>1, <2>3, EmptySeq
  <2> QED BY <2>2, <2>3
<1>7. hilo'[e] \notin SinContestar /\ hilo'[e] \in {"registra", "lee"}
      /\ (hilo'[e] \in {"registra", "avisa"} => e[2] = "master")
  BY DEF SinContestar
<1>8. DelHilo(e)'
  BY <1>1, <1>2, <1>5, <1>7 DEF DelHilo, MismoPaso
<1>9. DelServidor(e)'
  BY <1>1, <1>2, <1>4, <1>5, <1>7 DEF DelServidor
<1>10. DelCliente(e)'
  <2> SUFFICES ASSUME Vive(e) PROVE DelCliente(e)'
    BY <1>2, <1>5 DEF DelCliente
  <2>1. sock'[e] = k /\ "cliente" \in k.abierto
    BY <1>1, <1>4, <1>5
  <2>2. SinRespuesta(e) => Primero(e, Head(k.hacia.cliente))
    BY <1>1, <1>6, <2>1 DEF Bien, DelCliente, Primero
  <2> QED BY <1>1, <1>2, <1>6, <1>7, <2>1, <2>2 DEF DelCliente, MismoPaso, Primero
<1> QED BY <1>4, <1>5, <1>8, <1>9, <1>10, <1>12 DEF Bien

\* The client has left, and its thread closes.
LEMMA BienAlCerrar ==
    ASSUME Inv, NEW e \in Enlaces, e[2] \in vivo, hilo[e] = "lee", Cortada(sock[e], "servidor"),
           UNCHANGED <<clientes, hilosWorker, equivocados>>, EnCamino(e)' => EnCamino(e),
           vivo' = vivo, hilo'[e] = "fin"
    PROVE  /\ ~Vive(e) /\ Bien(e)'
           /\ Cierra(sock[e], "servidor") \in Canales
           /\ Cierra(sock[e], "servidor").hacia.servidor = << >>
           /\ Cierra(sock[e], "servidor").hacia.cliente = sock[e].hacia.cliente
<1>1. /\ Destino(e) = e[2] /\ ~EnCamino(e) /\ sock[e] \in Canales
      /\ Vive(e) => "cliente" \in sock[e].abierto
  BY HiloSabe DEF Atendiendo
<1>2. "servidor" \in Lados /\ Otro("servidor") = "cliente"
  BY DEF Lados, Otro
<1>3. ~Vive(e) /\ ~Vive(e)' /\ Destino(e)' = Destino(e)
  BY <1>1, <1>2, SinCliente DEF Cortada
<1>4. DelHilo(e)' /\ DelServidor(e)' /\ DelCliente(e)'
  BY <1>1, <1>3 DEF DelHilo, DelServidor, DelCliente, Atendiendo
<1> QED BY <1>1, <1>2, <1>3, <1>4, CierraCanal DEF Bien

LEMMA BienAlRecibir ==
    ASSUME Inv, NEW e \in Enlaces, e[2] \in vivo, hilo[e] = "lee", Hay(sock[e], "servidor"),
           UNCHANGED <<clientes, hilosWorker, equivocados>>, EnCamino(e)' => EnCamino(e),
           vivo' = vivo, hilo'[e] = "lee", socketQuery' = socketQuery, sock'[e] = Lee(sock[e], "servidor")
    PROVE  Bien(e)'
<1>1. /\ Destino(e) = e[2] /\ ~EnCamino(e) /\ Bien(e) /\ sock[e] \in Canales
      /\ "servidor" \in sock[e].abierto
  BY HiloSabe DEF Atendiendo
<1>2. "servidor" \in Lados /\ Otro("servidor") = "cliente"
  BY DEF Lados, Otro
<1>3. sock'[e].abierto = sock[e].abierto /\ sock'[e].hacia.cliente = sock[e].hacia.cliente
  BY <1>1, <1>2, LeeCanal
<1>4. Destino(e)' = Destino(e) /\ MismoPaso(e) /\ (Vive(e)' <=> Vive(e))
  BY SinCliente
<1>5. DelHilo(e)' /\ DelServidor(e)'
  BY <1>1, <1>3, <1>4 DEF Bien, DelHilo, DelServidor, MismoPaso
<1>6. DelCliente(e)'
  BY <1>3, DelClienteIgual DEF LadoCliente
<1> QED BY <1>5, <1>6 DEF Bien

\* A thread of the Master, or the scheduler, sends to a client that has been registered, or
\* to one that was given the number of a query: nobody takes it for another's confirmation.
LEMMA MasterEnvia ==
    ASSUME Inv, "master" \in vivo, NEW s \in [Enlaces -> Canales], NEW d \in Enlaces,
           NEW m \in Mensajes,
           (d[2] = "master" /\ hilo[d] \in Conocido) \/ (m = "READ" /\ Heredada(d)),
           \/ s[d] = sock[d]
           \/ hilo[d] \in Conocido /\ LadoCliente(sock[d], s[d]) /\ s[d].abierto = sock[d].abierto,
           Envia("master", s, d, "servidor", m),
           UNCHANGED <<clientes, hilosWorker, equivocados>>, EnCamino(d)' => EnCamino(d),
           hilo'[d] = hilo[d], socketQuery' = socketQuery
    PROVE  /\ vivo' = vivo /\ sigpipe' = sigpipe /\ sock' \in [Enlaces -> Canales]
           /\ \A x \in Enlaces \ {d} : sock'[x] = s[x]
           /\ Bien(d)'
<1>1. /\ Bien(d) /\ sock[d] \in Canales /\ Destino(d)' = Destino(d) /\ MismoPaso(d)
      /\ Respuesta(d)' = Respuesta(d) /\ Saludo(d)' = Saludo(d)
      /\ hilo[d] \in Conocido => ~EnCamino(d) /\ hilo[d] \notin SinContestar
  BY SinCliente DEF Inv, Tipos, Bien, DelHilo, Conocido, SinContestar
<1>7. Heredada(d)' <=> Heredada(d)
  BY NumerosIguales
<1>8. s[d].abierto = sock[d].abierto /\ s[d].hacia.cliente = sock[d].hacia.cliente /\ s[d] \in Canales
  BY DEF LadoCliente
<1> DEFINE k == Escribe(s[d], "servidor", m)
<1>2. /\ k \in Canales /\ k.abierto = sock[d].abierto /\ k.hacia.servidor = s[d].hacia.servidor
      /\ "cliente" \in k.abierto => k.hacia.cliente = Append(sock[d].hacia.cliente, m)
      /\ "cliente" \notin k.abierto => k.hacia.cliente = << >>
  BY <1>8, DeServidor
<1>3. /\ vivo' = vivo /\ sigpipe' = sigpipe /\ sock' \in [Enlaces -> Canales]
      /\ \A x \in Enlaces \ {d} : sock'[x] = s[x]
      /\ sock'[d] = s[d] \/ sock'[d] = k
  <2>1. ~Muere("master") /\ "servidor" \in Lados
    BY DEF Muere, IgnoranSigpipe, Lados
  <2> QED BY <2>1, EnviaEfecto
<1> HIDE DEF k
<1>4. (Vive(d)' <=> Vive(d)) /\ (hilo'[d] \in Conocido <=> hilo[d] \in Conocido)
  BY <1>3 DEF Vive, Conocido
<1>9. DelHilo(d)'
  BY <1>1, <1>3, <1>4 DEF Bien, DelHilo, MismoPaso
<1>10. DelServidor(d)'
  <2>1. sock'[d].abierto = sock[d].abierto /\ sock'[d].hacia.servidor = s[d].hacia.servidor
    BY <1>2, <1>3, <1>8
  <2>2. CASE hilo[d] \in Conocido
    BY <1>1, <1>3, <2>1, <2>2 DEF Bien, DelServidor, Atendiendo, SinContestar
  <2>3. CASE hilo[d] \notin Conocido
    <3>1. Heredada(d) /\ s[d] = sock[d]
      BY <2>3
    <3>2. hilo'[d] \in Atendiendo <=> hilo[d] \in Atendiendo
      BY DEF Atendiendo
    <3> QED BY <1>1, <1>3, <1>4, <1>7, <2>1, <2>3, <3>1, <3>2 DEF Bien, DelServidor, MismoPaso
  <2> QED BY <2>2, <2>3
<1>11. DelCliente(d)'
  <2> SUFFICES ASSUME Vive(d) PROVE DelCliente(d)'
    BY <1>4 DEF DelCliente
  <2>1. sock'[d].abierto = sock[d].abierto
    BY <1>2, <1>3, <1>8
  <2>2. ASSUME SinRespuesta(d)
        PROVE  /\ sock'[d].hacia.cliente # << >> => Primero(d, Head(sock'[d].hacia.cliente))
               /\ d[2] \in vivo /\ sock'[d].hacia.cliente = << >> => hilo[d] \in SinContestar
               /\ d[2] \in vivo /\ hilo[d] \in SinContestar /\ ~Heredada(d) =>
                     sock'[d].hacia.cliente = << >>
    <3>1. "cliente" \in k.abierto
      BY <1>1, <1>2, <2>2 DEF Bien, DelCliente, PorConectar, SinRespuesta
    <3>2. /\ sock[d].hacia.cliente # << >> => Primero(d, Head(sock[d].hacia.cliente))
          /\ d[2] \in vivo /\ sock[d].hacia.cliente = << >> => hilo[d] \in SinContestar
          /\ d[2] \in vivo /\ hilo[d] \in SinContestar /\ ~Heredada(d) =>
                sock[d].hacia.cliente = << >>
      BY <1>1, <2>2 DEF Bien, DelCliente, PorConectar, SinRespuesta
    <3>3. CASE sock'[d] = s[d]
      BY <1>8, <3>2, <3>3
    <3>4. CASE sock'[d] = k
      <4>1. sock[d].hacia.cliente \in Seq(Mensajes)
        BY <1>1, CanalTipo
      <4>2. /\ k.hacia.cliente # << >>
            /\ Head(k.hacia.cliente) = IF sock[d].hacia.cliente = << >> THEN m
                                       ELSE Head(sock[d].hacia.cliente)
        BY <1>2, <3>1, <4>1, AlFinal
      <4>3. sock[d].hacia.cliente = << >> => m = "READ" /\ Heredada(d)
        BY <1>1, <3>2
      <4>4. d[2] \in vivo /\ hilo[d] \in SinContestar => Heredada(d)
        BY <1>1
      <4> QED BY <3>2, <3>4, <4>2, <4>3, <4>4 DEF Primero
    <3> QED BY <1>3, <3>3, <3>4
  <2> QED BY <1>1, <1>3, <1>7, <2>1, <2>2 DEF DelCliente, MismoPaso, Bien, Primero
<1> QED BY <1>3, <1>9, <1>10, <1>11 DEF Bien

\* A step of the Master that touches no connection to the Storage.
LEMMA MasterPasoInv ==
    ASSUME Inv, UNCHANGED <<cola, receptor, clientes, hilosWorker, equivocados>>,
           vivo' = vivo, sigpipe' = sigpipe, sock' \in [Enlaces -> Canales],
           hilo' \in [Enlaces -> Fases],
           \A e \in Enlaces : (sock'[e] = sock[e] /\ hilo'[e] = hilo[e]) \/ Bien(e)',
           \A w \in Workers : /\ hilo'[ConStorage(w)] = hilo[ConStorage(w)]
                              /\ \/ sock'[ConStorage(w)] = sock[ConStorage(w)]
                                 \/ Destino(ConStorage(w)) # "storage",
           socketQuery' = socketQuery,
           \A e \in Enlaces : hilo[e] = "fin" => hilo'[e] = "fin",
           semListo' \in BOOLEAN, sem' \in Nat,
           asignada' \in [Workers -> QueryControls \cup {NULL}],
           estado' \in [QueryControls -> {"NINGUNO", "READY", "EXEC", "EXIT"}],
           Cuentas',
           \A w \in Workers : asignada'[w] # NULL => /\ hilo'[ConMaster(w)] \in Conocido
                                                     /\ hilo'[ConMaster(asignada'[w])] \in Conocido,
           \A q \in QueryControls : estado'[q] # "NINGUNO" => hilo'[ConMaster(q)] \in Conocido
    PROVE  Inv'
<1>1. /\ paso' = paso /\ pagina' = pagina /\ hm' = hm /\ qi' = qi /\ Tipos
      /\ \A d \in Enlaces : MismoPaso(d) /\ Destino(d)' = Destino(d)
      /\ \A d \in Enlaces : EnCamino(d)' <=> EnCamino(d)
      /\ \A x \in Servidores : Puerta(x)'
  BY SinCliente, PuertasIguales DEF Inv
<1>2. ASSUME NEW d \in Enlaces, sock'[d] = sock[d], hilo'[d] = hilo[d] PROVE Quieto(d)
  BY <1>1, <1>2, IgualQuieto
<1>3. \A d \in Enlaces : Bien(d)'
  BY <1>2, QuietoBien DEF Inv
<1>4. ASSUME NEW w \in Workers PROVE Turnos(w)'
  <2>1. Turnos(w) /\ ConStorage(w) \in Enlaces /\ ConStorage(w)' = ConStorage(w)
    BY EnlacesDe DEF Inv, ConStorage
  <2>2. CASE sock'[ConStorage(w)] = sock[ConStorage(w)]
    BY <1>1, <1>2, <2>1, <2>2, QuietoTurnos
  <2>3. CASE Destino(ConStorage(w)) # "storage"
    BY <1>1, <2>1, <2>3 DEF Turnos, Vive
  <2> QED BY <2>2, <2>3
<1>5. Tipos'
  BY <1>1 DEF Tipos
<1>6. DelMaster'
  <2>1. ASSUME NEW q \in QueryControls PROVE DelNumero(q)'
    <3>1. ConMaster(q)' = ConMaster(q) /\ ConMaster(q) \in Enlaces /\ DelNumero(q)
      BY EnlacesDe DEF ConMaster, Clientes, Inv, DelMaster
    <3> QED BY <3>1 DEF DelNumero, Destino
  <2> QED BY <1>1, <2>1 DEF Inv, DelMaster, ConMaster, Conocido
<1> QED BY <1>1, <1>3, <1>4, <1>5, <1>6 DEF Inv

\* Nobody starts or stops being counted.
LEMMA CuentasFase ==
    ASSUME Cuentas, hilo \in [Enlaces -> Fases], NEW e \in Enlaces, NEW fase \in Fases,
           hilo' = [hilo EXCEPT ![e] = fase], lista' = lista, cuenta' = cuenta,
           IF e[2] = "master"
           THEN e[1] \in Workers => (hilo[e] \in {"avisa", "lee"} <=> fase \in {"avisa", "lee"})
           ELSE hilo[e] = "lee" <=> fase = "lee"
    PROVE  Cuentas'
<1>1. ASSUME NEW w \in Workers
      PROVE  /\ hilo'[ConMaster(w)] \in {"avisa", "lee"} <=> hilo[ConMaster(w)] \in {"avisa", "lee"}
             /\ hilo'[ConStorage(w)] = "lee" <=> hilo[ConStorage(w)] = "lee"
  <2>1. /\ ConMaster(w) \in Enlaces /\ ConMaster(w)[1] = w /\ ConMaster(w)[2] = "master"
        /\ ConStorage(w) \in Enlaces /\ ConStorage(w)[2] = "storage"
    BY EnlacesDe DEF Clientes
  <2> QED BY <2>1
<1>2. Registrados' = Registrados /\ EnStorage' = EnStorage
  BY <1>1 DEF Registrados, EnStorage, ConMaster, ConStorage
<1> QED BY <1>2 DEF Cuentas

\* A Worker starts, or stops, being counted by one of the servers.
Cuenta(e, fase) == IF e[2] = "master" THEN fase \in {"avisa", "lee"} ELSE fase = "lee"
Entra(e, fase) == /\ ~Cuenta(e, hilo[e]) /\ Cuenta(e, fase) /\ Suma(e[2], 1)
                  /\ lista' = IF e[2] = "master" THEN lista \cup {e[1]} ELSE lista
Sale(e, fase) == /\ Cuenta(e, hilo[e]) /\ ~Cuenta(e, fase) /\ Resta(e[2], 1)
                 /\ lista' = IF e[2] = "master" THEN lista \ {e[1]} ELSE lista

LEMMA CuentasWorker ==
    ASSUME Cuentas, hilo \in [Enlaces -> Fases], NEW w \in Workers, NEW e \in Enlaces, e[1] = w,
           NEW fase \in Fases, hilo' = [hilo EXCEPT ![e] = fase],
           Entra(e, fase) \/ Sale(e, fase)
    PROVE  Cuentas'
<1>1. /\ e[2] \in {"storage", "master"} /\ e = <<w, e[2]>> /\ hilo'[e] = fase
      /\ \A d \in Enlaces \ {e} : hilo'[d] = hilo[d]
  BY EnlaceTipo DEF Servidores
<1>2. \A v \in Workers : /\ ConMaster(v) \in Enlaces /\ ConStorage(v) \in Enlaces
                         /\ ConMaster(v) = e <=> v = w /\ e[2] = "master"
                         /\ ConStorage(v) = e <=> v = w /\ e[2] = "storage"
  <2>1. ASSUME NEW v \in Workers
        PROVE  /\ ConMaster(v) \in Enlaces /\ ConMaster(v)[1] = v /\ ConMaster(v)[2] = "master"
               /\ ConStorage(v) \in Enlaces /\ ConStorage(v)[1] = v /\ ConStorage(v)[2] = "storage"
    BY EnlacesDe DEF Clientes
  <2>2. e[2] = "master" => ConMaster(w) = e
    BY <1>1 DEF ConMaster
  <2>3. e[2] = "storage" => ConStorage(w) = e
    BY <1>1 DEF ConStorage
  <2> QED BY <2>1, <2>2, <2>3
<1>3. ASSUME NEW S, IsFiniteSet(S)
      PROVE  /\ IsFiniteSet(S \cup {w}) /\ IsFiniteSet(S \ {w})
             /\ w \notin S => Cardinality(S \cup {w}) = Cardinality(S) + 1
             /\ w \in S => Cardinality(S \ {w}) = Cardinality(S) - 1
  <2>1. /\ IsFiniteSet(S \cup {w})
        /\ Cardinality(S \cup {w}) = IF w \in S THEN Cardinality(S) ELSE Cardinality(S) + 1
    BY <1>3, FS_AddElement
  <2>2. /\ IsFiniteSet(S \ {w})
        /\ Cardinality(S \ {w}) = IF w \in S THEN Cardinality(S) - 1 ELSE Cardinality(S)
    BY <1>3, FS_RemoveElement
  <2> QED BY <2>1, <2>2
<1>4. CASE e[2] = "master"
  <2>1. EnStorage' = EnStorage
    BY <1>1, <1>2, <1>4 DEF EnStorage, ConStorage
  <2>2. CASE /\ hilo[e] \notin {"avisa", "lee"} /\ fase \in {"avisa", "lee"}
             /\ Suma("master", 1) /\ lista' = lista \cup {w}
    <3>1. Registrados' = Registrados \cup {w} /\ w \notin Registrados
      BY <1>1, <1>2, <1>4, <2>2 DEF Registrados, ConMaster
    <3>2. IsFiniteSet(Registrados') /\ Cardinality(Registrados') = Cardinality(Registrados) + 1
      BY <1>3, <3>1 DEF Cuentas
    <3> QED BY <2>1, <2>2, <3>1, <3>2 DEF Cuentas, Suma, Servidores
  <2>3. CASE /\ hilo[e] \in {"avisa", "lee"} /\ fase \notin {"avisa", "lee"}
             /\ Resta("master", 1) /\ lista' = lista \ {w}
    <3>1. Registrados' = Registrados \ {w} /\ w \in Registrados
      BY <1>1, <1>2, <1>4, <2>3 DEF Registrados, ConMaster
    <3>2. IsFiniteSet(Registrados') /\ Cardinality(Registrados') = Cardinality(Registrados) - 1
      BY <1>3, <3>1 DEF Cuentas
    <3> QED BY <2>1, <2>3, <3>1, <3>2 DEF Cuentas, Resta, Servidores
  <2> QED BY <1>1, <1>4, <2>2, <2>3 DEF Entra, Sale, Cuenta
<1>5. CASE e[2] = "storage"
  <2>1. Registrados' = Registrados
    BY <1>1, <1>2, <1>5 DEF Registrados, ConMaster
  <2>2. CASE hilo[e] # "lee" /\ fase = "lee" /\ Suma("storage", 1) /\ lista' = lista
    <3>1. EnStorage' = EnStorage \cup {w} /\ w \notin EnStorage
      BY <1>1, <1>2, <1>5, <2>2 DEF EnStorage, ConStorage
    <3>2. IsFiniteSet(EnStorage') /\ Cardinality(EnStorage') = Cardinality(EnStorage) + 1
      BY <1>3, <3>1 DEF Cuentas
    <3> QED BY <2>1, <2>2, <3>1, <3>2 DEF Cuentas, Suma, Servidores
  <2>3. CASE hilo[e] = "lee" /\ fase # "lee" /\ Resta("storage", 1) /\ lista' = lista
    <3>1. EnStorage' = EnStorage \ {w} /\ w \in EnStorage
      BY <1>1, <1>2, <1>5, <2>3 DEF EnStorage, ConStorage
    <3>2. IsFiniteSet(EnStorage') /\ Cardinality(EnStorage') = Cardinality(EnStorage) - 1
      BY <1>3, <3>1 DEF Cuentas
    <3> QED BY <2>1, <2>3, <3>1, <3>2 DEF Cuentas, Resta, Servidores
  <2> QED BY <1>1, <1>5, <2>2, <2>3 DEF Entra, Sale, Cuenta
<1> QED BY <1>1, <1>4, <1>5

LEMMA IniciaPlanificadorInv ==
    ASSUME Inv, IniciaPlanificador
    PROVE  Inv'
<1>1. /\ semListo' = TRUE /\ sem' = 0
      /\ UNCHANGED <<vivo, sock, hilo, cuenta, lista, asignada, estado, socketQuery, sigpipe>>
      /\ UNCHANGED <<cola, receptor, clientes, hilosWorker, equivocados>>
  BY DEF IniciaPlanificador, ajeno, historia
<1>2. Cuentas' /\ Tipos /\ DelMaster
  BY <1>1, CuentasIguales DEF Inv
<1>3. /\ \A w \in Workers : asignada'[w] # NULL => /\ hilo'[ConMaster(w)] \in Conocido
                                                   /\ hilo'[ConMaster(asignada'[w])] \in Conocido
      /\ \A q \in QueryControls : estado'[q] # "NINGUNO" => hilo'[ConMaster(q)] \in Conocido
  BY <1>1, <1>2 DEF DelMaster
<1> QED BY <1>1, <1>2, <1>3, MasterPasoInv DEF Tipos

LEMMA PlanificaInv ==
    ASSUME Inv, Planifica
    PROVE  Inv'
<1>1. /\ "master" \in vivo /\ sem > 0 /\ sem' = sem - 1 /\ Tipos /\ DelMaster
      /\ semListo' = semListo /\ lista' = lista /\ hilo' = hilo /\ cuenta' = cuenta
      /\ socketQuery' = socketQuery
      /\ UNCHANGED <<cola, receptor, clientes, hilosWorker, equivocados>>
  BY DEF Planifica, ajeno, historia, Inv
<1>2. Cuentas' /\ sem' \in Nat /\ lista = Registrados
  BY <1>1, CuentasIguales DEF Inv, Tipos, Cuentas
<1>3. \A d \in Enlaces : EnCamino(d)' <=> EnCamino(d)
  BY <1>1, PuertasIguales DEF Inv
<1>4. CASE Sigue /\ UNCHANGED <<estado, asignada>>
  <2>1. /\ \A w \in Workers : asignada'[w] # NULL => /\ hilo'[ConMaster(w)] \in Conocido
                                                     /\ hilo'[ConMaster(asignada'[w])] \in Conocido
        /\ \A q \in QueryControls : estado'[q] # "NINGUNO" => hilo'[ConMaster(q)] \in Conocido
    BY <1>1, <1>4 DEF DelMaster
  <2> QED BY <1>1, <1>2, <1>4, <2>1, MasterPasoInv DEF Tipos, Sigue
<1>5. ASSUME NEW w \in Libres, NEW q \in Listas,
             estado' = [estado EXCEPT ![q] = "EXEC"], asignada' = [asignada EXCEPT ![w] = q],
             Envia("master", sock, ConMaster(w), "servidor", "ASIGNAR")
      PROVE  Inv'
  <2>1. /\ w \in Workers /\ q \in QueryControls /\ w \in Registrados
        /\ hilo[ConMaster(q)] \in Conocido
    BY <1>1, <1>2, <1>5 DEF Libres, Listas, Registrados, DelMaster
  <2>2. PICK d \in Enlaces : d = ConMaster(w)
    BY <2>1, EnlacesDe DEF Clientes
  <2>3. hilo[d] \in Conocido /\ d[2] = "master"
    BY <2>1, <2>2 DEF Registrados, Conocido, ConMaster
  <2>4. /\ vivo' = vivo /\ sigpipe' = sigpipe /\ sock' \in [Enlaces -> Canales]
        /\ \A x \in Enlaces \ {d} : sock'[x] = sock[x]
        /\ Bien(d)'
    <3>1. Envia("master", sock, d, "servidor", "ASIGNAR")
      BY <1>5, <2>2
    <3>2. "ASIGNAR" \in Mensajes /\ sock \in [Enlaces -> Canales]
      BY <1>1 DEF Mensajes, Tipos
    <3> QED BY <1>1, <1>3, <2>3, <3>1, <3>2, MasterEnvia
  <2>5. /\ asignada' \in [Workers -> QueryControls \cup {NULL}]
        /\ asignada'[w] = q /\ \A v \in Workers \ {w} : asignada'[v] = asignada[v]
        /\ estado' \in [QueryControls -> {"NINGUNO", "READY", "EXEC", "EXIT"}]
        /\ \A p \in QueryControls \ {q} : estado'[p] = estado[p]
    BY <1>1, <1>5, <2>1 DEF Tipos
  <2>6. \A v \in Workers : asignada'[v] # NULL => /\ hilo'[ConMaster(v)] \in Conocido
                                                  /\ hilo'[ConMaster(asignada'[v])] \in Conocido
    BY <1>1, <2>1, <2>2, <2>3, <2>5 DEF DelMaster
  <2>7. \A p \in QueryControls : estado'[p] # "NINGUNO" => hilo'[ConMaster(p)] \in Conocido
    BY <1>1, <2>1, <2>5 DEF DelMaster
  <2>8. \A v \in Workers : ConStorage(v) \in Enlaces /\ ConStorage(v) # d
    BY <2>3, EnlacesDe
  <2>9. semListo' \in BOOLEAN /\ hilo' \in [Enlaces -> Fases]
    BY <1>1 DEF Tipos
  <2> QED BY <1>1, <1>2, <2>4, <2>5, <2>6, <2>7, <2>8, <2>9, MasterPasoInv
<1> QED BY <1>4, <1>5 DEF Planifica

LEMMA RegistraInv ==
    ASSUME Inv, NEW e \in Enlaces, Registra(e)
    PROVE  Inv'
<1>1. /\ e[2] = "master" /\ "master" \in vivo /\ hilo[e] \in {"confirma", "registra", "avisa"}
      /\ hilo' = [hilo EXCEPT ![e] = Despues[hilo[e]]]
      /\ UNCHANGED <<cola, receptor, clientes, hilosWorker, equivocados>> /\ socketQuery' = socketQuery
      /\ Tipos /\ DelMaster /\ Cuentas
  BY DEF Registra, Hilo, Pasa, ajeno, historia, Inv, maestro
<1>2. /\ hilo \in [Enlaces -> Fases] /\ e[1] \in Clientes /\ e = ConMaster(e[1])
      /\ e[1] \in Workers \/ e[1] \in QueryControls
      /\ sock \in [Enlaces -> Canales]
      /\ semListo \in BOOLEAN /\ sem \in Nat
      /\ asignada \in [Workers -> QueryControls \cup {NULL}]
      /\ estado \in [QueryControls -> {"NINGUNO", "READY", "EXEC", "EXIT"}]
  BY <1>1, EnlaceTipo DEF Tipos, ConMaster
<1>3. PICK fase \in Fases :
         /\ fase = Despues[hilo[e]]
         /\ hilo[e] = "confirma" => fase = "registra"
         /\ hilo[e] = "registra" => fase = "avisa"
         /\ hilo[e] = "avisa" => fase = "lee"
  BY <1>1 DEF Fases, Despues
<1>4. /\ hilo' = [hilo EXCEPT ![e] = fase] /\ hilo'[e] = fase /\ hilo' \in [Enlaces -> Fases]
      /\ \A d \in Enlaces \ {e} : hilo'[d] = hilo[d]
      /\ \A d \in Enlaces : hilo[d] = "fin" => hilo'[d] = "fin"
  BY <1>1, <1>2, <1>3
<1>5. \A w \in Workers : ConStorage(w) \in Enlaces /\ ConStorage(w) # e
  BY <1>1, EnlacesDe
<1>6. /\ \A d \in Enlaces : EnCamino(d)' <=> EnCamino(d)
      /\ \A c \in Clientes : hilo[ConMaster(c)] \in Conocido => hilo'[ConMaster(c)] \in Conocido
  <2>1. hilo[e] \in Conocido => hilo'[e] \in Conocido
    BY <1>1, <1>3, <1>4 DEF Conocido
  <2> QED BY <1>1, <1>4, <2>1, PuertasIguales, EnlacesDe DEF Inv
<1>7. asignada' = asignada =>
      \A v \in Workers : asignada'[v] # NULL => /\ hilo'[ConMaster(v)] \in Conocido
                                                /\ hilo'[ConMaster(asignada'[v])] \in Conocido
  <2> SUFFICES ASSUME asignada' = asignada, NEW v \in Workers, asignada[v] # NULL
               PROVE  hilo'[ConMaster(v)] \in Conocido /\ hilo'[ConMaster(asignada[v])] \in Conocido
    OBVIOUS
  <2>1. v \in Clientes /\ asignada[v] \in Clientes
    BY <1>2 DEF Clientes
  <2> QED BY <1>1, <1>6, <2>1 DEF DelMaster
<1>8. \A q \in QueryControls : estado[q] # "NINGUNO" => hilo'[ConMaster(q)] \in Conocido
  BY <1>1, <1>6 DEF DelMaster, Clientes
<1>9. CASE /\ hilo[e] = "confirma" /\ UNCHANGED <<maestro, cuenta>>
           /\ Envia("master", sock, e, "servidor", "CONFIRMACION")
  <2>1. /\ vivo' = vivo /\ sigpipe' = sigpipe /\ sock' \in [Enlaces -> Canales]
        /\ \A d \in Enlaces \ {e} : sock'[d] = sock[d]
        /\ Bien(e)'
    <3>1. Respuesta(e) = "CONFIRMACION" /\ hilo'[e] = IF e[2] = "master" THEN "registra" ELSE "lee"
      BY <1>1, <1>3, <1>4, <1>9 DEF Respuesta
    <3> QED BY <1>1, <1>6, <1>9, <3>1, BienAlContestar
  <2>2. /\ semListo' = semListo /\ sem' = sem /\ lista' = lista /\ asignada' = asignada
        /\ estado' = estado /\ cuenta' = cuenta
    BY <1>9 DEF maestro
  <2>3. Cuentas'
    BY <1>1, <1>2, <1>3, <1>4, <1>9, <2>2, CuentasFase
  <2> QED BY <1>1, <1>2, <1>4, <1>5, <1>7, <1>8, <2>1, <2>2, <2>3, MasterPasoInv
<1>10. ASSUME hilo[e] \in {"registra", "avisa"}, Sigue
       PROVE  /\ vivo' = vivo /\ sigpipe' = sigpipe /\ sock' = sock /\ Bien(e)'
  <2>1. /\ vivo' = vivo /\ sigpipe' = sigpipe /\ sock' = sock /\ Bien(e)
    BY <1>10 DEF Sigue, Inv
  <2>2. /\ ~EnCamino(e) /\ ~EnCamino(e)' /\ Destino(e)' = Destino(e) /\ MismoPaso(e)
        /\ (Vive(e)' <=> Vive(e)) /\ hilo'[e] \in {"avisa", "lee"}
    BY <1>1, <1>3, <1>4, <1>6, <1>10, <2>1, SinCliente DEF Bien, DelHilo
  <2>3. DelHilo(e)'
    BY <1>1, <1>10, <2>1, <2>2 DEF Bien, DelHilo, MismoPaso
  <2>4. DelServidor(e)'
    BY <1>10, <2>1, <2>2 DEF Bien, DelServidor, Atendiendo
  <2>5. DelCliente(e)'
    BY <1>1, <1>10, <2>1, <2>2, DelClienteIgual DEF LadoCliente, SinContestar
  <2> QED BY <2>1, <2>3, <2>4, <2>5 DEF Bien
<1>11. CASE /\ hilo[e] = "registra" /\ Sigue /\ UNCHANGED <<semListo, sem, asignada>>
            /\ e[1] \in QueryControls
            /\ estado' = [estado EXCEPT ![e[1]] = "READY"] /\ UNCHANGED <<lista, cuenta>>
  <2>1. Cuentas'
    <3>1. e[1] \notin Workers
      BY <1>11, ConexionesSupuesto
    <3>2. lista' = lista /\ cuenta' = cuenta
      BY <1>11
    <3> QED BY <1>1, <1>2, <1>4, <3>1, <3>2, CuentasFase
  <2>2. /\ estado' \in [QueryControls -> {"NINGUNO", "READY", "EXEC", "EXIT"}]
        /\ \A q \in QueryControls : estado'[q] # "NINGUNO" => hilo'[ConMaster(q)] \in Conocido
    <3>1. hilo'[ConMaster(e[1])] \in Conocido
      BY <1>2, <1>3, <1>4, <1>11 DEF Conocido
    <3> QED BY <1>2, <1>8, <1>11, <3>1
  <2> QED BY <1>1, <1>2, <1>4, <1>5, <1>7, <1>10, <1>11, <2>1, <2>2, MasterPasoInv
<1>12. CASE /\ hilo[e] = "registra" /\ Sigue /\ UNCHANGED <<semListo, sem, asignada, estado>>
            /\ e[1] \in Workers /\ Suma("master", 1) /\ lista' = lista \cup {e[1]}
  <2>1. Cuentas'
    <3>1. Entra(e, fase)
      BY <1>1, <1>3, <1>12 DEF Entra, Cuenta
    <3>2. PICK w \in Workers : e[1] = w
      BY <1>12
    <3>3. hilo' = [hilo EXCEPT ![e] = fase] /\ hilo \in [Enlaces -> Fases] /\ Cuentas
      BY <1>1, <1>2, <1>4
    <3> QED BY <3>1, <3>2, <3>3, CuentasWorker
  <2> QED BY <1>1, <1>2, <1>4, <1>5, <1>7, <1>8, <1>10, <1>12, <2>1, MasterPasoInv
<1>13. CASE /\ hilo[e] = "avisa" /\ Sigue /\ sem' = sem + 1
            /\ UNCHANGED <<semListo, lista, asignada, estado, cuenta>>
  <2>1. Cuentas'
    BY <1>1, <1>2, <1>3, <1>4, <1>13, CuentasFase
  <2> QED BY <1>1, <1>2, <1>4, <1>5, <1>7, <1>8, <1>10, <1>13, <2>1, MasterPasoInv
<1> QED BY <1>9, <1>11, <1>12, <1>13 DEF Registra, Hilo

LEMMA SeVaQueryControlInv ==
    ASSUME Inv, NEW q \in QueryControls, SeVaQueryControl(q)
    PROVE  Inv'
<1>0. PICK e \in Enlaces : e = ConMaster(q)
  BY EnlacesDe DEF Clientes
<1> DEFINE k == Cierra(sock[e], "servidor")
           cerrado == [sock EXCEPT ![e] = k]
           suyo == {w \in lista : asignada[w] = q}
<1>1. /\ e[1] = q /\ e[2] = "master" /\ "master" \in vivo /\ hilo[e] = "lee"
      /\ Cortada(sock[e], "servidor") /\ hilo' = [hilo EXCEPT ![e] = "fin"]
      /\ estado' = IF estado[q] = "READY" THEN [estado EXCEPT ![q] = "EXIT"] ELSE estado
      /\ UNCHANGED <<semListo, sem, lista, asignada, socketQuery, cuenta>>
      /\ UNCHANGED <<cola, receptor, clientes, hilosWorker, equivocados>>
      /\ Tipos /\ DelMaster /\ Cuentas
  BY <1>0, EnlacesDe DEF SeVaQueryControl, Hilo, Pasa, ajeno, historia, Inv, Clientes
<1>2. \/ \E w \in suyo : Envia("master", cerrado, ConMaster(w), "servidor", "FIN")
      \/ sock' = cerrado /\ UNCHANGED <<vivo, sigpipe>>
  BY <1>0 DEF SeVaQueryControl
<1>3. /\ hilo \in [Enlaces -> Fases] /\ sock \in [Enlaces -> Canales] /\ hilo' \in [Enlaces -> Fases]
      /\ semListo \in BOOLEAN /\ sem \in Nat
      /\ asignada \in [Workers -> QueryControls \cup {NULL}]
      /\ estado' \in [QueryControls -> {"NINGUNO", "READY", "EXEC", "EXIT"}]
      /\ \A p \in QueryControls : estado'[p] # "NINGUNO" => estado[p] # "NINGUNO"
      /\ hilo'[e] = "fin" /\ \A d \in Enlaces \ {e} : hilo'[d] = hilo[d]
      /\ \A d \in Enlaces : hilo[d] = "fin" => hilo'[d] = "fin"
  BY <1>1 DEF Tipos, Fases
<1>4. /\ \A d \in Enlaces : EnCamino(d)' <=> EnCamino(d)
      /\ \A c \in Clientes : hilo[ConMaster(c)] \in Conocido => hilo'[ConMaster(c)] \in Conocido
  BY <1>1, <1>3, PuertasIguales, EnlacesDe DEF Inv, Conocido
<1>5. k \in Canales /\ (vivo' = vivo => Bien(e)')
  <2>1. k \in Canales
    BY <1>3, CierraCanal DEF Lados
  <2> QED BY <1>1, <1>3, <1>4, <2>1, BienAlCerrar
<1> HIDE DEF k
<1>6. cerrado \in [Enlaces -> Canales] /\ cerrado[e] = k /\ \A d \in Enlaces \ {e} : cerrado[d] = sock[d]
  BY <1>3, <1>5
<1>7. Cuentas'
  <2>1. q \notin Workers
    BY ConexionesSupuesto
  <2>2. "fin" \in Fases
    BY DEF Fases
  <2> QED BY <1>1, <1>3, <2>1, <2>2, CuentasFase
<1>8. /\ \A v \in Workers : asignada'[v] # NULL => /\ hilo'[ConMaster(v)] \in Conocido
                                                   /\ hilo'[ConMaster(asignada'[v])] \in Conocido
      /\ \A p \in QueryControls : estado'[p] # "NINGUNO" => hilo'[ConMaster(p)] \in Conocido
  <2>1. \A v \in Workers : asignada[v] # NULL => v \in Clientes /\ asignada[v] \in Clientes
    BY <1>3 DEF Clientes
  <2> QED BY <1>1, <1>3, <1>4, <2>1 DEF DelMaster, Clientes
<1>9. \A w \in Workers : ConStorage(w) \in Enlaces /\ ConStorage(w)[2] = "storage"
  BY EnlacesDe
<1> HIDE DEF cerrado, suyo
<1>10. CASE sock' = cerrado /\ UNCHANGED <<vivo, sigpipe>>
  BY <1>1, <1>3, <1>5, <1>6, <1>7, <1>8, <1>9, <1>10, MasterPasoInv
<1>11. ASSUME NEW w \in suyo, Envia("master", cerrado, ConMaster(w), "servidor", "FIN")
       PROVE  Inv'
  <2>1. w \in Workers /\ w \in Registrados
    BY <1>1 DEF suyo, Cuentas, Registrados
  <2>2. PICK d \in Enlaces : d = ConMaster(w) /\ d[1] = w
    BY <2>1, EnlacesDe DEF Clientes
  <2>3. hilo[d] \in Conocido /\ d[2] = "master" /\ d # e
    BY <1>1, <2>1, <2>2, ConexionesSupuesto DEF Registrados, Conocido, ConMaster
  <2>4. /\ vivo' = vivo /\ sigpipe' = sigpipe /\ sock' \in [Enlaces -> Canales]
        /\ \A x \in Enlaces \ {d} : sock'[x] = cerrado[x]
        /\ Bien(d)'
    <3>1. Envia("master", cerrado, d, "servidor", "FIN") /\ "FIN" \in Mensajes
      BY <1>11, <2>2 DEF Mensajes
    <3> QED BY <1>1, <1>3, <1>4, <1>6, <2>3, <3>1, MasterEnvia
  <2>5. \A x \in Enlaces : (sock'[x] = sock[x] /\ hilo'[x] = hilo[x]) \/ Bien(x)'
    BY <1>3, <1>5, <1>6, <2>4
  <2>6. \A v \in Workers : sock'[ConStorage(v)] = sock[ConStorage(v)]
                           /\ hilo'[ConStorage(v)] = hilo[ConStorage(v)]
    BY <1>1, <1>3, <1>6, <1>9, <2>3, <2>4
  <2> QED BY <1>1, <1>3, <1>7, <1>8, <2>4, <2>5, <2>6, MasterPasoInv
<1> QED BY <1>2, <1>10, <1>11

LEMMA LeeWorkerInv ==
    ASSUME Inv, NEW w \in Workers, LeeWorker(w)
    PROVE  Inv'
<1>0. PICK e \in Enlaces : e = ConMaster(w)
  BY EnlacesDe DEF Clientes
<1>00. PICK q \in QueryControls \cup {NULL} : q = asignada[w]
  BY DEF Inv, Tipos
<1> DEFINE k == Lee(sock[e], "servidor")
           m == Head(sock[e].hacia.servidor)
           leido == [sock EXCEPT ![e] = k]
<1>1. /\ e[1] = w /\ e[2] = "master" /\ "master" \in vivo /\ hilo[e] = "lee"
      /\ Hay(sock[e], "servidor") /\ hilo' = hilo
      /\ UNCHANGED <<semListo, lista, socketQuery, cuenta>>
      /\ UNCHANGED <<cola, receptor, clientes, hilosWorker, equivocados>>
      /\ Tipos /\ DelMaster /\ Cuentas
  BY <1>0, EnlacesDe DEF LeeWorker, Hilo, ajeno, historia, Inv, Clientes
<1>2. \/ q # NULL /\ (m = "READ" \/ Conectado(q)) /\ Envia("master", leido, socketQuery[q], "servidor", m)
      \/ sock' = leido /\ UNCHANGED <<vivo, sigpipe>>
  BY <1>0, <1>00 DEF LeeWorker
<1>3. \/ /\ asignada' = [asignada EXCEPT ![w] = NULL] /\ sem' = sem + 1
         /\ estado' = IF q = NULL THEN estado ELSE [estado EXCEPT ![q] = "EXIT"]
      \/ UNCHANGED <<asignada, sem, estado>>
  BY <1>0, <1>00 DEF LeeWorker, Avisa
<1>4. /\ hilo \in [Enlaces -> Fases] /\ sock \in [Enlaces -> Canales]
      /\ semListo \in BOOLEAN /\ sem \in Nat
      /\ asignada \in [Workers -> QueryControls \cup {NULL}]
      /\ estado \in [QueryControls -> {"NINGUNO", "READY", "EXEC", "EXIT"}]
      /\ socketQuery \in [QueryControls -> Enlaces]
  BY <1>1 DEF Tipos
<1>5. \A d \in Enlaces : EnCamino(d)' <=> EnCamino(d)
  BY <1>1, PuertasIguales DEF Inv
<1>6. k \in Canales /\ m \in Mensajes /\ LadoCliente(sock[e], k) /\ k.abierto = sock[e].abierto
  BY <1>1, <1>4, LeeCanal DEF Lados, Otro, LadoCliente
<1> HIDE DEF k, m
<1>7. leido \in [Enlaces -> Canales] /\ leido[e] = k /\ \A d \in Enlaces \ {e} : leido[d] = sock[d]
  BY <1>4, <1>6
<1>8. vivo' = vivo /\ sock'[e] = k => Bien(e)'
  BY <1>1, <1>5, BienAlRecibir DEF k
<1>9. Cuentas'
  BY <1>1, CuentasIguales
<1>10. q # NULL => q \in QueryControls /\ hilo[ConMaster(q)] \in Conocido
  BY <1>00, <1>1 DEF DelMaster
<1>11. /\ asignada' \in [Workers -> QueryControls \cup {NULL}] /\ sem' \in Nat
       /\ estado' \in [QueryControls -> {"NINGUNO", "READY", "EXEC", "EXIT"}]
       /\ \A v \in Workers : asignada'[v] # NULL => asignada'[v] = asignada[v]
       /\ \A p \in QueryControls : estado'[p] # estado[p] => p = q
  BY <1>3, <1>4
<1>12. /\ \A v \in Workers : asignada'[v] # NULL => /\ hilo'[ConMaster(v)] \in Conocido
                                                    /\ hilo'[ConMaster(asignada'[v])] \in Conocido
       /\ \A p \in QueryControls : estado'[p] # "NINGUNO" => hilo'[ConMaster(p)] \in Conocido
  <2>1. \A v \in Workers : asignada'[v] # NULL => /\ hilo'[ConMaster(v)] \in Conocido
                                                  /\ hilo'[ConMaster(asignada'[v])] \in Conocido
    BY <1>1, <1>11 DEF DelMaster
  <2>2. ASSUME NEW p \in QueryControls, estado'[p] # "NINGUNO" PROVE hilo'[ConMaster(p)] \in Conocido
    <3>1. CASE p = q
      BY <1>1, <1>10, <2>2, <3>1, ConexionesSupuesto DEF Clientes
    <3>2. CASE p # q
      BY <1>1, <1>11, <2>2, <3>2 DEF DelMaster
    <3> QED BY <3>1, <3>2
  <2> QED BY <2>1, <2>2
<1>13. \A v \in Workers : ConStorage(v) \in Enlaces /\ ConStorage(v)[2] = "storage"
  BY EnlacesDe
<1> HIDE DEF leido
<1>14. CASE sock' = leido /\ UNCHANGED <<vivo, sigpipe>>
  BY <1>1, <1>4, <1>7, <1>8, <1>9, <1>11, <1>12, <1>13, <1>14, MasterPasoInv
<1>15. CASE /\ q # NULL /\ (m = "READ" \/ Conectado(q))
            /\ Envia("master", leido, socketQuery[q], "servidor", m)
  <2>1. PICK d \in Enlaces : d = socketQuery[q]
    BY <1>4, <1>10, <1>15
  <2>2. /\ (d[2] = "master" /\ hilo[d] \in Conocido) \/ (m = "READ" /\ Heredada(d))
        /\ Destino(d) = "master" \/ d[2] = "master"
    <3>1. DelNumero(q) /\ ConMaster(q)[2] = "master"
      BY <1>1, <1>10, <1>15, EnlacesDe DEF DelMaster, Clientes
    <3>2. CASE d = ConMaster(q)
      BY <1>10, <1>15, <3>1, <3>2
    <3>3. CASE d # ConMaster(q)
      BY <1>1, <1>10, <1>15, <2>1, <3>1, <3>3 DEF DelNumero, Conectado, Heredada
    <3> QED BY <3>2, <3>3
  <2>3. /\ vivo' = vivo /\ sigpipe' = sigpipe /\ sock' \in [Enlaces -> Canales]
        /\ \A x \in Enlaces \ {d} : sock'[x] = leido[x]
        /\ Bien(d)'
    <3>1. Envia("master", leido, d, "servidor", m)
      BY <1>15, <2>1
    <3>2. \/ leido[d] = sock[d]
          \/ /\ hilo[d] \in Conocido /\ LadoCliente(sock[d], leido[d])
             /\ leido[d].abierto = sock[d].abierto
      BY <1>1, <1>6, <1>7 DEF Conocido
    <3> QED BY <1>1, <1>5, <1>6, <1>7, <2>2, <3>1, <3>2, MasterEnvia
  <2>4. \A x \in Enlaces : (sock'[x] = sock[x] /\ hilo'[x] = hilo[x]) \/ Bien(x)'
    BY <1>1, <1>7, <1>8, <2>2, <2>3
  <2>5. \A v \in Workers : /\ hilo'[ConStorage(v)] = hilo[ConStorage(v)]
                           /\ \/ sock'[ConStorage(v)] = sock[ConStorage(v)]
                              \/ Destino(ConStorage(v)) # "storage"
    BY <1>1, <1>7, <1>13, <2>2, <2>3
  <2> QED BY <1>1, <1>4, <1>9, <1>11, <1>12, <2>3, <2>4, <2>5, MasterPasoInv
<1> QED BY <1>2, <1>14, <1>15

LEMMA SeVaWorkerInv ==
    ASSUME Inv, NEW w \in Workers, SeVaWorker(w)
    PROVE  Inv'
<1>0. PICK e \in Enlaces : e = ConMaster(w)
  BY EnlacesDe DEF Clientes
<1>00. PICK q \in QueryControls \cup {NULL} : q = asignada[w]
  BY DEF Inv, Tipos
<1> DEFINE k == Cierra(sock[e], "servidor")
           cerrado == [sock EXCEPT ![e] = k]
<1>1. /\ e[1] = w /\ e[2] = "master" /\ "master" \in vivo /\ hilo[e] = "lee"
      /\ Cortada(sock[e], "servidor") /\ hilo' = [hilo EXCEPT ![e] = "fin"]
      /\ UNCHANGED <<semListo, sem, asignada, socketQuery>>
      /\ lista' = lista \ {w} /\ Resta("master", 1)
      /\ estado' = IF q = NULL THEN estado ELSE [estado EXCEPT ![q] = "EXIT"]
      /\ UNCHANGED <<cola, receptor, clientes, hilosWorker, equivocados>>
      /\ Tipos /\ DelMaster /\ Cuentas
  BY <1>0, <1>00, EnlacesDe DEF SeVaWorker, Hilo, Pasa, ajeno, historia, Inv, Clientes
<1>2. \/ /\ q # NULL /\ Conectado(q)
         /\ Envia("master", cerrado, socketQuery[q], "servidor", "RESULTADO")
      \/ sock' = cerrado /\ UNCHANGED <<vivo, sigpipe>>
  BY <1>0, <1>00 DEF SeVaWorker
<1>3. /\ hilo \in [Enlaces -> Fases] /\ sock \in [Enlaces -> Canales] /\ hilo' \in [Enlaces -> Fases]
      /\ semListo \in BOOLEAN /\ sem \in Nat
      /\ asignada \in [Workers -> QueryControls \cup {NULL}]
      /\ estado' \in [QueryControls -> {"NINGUNO", "READY", "EXEC", "EXIT"}]
      /\ \A p \in QueryControls : estado'[p] # estado[p] => p = q
      /\ hilo'[e] = "fin" /\ \A d \in Enlaces \ {e} : hilo'[d] = hilo[d]
      /\ \A d \in Enlaces : hilo[d] = "fin" => hilo'[d] = "fin"
  BY <1>1 DEF Tipos, Fases
<1>4. /\ \A d \in Enlaces : EnCamino(d)' <=> EnCamino(d)
      /\ \A c \in Clientes : hilo[ConMaster(c)] \in Conocido => hilo'[ConMaster(c)] \in Conocido
  BY <1>1, <1>3, PuertasIguales, EnlacesDe DEF Inv, Conocido
<1>5. k \in Canales /\ (vivo' = vivo => Bien(e)')
  <2>1. k \in Canales
    BY <1>3, CierraCanal DEF Lados
  <2> QED BY <1>1, <1>3, <1>4, <2>1, BienAlCerrar
<1> HIDE DEF k
<1>6. cerrado \in [Enlaces -> Canales] /\ cerrado[e] = k /\ \A d \in Enlaces \ {e} : cerrado[d] = sock[d]
  BY <1>3, <1>5
<1>7. Cuentas'
  <2>1. Sale(e, "fin")
    BY <1>1 DEF Sale, Cuenta
  <2>2. "fin" \in Fases
    BY DEF Fases
  <2> QED BY <1>1, <1>3, <2>1, <2>2, CuentasWorker
<1>8. q # NULL => q \in QueryControls /\ hilo[ConMaster(q)] \in Conocido
  BY <1>00, <1>1 DEF DelMaster
<1>9. /\ \A v \in Workers : asignada'[v] # NULL => /\ hilo'[ConMaster(v)] \in Conocido
                                                   /\ hilo'[ConMaster(asignada'[v])] \in Conocido
      /\ \A p \in QueryControls : estado'[p] # "NINGUNO" => hilo'[ConMaster(p)] \in Conocido
  <2>1. \A v \in Workers : asignada[v] # NULL => v \in Clientes /\ asignada[v] \in Clientes
    BY <1>3 DEF Clientes
  <2>2. ASSUME NEW p \in QueryControls, estado'[p] # "NINGUNO" PROVE hilo'[ConMaster(p)] \in Conocido
    <3>1. CASE p = q
      BY <1>4, <1>8, <2>2, <3>1, ConexionesSupuesto DEF Clientes
    <3>2. CASE p # q
      BY <1>1, <1>3, <1>4, <2>2, <3>2 DEF DelMaster, Clientes
    <3> QED BY <3>1, <3>2
  <2> QED BY <1>1, <1>4, <2>1, <2>2 DEF DelMaster
<1>10. \A v \in Workers : ConStorage(v) \in Enlaces /\ ConStorage(v)[2] = "storage"
  BY EnlacesDe
<1> HIDE DEF cerrado
<1>11. CASE sock' = cerrado /\ UNCHANGED <<vivo, sigpipe>>
  BY <1>1, <1>3, <1>5, <1>6, <1>7, <1>9, <1>10, <1>11, MasterPasoInv
<1>12. CASE q # NULL /\ Conectado(q) /\ Envia("master", cerrado, socketQuery[q], "servidor", "RESULTADO")
  <2>1. PICK d \in Enlaces : d = ConMaster(q) /\ d = socketQuery[q]
    BY <1>1, <1>8, <1>12, EnlacesDe DEF Clientes, DelMaster, DelNumero, Conectado
  <2>2. hilo[d] \in Conocido /\ d[2] = "master" /\ d # e
    BY <1>1, <1>8, <1>12, <2>1, ConexionesSupuesto DEF ConMaster
  <2>3. /\ vivo' = vivo /\ sigpipe' = sigpipe /\ sock' \in [Enlaces -> Canales]
        /\ \A x \in Enlaces \ {d} : sock'[x] = cerrado[x]
        /\ Bien(d)'
    <3>1. Envia("master", cerrado, d, "servidor", "RESULTADO") /\ "RESULTADO" \in Mensajes
      BY <1>12, <2>1 DEF Mensajes
    <3> QED BY <1>1, <1>3, <1>4, <1>6, <2>2, <3>1, MasterEnvia
  <2>4. \A x \in Enlaces : (sock'[x] = sock[x] /\ hilo'[x] = hilo[x]) \/ Bien(x)'
    BY <1>3, <1>5, <1>6, <2>3
  <2>5. \A v \in Workers : sock'[ConStorage(v)] = sock[ConStorage(v)]
                           /\ hilo'[ConStorage(v)] = hilo[ConStorage(v)]
    BY <1>1, <1>3, <1>6, <1>10, <2>2, <2>3
  <2> QED BY <1>1, <1>3, <1>7, <1>9, <2>3, <2>4, <2>5, MasterPasoInv
<1> QED BY <1>2, <1>11, <1>12

\* A step of a thread of the Storage.
LEMMA StoragePasoInv ==
    ASSUME Inv, NEW e \in Enlaces, e[2] = "storage", NEW fase \in Fases,
           UNCHANGED <<maestro, cola, receptor, clientes, hilosWorker, equivocados>>,
           vivo' = vivo, sigpipe' = sigpipe, sock' \in [Enlaces -> Canales],
           \A d \in Enlaces \ {e} : sock'[d] = sock[d], hilo' = [hilo EXCEPT ![e] = fase],
           Cuentas', Bien(e)', Turnos(e[1])'
    PROVE  Inv'
<1>1. /\ paso' = paso /\ pagina' = pagina /\ hm' = hm /\ qi' = qi /\ Tipos
      /\ \A d \in Enlaces : MismoPaso(d) /\ Destino(d)' = Destino(d)
      /\ \A d \in Enlaces : EnCamino(d)' <=> EnCamino(d)
      /\ \A x \in Servidores : Puerta(x)'
  BY SinCliente, PuertasIguales DEF Inv
<1>2. /\ hilo \in [Enlaces -> Fases] /\ hilo' \in [Enlaces -> Fases]
      /\ \A d \in Enlaces \ {e} : hilo'[d] = hilo[d]
  BY <1>1 DEF Tipos
<1>3. \A d \in Enlaces \ {e} : Quieto(d)
  BY <1>1, <1>2, IgualQuieto DEF maestro
<1>4. \A d \in Enlaces : Bien(d)'
  BY <1>3, QuietoBien DEF Inv
<1>5. ASSUME NEW w \in Workers PROVE Turnos(w)'
  <2>1. Turnos(w) /\ ConStorage(w) \in Enlaces /\ ConStorage(w)[1] = w
    BY EnlacesDe DEF Inv
  <2> QED BY <1>1, <1>3, <2>1, QuietoTurnos
<1>6. DelMaster'
  <2>1. \A d \in Enlaces : hilo[d] \in Conocido /\ d # e => hilo'[d] \in Conocido
    BY <1>2
  <2>2. \A c \in Clientes : ConMaster(c) \in Enlaces /\ ConMaster(c) # e
    BY EnlacesDe
  <2>3. /\ \A w \in Workers : asignada[w] # NULL => w \in Clientes /\ asignada[w] \in Clientes
        /\ \A q \in QueryControls : q \in Clientes
        /\ asignada' = asignada /\ estado' = estado /\ socketQuery' = socketQuery
    BY <1>1 DEF Tipos, Clientes, maestro
  <2>4. \A c \in Clientes : hilo'[ConMaster(c)] = hilo[ConMaster(c)]
    BY <1>2, <2>2
  <2>5. ASSUME NEW q \in QueryControls PROVE DelNumero(q)'
    BY <2>3, <2>4 DEF Inv, DelMaster, DelNumero, ConMaster, Destino
  <2> QED BY <1>1, <2>3, <2>4, <2>5 DEF Inv, DelMaster, ConMaster, Conocido
<1>7. Tipos'
  BY <1>1, <1>2 DEF Tipos, maestro
<1> QED BY <1>1, <1>4, <1>5, <1>6, <1>7 DEF Inv

LEMMA HiloStorageInv ==
    ASSUME Inv, NEW e \in Enlaces, e[2] = "storage", HiloStorage(e)
    PROVE  Inv'
<1>1. /\ "storage" \in vivo /\ hilo[e] \in {"confirma", "lee"} /\ Tipos /\ Cuentas
      /\ UNCHANGED <<maestro, cola, receptor, clientes, hilosWorker, equivocados>>
  BY DEF HiloStorage, Hilo, ajeno, historia, Inv
<1>2. PICK w \in Workers : e[1] = w /\ e = ConStorage(w)
  BY EnlaceTipo DEF ConStorage
<1>3. /\ Destino(e) = "storage" /\ ~EnCamino(e) /\ Bien(e) /\ sock[e] \in Canales
      /\ "servidor" \in sock[e].abierto
      /\ Vive(e) => Presentado(e) /\ ~PorConectar(e) /\ "cliente" \in sock[e].abierto
      /\ Vive(e) /\ SinRespuesta(e) /\ hilo[e] # "confirma" => sock[e].hacia.cliente # << >>
  BY <1>1, HiloSabe DEF Atendiendo
<1>12. socketQuery' = socketQuery /\ (Heredada(e)' <=> Heredada(e)) /\ ~Heredada(e)
  BY <1>1, <1>3, NumerosIguales, HeredadaMaster DEF maestro, Inv
<1>4. /\ paso' = paso /\ qi' = qi /\ MismoPaso(e) /\ Destino(e)' = Destino(e)
      /\ EnCamino(e)' <=> EnCamino(e)
  BY <1>1, SinCliente, PuertasIguales DEF Inv
<1>5. Turnos(w) /\ ConStorage(w)' = e
  BY <1>2 DEF Inv, ConStorage
<1>6. /\ Len(sock[e].hacia.servidor) <= 1 /\ Len(sock[e].hacia.cliente) <= 1
      /\ sock[e].hacia.servidor # << >> => sock[e].hacia.cliente = << >> /\ ~sock[e].rst
      /\ Vive(e) /\ ~PorConectar(e) /\ ~Espera(e) /\ qi[w] # "respuesta" =>
            sock[e].hacia.servidor = << >> /\ sock[e].hacia.cliente = << >>
      /\ hilo[e] = "confirma" => sock[e].hacia.servidor = << >>
      /\ hilo[e] = "confirma" /\ Vive(e) => Espera(e)
      /\ Vive(e) => IF paso[w].en \in Sirviendo THEN paso[w].con = "master" ELSE qi[w] = "no"
  BY <1>1, <1>2, <1>3, <1>5 DEF Turnos, SinContestar
<1>7. ASSUME vivo' = vivo, hilo'[e] \notin SinContestar,
             sock'[e].hacia.servidor = << >>, Len(sock'[e].hacia.cliente) <= 1,
             Vive(e) /\ ~Espera(e) /\ qi[w] # "respuesta" => sock'[e].hacia.cliente = << >>
      PROVE  Turnos(e[1])'
  <2>1. (Vive(e)' <=> Vive(e)) /\ (Espera(e)' <=> Espera(e)) /\ e[1]' = w
    BY <1>2, <1>4, <1>7 DEF Vive, MismoPaso
  <2> QED BY <1>2, <1>4, <1>5, <1>6, <1>7, <2>1, EmptySeq DEF Turnos, SinContestar
<1>8. hilo \in [Enlaces -> Fases] /\ sock \in [Enlaces -> Canales] /\ "servidor" \in Lados
      /\ Otro("servidor") = "cliente" /\ {"lee", "fin"} \subseteq Fases
  BY <1>1 DEF Tipos, Lados, Otro, Fases
<1>9. CASE /\ hilo[e] = "confirma" /\ hilo' = [hilo EXCEPT ![e] = "lee"] /\ Suma("storage", 1)
           /\ Envia("storage", sock, e, "servidor", "PAGINA")
  <2>1. hilo'[e] = "lee" /\ Respuesta(e) = "PAGINA"
    BY <1>8, <1>9 DEF Respuesta
  <2>2. /\ vivo' = vivo /\ sigpipe' = sigpipe /\ sock' \in [Enlaces -> Canales]
        /\ \A d \in Enlaces \ {e} : sock'[d] = sock[d]
        /\ Bien(e)' /\ Len(sock'[e].hacia.cliente) <= 1
        /\ sock'[e].hacia.servidor = sock[e].hacia.servidor
    BY <1>1, <1>4, <1>9, <1>12, <2>1, BienAlContestar
  <2>3. Turnos(e[1])'
    BY <1>6, <1>7, <1>9, <2>1, <2>2 DEF SinContestar
  <2>4. Cuentas'
    <3>1. Entra(e, "lee")
      BY <1>1, <1>9 DEF Entra, Cuenta, maestro
    <3> QED BY <1>1, <1>2, <1>8, <1>9, <3>1, CuentasWorker
  <2> QED BY <1>1, <1>8, <1>9, <2>2, <2>3, <2>4, StoragePasoInv
<1>10. CASE /\ hilo[e] = "lee" /\ Hay(sock[e], "servidor") /\ UNCHANGED <<hilo, cuenta>>
            /\ Envia("storage", [sock EXCEPT ![e] = Lee(@, "servidor")], e, "servidor", "RESPUESTA")
  <2> DEFINE k == Lee(sock[e], "servidor")
             leido == [sock EXCEPT ![e] = k]
             k2 == Escribe(k, "servidor", "RESPUESTA")
  <2>1. /\ k \in Canales /\ k.abierto = sock[e].abierto /\ k.rst = sock[e].rst
        /\ k.hacia.cliente = sock[e].hacia.cliente
        /\ Len(k.hacia.servidor) = Len(sock[e].hacia.servidor) - 1
    BY <1>3, <1>8, <1>10, LeeCanal
  <2>2. sock[e].hacia.servidor # << >> /\ sock[e].hacia.cliente = << >> /\ ~sock[e].rst
    BY <1>6, <1>10 DEF Hay
  <2> HIDE DEF k
  <2>3. k.hacia.servidor = << >>
    <3>1. k.hacia.servidor \in Seq(Mensajes) /\ sock[e].hacia.servidor \in Seq(Mensajes)
      BY <1>3, <2>1, CanalTipo
    <3> DEFINE a == Len(sock[e].hacia.servidor)
               b == Len(k.hacia.servidor)
    <3>2. a \in Nat /\ b \in Nat /\ a <= 1 /\ b = a - 1
      BY <1>6, <2>1, <3>1, LenProperties
    <3> HIDE DEF a, b
    <3>3. b = 0
      BY <3>2
    <3> QED BY <3>1, <3>3, EmptySeq DEF b
  <2>4. "RESPUESTA" \in Mensajes
    BY DEF Mensajes
  <2>5. /\ k2 \in Canales /\ k2.abierto = k.abierto /\ k2.hacia.servidor = k.hacia.servidor
        /\ "cliente" \in k.abierto => k2.hacia.cliente = Append(k.hacia.cliente, "RESPUESTA")
        /\ "cliente" \notin k.abierto => k2.hacia.cliente = << >>
    BY <2>1, <2>4, DeServidor
  <2>6. leido \in [Enlaces -> Canales] /\ leido[e] = k /\ \A d \in Enlaces \ {e} : leido[d] = sock[d]
    BY <1>8, <2>1
  <2>7. /\ vivo' = vivo /\ sigpipe' = sigpipe /\ sock' \in [Enlaces -> Canales]
        /\ \A d \in Enlaces \ {e} : sock'[d] = leido[d]
        /\ sock'[e] = k2
    <3>1. Envia("storage", leido, e, "servidor", "RESPUESTA")
      BY <1>10 DEF k
    <3>2. ~Rota(leido[e], "servidor") /\ "servidor" \in leido[e].abierto
      BY <1>3, <2>1, <2>2, <2>6 DEF Rota
    <3> HIDE DEF leido, k2
    <3>3. sock'[e] = Escribe(leido[e], "servidor", "RESPUESTA") /\ vivo' = vivo /\ sigpipe' = sigpipe
          /\ sock' \in [Enlaces -> Canales] /\ \A d \in Enlaces \ {e} : sock'[d] = leido[d]
      BY <1>8, <2>4, <2>6, <3>1, <3>2, EnviaEfecto
    <3> QED BY <2>6, <3>3 DEF k2
  <2> HIDE DEF k2
  <2>8. Len(k2.hacia.cliente) <= 1
    <3>1. Len(Append(k.hacia.cliente, "RESPUESTA")) = 1
      BY <2>1, <2>2, <2>4, AlFinal, CanalTipo
    <3>2. CASE "cliente" \in k.abierto
      BY <2>5, <3>1, <3>2
    <3>3. CASE "cliente" \notin k.abierto
      BY <2>5, <3>3, EmptySeq
    <3> QED BY <3>2, <3>3
  <2>9. hilo' = [hilo EXCEPT ![e] = "lee"] /\ hilo'[e] = "lee" /\ hilo' = hilo
    BY <1>8, <1>10
  <2>10. (Vive(e)' <=> Vive(e)) /\ (Vive(e) => ~SinRespuesta(e))
    BY <1>3, <1>10, <2>2, <2>7 DEF Vive
  <2>11. Bien(e)'
    <3>1. DelHilo(e)'
      BY <1>3, <1>4, <2>9, <2>10 DEF Bien, DelHilo, MismoPaso
    <3>2. DelServidor(e)'
      BY <1>3, <1>4, <2>1, <2>5, <2>7, <2>9 DEF DelServidor
    <3>3. DelCliente(e)'
      BY <1>3, <1>4, <2>1, <2>5, <2>7, <2>10 DEF DelCliente, MismoPaso
    <3> QED BY <3>1, <3>2, <3>3 DEF Bien
  <2>12. Turnos(e[1])'
    <3>1. ~(Vive(e) /\ ~Espera(e) /\ qi[w] # "respuesta")
      BY <1>3, <1>6, <2>2
    <3> QED BY <1>7, <2>3, <2>5, <2>7, <2>8, <2>9, <3>1 DEF SinContestar
  <2>13. Cuentas'
    BY <1>1, <1>10, CuentasIguales DEF maestro
  <2>14. \A d \in Enlaces \ {e} : sock'[d] = sock[d]
    BY <2>6, <2>7
  <2> QED BY <1>1, <1>8, <2>7, <2>9, <2>11, <2>12, <2>13, <2>14, StoragePasoInv
<1>11. CASE /\ hilo[e] = "lee" /\ Cortada(sock[e], "servidor")
            /\ hilo' = [hilo EXCEPT ![e] = "fin"] /\ Resta("storage", 1)
            /\ sock' = [sock EXCEPT ![e] = Cierra(@, "servidor")] /\ UNCHANGED <<vivo, sigpipe>>
  <2> DEFINE k == Cierra(sock[e], "servidor")
  <2>1. hilo'[e] = "fin" /\ sock'[e] = k /\ \A d \in Enlaces \ {e} : sock'[d] = sock[d]
    BY <1>8, <1>11
  <2>2. /\ ~Vive(e) /\ Bien(e)' /\ k \in Canales /\ k.hacia.servidor = << >>
        /\ k.hacia.cliente = sock[e].hacia.cliente
    BY <1>1, <1>4, <1>11, <2>1, BienAlCerrar
  <2> HIDE DEF k
  <2>3. Turnos(e[1])'
    BY <1>6, <1>7, <1>11, <2>1, <2>2 DEF SinContestar
  <2>4. sock' \in [Enlaces -> Canales]
    BY <1>8, <1>11, <2>2 DEF k
  <2>5. Cuentas'
    <3>1. Sale(e, "fin")
      BY <1>1, <1>11 DEF Sale, Cuenta, maestro
    <3> QED BY <1>1, <1>2, <1>8, <1>11, <3>1, CuentasWorker
  <2> QED BY <1>1, <1>8, <1>11, <2>1, <2>2, <2>3, <2>4, <2>5, StoragePasoInv
<1> QED BY <1>9, <1>10, <1>11 DEF HiloStorage, Hilo, Pasa

-----------------------------------------------------------------------------
(***************************************************************************)
(* A process is killed; the invariant of the specification.                *)
(***************************************************************************)
LEMMA CaeClienteInv ==
    ASSUME Inv, NEW c \in Clientes, Termina(c, sock), CaeCliente(c), UNCHANGED <<sigpipe, equivocados>>
    PROVE  Inv'
<1>1. /\ paso' = [paso EXCEPT ![c] = [con |-> "master", en |-> "fin"]] /\ pagina' = pagina \ {c}
      /\ hm' = [w \in Workers |-> IF w = c THEN "no" ELSE hm[w]]
      /\ qi' = [w \in Workers |-> IF w = c THEN "no" ELSE qi[w]]
      /\ UNCHANGED servidor /\ Tipos
  BY DEF CaeCliente, Inv
<1>2. /\ paso' \in [Clientes -> [con : Servidores, en : Donde]] /\ paso'[c].con = "master"
      /\ \A d \in Clientes \ {c} : paso'[d] = paso[d]
      /\ pagina' \subseteq Workers /\ pagina \ {c} \subseteq pagina'
  BY <1>1 DEF Tipos, Servidores, Donde
<1>3. [hm |-> hm', qi |-> qi'] \in Hilos /\ \A w \in Workers \ {c} : qi'[w] = qi[w]
  BY <1>1 DEF Tipos, Hilos
<1> QED BY <1>1, <1>2, <1>3, ClienteMuereInv

LEMMA CaeServidorInv ==
    ASSUME Inv, NEW s \in Servidores, Termina(s, sock), CaeServidor(s), UNCHANGED <<sigpipe, equivocados>>
    PROVE  Inv'
<1>1. /\ cola' = [cola EXCEPT ![s] = << >>]
      /\ receptor' = [receptor EXCEPT ![s] = [en |-> "fin", de |-> NULL]]
      /\ hilo' = [e \in Enlaces |-> IF e[2] = s THEN "no" ELSE hilo[e]]
      /\ cuenta' = [cuenta EXCEPT ![s] = 0]
      /\ UNCHANGED <<clientes, hilosWorker, equivocados, sigpipe>> /\ Tipos /\ Cuentas /\ DelMaster
      /\ \/ /\ s = "master" /\ sem' = 0 /\ lista' = {}
            /\ asignada' = [w \in Workers |-> NULL]
            /\ estado' = [q \in QueryControls |-> "NINGUNO"] /\ UNCHANGED <<semListo, perdido>>
         \/ s = "storage" /\ UNCHANGED maestro
      /\ socketQuery' = socketQuery
  BY DEF CaeServidor, Recibe, Inv, maestro
<1>2. /\ paso' = paso /\ pagina' = pagina /\ hm' = hm /\ qi' = qi
      /\ sock \in [Enlaces -> Canales]
      /\ \A d \in Enlaces : MismoPaso(d) /\ Destino(d)' = Destino(d)
  BY <1>1, SinCliente
<1>3. vivo' = vivo \ {s} /\ sock' \in [Enlaces -> Canales]
  BY <1>2, TerminaEfecto
<1>4. /\ cola'[s] = << >> /\ receptor'[s] = [en |-> "fin", de |-> NULL]
      /\ \A x \in Servidores \ {s} : cola'[x] = cola[x] /\ receptor'[x] = receptor[x]
      /\ cola' \in [Servidores -> Seq(Enlaces)] /\ receptor' \in [Servidores -> Puertas]
      /\ hilo' \in [Enlaces -> Fases]
      /\ \A e \in Enlaces : hilo'[e] = IF e[2] = s THEN "no" ELSE hilo[e]
  BY <1>1 DEF Tipos, Puertas, Fases
<1>5. ASSUME NEW x \in Servidores PROVE Puerta(x)'
  <2>1. Puerta(x) /\ \A d : Destino(d)' = Destino(d)
    BY <1>1 DEF Inv, Destino
  <2>2. CASE x # s
    BY <1>4, <2>1, <2>2 DEF Puerta
  <2>3. CASE x = s
    BY <1>4, <2>3 DEF Puerta
  <2> QED BY <2>2, <2>3
<1>6. ASSUME NEW e \in Enlaces, EnCamino(e)' PROVE EnCamino(e)
  <2>1. Destino(e)' = Destino(e) /\ Destino(e) \in Servidores /\ e # NULL
    BY <1>2, EnlaceTipo
  <2> QED BY <1>4, <1>6, <2>1 DEF EnCamino, EnCola
<1>7. \A e \in Enlaces : Quieto(e)
  BY <1>1, <1>2, <1>4, <1>6, MuereQuieto
<1>8. \A e \in Enlaces : Bien(e)'
  BY <1>7, QuietoBien DEF Inv
<1>9. \A w \in Workers : Turnos(w)'
  BY <1>2, <1>7, QuietoTurnos, EnlacesDe DEF Inv
<1>10. \A c \in Clientes : /\ hilo'[ConMaster(c)] = IF s = "master" THEN "no" ELSE hilo[ConMaster(c)]
                           /\ c \in Workers => hilo'[ConStorage(c)] =
                                                  IF s = "storage" THEN "no" ELSE hilo[ConStorage(c)]
  BY <1>4, EnlacesDe
<1>11. Cuentas'
  <2>1. CASE s = "master"
    <3>1. Registrados' = {} /\ EnStorage' = EnStorage
      BY <1>10, <2>1 DEF Registrados, EnStorage, ConMaster, ConStorage, Clientes
    <3> QED BY <1>1, <2>1, <3>1, FS_EmptySet DEF Cuentas, Servidores
  <2>2. CASE s = "storage"
    <3>1. Registrados' = Registrados /\ EnStorage' = {}
      BY <1>10, <2>2 DEF Registrados, EnStorage, ConMaster, ConStorage, Clientes
    <3> QED BY <1>1, <2>2, <3>1, FS_EmptySet DEF Cuentas, Servidores, maestro
  <2> QED BY <2>1, <2>2 DEF Servidores
<1>12. DelMaster'
  <2>1. CASE s = "master"
    <3>1. \A q \in QueryControls : DelNumero(q)'
      BY <1>1, <1>3, <2>1 DEF DelMaster, DelNumero, ConMaster, Destino
    <3> QED BY <1>1, <1>2, <1>3, <2>1, <3>1 DEF DelMaster
  <2>2. CASE s = "storage"
    <3>1. \A e \in Enlaces : hilo[e] \in Conocido => hilo'[e] \in Conocido \/ e[2] = "storage"
      BY <1>4, <2>2
    <3>2. /\ \A w \in Workers : asignada[w] # NULL => w \in Clientes /\ asignada[w] \in Clientes
          /\ \A q \in QueryControls : q \in Clientes
          /\ asignada' = asignada /\ estado' = estado
      BY <1>1, <2>2 DEF Tipos, Clientes, maestro
    <3>3. \A c \in Clientes : hilo'[ConMaster(c)] = hilo[ConMaster(c)]
      BY <1>10, <2>2
    <3>4. ASSUME NEW q \in QueryControls PROVE DelNumero(q)'
      BY <1>1, <1>3, <3>2, <3>3 DEF DelMaster, DelNumero, ConMaster, Destino
    <3> QED BY <1>1, <1>2, <1>3, <3>2, <3>3, <3>4 DEF DelMaster, ConMaster, Conocido
  <2> QED BY <2>1, <2>2 DEF Servidores
<1>13. Tipos'
  <2>1. /\ semListo' \in BOOLEAN /\ sem' \in Nat
        /\ asignada' \in [Workers -> QueryControls \cup {NULL}]
        /\ estado' \in [QueryControls -> {"NINGUNO", "READY", "EXEC", "EXIT"}]
    BY <1>1 DEF Tipos, maestro
  <2> QED BY <1>1, <1>2, <1>3, <1>4, <2>1 DEF Tipos
<1> QED BY <1>5, <1>8, <1>9, <1>11, <1>12, <1>13 DEF Inv

LEMMA InitInv ==
    ASSUME Init
    PROVE  Inv
<1>1. /\ vivo = Clientes \cup Servidores
      /\ paso = [c \in Clientes |-> [con |-> IF c \in Workers THEN "storage" ELSE "master",
                                     en |-> "conecta"]]
      /\ sock = [e \in Enlaces |-> SinConexion]
      /\ cola = [s \in Servidores |-> << >>]
      /\ receptor = [s \in Servidores |-> [en |-> "acepta", de |-> NULL]]
      /\ hilo = [e \in Enlaces |-> "no"] /\ cuenta = [s \in Servidores |-> 0]
      /\ semListo = FALSE /\ sem = 0 /\ lista = {} /\ asignada = [w \in Workers |-> NULL]
      /\ estado = [q \in QueryControls |-> "NINGUNO"] /\ pagina = {}
      /\ socketQuery = [q \in QueryControls |-> <<q, "master">>]
      /\ hm = [w \in Workers |-> "no"] /\ qi = [w \in Workers |-> "no"] /\ sigpipe = {}
  BY DEF Init
<1>2. /\ SinConexion \in Canales /\ SinConexion.hacia.cliente = << >>
      /\ SinConexion.hacia.servidor = << >> /\ ~SinConexion.rst
  BY EmptySeq DEF SinConexion, Nada, Canales, Lados
<1>3. Tipos
  <2>1. cola \in [Servidores -> Seq(Enlaces)]
    BY <1>1, EmptySeq
  <2>2. socketQuery \in [QueryControls -> Enlaces]
    BY <1>1 DEF Enlaces
  <2> QED BY <1>1, <1>2, <2>1, <2>2 DEF Tipos, Donde, Servidores, Puertas, Fases
<1>4. Cuentas
  <2>1. Registrados = {} /\ EnStorage = {}
    BY <1>1, EnlacesDe DEF Registrados, EnStorage, Clientes
  <2> QED BY <1>1, <2>1, FS_EmptySet DEF Cuentas
<1>5. \A s \in Servidores : Puerta(s)
  BY <1>1 DEF Puerta
<1>6. ASSUME NEW e \in Enlaces PROVE Bien(e)
  <2>1. Destino(e) \in Servidores /\ e # NULL /\ e[1] \in Clientes /\ e[2] \in Servidores
        /\ (e[1] \in QueryControls => e[2] = "master") /\ (e[1] \in Workers \/ e[1] \in QueryControls)
    BY EnlaceTipo
  <2>2. /\ ~EnCamino(e) /\ hilo[e] = "no" /\ sock[e] = SinConexion
    BY <1>1, <2>1 DEF EnCamino, EnCola
  <2>3. paso[e[1]].en = "conecta"
        /\ (paso[e[1]].con = "master" => e[1] \in QueryControls)
    BY <1>1, <2>1
  <2>4. PorConectar(e) /\ ~SinRespuesta(e)
    BY <2>1, <2>3 DEF PorConectar, SinRespuesta
  <2> QED BY <2>2, <2>4 DEF Bien, DelHilo, DelServidor, DelCliente, Atendiendo
<1>7. ASSUME NEW w \in Workers PROVE Turnos(w)
  <2>1. ConStorage(w) \in Enlaces /\ ConStorage(w)[1] = w /\ ConStorage(w)[2] = "storage" /\ w \in Clientes
    BY EnlacesDe DEF Clientes
  <2>2. paso[w].en = "conecta" /\ paso[w].con = "storage" /\ qi[w] = "no" /\ hilo[ConStorage(w)] = "no"
    BY <1>1, <2>1
  <2>4. paso[w].en \notin Sirviendo
    BY <2>2 DEF Sirviendo
  <2>3. ~Presentado(ConStorage(w)) /\ sock[ConStorage(w)] = SinConexion
    BY <1>1, <2>1, <2>2 DEF Sirviendo, Presentado
  <2> QED BY <1>2, <2>2, <2>3, <2>4, EmptySeq DEF Turnos
<1>8. DelMaster
  BY <1>1, ConexionesSupuesto DEF DelMaster, DelNumero, ConMaster, Clientes
<1> QED BY <1>3, <1>4, <1>5, <1>6, <1>7, <1>8 DEF Inv

LEMMA NextInv ==
    ASSUME Inv, [Next]_vars
    PROVE  Inv'
<1>1. ASSUME NEW c \in Clientes, Cliente(c) PROVE Inv'
  BY <1>1, ConectaInv, SaludaInv, RecibePaginaInv, ConfirmaInv, EscuchaInv,
     DesfasadoInv DEF Cliente
<1>2. ASSUME NEW w \in Workers, HiloMaster(w) \/ HiloQueryInterpreter(w) PROVE Inv'
  BY <1>2, HiloMasterInv, HiloQueryInterpreterInv
<1>3. ASSUME NEW s \in Servidores, Receptor(s) PROVE Inv'
  BY <1>3, AceptaInv, RecibeHandshakeInv, SinHandshakeInv DEF Receptor
<1>4. ASSUME NEW e \in Enlaces, HiloDe(e) PROVE Inv'
  BY <1>4, HiloStorageInv, RegistraInv, SeVaQueryControlInv, LeeWorkerInv, SeVaWorkerInv DEF HiloDe
<1>5. CASE Planificador
  BY <1>5, IniciaPlanificadorInv, PlanificaInv DEF Planificador
<1>6. ASSUME NEW p \in Clientes \cup Servidores, Cae(p) PROVE Inv'
  <2>1. Termina(p, sock) /\ UNCHANGED <<sigpipe, equivocados>> /\ (CaeCliente(p) \/ CaeServidor(p))
    BY <1>6 DEF Cae
  <2>2. CaeCliente(p) => p \in Clientes
    BY DEF CaeCliente
  <2>3. CaeServidor(p) => p \in Servidores
    BY DEF CaeServidor
  <2> QED BY <2>1, <2>2, <2>3, CaeClienteInv, CaeServidorInv
<1>7. CASE UNCHANGED vars
  <2>1. /\ UNCHANGED <<servidor, clientes, hilosWorker, equivocados, vivo, sock, sigpipe>>
        /\ hilo' = hilo /\ paso' = paso /\ pagina' = pagina /\ qi' = qi /\ hm' = hm /\ Tipos
    BY <1>7 DEF vars, servidor, clientes, hilosWorker, Inv
  <2>2. \A e \in Enlaces : Quieto(e)
    BY <2>1, SinServidor, IgualQuieto
  <2>3. \A e \in Enlaces : Bien(e)'
    BY <2>2, QuietoBien DEF Inv
  <2>4. \A w \in Workers : Turnos(w)'
    BY <2>1, <2>2, QuietoTurnos, EnlacesDe DEF Inv
  <2>5. [hm |-> hm', qi |-> qi'] \in Hilos
    BY <2>1 DEF Tipos, Hilos
  <2>6. /\ Cuentas' /\ \A s \in Servidores : Puerta(s)'
        /\ asignada' = asignada /\ estado' = estado
        /\ cola' = cola /\ receptor' = receptor /\ semListo' = semListo /\ sem' = sem
        /\ socketQuery' = socketQuery
    BY <2>1, SinServidor
  <2>7. DelMaster'
    BY <2>1, <2>6, MasterIgual DEF Inv, Tipos
  <2>8. Tipos'
    BY <2>1, <2>6 DEF Tipos
  <2> QED BY <2>3, <2>4, <2>6, <2>7, <2>8 DEF Inv
<1> QED BY <1>1, <1>2, <1>3, <1>4, <1>5, <1>6, <1>7 DEF Next

-----------------------------------------------------------------------------
LEMMA Invariante == Spec => []Inv
<1>1. Init => Inv
  BY InitInv
<1>2. Inv /\ [Next]_vars => Inv'
  BY NextInv
<1> QED BY <1>1, <1>2, PTL DEF Spec

\* The variables hold values of their types, and each server counts its Workers: the
\* number g_cantidadWorkers of the Storage and nivelMultiprocesamiento of the Master have
\* is the number of threads that serve a registered Worker, whoever comes, leaves or dies.
THEOREM TiposYCuentas == Spec => []TypeOK
<1>1. ASSUME Inv PROVE TypeOK
  <2>1. Tipos /\ Cuentas
    BY <1>1 DEF Inv
  <2>2. sock \in [Enlaces -> [abierto : SUBSET Lados, rst : BOOLEAN, hacia : [Lados -> Seq(Mensajes)]]]
    BY <2>1 DEF Tipos, Canales
  <2>3. \A s \in Servidores : receptor[s].en \in {"acepta", "lee", "fin"}
                              /\ receptor[s].de \in Enlaces \cup {NULL}
    BY <2>1 DEF Tipos, Puertas
  <2>4. lista = {w \in Workers : hilo[ConMaster(w)] \in {"avisa", "lee"}}
        /\ cuenta = [s \in Servidores |-> IF s = "master" THEN Cardinality(lista)
                     ELSE Cardinality({w \in Workers : hilo[ConStorage(w)] = "lee"})]
    BY <2>1 DEF Cuentas, Registrados, EnStorage
  <2> QED BY <2>1, <2>2, <2>3, <2>4 DEF TypeOK, Tipos, Donde, Fases
<1> QED BY <1>1, Invariante, PTL

\* The first packet a client finds when it waits for the answer to its handshake is that
\* answer; the one thing that can come before it is a READ of a query that wrote, and still
\* writes, to the number its connection was given.  And a Worker that is given a query knows
\* the size of a page.
THEOREM PrimeroLaConfirmacion == Spec => []ConfirmacionPrimero
<1>1. ASSUME Inv PROVE ConfirmacionPrimero
  <2>1. ASSUME NEW c \in Clientes, En(c, "espera"), Hay(sock[Enlace(c)], "cliente")
        PROVE  LET m == Head(sock[Enlace(c)].hacia.cliente)
               IN  \/ m = IF paso[c].con = "master" THEN "CONFIRMACION" ELSE "PAGINA"
                   \/ m = "READ" /\ Heredada(Enlace(c))
    <3>1. PICK e \in Enlaces : e = Enlace(c)
      BY <1>1, <2>1, EnlaceDe DEF En
    <3>2. /\ Vive(e) /\ Bien(e) /\ e[1] = c /\ e[2] = paso[c].con /\ sock[e].hacia.cliente # << >>
          /\ paso[c].en = "espera"
      BY <1>1, <2>1, <3>1, EnlaceDe DEF En, Hay
    <3>3. SinRespuesta(e)
      BY <3>2 DEF SinRespuesta
    <3> QED BY <3>1, <3>2, <3>3 DEF Bien, DelCliente, Primero, Respuesta
  <2>2. ASSUME NEW w \in Workers \cap vivo, asignada[w] # NULL PROVE w \in pagina
    <3>1. PICK e \in Enlaces : e = ConMaster(w) /\ e[1] = w /\ e[2] = "master"
      BY EnlacesDe DEF Clientes
    <3>2. hilo[e] # "no" /\ Vive(e) /\ Bien(e) /\ DelMaster
      BY <1>1, <2>2, <3>1 DEF Inv, DelMaster, Conocido, Vive
    <3>3. paso[w].con = "master"
      BY <3>1, <3>2 DEF Sirviendo, Bien, DelHilo, Presentado
    <3> QED BY <2>2, <3>2, <3>3 DEF DelMaster
  <2> QED BY <2>1, <2>2 DEF ConfirmacionPrimero
<1> QED BY <1>1, Invariante, PTL

\* No client takes a server with it by leaving: neither server ever dies writing.
THEOREM NingunServidorMuereEscribiendo == Spec => []ServidoresResisten
<1>1. ASSUME Inv PROVE ServidoresResisten
  BY <1>1, ConexionesSupuesto DEF Inv, Tipos, ServidoresResisten
<1> QED BY <1>1, Invariante, PTL
=============================================================================
