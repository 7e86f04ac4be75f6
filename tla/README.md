# Master of Files: verification project

TLA+ models of the system in this repository (TP "Master of Files"), checked with TLC, and proofs
about them checked with TLAPS. Names are those of the C code wherever TLA+ allows it; a comment in
each module says what it leaves out.

## 1. The system

A user starts one **Query Control** per query. The **Master** receives the query, schedules it
(FIFO, or PRIORIDADES with aging and preemption) on one of the connected **Workers**, and forwards
to the Query Control what the query reads and its result. A Worker interprets the query file line
by line over a paged internal memory (LRU or CLOCK-M), and asks the one **Storage** for blocks. The
Storage keeps File:Tags whose logical blocks are hard links to physical blocks, with copy on write,
deduplication at COMMIT and a bitmap of occupied blocks.

| Component (code) | State | Operations | Interacts with |
|---|---|---|---|
| Master, scheduler (`m_funciones.c`) | lists READY / EXEC / EXIT, state, priority and pc of each query, `semPlanificador` | `iniciar_planificador`, `actualizarEstadoQuery`, `aging_de_query` | shared lists and fields with the connection threads; packets to the Workers |
| Master, connections (`conexion.c`, `master.c`) | list of Workers, `worker->query`, descriptors, `desconexion_solicitada` | `iniciar_receptor`, `atender_query_control`, `atender_worker` | sockets of Query Controls and Workers; posts the semaphore |
| Worker, threads (`worker.c`) | registers, two flags, two semaphores | `hilo_master`, `hilo_query_interpreter` | Master by socket |
| Worker, interpreter (`query_interpreter.c`) | pc, file of the query | the instruction cycle, one `execute_*` each | memory by calls, Storage by requests |
| Worker, memory (`memoria_interna.c`) | table of pages, frames, hand of the clock | `leer_memoria`, `escribir_memoria`, page faults, flushes | Storage by requests |
| Worker, connections (`w_conexiones.c`) | two sockets, size of a page | `conexiones_worker` | Storage and Master, at start |
| Storage, operations (`operaciones.c`) | metadata, links, contents, bitmap, hash index | `create`, `tag`, `leer`, `escribirBloque`, `truncate_file`, `eliminarTag`, `commitFile` | one thread per Worker, shared structures |
| Storage, mount point (`s_funciones.c`, `storage.c`) | the same on disk | fresh start, load | once, at start |
| Storage, connections (`storage.c`, `conexion.c`) | `g_cantidadWorkers`, one thread per connection | the accept loop, `atender_worker` | Workers by socket |
| Query Control (`query_control`) | its socket | connect, read until the result | Master by socket |
| utils (`mensajeria.c`, `configs.c`, `loggeo.c`) | none | packets, configuration, logs | all |

What is hard here:

* **Master.** Four kinds of thread share the queries and the Workers, and much of the sharing is
  outside the mutexes: `estado` and `desconexion_solicitada` are read and written bare, a Worker
  pointer survives the mutex it was found under, descriptors are closed while their number is kept,
  results and cuts carry no checked query id. It is correct when a query is in exactly one list,
  runs on at most one Worker, is told about at its own Query Control, ends, and when the scheduler
  never sleeps over work it could do.
* **Worker.** An assignment, an eviction or a cancellation can arrive at any point of the running
  query or of the gap between two. It is correct when the Master can treat it as one sequential
  process that answers each assignment once, and no cut is applied to the next query.
* **Memory.** Correct when frames are exclusive, replacement loses no write, CLOCK-M keeps its order
  of classes, and a COMMIT persists everything.
* **Queries that move.** A preempted query goes on in another Worker, whose memory has other pages;
  what it wrote must be in the Storage by then, and the interpreter must go on where it stopped.
* **Storage.** Link counts, bitmap and index are read and changed by threads of different files.
  Correct when a block in use is never free, deduplication is exact, and none of it can be seen
  through the operations.
* **Mount point.** A kill between two system calls, or one that fails, leaves directories, links,
  bitmap and metadata that disagree, and the next start takes them as they are. Correct when what
  other File:Tags hold is safe whatever was cut.
* **Start and stop.** Processes start in any order and any of them may be killed; handshakes, the
  semaphore's initialisation and SIGPIPE meet in orders nobody tests. Correct when a client is
  answered or learns that its server has ended.
* **Messages.** The size of each buffer is computed by hand next to the fields that fill it, and
  `recv` may return short when the peer ends in the middle of a packet.

## 2. Modules

| Module | What it is |
|---|---|
| `ProtocoloWorker` | operators only: one Worker process seen from the Master, as a record (both queues of its socket, current query, pc, pending cut) and the records it may become |
| `Master` | the Master, composed with one `ProtocoloWorker` record per Worker |
| `CicloDeVida` | abstract: a query goes READY -> EXEC -> READY or EXIT, and nothing else |
| `ListasQueries` | the same lists at the grain of their mutexes (`mutex_query`, the mutex of each list) |
| `WorkerHilos` | the two threads of a Worker with their semaphores, registers and flags |
| `ContratoWorker` | abstract: the specification of a single `ProtocoloWorker` Worker and its socket |
| `MemoriaInterna` | the table of pages and replacement of one Worker, and the part of the Storage it depends on |
| `Consultas` | programs of the nine instructions run by several Workers, each with its memory, over one Storage, with preemption and resumption |
| `ConsultaDirecta` | reference: the same programs executed directly on the Storage, and the comparison with `Consultas` |
| `Storage` | the Storage's operations by concurrent threads |
| `Almacen` | abstract: a store where each File:Tag has contents of its own and every operation is atomic |
| `Montaje` | `Storage` split where a kill or a failing system call leaves something different on disk, with both, and the restart |
| `Conexiones` | the processes and their connections: start, handshakes, threads, kills |
| `Mensajeria` | what `mensajeria.c` writes on a socket and reads back, byte by byte |
| `SecuenciasPruebas` | lemmas on lists, used by all the proofs below |
| `MasterPruebas` | proofs about `Master`: the lists and the wake-ups of the scheduler; then who runs what, the refinement of `CicloDeVida` and the evictions |
| `ListasPruebas`, `WorkerHilosPruebas`, `MemoriaPruebas`, `ConsultasPruebas` | proofs about `ListasQueries`, `WorkerHilos` (with the refinement of `ContratoWorker`), `MemoriaInterna`, `Consultas` |
| `StoragePruebas` | proofs about `Storage`, with the refinement of `Almacen`, and about `Montaje` |
| `ConexionesPruebas` | proofs about `Conexiones` |
| `MCMaster`, `MCListas`, `MCWorkerHilos`, `MCMemoria`, `MCConsultas`, `MCStorage`, `MCMontaje`, `MCConexiones`, `MCMensajeria` | values for the constants of the instances |

`Master` sees a Worker as `ProtocoloWorker`; `WorkerHilos` shows that its two threads are that
Worker; `Consultas` has what its interpreter does meanwhile, over memories abstracted from
`MemoriaInterna` and a Storage abstracted from `Almacen`; `Storage` implements `Almacen`, `Montaje`
extends `Storage`. `Conexiones` has all the processes, each reduced to its connections.

### Correspondence

**Master.** Each critical section of the code is one action, and so is each access to a shared
field outside a mutex. A thread is the value of its program counter: `plan.pc` with the locals of
`iniciar_planificador` in `plan`; `hiloQC[q]` for `atender_query_control`; `hiloWorker[w]` for
`atender_worker`; aging threads have no state of their own. `DesconectaQC`, `RetiraDeReady`,
`MiraSiEnExec`, `MarcaDesconexion`, `CancelaEnWorker` and `CierraQC` are lines 99-140 of
`conexion.c`, one per unprotected access. A `sem_post` belongs to the action just before it.
`fd` numbers descriptors as `accept` does, lowest free number first, so that a closed one comes back
for the next client; `ajenas` is a history variable with the connections that read a packet meant
for another. A packet to a Worker that has gone is lost (SIGPIPE is ignored, `master.c:24`). A
`t_worker_interno` that has been freed keeps its contents in the model.

**ListasQueries.** `actualizarEstadoQuery` is three steps (take `mutex_query`; take the query out of
its list; add it to the new one and release), and the searches of PRIORIDADES read the priorities
one by one under the list's mutex and each query's.

**WorkerHilos.** `hm` and `qi` are the program counters of the two threads. Registers are written
under `mutex_registros` but read by the interpreter without it, so every read is a step. The
refinement mapping `WorkerVisto` says what the Master sees: the Worker is idle from the moment its
result is sent, although its registers are cleared later. `Vacias` are the queries whose file has an
empty line: `parse_instruction` gives NULL for it and the log of the fetch reads through that NULL
(`query_interpreter.c:54`), so `LineaVacia` ends the process (`vivo`) with nothing answered.

**MemoriaInterna.** `tabla`, `marcos_libres`, `memoria` and `puntero_clock` are the code's;
`tam`, `bloque` and `commiteado` are the Storage as far as it accepts or refuses a block. Time is
in seconds, as `time(NULL)`, so several accesses may share one. `ultimo` is a history variable: the
last value written to each page. `fuera` is set when CLOCK-M would write outside of the memory, and
the model stops there.

**Consultas.** An action is one request to the Storage or one access to a page in memory, so the
requests of several Workers interleave inside an instruction. `fase` is where the interpreter of a
Worker is (its loop, an instruction, `flush_all`, the notification), `parte` how far into an
instruction. `Reemplaza`, `Trae` and `Accede` are `leer_memoria` and `escribir_memoria` page by page
with their page faults; any page may be the victim and dirty pages are flushed in any order, which
covers LRU, CLOCK-M and every order of the table; with no page to take, LRU fails and CLOCK-M gives
frame -1. `enviar_instruccion` is a request and its answer;
`Acepta` and `Efecto` say what the Storage answers and does, with `Destino` as the code has it (the
file of the destination of a TAG is ignored). A program may name files that do not exist, are
COMMITED or are cut by another query. `debe` is a history variable: what each query wrote and the
Storage has not taken yet; `conRestos` holds the queries that came back to a Worker that still had
pages of theirs.

**Storage.** A thread holds the lock of its file and goes through the steps between which other
threads can act on what files share: reserve a bit, write the copy, relink, look at the link count,
clear the bit, hash, look the hash up. `unlink` and the `stat` or `link` after it are one step. What
a request the code refuses does is nothing. A WRITE overwrites a block in place only when the logical
block is a copy made by TAG whose origin no longer links it (a link of its own makes two), so that
branch is reached in the instance of `MCStorageTag.cfg` and not in that of `storage`. The MD5 of a
block is taken to be injective and `hash_str(name) % 128` to give different locks to different files.

**Montaje.** `unlink`, `link`, `mkdir`, `open` and `config_save` are steps of their own where
`Storage` has one; each has a twin that fails (`NoGuarda`, `NoEscribe`, `NoDesenlaza`, `NoEnlaza`,
`NoEnlazaCero`, `NoAchica`, `NoCommit`, `DeduplicaMal`) and does what the code does then, which is a
rollback, nothing, or going on. `Muere` ends the process and loads the mount point again: the disk
and the bitmap (a shared mapping) stay, threads and mutexes go. A directory without
`metadata.config` is `A_MEDIAS`, one with an empty file `VACIA`; a request on such a File:Tag that
reads a key of it ends the process (`MuereSola`). A kill while the hash index is being saved
(`operaciones.c:890`) may leave it empty. `trabado` are the blocks whose mutex was left locked
(`operaciones.c:592`). `Ausentes` are the bits beyond the last block: they have no mutex either
(`s_funciones.c:41`), and what is locked for one is the memory after the array, so the thread fails at
the open (`BitSinBloque`), stops there, or takes the process with it (`MuereSola`). `rota` says that a TRUNCATE
that shrinks or a COMMIT was left half done.

**Conexiones.** A connection is what waits at each end, which ends are open, and whether it was reset.
`Conecta`, `Saluda`, `RecibePagina`, `Confirma` and `Escucha` are the mains of Worker and Query
Control up to their loops; `Acepta`, `RecibeHandshake` and `SinHandshake` the one thread of each
server that accepts and reads handshakes; `HiloStorage` and `Registra` the thread each connection
gets; `IniciaPlanificador` is `sem_init`, after the thread that accepts has started. A failing send
kills the sender unless it ignores SIGPIPE. `socketQuery` is the number each query writes to, as the
connection that has it: a query keeps it when the Master closes the connection (`conexion.c:136`), and
`accept` may give it to the next client (`Reusa`), which then gets the READs of that query. A client
that gets one before its confirmation takes it for that and reads out of step from then on
(`Desfasado`). Adding a Worker to the list and counting it (`conexion.c:166-175`, two mutexes) are one
step: nothing but the log reads the count.

**Mensajeria.** `serializar` adds the fields of a struct to a buffer of the size the code computes for
it (what does not fit is dropped, as `buffer_add` does); `deserializar` reads them back and takes
uninitialised bytes (`Basura`) where there are none. The receiver knows whether a packet, a string or
an integer comes, as each caller does. `Cierra` cuts the stream at any byte of the last thing sent.
A receiver that finds the connection closed before a packet frees a pointer nobody has written
(`mensajeria.c:298, 310`): it goes on or dies (`Abandona`).
The serialisers nobody calls are left out.

## 3. Runs

| Run | Question | Bounds |
|---|---|---|
| `master_servicio` | does every query end, with the life cycle respected and preemptions not forgotten? | 2 queries, 1 Worker, both algorithms, priorities 0..1, files of 1 line and END; nobody leaves |
| `master_desconexiones` | what survives clients that leave and a Worker that falls? | 2 queries, 2 Workers, both algorithms, priorities 0..1, files of END only; one departure, of either client or of Worker 12, and two posts pending at most (`UnaSalida`) |
| `master_descriptor` (violation) | does a packet reach its own Query Control only? | 2 queries, 1 Worker, FIFO, files of 1 line and END; both clients may leave |
| `listas_mutex` | are lists and order kept lock by lock, and do calls return? | 2 queries, both algorithms, priorities 0..2, both clients may leave |
| `listas_prioridades` (violation) | does the scheduler always come back to its semaphore? | 2 queries, PRIORIDADES, priorities 0..1, one client may leave |
| `worker_hilos` | are the two threads the Worker the Master was checked with? | 2 queries, 1 line and END, one of the files with an empty line, 2 packets in flight |
| `memoria` | frames, write-back, choice of victim, COMMIT | File:Tags of 2 and 1 pages over 2 frames, 2 values, 2 seconds, both algorithms; files grow only |
| `consultas` | has a query told FIN all it wrote in the Storage, and can preemption be told? | 2 queries, 2 Workers of 2 frames, 3 File:Tags of up to 2 blocks, 2 preemptions, a Storage that may be full; four pairs of programs |
| `storage` | are blocks safe and the store linearisable? | 2 threads, 3 File:Tags of 2 files and BASE, 3 blocks, 1 block per File:Tag, 2 values |
| `montaje` | what is left after a kill or a failing system call? | 2 threads, File:Tags of up to 2 blocks and 1, 3 blocks in a bitmap of 4 bits, 2 values, 1 kill or failure |
| `conexiones` | are clients answered, do servers survive them, and do ready query and free Worker meet? | 1 Worker, 2 Query Controls, 1 kill of any process, right ports or one mistaken, any closed number reused |
| `mensajes` | is what is read what was sent? | 3 things sent over each of the six kinds of connection, bytes of 4 values, cut at any byte |

Configurations without a run, kept to be run by hand; each shows one disagreement of the list below
(its property is violated): `MCMasterVictima`, `MCMasterMarcada` (module `MCMaster`),
`MCMemoriaCommit` (`MCMemoria`), `MCConsultasPersistir` (`MCConsultas`), `MCStorageTag`,
`MCStorageBorrado` (`MCStorage`), `MCMontajeRota` (`MCMontaje`), `MCConexionesSordo` (`MCConexiones`),
`MCMensajeriaEntero` (`MCMensajeria`). Three pass. `MCMasterFifo`: the properties of
`master_desconexiones` under FIFO without the bound on departures, both clients and Worker 12, some
eight million states. `MCMontajeDosFallas`: one thread, two kills
or failures, both File:Tags up to two blocks, some eight million states. `MCMasterDesalojo`:
`SinDesalojoPerdido` with three queries and two Workers under PRIORIDADES, within `PocosAvisos`: one post of
the semaphore pending (what is forgotten is forgotten when there is none), the threads of the Query
Controls alive (they end without touching the scheduler), an assignment and a cut to read per Worker
(of each, one is all that matters), no READ nor EXEC_ERROR in transit (one goes to the client, the other
frees the Worker as END does). `DesalojoNoSePierde` proves it without any of these bounds.

Why the bounds are enough for what is asked. Every race of the Master is between the scheduler and
the threads of one query and one Worker; a second query is what an assignment, a cut, a result or a
descriptor can be confused with, and a second Worker what two assignments need. Priorities 0..1
give an order, a tie and an aging step that changes it; a choice among several victims needs a third
query and a second Worker, which `MCMasterDesalojo` has. Three pages over two frames force
replacement with every combination of use and modified bits; two File:Tags let one be refused while
the other is accepted. In `consultas` two Workers and two preemptions let a query leave and come
back, and the programs are chosen for what each pair shares: nothing, a File:Tag one of them
COMMITs, files one of them creates, cuts and deletes under the other, invalid instructions.
`FinEsVerdad`, which does not depend on the programs, is proved for all of them.

In the Storage, two threads are the smallest interleaving, two files the least that does not exclude
itself by lock, three blocks are one fewer than simultaneous reservations and File:Tags may ask for,
so the bitmap fills up. `MaxTam = 1` leaves out deduplication between two logical blocks of one
File:Tag, which is sequential; `montaje` has it. In `montaje` the fourth bit stands for no block, so a
full bitmap hands it out; one fault is enough to leave any directory half made, and what the next
requests and restarts make of it needs no second one (`MCMontajeDosFallas` has two). The states after
`rota` are not explored (CONSTRAINT `HastaRota`): a freed block that its metadata still names may hold
anything from then on, which `MCMontajeRota` shows, and both properties except it. `montaje` has
neither TAG nor the deletion of COMMITED File:Tags, which are unsafe without any fault.

In `master_desconexiones` a query that is evicted goes back to READY and is given to the other Worker,
with a departure before, between or after; what two departures do to each other is left to
`MCMasterFifo`, where nothing is evicted by the scheduler. A Query Control that has its result stays
connected, as its thread would only close (`MCMasterFifo` lets it). Only Worker 12 falls, so no *Worker*
takes the descriptor of a Worker that has gone; clients do reuse descriptors. With both, a late packet
can reach the wrong Worker, as `master_descriptor` shows for clients. In `conexiones` one kill is any process at any step, and the
rest see it from every point they may be at; the second Query Control is the client that comes later.
A number of `mensajes` has four different bytes, the strings one and two, the blocks a zero inside and
at the end. TLC runs `storage` and `montaje` with symmetry of the threads, which no definition tells
apart and no liveness is checked.

Each property has a mutant (an operator ending in `_Mut` next to the one it changes) under which its
run fails: the property depends on what the code does there.

**Fairness.** `Master`: weak fairness of the scheduler, of each connection thread and of each Worker
process, that is, a thread that can go on does so in the end; this is what the kernel gives to
threads that never block one another for ever (each of these steps is a critical section that
ends). Nobody is obliged to connect, and the adversarial steps (leave, fall) are absent from that
run. `ListasQueries`: weak fairness of each thread, and strong fairness for taking a query's mutex,
since a thread waiting for a mutex that is released again and again gets it with the default
scheduling of pthreads; without it starvation would be the only counterexample. `WorkerHilos`: weak
fairness of the two threads, none of the Master. `Conexiones`: weak fairness of every thread of every
process, as each waits for one socket or semaphore at a time and nothing takes away what it waits
for; nobody has to be killed. `MemoriaInterna`, `Consultas`, `Storage`, `Montaje` and `Mensajeria`
state no fairness and only safety is checked (`NadieEsperaDeMas` says as an invariant that a receiver
never waits for bytes that were not to come).

`CHECK_DEADLOCK FALSE` appears where the system can stop: a query lost with its Worker (Master),
threads that wait for each other (lists), no more packets (Worker, `Mensajeria`), memory out of bounds
(`MemoriaInterna`), everything COMMITED (`Storage`) or behind a locked mutex (`Montaje`), every query
ended (`Consultas`), every client served or dead (`Conexiones`). `master_servicio` checks deadlock.

### What the runs show

Besides what holds, twenty-one disagreements with a comment or a document, listed in `PROJECT.json` with
the lines of both. By component:

* *Master.* A read goes to whoever has inherited the descriptor (`master_descriptor`); the scheduler and
  a client that leaves can wait for each other for ever under PRIORIDADES (`listas_prioridades`); the
  victim of a preemption is the *most* important query in EXEC (`MCMasterVictima`); a cancelled query
  can come back to READY (`MCMasterMarcada`); a client that leaves before its handshake leaves the
  Master deaf (`MCConexionesSordo`). Seen in the model, with no configuration: a query is executed
  although its client withdrew it between its choice and its dispatch; a Worker can be given a query
  after it was removed, and the query stays in EXEC; a post before `sem_init` is lost, which
  `QueryAsignada` excepts by name; a Worker whose record malloc did not leave at zero is never free
  (`conexion.c:161`).
* *Worker.* COMMIT ignores that its implicit FLUSH failed (`MCMemoriaCommit`); `flush_all` stops at the
  first refused page and leaves the others, and every later query of that Worker ends in error
  (`MCConsultasPersistir`); an empty line kills the Worker before it is found not to parse
  (`worker_hilos`); the victim's frame is lost when the Storage refuses the block; an integer
  is "received" from a connection that sent none (`MCMensajeriaEntero`), and any disconnection frees a
  pointer nobody wrote.
* *Storage.* TAG of a File:Tag being written shares blocks without counting them (`MCStorageTag`); the
  DELETE of a COMMITED File:Tag frees a block another COMMIT has just linked through the stale index
  (`MCStorageBorrado`); a shrinking TRUNCATE cut half-way frees blocks its metadata still names
  (`MCMontajeRota`); bits without a block are handed out, and what is locked for one is not a mutex; CREATE answers
  0 over a metadata that was not written, and an empty one ends the Storage at the next request; TAG
  ignores the file of its destination.

Other behaviours met while modelling, which no text contradicts: a copy on write never frees the block
it leaves, even when no link is left; TAG copies what the Storage has, without the pages the query has
modified in memory; WRITE followed by DELETE of the same File:Tag always ends in error, since
`flush_all` then finds its page refused; a TRUNCATE that shrinks and one that grows bring back a stale
page; a query that returns to an earlier Worker may read a clean page of its first visit
(`DesalojoInvisible` excepts those, `conRestos`). A client that leaves before its handshake, or
mistakes it, ends the Storage (`storage.c:79-95`), and the Worker reads through NULL if the Storage
ends before answering (`w_conexiones.c:109`) and ignores that the Master did not confirm
(`w_conexiones.c:40`). A Worker whose Master ends stays for ever, its interpreter waiting on its
semaphore (`worker.c:95`). After a kill: a File:Tag without `metadata.config` can be neither used,
deleted nor created again, and a logical block whose copy on write was cut while it was a link to
block 0 cannot be written or truncated again, only deleted.

## 4. Proofs

`MasterPruebas` proves, from the named assumptions on the constants only (`ContratoSupuesto`,
`MasterSupuesto`: finite sets of queries and Workers, priorities that fit a byte):

* `Invariante`: `Spec => []IInv`, with
  `IInv == TypeOK /\ PunterosValidos /\ SinConectar /\ ListasConsistentes`.
* `TiposCorrectos`: `Spec => []TypeOK`.
* `ListasSiempreConsistentes`: `Spec => []ListasConsistentes`: each connected query is in exactly one
  list, once, the one its state names.

Neither conclusion is inductive by itself. `actualizarEstadoQuery` is called with a pointer kept from
earlier steps, so one needs `PunterosValidos`: what the scheduler and the connection threads hold
where they use it is a query that has connected (`plan.q` where the scheduler is about to
dispatch, `query[w]` where `atender_worker` moves it). And a query that connects is appended to READY
without looking, so one needs `SinConectar`: a query not yet connected is in no list. Consistency
then follows from `actualizarEstadoQueryCorrecta`: moving a query that is in its list, or not moving
one that is not, keeps the lists consistent; it rests on `RemoveFirstQuita` and `AppendAgrega` of
`SecuenciasPruebas`, which say what removing from and appending to a list without repetitions do.
`FdNuevoLibre` (a pigeonhole argument on finite sets) shows that the choice of a descriptor is always
defined. The induction step has one lemma per kind of thread (`PlanificadorIInv`, `QueryControlIInv`,
`WorkerIInv`), with one step per action.

* `DespertarNoSePierde`: `Spec => []SinDespertarPerdido`. Its invariant is a count, `Cubierto`: the
  tokens of the semaphore, with the one the scheduler has taken and not yet used up, are at least as
  many as the queries waiting in READY, or at least as many as the free Workers. Every other thread
  adds one query or one Worker at most in a step, and posts then (`AnunciaCubierto`); the scheduler
  gives its token up only when one of the two sides is empty for it, or for one of each.

The second part of `MasterPruebas` is about who runs what. The Master keeps a pointer from each Worker to its
query, and reaches Workers and clients by number of descriptor; its arguments are in layers:

* `Duenos`: a query has one owner at most, the Worker whose pointer names it until its thread has moved
  the query, and none while it waits in READY or while the scheduler is dispatching it. `Coherente`
  ties each pointer to what is on the wire: at most one assignment between the two, of that query,
  and one result, the last of its answers (`Protocolo`); a cut that the Worker will take while it runs
  a query is of that query (`Cortes`); and what the scheduler holds is still idle, or still that
  Worker's query (`PlanCoherente`).
* `SinHerencia`: `Spec /\ []DescriptoresPropios` implies `[]AsignacionUnica`, `[]ResultadoDeSuQuery` and
  `[]CorteSoloASuQuery`. `DescriptoresPropios` says that no two Workers have the same descriptor. The
  code does not guarantee it: `atender_worker` closes a socket (`conexion.c:342`) whose number `accept`
  may give to the next Worker while another thread still holds it, and then a query is sent to a
  Worker that the Master does not know to be running it.
* `NuncaEnDosWorkers`, `ResultadoSiempreDeSuQuery`, `CorteSiempreASuQuery`: the three properties under
  `SoloElUltimoCae` (no Worker falls, or only the last one to connect), a condition on the constants
  that implies `DescriptoresPropios` and that the instance of `master_desconexiones` meets; clients
  may leave at any step.
* `CicloDeVidaImplementado`: `NadieSeVa => (Spec => ImplementaCicloDeVida)`, with `EnSuCiclo` (a query
  with an owner is in EXEC, one that was told its end is in EXIT or on its way there, what the
  scheduler holds is where it found it). With departures it is false: a query can come back from EXIT
  (`MCMasterMarcada`).
* `EntregaSinBajas`: `NadieSeVa => (Spec => []EntregaASuQC)`, the property that `master_descriptor` shows to
  fail when a client leaves.

* `DesalojoNoSePierde`: `NadieSeVa => (Spec => []SinDesalojoPerdido)`: when the scheduler sleeps with no
  token, either some query of EXEC is no less important than each one of READY, or the one that is to
  be evicted has been told to leave or is being answered for. Each of those is a comparison the
  scheduler made with locks it has released, and aging changes priorities, connections change lists
  and results change EXEC between any two of its reads. `Medido` says what keeps it: while nobody has
  posted since (`Quieto`), each thing measured is still true where the scheduler stands (`Mediciones`):
  the query it chose has the lowest number of READY (`Menor`), the victim is the one a search would
  find now, its priority the one read, the Worker chosen runs it. Whatever can make one of these false
  posts. `EnEjecucion` says that a query of EXEC has its Worker, which still owes an answer, so that a
  cut sent to it is not lost (`SigueEnCamino`), and that the list of Workers never forgets one.
  `LaVictima` is about the search as the code has it, comparator included: what it finds is unique and
  the *most* important of EXEC, and it is against that one that nothing is forgotten. The
  hypothesis is needed: a client that leaves while its query is being dispatched takes it out of EXEC
  without posting (`conexion.c:99-110`), and the next victim, which a query of READY may beat, is never
  measured. TLC finds it with three queries and two Workers, and not with two and one.
* `DesalojoConUnWorker`: with one Worker besides, nothing due is forgotten: a query of READY that has a
  lower number than the one that runs has already had it told to leave. One query is in EXEC then
  (`UnaEnEjecucion`), so the most important of EXEC is also the least.

`ListasPruebas` proves, from `ListasSupuesto` and `LibreSupuesto` only, `ListasTipos`, `NingunaSeHaPerdido`
(`Spec => []NingunaSePierde`) and `FifoRespetaElOrden` (`Spec => RespetaElOrden`). Its invariant is
`IInv == TypeOK /\ MutexCoherente /\ EnSuLista /\ PlanCoherente /\ Orden`: the mutex of a query is held
by the one thread between taking and leaving it; a query is once in the list of its state unless
that thread has it in its hands; the scheduler walks a list it has locked; and, for the order, only
the thread of its Worker brings a query to READY, so what the scheduler chose stays first until it
takes it out.

`MemoriaPruebas` proves, for any files, frames and values and both algorithms, `MemoriaTipos`,
`NuncaCompartenMarco` (`[]MarcosExclusivos`) and `SiempreLaMejorVictima` (`[]VictimaDeLaMejorClase`, from
`Sano == TypeOK /\ MarcosExclusivos`); and, when files only grow (`~PuedeAchicar`),
`NadaEscritoSePierde` (`[]SinEscriturasPerdidas`) and `CommitDejaTodo` (`CommitPersisteTodo`), from
`Fieles == SinEscriturasPerdidas /\ PresentesExisten`. The hypothesis is the code's fault, not the
proof's: a TRUNCATE that shrinks makes the Storage refuse a page that is still in memory, which its
eviction then loses and COMMIT ignores (`MCMemoriaCommit`).

`StoragePruebas` proves, for any number of threads, File:Tags, blocks and contents:

* `StorageTipos`: `Spec => []TypeOK`, with no hypothesis.
* `NadaEnUsoSeLibera`, `CadaContenidoUnaVez`, `LecturasEstables`: `[]EnUsoOcupado`, `[]UnaCopiaPorContenido`
  and `[]LecturaDeCommiteado`.
* `EsUnAlmacen`: `Spec => ImplementaAlmacen`.

All but the first assume `~TagDeWIP /\ ~BorraCommiteado`: TAG copies COMMITED File:Tags only, DELETE
leaves them alone, as in the run `storage`. The code checks neither, and `MCStorageTag` and
`MCStorageBorrado` show what follows. The invariant has three parts. `Estructura`, true without the
hypothesis: each operation holds the lock of its file from its first step to its last (`Cerrojos`),
each thread is somewhere its operation can be (`EnPaso`), and logical blocks are as many as the list
that the operation in course keeps, and links to it or copies of it (`Enlazados`). `Bloqueo`: a place of
a File:Tag is *settled* once it is COMMITED or the COMMIT has gone past it; a block is *anchored* when
a settled place is a link to it. A block that is not anchored has one user at most, whether a place,
a WRITE that has reserved it or a thread that is about to clear its bit (`UnSoloLugar`, `DeUnHilo`); a
place without a link of its own (a copy made by TAG, which no link count includes) is on an anchored
block (`Ancladas`); and used blocks have their bits (`Ocupados`). With these a count of one link, taken
before the bit is cleared, stays right meanwhile, although the index keeps naming the block: what
the index names is anchored (`IndiceFiel`). `Contenidos`: the block of a settled place is the one the
index has for its contents, and what a thread has read and compares is still there (`Leido`). The
lemma `XGuarda` of each action keeps all three; `Cambio` and `CambioBloqueo` do the argument on places once
for the actions that change one File:Tag, `CambioLibera` for those that find a block without links.
For the refinement, `BloquesPorCandado` gives the blocks a File:Tag is seen to have by the lock of its
file. `create`, `tag` and `eliminarTag` are `Crea`, `Copia` and `Borra` of `Almacen`; both TRUNCATEs take effect
(`Trunca`) at their first step, a WRITE (`Escribe`) when it relinks, a COMMIT (`Commit`) at its last; every
other step leaves `Vista` as it was (lemmas ending in `Vista`), the deduplication of a block because its
contents are equal, the write on a reserved block because nobody else uses it.

The second part of `StoragePruebas` is about `Montaje`: any number of kills, restarts and failing system
calls, besides threads, File:Tags and blocks.

* `CortesSinDanio`: `~BorraCommiteado => (SpecMontaje => []BloquesASalvo)`.
* `CortesNoAjenos`: `~BorraCommiteado => (SpecMontaje => AjenoIntacto)`.

The hypothesis is again that DELETE leaves COMMITED File:Tags alone: without it the first is false with
no fault at all (`MCStorageBorrado`). The other exception, `rota`, is in the properties. A restart
ends every operation wherever it is, so an invariant that says what an operation will put right is of no
use: the disk has to be safe at each step. `Orden` (types, locks, `EnHecho`: where each thread can be)
holds always; `Salvo`, until `rota`, says who uses each block. The bridge is `Listas`: a File:Tag has a
*set* of lists of blocks, that of its metadata and, while a thread is between linking and
`config_save`, the one about to be saved; a shrinking TRUNCATE and a COMMIT have replaced theirs
already, which is what makes them the two operations that cannot be cut. `Firmes` are the settled places,
as above, and `Suyos` the blocks a thread has reserved or is about to free. `Reparto` is stated over these
four and the index: a block is in one place of one File:Tag, but for block 0 and for settled places
(`Propias`); the places have their bits, and none is on a bit without a block (`EnBitmap`); a block of
`Suyos` has its bit, one owner and no place (`DeCadaHilo`); the index names settled blocks
(`Registrado`). A kill empties `Suyos` (the bit leaks, no more) and leaves of each set of lists the one on
disk, so `Reparto` survives; a failed call leaves one of the two lists. `CambioReparto` does the argument
once for all steps that make lists shorter or shift them, the lemmas `XSalvo` apply it to each action
and to its failing twin. `CortesNoAjenos` adds that a step touches the metadata of a File:Tag only with
its lock and not once it is COMMITED (`SoloEnCurso`), and the contents of a block only where its operation
is the only user (`EscribeEnCurso`).

`ConexionesPruebas` proves, from `ConexionesSupuesto` only (Workers, Query Controls and servers are different
processes), for any number of clients, any mistaken ports and any number of kills:

* `TiposYCuentas`: `Spec => []TypeOK`, which has the counts: `g_cantidadWorkers` and the list of Workers are
  the threads that serve a registered Worker.
* `PrimeroLaConfirmacion`: `Spec => []ConfirmacionPrimero`.
* `NingunServidorMuereEscribiendo`: `Spec => []ServidoresResisten`.

A connection is seen from three places that change one at a time: the main of the client, the thread that
accepts, and the thread it starts; any of the processes may be gone. `Inv` has a part for each:
`Puerta` (a connection waits for its server once, and is either in the queue or in the hands of the thread
that accepts), and for each connection `Bien`: `DelHilo` (a thread serves it only after its handshake was
read), `DelServidor` (while the server lives, what it will read first is the handshake, and it is there
exactly when the client has sent it), `DelCliente` (while the client lives, the answer is there exactly when
the thread has gone past confirming, and before anything else but the READs of an inherited number,
`Heredada`). `DelNumero` says whose number a query has: that of its own connection until the Master closes
it, and then, if it is another's, one of the Master's, never of the Storage. `DelMaster` says that queries are given to
and taken from registered clients only, which is why the scheduler cannot write to a client before its
confirmation: `Despues` puts `confirma` before `avisa`. For SIGPIPE, the Storage does not ignore the signal, and
dies at the *second* write to a Worker that has gone; `Turnos` shows it never comes to it: between a Worker
and the Storage there is one packet at most, in one direction, so every write of the Storage follows a
read, and a reset that a departure causes is found by that read.

`ConsultasPruebas` proves, from `ConsultasSupuesto` only, `FinEsVerdadSiempre`:
`Spec => []FinEsVerdad`, for any queries, programs, Workers, files, frames and preemptions: a query
that was told FIN, or that waits to be resumed, owes the Storage nothing. Its invariant is
`IInv == Tipos /\ Ocupado /\ UnWorker /\ DebeDondeEsta /\ SinRestos`. The step that answers for a query
needs that no page of that Worker is modified (`SinRestos`, which `flush_all` establishes and nothing
between it and the notification disturbs), that what the query owes is on the Worker that runs it and
not on another it left (`DebeDondeEsta`, kept because a preempted query leaves clean), and that no
other Worker runs it (`UnWorker`); `Ocupado` and `Tipos` say that a Worker that executes has a query
and an instruction. Steps that touch no memory share one lemma (`SinMemoriaInv`, over the step
relation `Sigue`), the others have one each. On the same invariant, `ConsultasTipos`: `Spec => []TypeOK`,
by `Lineas` (the PC of a query, and the one a Worker goes on from, are in the program: it advances only
at an instruction the program has), `Bloques` (sizes the Storage can have), `Cuadros` (a frame is free, of
one page, or in the hands of the Worker that has just replaced its page; it adds up over finite sets of
pages) and `Deudas`. `ConsultasSupuesto` says that programs ask for `MaxBloques` blocks at most: it is the
bound on the blocks of a File:Tag, and only this theorem uses it.

`WorkerHilosPruebas` proves, from `ContratoSupuesto` and `HilosSupuesto` (some query, some packet in
flight), what `worker_hilos` checks of safety, refinement included:

* `TurnoUnico`: `Spec => []IInv`, with
  `IInv == TypeOK /\ Turno /\ RegistrosDelTurno /\ PaqueteGuardado /\ ResultadoDelPaso`.
* `TiposDelWorker`, `RegistrosSiempreEstables`, `NingunCorteHeredado`: `Spec` implies `[]TypeOK`,
  `RegistrosEstables` and `SinCorteHeredado`.
* `HilosImplementanContrato`: `Spec => ImplementaContrato`.

The code has no mutual exclusion between the threads but for each access to the registers: what keeps
`hilo_master` from writing the registers of a running query is the order of the waits and posts. `Turno`
says it: there is one token, in `sem_query_terminada`, with `hilo_master` between its wait and its post,
in `sem_query_asignada`, or with the interpreter. `RegistrosDelTurno` ties the registers to it: clear
while nobody has a query, a query's from the write to the clearing. `TypeOK` needs `Turno` (a semaphore
is posted only when it is 0) and `PaqueteGuardado` (the packet held is an assignment); the refinement
needs `ResultadoDelPaso` (only a query that was cut answers EXEC_DESALOJO). `HiloMasterVisto`,
`InterpreteVisto` and `PasoVisto` go through the actions: `GrabaRegistros` is the contract's
`TomaAsignacion`, `RecibeCorte` its `TomaCorte`, `Ejecuta` and `EjecutaEnd` its `EjecutaInstruccion`,
`Notifica` its `Responde`; no other step of the threads changes `WorkerVisto`. The lemmas
`PasoAsignacion` to `PasoRecibe` do the arithmetic of the records. The contract states no fairness, so
`TodaAsignacionSeResponde` stays with TLC.

Only model-checked:

* what is under fairness (`TodaQueryTermina`, `TodaLlamadaVuelve`, `TodaAsignacionSeResponde`,
  `ClienteAtendido`, `QueryAsignada`): TLAPS treats neither it nor `ENABLED`;
* `Mensajeria`: its two invariants compare folds over lists of fields, that is, what a recursive
  computation gives for every input, which needs induction over data, out of the provers' reach;
* `DesalojoInvisible`, which compares `Consultas` with the execution of whole programs by
  `ConsultaDirecta`, a fold as well.

No module declares a RECURSIVE operator, and nothing proved rests on an induction over data.

## 5. Not modelled

Text of query files and their parser (a line is the instruction it denotes, or UNKNOWN); empty lines,
except in `WorkerHilos`: a query that has one kills its Worker, so `TodaQueryTermina` and `Consultas` are
about programs that have none; the free of a pointer nobody wrote at each disconnection
(`mensajeria.c:310`), except in `Mensajeria`: the other modules go on from it; bytes of
blocks and offsets inside a page; configuration and logs; the `usleep` delays; a kill during
FRESH_START or `rm -rf`; READ and TAG in `Montaje`, which change nothing there or run `cp -r` in
another process; the deletion of COMMITED File:Tags with `unlink` and `stat` apart; the order of
victims and flushes in `Consultas`, which is any; evictions and PRIORIDADES in `Conexiones`, which
`Master` has; the scripts. Each hazard that this leaves without a property says so in `PROJECT.json`.

## 6. Plan

Done, in this order: `ProtocoloWorker` and `Master`; `ListasQueries`; `WorkerHilos` against its
contract; `MemoriaInterna`; `Storage` against `Almacen`; the first proofs; `Mensajeria`; `Consultas`
with its reference and its proof; `Conexiones`; `Montaje`; the proof of `WorkerHilos`; those of the
wake-ups and assignments of `Master`, of `ListasQueries`, of `MemoriaInterna` and of `Storage` with its
refinement; those of the evictions of `Master`, of `Montaje` and of `Conexiones`. Next:

1. *Storage*: deletion of COMMITED File:Tags with `unlink` and `stat` apart; kills during FRESH_START; a
   mount point whose superblock has more blocks than the one given as argument (`storage.c:52-57`
   sizes the mutexes by the latter).
2. *Workers that fall*: what the Master should leave behind once the rule of recovery is stated.
