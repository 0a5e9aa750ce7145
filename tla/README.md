# ActionDB in TLA+

ActionDB is a key-value server: clients send `set`, `get` and `shutdown`
commands over TCP, worker threads decode and execute them, and RocksDB keeps the
data. This directory models the server's own code (`server.cc`, `net/`,
`threads/`, `kernel/`), checks the models with TLC and proves part of what is
checked with TLAPS. Line numbers are those of the files under `src/`.

## The system

| part | source | model |
|---|---|---|
| decoder and read loop of a connection | `net/codec.c`, `net/buffer.h`, `tcpRead` in `net/tcpsocket.c` | `Codec`, abstract: `Session` |
| red-black tree of connections | `net/rbtree.c` | `RbTree`, abstract: `ConnIndex` |
| connection table | `net/conn.c` | `Server` |
| accept thread, listening socket | `acceptThread`, `tcpAcceptCallback`, `tcpServer` | `Server`; the creation of the socket is not modelled |
| worker threads | `mainLoop`, `tcpReadCallback`; `initworkThread` | `Server`; `Startup` |
| event loop, epoll wrapper | `net/event.c`, `net/aepoll.c` | `Server`, the READABLE events the threads use |
| start | `main`, `initDB` in `server.cc` | `Startup`, `Store` |
| commands and database | `kernel/execcommand.c`, `kernel/ds.cc` | `Store`, abstract: `KVStore` |
| value objects | `kernel/object.c` | not yet |
| timers | `net/timer.c` | not yet |
| cron thread, log | `cronThread`, `log/log.c` | not modelled: no state |
| RocksDB | `rocksdb-3.9/` | external: an atomic map that outlives the process |

The accept thread takes connections and deals them to the workers. For each it
sets the READABLE bit in the worker's event loop, adds the descriptor to the
worker's epoll set and inserts a `conn` in the worker's tree. A worker polls its
loop, looks the descriptor up in its tree, and `tcpRead` reads, decodes and
executes until there is nothing left to read. End of stream takes the descriptor
out of the loop and frees the connection.

## The modules

**Codec** is one connection, byte by byte: the socket, `rBuf`, the lengths
`readDatalen`, `parsedLen` and `corruptMessagelen`, the rows of `argv` and the
local variables of `parseOneMessage`. `pc` says where the worker is: `poll` (in
`mainLoop`), `read` (at the `read` of `tcpRead`), `decod` (in
`catchOneMessagefromBuffer`), `parse` (in the loop of `parseOneMessage`), `exec`
(in the loop of `tcpRead` that executes); it stands for `parseFlag` too. Pointers
into `rBuf` are offsets. The loop of `parseOneMessage` has no bound by `rBuf`
(`codec.c:61`), so the model follows it behind `rBuf`: through the `PADDING` bytes
that `initBuf` cleared and `BEHIND` bytes of the pointers after them, which may
have any value of `Junk`. Beyond these, and where an argument leaves `argv`, the
program's behaviour is `undefined` and the model stops. `memcpy` between overlapping
parts (`codec.c:46`) is modelled as the `memmove` it is in the C library of the build.
Clients send messages as `tests/testperfset/makecommand.c` builds them; TCP
delivers them in any pieces (`Fragmented`), and `Window` is how many requests a
client sends before it waits for a reply. A `get` is answered, or aborts the
process when its key is not stored (`ds.cc:44`); keys that other connections store
are not followed, so for a key that no `set` of this connection has stored both
may happen. **Session** says what a client relies on: commands executed in order,
each once, with its own arguments, each answered unless it ends the server.

**RbTree** is the tree pointer by pointer, one action per loop iteration of
`rb_insert`, `rb_search` and `rb_erase`, for one caller at a time. A node is named
by its key. The mirrored branches of the code are one action with a side.
**ConnIndex** is the set of keys it stands for.

**Server** composes the accept thread, the workers, the event loops, the trees
and the clients. Here a tree is the set of its keys (what `RbTree` is shown to
implement) and a request is executed in one step (what `Codec` details). An
access to a tree has a beginning and an end, because the code takes no lock in
`newConn` nor in `rb_search`: `new`/`inserting`, `search`/`searching`,
`lock`/`freeing`. With `Failures`, `tcpNonBlock` and `epoll_ctl` may fail: a
descriptor stays open without an event loop or a connection, or stays in its loop
after its connection is freed. A failing `accept` changes nothing. `Race` says that
two conflicting accesses overlap, `StaleConn` that a freed connection is in use; the
behaviour is then undefined and not followed. The reads of `connCnt` in the loop that picks a worker are atomic (an
aligned `int`). Descriptors are arbitrary unused numbers, because RocksDB
opens files of its own.

**Startup** is `main` creating the workers while these take their index.
`lock[THREADCNT]` (`server.cc:99`) is one behind the array; with the layout g++
gives these globals its bytes are the first of `eloopidLock`, so the mutex is
modelled down to its lock word and its sleepers.

**Store** is what a worker does for a command: `dbLock`, `Put`, `Get`, the
assertions, the reply; `delete db` and `exit`; and the next start with `initDB`.
**KVStore** is an atomic map, except at the key that `initDB` writes; a get finds
the value the map has at one moment of the call, which is what `rocksGet` prints.
The reply of a get does not have the value (run `store_found`).

## Runs

Passing runs, with the bounds and what they show:

| run | instance | states | shows |
|---|---|---|---|
| `rbtree` | 7 keys | 39,337 | the tree stays linked, ordered and balanced through every sequence of calls, no null pointer is followed, calls return, and searches answer as the set does |
| `codec_session` | buffer 20, 3 requests, whole pieces, stop-and-wait | 30,695 | a client that waits for replies has a session, and only a message longer than the buffer drops it |
| `codec_stream` | buffer 20, 2 requests, any pieces | 885,337 | reads stay in the buffer and ask for a byte at least unless a message is too long; carried bytes begin a message; the parser's lengths agree, and it stays in the buffer before a `!` |
| `server_single` | 1 worker, 2 connections of 2 requests, hangups, shutdowns | 67,412 | requests are executed, hangups are freed, shutdown exits |
| `server_pair` | 2 workers, 4 descriptors around `setsize` = 3, 1 request each; 2 that may hang up, 1 that may send a shutdown; failures | 1,374,305 | loops and trees agree, one owner, counters stay right, only a shutdown frees a connection in use, connections are dealt in turn |
| `startup` | 3 workers | 3,582 | indices in range; own tree and progress unless the lock is overwritten |
| `store_commands` | 2 workers, 2 keys, 2 values | 71,544 | commands implement `KVStore`, a set reads its own write, locks are released |

Why the bounds are enough: from four keys on every branch of the rebalancing
loops is taken, and seven allow full trees of three levels, in which the loops
climb. A buffer of 20 bytes and rows of 5 hold one
message and part of the next at every offset; one request fills the buffer
exactly, one is a byte too long for it, and words of five letters fill a row; the
buffer of the code has 100 bytes and its rows have 10. Three requests are two
sets and a get after them, or a command after a longer one in the same rows. Four
descriptors around a `setsize` of 3 give two inside, the one equal and one above;
the two inside are on different workers, or after a hangup or a failure on the same
one. Two keys are the one `initDB` writes and another.

Runs that are meant to fail show where the code departs from what it says:

| run | what happens |
|---|---|
| `codec_split` | a message in two pieces makes the previous command run again |
| `codec_overrun` | a message in two pieces, cut inside a word, makes the parser run behind the end of the buffer |
| `server_race` | the accept thread inserts in a tree that its worker is searching; one worker, as the server is built (`THREADCNT` 1), is enough |
| `store_found` | a stored key is answered "not found." |
| `store_abort` | a `get` of a missing key aborts the server |

The passing runs state their conditions where the code does not keep a promise
in general, and each condition can be reached:

- `codec_session` has whole pieces and `Window` 1. With `Window` 2 commands are lost
  or run twice (`ExecutedIsSent` fails), because `readDatalen` leaves out the
  carried bytes (`tcpsocket.c:51`).
- `ImplementsSession` promises a command its own arguments if each of its words is
  shorter than a row of `argv`. A word that fills its row leaves no NUL there
  (`codec.c:69-70`), and is read together with the next row. It allows the
  server to end in a `get` of a key that this connection has not set.
- `DroppedOnlyIfTooLong`, `ReadWindow` and `RequestsExecuted` except a message
  longer than the buffer: it fills `rBuf`, `read` is asked for 0 bytes, and its 0 is
  taken for the end of the stream. The runs contain such messages.
- `ArgumentInBuffer` keeps the parser in `rBuf` if a `!` of `rBuf` is before it.
  Without one it leaves `rBuf` (run `codec_overrun`).
- The liveness of `Server` ends where its behaviour is `Undefined`, and requests
  are finitely many: a client that never stops sending keeps `tcpRead` in its loop.
- `FreedOnlyByShutdown` excepts a shutdown that another worker executes: it frees
  the connections of all workers (`ds.cc:52-54`), also those they are reading from.
  With one worker there is no such case (`AloneNoStaleConn`).
- `EventIffConn` allows, when `epoll_ctl` fails, a loop to keep the descriptor of a
  client that has hung up, without a connection.
- `DealtInTurn` is about a server of which no client has hung up or sent a shutdown;
  after that the counters change while they are compared.
- `ImplementsKVStore` excepts the key of `initDB`, and ends where a deleted database
  is used.
- `SharedOutUnlessOverwritten` and `AllWorkersRun` except the case that `main`
  overwrites `eloopidLock` while a worker uses it. With two or more workers this
  case occurs, and two of them may then share a tree or one may never start.
- No step of `Server` removes a descriptor from `open`: `freeConn` logs
  "connection fd %d closed." (`conn.c:96`) and does not close it.

**Fairness.** Every thread is scheduled: weak fairness of the whole accept
thread, of each worker, and of `main`. `epoll_wait` is called with a timeout of 0
and sockets are non-blocking, so no thread waits outside a mutex. Mutexes are not
assumed fair; `CommandFinishes` says nothing of a worker waiting for `dbLock`.
epoll is level triggered, which is why an event whose connection is not yet in
the tree is not lost. Clients and failures are never fair.

**Deadlock** is not checked where the system may stop: clients need not send
anything more, and a program that exited or is undefined takes no step.

## Proofs

`CodecProofs` proves, for every buffer size, `argv` layout, set of requests and
way of cutting the stream (assumption `CodecAssumption`: the sizes are positive, and
the read granularity is the size of the buffer, as in `buffer.h`):

- `TypeCorrect`: `TypeOK`, the ranges of the lengths of a connection;
- `CarryBeginsMessage`: `CarryIsMessage`;
- `ArgumentStaysInBuffer`: `ArgumentInBuffer`, with its condition that a `!` is in
  `rBuf` behind the header;
- `DropsOnlyTooLong`: `DroppedOnlyIfTooLong`;
- `ReadStaysInBuffer`: `ReadWindow`, every `read` fits behind the carried bytes, and
  asks for none only if a message is too long.

The first three follow from the inductive invariant `IInv`. `ArgumentInBuffer` is not
inductive: `Positions` ties `argBeginpos`, `parsedLen`, `preArgLen`, `separLen` and
`argLen` to the cursor, and says that the bytes of `rBuf` between the header and the
cursor have no `!`, so the cursor is never behind the first one. `RowIsFree` bounds
the row of the next argument. The last two
need in addition `FullIsTooLong` (theorem `FullOnlyIfTooLong`): a buffer that is
carried over whole begins with a message longer than it, because repair carries
everything only when the message begins at offset 0 and does not fit. Each group of
actions (client, read, catch, parse, execute) has a lemma that it preserves `IInv`.

`ServerProofs` proves, for every number of workers, descriptors and requests, with
hangups, shutdowns and `epoll_ctl` failures (assumption `ServerAssumption`: at
least one worker, finitely many descriptors):

- `TypeCorrect`: `TypeOK`;
- `DescriptorHasOneOwner`: `OneOwner`;
- `CounterIsSize`: `CountIsSize`;
- `LoopsAndTreesAgree`: `EventIffConn`;
- `ConnectionsDealtInTurn`: `DealtInTurn`;
- `UsedUntilShutdown`: `FreedOnlyByShutdown`;
- `AloneNoStaleConn`: with one worker, no freed connection is used at all.

`OneOwner` and `CountIsSize` are not inductive alone: `newConn` keeps them only
if the descriptor it inserts is in no tree yet. `Ownership` says so: a descriptor
waits in the backlog once and before it is opened, loops and trees hold only
opened ones, and the one being added is in no tree and in no other loop. `DealtInTurn`
needs what the loop of `tcpAcceptCallback` knows after n trees (`Chosen`): the
trees before `minconnsindex` have one connection more, the others all the
same number; and that before a hangup or a shutdown no worker is in `freeConn`
(`OnlyReads`). `EventIffConn` needs to know how far the accept thread has got with
the descriptor it adds, and that one being freed is still in the tree of the worker
that frees it (`Agree`, which holds until a shutdown begins). `FreedOnlyByShutdown`
needs that a worker outside a shutdown frees only from its own tree (`Used`). As in the model, all this holds up to the point where the
behaviour becomes undefined.

Only model-checked: all liveness properties, the refinements
(`ImplementsSession`, `ImplementsIndex`, `ImplementsKVStore`), and everything about
`RbTree`, `Startup` and `Store`. Liveness, and what the recursive functions of
`RbTree` compute, are outside what the prover can do.

## Plan

1. `EventLoop`: `createFileEvent`, `deleteFileEvent` and the epoll wrapper with both
   bits, `maxfd` and re-registration, including `aePollAddEvent`'s choice between ADD and
   MOD; the bound of `createFileEvent` against that of `deleteFileEvent`.
2. `Timer` (`runEvery`, `timerCallback` on the event loop), value objects, replies
   to a client that does not read.
3. `Server` with `Store`: a shutdown that meets commands of other workers.
4. Proofs: `SharedOutUnlessOverwritten` of `Startup` for every number of workers; `SetReadsOwnWrite` and the
   refinement of `Store`; `LinksAgree` of `RbTree`.

## Not modelled

Creating the listening socket and socket options, `tcpWrite` and `encod` (no
caller, or a stub), `aePollResize`, `aePollFree`, the log and the cron thread
change no state a property is about. `maxfd` is written and never used outside
`event.c`. Memory exhaustion is not handled by the code and not modelled.
RocksDB is an external library.
