# A TLA+ development for `routine`

`routine` is a game-server framework in C and Lua: an actor runtime in which
*services* (C modules, mostly Lua states) exchange messages through
per-service queues that a pool of worker threads dispatches. This directory
holds TLA+ modules that model the runtime's core, TLC configurations that check
them on small instances, and TLAPS proofs of the results that hold for every
instance.

## 1. The system

| component | source | state | operations |
|---|---|---|---|
| message queue | `src/queue.c` | growing ring, `global`, `release`, overload alarm; the global list `Q` of runnable queues | push, pop, push/pop global, mark_free, free |
| locks | `src/lock.h` | spin word; `read`/`write` counters | lock/unlock, rlock/runlock, wlock/wunlock |
| services | `src/pixel.c` | `struct pixel`, `G.total`, session counter | launch, dispatch, send, commands (KILL, ABORT, TIMEOUT, ...) |
| handle table | `src/handle.c` | slot array with reference counts, sorted name table | regist, grab, release, exit, namehandle, query |
| threads | `src/start.c` | `struct watcher`: mutex, condition, `sleep`, `quit` | workers; timer, socket and monitor threads |
| timer wheel | `src/timer.c` | `T.time`, near slots, four rings | timeout, update (execute, shift, execute) |
| monitor | `src/monitor.c` | version counters per worker | trigger, check |
| socket server | `src/socket.c`, `src/epoll.c` | socket slots, request pipe, two send lists | open, listen, bind, send, close, poll |
| module loader, environment, harbor, log | `src/module.c`, `env.c`, `harbor.c`, `log.c` | small tables under one lock | look up, set, route, write |
| Lua host | `service/lua.c` | one Lua state per service | init, callback, signal |
| Lua session runtime | `lualib/pixel.lua` | sessions, coroutines, watched services | call, ret, sleep, wakeup, error |
| Lua sockets | `lualib/socket.lua`, `socketchannel.lua`, `lsocket.c` | buffers, request queues | read, write, request, reconnect |
| gate, login | `lualib/gate.lua`, `login.lua`, `lnetpack.c` | connections, handshake, partial packets | open, close, forward |
| serialisation | `src/lserial.c` | a chain of buffer nodes | pack, unpack |
| shared data | `lualib/lstm.c`, `lsharedata.c`, `service/sharedatad.lua` | reference-counted copies and read-only tables | publish, update, read, release |
| sproto | `lualib/sproto`, `sprotoparser.lua` | schemas, growing buffers | create, encode, decode, pack, unpack |
| multicast, datacenter | `lualib/lmulticast.c`, `service/multicastd.lua`, `datacenterd.lua` | package counts, subscriptions, waiters | publish, subscribe, wait |

How they interact. A sender grabs the target's handle, pushes into its queue
and releases the handle; a push that finds `global = 0` links the queue into
`Q`. A worker takes a queue from `Q`, grabs the handle, pops one message, runs
the callback, and either keeps the queue or swaps it for the next in `Q`. The
timer and socket threads push messages of their own and wake sleeping workers
through the condition variable. A service dies when its reference count reaches
zero; its queue is only *marked* then, and freed by the next worker that meets
it. The program ends when `G.total` is zero.

What is hard: all of this runs on several threads with many small critical
sections (handle table, queue, list, timer, mutex), and the decisions made in
one are acted on in the next. The complete list, with the lines, is under
`hazards` in `PROJECT.json`. What has to hold:

* queue: FIFO through growth and wrap-around, no lost wake-up, never linked
  twice, freed only when unreachable;
* lock: exclusion; readers do not shut a writer out;
* services: exact reference counts, one callback of a service at a time, no use
  after free, every killed service taken apart, every message handled;
* threads: no queue waits for ever in `Q`; the program ends;
* timer: every timeout at its tick, once, in the order of the requests;
* sockets: a slot reserved for one socket at a time, no event taken for another
  socket, no descriptor lost; messages whole and in order on the wire; every
  close carried out;
* messages: each block of memory freed once, whatever becomes of its message;
* Lua sessions: a coroutine resumed only by what it waits for; no caller
  forgotten;
* libraries: what is packed, framed, buffered, shared or encoded comes out again
  as it went in, at every boundary of nodes, blocks, rings and widths; what is
  shared is freed by its last user.

## 2. Modules

| module | models | notes |
|---|---|---|
| `Mailbox` | (abstract) | what a queue promises: a FIFO inbox with one scheduling token |
| `MessageQueue` | `src/queue.c` | one action per function, each runs under the queue's lock; `live`, `held`, `inQ` are what its callers contribute |
| `MessageQueueProofs` | | invariants and refinement, proved |
| `RwLock` | `src/lock.h`, the default build | one step per atomic access |
| `Actor` | `src/pixel.c` with `handle.c` and `queue.c` | one step per critical section; a thread is a record with a `pc` |
| `Workers` | `src/start.c` | a service is reduced to where its queue is |
| `Timer` | `src/timer.c` | widths are constants; arithmetic is modulo the range of the wheel |
| `SocketServer` | `src/socket.c`, `src/epoll.c` | the slots: callers one step per atomic access, the socket thread one step per request or event |
| `SocketSend` | the sending half of `src/socket.c` | one TCP socket with its two buffer lists |
| `HandleTable` | `src/handle.c` | slot array, expansion, 24-bit handles, sorted names |
| `Messages` | `src/pixel.c`, `src/harbor.c` | who owns the memory of a message |
| `Sessions` | `lualib/pixel.lua` | the caller's coroutines against a called service |
| `Serial` | `src/lserial.c` | pack, flatten, unpack |
| `Netpack` | `lualib/lnetpack.c` as `gate.lua` drives it | framing, reassembly, the ring of packets |
| `SocketBuffer` | the buffer of `lualib/lsocket.c` | nodes and blocks |
| `Stm` | `lualib/lstm.c` | writer and readers, one step per lock or count |
| `ShareTable`, `ShareData` | `lualib/lsharedata.c`; `service/sharedatad.lua`, `lualib/sharedata*.lua` | the table itself; its life between host and clients |
| `Multicast` | `lualib/lmulticast.c`, `service/multicastd.lua` | packages and subscribers |
| `SprotoPack`, `SprotoSchema`, `Sproto` | `lualib/sproto`, the packing half of `sprotoparser.lua` | 0-packing; import of a bundle; encode and decode |
| `Lemmas` | | what the proofs share: least elements, induction, iteration, counting, ranges of sequences |
| `ThreadProofs` | | the lock, the handle table, the count of sleeping workers and the timing wheel, proved |
| `ActorProofs` | | reference counts, one thread per callback, nothing stranded or used after free, proved |
| `SharedProofs` | | the counts of `Stm`, `Multicast` and `ShareData`, the owners of `Messages`, proved |
| `SocketServerProofs` | | slots, poller, descriptors and events, proved |
| `SocketSendProofs` | | whole messages, nothing lost or reordered, `wb_size` and write interest, proved |
| `SessionsProofs` | | what resumes a coroutine, and that none is forgotten, proved |
| `MC...` | | instances for TLC |

The modules overlap on purpose: each takes one boundary seriously. `MessageQueue`
has the ring and treats its callers as an environment that holds the queue,
returns it, or removes its handle. `Actor` has those callers and reduces the
ring to its length. `Workers` has the sleeping and waking and reduces a service
to the place of its queue. `Actor!CallbackSerial` (at most one token for each
queue) is the condition under which `MessageQueue`'s environment is the right
one.

Names follow the source: actions have the name of the function, or of the
function and the step of it (`dispatch_pop`, `new_grab`, `worker_relock`). The
`map` of `PROJECT.json` gives the lines. Operators whose comment calls them a
*mutant* are variations of the definition after them; no specification uses them.

### Details that matter

* **`MessageQueue`.** `queue_push`, when the tail meets the head, unrolls the
  ring into one of twice its size (`Expanded`). `queue_free` of an unmarked
  queue links it again; of a marked one, it drains and frees. The
  `queue_mark_free` of a parked queue links it without setting `global`;
  that this is harmless is part of `TokenInv`.
* **`RwLock`.** The build defines no `USE_PTHREAD_LOCK`. Steps are sequentially
  consistent. Of the builtins, the additions, subtractions, compare-and-swaps and
  `__sync_synchronize` are full barriers; `__sync_lock_test_and_set` (`wlock`) is by
  GCC's manual only an acquire barrier and `__sync_lock_release` only a release
  barrier. A writer needs its store to `write` to be visible before it reads
  `read`, which x86 gives (the exchange is a locked instruction). So the result is
  about x86; nothing is claimed for weaker machines.
* **`Actor`.** `handle_release` is two steps: the decrement, and, if it reached
  zero, `handle_remove`, which looks at the count again. `pixel_free` marks the
  queue and then frees the context. `pixel_new` is a sequence from
  `handle_regist` to its tail; the script may give its handle away while it loads
  (`init_expose`). `pixel_start`'s own launches are the initial state: log with
  the reference of `pixel_reserve`, not counted in `G.total`, and bootstrap with
  one message. A null dereference sets `crashed`; after it, or after any
  use of freed memory, no step is taken (`Undefined`). `Logs` are the steps that
  call `pixel_log`, which reads `G.log->handle` without a reference; what the log
  line says is left out.
* **`Workers`.** `worker_test` ends the loop with the mutex still locked if `quit`
  was set, as `_worker` does. Waits may end spuriously.
* **`Timer`.** A node is in the near list if its expiry agrees with `T.time` above
  the near bits, otherwise in the first ring above which they agree. The timer
  thread takes whole lists off the wheel (`taken`): the current near list, to
  dispatch it with the lock released, and one slot of one ring, which
  `_timer_move_list` spreads node by node with the lock held (phase `move`).
  `left` (ticks until a node is due) and `before` (who was asked for first) are
  ghost variables.

* **`SocketServer`.** Between the compare-and-swap of `socket_next_id` and the
  assignment of the new id a slot is reserved under its old id; between
  the closing of a socket and `clear_closed` it is free but its events are still
  there; and a refused `event_add` frees the slot twice. All three are windows
  for other threads, hence steps of their own (`next_id_reserve`/`send_req`,
  `closing`, `socket_new_failed`/`socket_req_failed`). After `event_wait` one
  event is handled, then all requests, then the other events (`phase`). Where
  the program aborts, indexes `S.slot` with the slot of -1, or loses another
  thread's reservation, `failed` says so and the model stops. Descriptors that
  are lent through `socket_bind` are not in `fds`; `taken` are those of them that
  are closed all the same.
* **`SocketSend`.** A message is `SIZE` units, and a buffer list the sequence of
  units left to send. The kernel may take any number of them, and fail once the
  peer is gone. `SendBuffer` is `socket_send_buffer`: what is left in the lists,
  and whether write events and the socket end. A low-priority message that was
  begun moves to the high list.

* **`HandleTable`.** `handle_expand` is translated slot by slot, empty ones
  included, because those all land in slot 0. The context a handle finds is the
  id under which it was registered, so a stale pointer shows; `live` are those
  registered and not freed. The search for a free slot in `handle_regist` has no
  other end, so the action needs one (`Free`). A handle whose low 24 bits are 0
  can be released again and again; `hN > 0` bounds that. The binary search of the
  names is its loop body (`Halve`) iterated.
* **`Messages`.** A block is a number; `heap` is what is allocated, `lua` what Lua
  code holds as light userdata. `PIXEL_TAG_DONTCOPY` moves a block, otherwise
  `_filter_args` copies. Callbacks run one at a time here; their interleaving
  is `Actor`'s subject.
* **`Sessions`.** `suspend`, `dispatch_wakeup` and `dispatch_error_queue` call each
  other; `ctl` is the stack of what is left to do in the handler that runs, and
  an error unwinds it. What a coroutine does after it is resumed is any of
  call, sleep, wait, end and error, with or without a `wakeup` of another one.
  `pixel.term` is translated as it is: it compares with an undefined name and
  selects nothing. The called service may call `pixel.exit` at any time, from a
  request's coroutine or from another one.
* **`Serial`.** A byte is a cell that knows the field it belongs to and its place
  in it: a field read at the wrong offset, or across two nodes in the wrong
  order, cannot pass for another. Fields are 1 to 3 cells wide, a node 4.
* **`Netpack`, `SocketBuffer`.** Bytes are small numbers, so that content can look
  like a header or like part of a separator. The gate drains the ring before it
  takes the next socket message: `dispatch_queue` forks itself before each
  handler that might yield.
* **`Stm`.** The object's lock is taken as what `RwLock` shows of it; each lock,
  count and unlock is a step.
* **`ShareTable`.** The order of `lua_next`, the length and the hash of strings are
  parameters; collisions and borders of every kind happen. Keys are strings and
  integers that fit an `int`.
* **`ShareData`.** `collectobj` reads the count and deletes in two calls, and the
  clients, on other threads, run between them: `collectobj` condemns a table,
  `ldeleteconf` deletes it, and no other request of the host runs in between
  (`HostFree`). An `update` whose `new` raises, and a client's `sd.update` whose
  assertion fails, are actions of their own.
* **`Multicast`.** `unpack` is evaluated before the `pcall` of `dispatch_subscribe`; when
  it raises (`unpack_raises`), the package is not closed.
* **`Sproto`.** A digit stands for a byte (base 6): two digits are the 16 bits of
  a record, 4 and 8 the 32 and 64 bits of an integer, with their signs. Buffers
  have their sizes, so that every "too small, try again" is taken; the comparison
  in `encode_integer_array` that takes a negative rest for a large one gives the
  result `over`, at which the model stops. A number in the place of a string is
  encoded as its text, as `lua_isstring` allows. The schema
  goes through `packgroup` and `create_from_bundle` before it is used, and the
  reader's schema may be a different version of the writer's.

The sequential modules (all from `HandleTable` on but `Sessions`) share no
variables, so checking them side by side would only multiply their states.
`MCComponents` extends all of them and picks one to explore at the start; the
others stay in their initial state. Module prefixes on variables (`sb`, `np`,
`sd`, ...) are for this.

## 3. Runs

| run | instance | checks |
|---|---|---|
| `message_queue` | 2 messages, capacity 2, alarm at 1, length up to 4 | `ScheduledOnce`, `NoStranded`, `FreedIsUnreachable`, refinement `MailboxSpec` |
| `rwlock` | 4 threads | `Exclusion`, `WriterProceeds`, no deadlock |
| `actor` | 3 services, 2 workers, 1 other thread; 1 send, 1 kill, 1 abort | `RefExact`, `CallbackSerial`, `NoStranded`, `NoUseAfterFree`, `ExitMeansEmpty` |
| `actor_live` | the same without ABORT | `KilledIsFreed`, `Drains` |
| `workers` | 3 workers, 2 services | `SleepExact`, `NoLostWork`, `EndsOrLeaksMutex` |
| `timer` | near 2, four rings of 2 slots (32 ticks), 2 nodes | `ExactTick`, `NodeOnce`, `FiresInOrder`, no deadlock |
| `socket_send` | messages of 3 units, 4 messages | `WholeMessages`, `StreamExact`, `WbExact`, `WriteArmed`, `CloseEnds` |
| `socket_server` | 2 slots, 2 calling threads, 4 ids, 2 further requests, 1 in the pipe | `ReservedOnce`, `WatchedExact`, `FdsExact`, `EventsFresh` |
| `socket_assert` | messages of 2 units, 2 messages | `LowComplete`: violated |
| `sessions` | 2 coroutines, 3 sessions | `ResumeExact`, `CallKept` |
| `components` | see below | `HandleExact`, `PayloadOwned`, `SerialExact`, `NetpackExact`, `SocketBufferExact`, `ShareTableExact`, `StmExact`, `MulticastExact`, `ShareDataExact`, `SprotoExact` |
| `sproto_pack_overhead` | the code's own constants, up to 24 bytes | `PackOverhead`: violated |

Type correctness is part of `RefExact`, `SleepExact` and `NodeOnce`, and of the
invariants proved for `MessageQueue` and `RwLock`.

Why these bounds are enough to be interesting. Capacity 2 and length 4 make the
ring grow twice, at every rotation, with wrap-around after each growth, and the
alarm threshold double. Four threads give the lock two readers, a writer and a
rival writer. Three services are log, bootstrap and one that is launched, may
fail, and may be killed from outside or from within while the two workers and
a third thread have it in hand; one KILL together with one ABORT already
releases a service too often. `MaxEarly` bounds how often an unmarked queue
is put back (the code may spin there while the killer is between removal and
mark). Three workers allow one to be asleep, one awake and one on its way into
the wait when a signal or the final broadcast arrives. The small wheel has all
four rings of the code, so that a node can come down through each of them, and
runs through its wrap-around; two nodes are what an order needs. With two slots
and four ids each slot is used twice, all slots can be in use, and a
listening socket can accept; two further requests are enough to send and then
close, or to start and close. One request in the pipe at a time still lets the
next one arrive before the events are looked at, so that a slot is closed and
opened again under pending events. Three units make a message of which the
first, a middle and the last part are sent separately; four messages allow two
of each priority.

Of the components: a handle table of 2 slots that grows twice, with ids beyond
the mask, and a name array of one that grows; 3 blocks of memory and two
services of which either can die, with a remote handle; every scalar, table of
up to two keys and nested table up to and over the depth limit, over nodes of
4 cells; 3 packets on 2 connections in one hash chain, cut at every byte, a ring of
2 that must grow and headers of base 2, so that the largest length is reached;
blocks of 1 and 3 bytes with separators up to 3 bytes, which lie across up to
three blocks; up to 4 keys in every order with colliding hashes; 2 readers and 3
copies; 2 subscribers and 2 packages; 2 clients and 3 versions of a table; every
type of field with gaps of tags, integers at each limit of their width, alone and
in arrays (also the first wide one after three narrow ones), two versions in both
directions, runs at their limit of 3 segments.
Two coroutines are one that waits and one that wakes it; three sessions let one
of them sleep and then call while an answer to the other is under way.

`CHECK_DEADLOCK FALSE` is set where the system may stop: a freed queue has no
further step; with the commands used up all workers are idle; after shutdown all
threads have ended (and after `Undefined` nothing more is said); the socket
models stop when their requests are used up or the program has aborted; a
component stops when its input is used up, and `Sessions` when its session
numbers are or at `broken`.

Symmetry is used in safety runs over interchangeable workers, nodes and calling
threads and over coroutines, not in the runs with liveness.

### Fairness

* `RwLock`: weak fairness for each thread that has called; the critical sections
  are straight-line code. Nothing is assumed of threads outside the lock.
  (A *reader* may starve under a stream of writers; no such property is
  claimed.)
* `Actor`: weak fairness for each thread's own steps: threads are scheduled, and
  callbacks return (a service that loops for ever is what the monitor warns of).
  Requests (sends, kills, launches) are never forced.
* `Workers`: weak fairness for each loop; strong fairness for acquiring
  `watcher.mutex`, which is what a thread blocked on a pthread mutex gets as
  long as its owners keep releasing it; and `socket_poll`, which is woken through
  its pipe, sees the exit request. Neither sockets nor timeouts are forced.
* `SocketSend`: weak fairness for the events of the socket (the socket thread
  handles what `epoll` reports, and a write event comes again until the kernel
  has taken everything or the peer is gone) and for the end of a pending
  connect. A peer that keeps the connection but never reads is outside this:
  the code has no timeout for it. Requests are never forced.

### What the runs show about the code

The properties hold, with exceptions that are part of their statements because
the code allows them. The repository has no statement to the contrary, so they
are recorded here:

* *Killed too often.* KILL and ABORT release a reference the caller does not own
  (`pixel.c:404`, `handle_exit`). Twice on a service that a thread has grabbed,
  and its context is freed under that thread. `OverReleased` excludes this.
* *The log service's context.* `pixel_log` reads `G.log->handle` (`pixel.c:84`, called
  from lines 134, 183, 191 and 353) and holds no reference to it. Once KILL and
  ABORT have dropped both references that keep log, a thread that logs uses a freed
  context; `NoUseAfterFree` excepts such threads only then
  (`drops[Log] >= Standing(Log)`).
* *The tail of `pixel_new`.* It uses the context after releasing its reference,
  after a successful launch (`pixel.c:191`) and after a failed one
  (`pixel.c:185`); a service killed meanwhile is freed by then (`TailUses`).
* *ABORT during a launch* finds a context without a queue, or makes the
  unchecked `handle_grab` at `pixel.c:181` fail; `crashed` happens only after an
  ABORT.
* *`G.total` too low.* When `queue_free` only puts the queue back, the counter
  is decremented all the same, and again when the queue is freed
  (`pixel.c:343`); `ExitMeansEmpty` holds as long as that has not happened
  (`early = 0`).
* *Orphans.* A launch that fails while another thread has the handle grabbed
  leaves its queue unscheduled and the service counted (`pixel.c:151`), so the
  program does not end.
* *Mutex left locked.* A worker that gets the mutex after `quit` was set ends
  with it; workers that wait then never end. `EndsOrLeaksMutex` states that
  this is the only way for shutdown not to finish.
* *Negative timeouts* (unchecked `atoi`) expire within a turn of a ring, or, in
  slot 0 of a lower ring, never; `ExactTick` is about the others.

* *Reserved under the old id.* A close for the old id of a slot that is handled
  between the reservation and the assignment of the new id fails the assertion
  of `socket.c:358`. A read event of the old socket in a slot that was reserved
  before `clear_closed` ran does, too; the same race lets an event of the old
  socket reach the new one (`raced` in `EventsFresh`).
* *Freed twice.* After a refused `event_add`, `socket_req_open` and
  `socket_req_udp` mark the slot invalid a second time and may wipe out another
  thread's reservation.
* *No slot left.* Open, listen, bind and udp use the id -1 unchecked.
* *Lost descriptor.* `socket_req_start` does not close the descriptor the poller
  refused (`leaked` in `FdsExact`). A refused UDP socket is not reported.
* *Lent descriptor closed.* A close with data waiting turns BIND into HALFCLOSE
  (`socket.c:622`), after which `socket_forc` no longer knows that the descriptor
  from `socket_bind` is not its own and closes it (`taken` in `FdsExact`).
* *Bound descriptors.* Data for a descriptor from `socket_bind` is queued, but
  nothing asks for write events: it is never sent, and a close after it
  never completes (`bound` in `WriteArmed` and `CloseEnds`).

* *Handles.* An expansion overwrites a live handle that is a multiple of the new
  capacity if an empty slot is copied after it (`wiped`, `handle.c:67`); a handle whose low 24
  bits are 0 reads the old pointer of an empty slot 0; handles beyond 24 bits
  are registered and never found; names are never removed.
* *Messages.* The payload of a socket event is lost when its service is gone, has
  no callback or does not unpack it (`leaked`, `pixel.c:323`). A remote send
  before `harbor_start` goes through a null pointer; the model does not take
  this step, and no service in the repository asks for a harbor.
* *Sessions.* `pixel.sleep` leaves its `sleep_session` set, so a wakeup can break
  into a later call (`broken`, `pixel.lua:171`). Nobody tells the callers of a
  service that is killed from outside, nor those whose request was answered by
  nothing (`lost`). An error after an answer sends an error as well; it is
  ignored, as `CallKept` and `ResumeExact` need.
* *Serial.* When a `__pairs` metamethod raises, the nodes stay allocated.
* *Netpack.* `pack` accepts one byte more than the header can say and writes the
  length 0 (`Misframed`, `lnetpack.c:374`).
* *Socket buffer.* `lfreebuffer` frees only the first block and leaves the size
  (`sbFreed`, `lsocket.c:208`); a read after it may run off the chain. A new
  pool of nodes replaces the pointer to the old one.
* *Stm.* A reader that gave its reference back unlocks the object afterwards,
  when another may have freed it (`lstm.c:79`).
* *Multicast.* A package published to nobody, and the share of a subscriber that
  died, are never freed, nor is one whose `unpack` raised in a subscriber
  (`mcLost`, `multicast.lua:83`); for remote subscribers `multicastd` reads
  the package after it has sent the pointers, when it may be freed
  (`mcUse`, `multicastd.lua:81`).
* *Sharedata.* The pointer in the answer of `monitor` is not counted
  (`sharedatad.lua:100`, `119`): a client that boxes it after `collectobj` read the
  count as zero, before or after the deletion, has a deleted table (`sdLate`).
  When `new` raises within `update` (`sharedatad.lua:95`), the name is gone, the
  retired table is not dirty and the waiting clients are never answered. After
  a delete and a new, `sd.update`'s assertion ends a client's monitor. Integer keys
  are cut to 32 bits and tables as keys share the key `""`; the model's keys are
  those that fit. A nested table that is being converted when `lnewconf` raises is
  not freed (`lsharedata.c:136`).
* *Sproto.* An integer array whose first wide element comes after three or more
  narrow ones may be written past a buffer that is too small: the negative rest is
  compared as unsigned (`sproto.c:748`, `LateWide` in `SprotoExact`). A run of the full 256 segments whose last one is padded is copied past
  the end of the input (`RunOverEnd`); a gap of more than 32768 tags makes every
  buffer too small; an empty array is decoded as absent; `import_protocol` goes
  by the number of the record, not by its tag; the bundle of an empty schema is
  refused.
* *Timer.* `timer_unit`, at exit, stops one slot short of each ring (`timer.c:196`).

Some hazards of `PROJECT.json` are therefore recorded and not caught: the model
reaches them, and the properties speak of everything else. They are the second
decrement of `G.total` (`early`), the orphans of a failed launch, callers of a
killed service (`lost`), the session `pixel.sleep` leaves behind (`broken`), data for
bound descriptors (`bound`), the id -1 and the wiped reservation (`failed`).

Two statements of the repository are violated. In the run `socket_assert`,
`socket_send_buffer` asserts that the first buffer of the low list has not been
begun (`socket.c:429`), but a direct write that takes part of a low-priority
message leaves the rest exactly there (`socket.c:812`), and the next write event
or close aborts the program. `socket.write` takes the priority as its optional
last argument. The other runs of this model stop at that point.

In the run `sproto_pack_overhead`, nine bytes without a zero need 12 packed,
while `lpack` makes room for 11 by its comment that packing costs "2 bytes per
2 KiB of input" (`lsproto.c:462`): the last, padded segment is not counted. Such
a message is refused with "packing error".

## 4. Proofs

`MessageQueueProofs`, for every set of messages, every initial capacity and
threshold, and any length. Assumption: `QueueAssumption` (positive sizes, the
empty slot is not a message).

* Neither "at most one token" nor "no lost wake-up" is inductive: whether a push
  links the queue depends on `global`, and whether marking does on `global` at a
  time when nobody maintains it. `TokenInv` says how they hang together: while
  unmarked, tokens = `global`, and `global = 0` only if the ring is empty; once
  marked, one token until freed. With the ring's bounds (`RingOK`) and the
  flags' types (`FlagsOK`) this is inductive: `Invariance`.
* From it: `RingSafe`, `OneToken` (`ScheduledOnce`), `NothingStranded`
  (`NoStranded`), `FreeIsSafe` (`FreedIsUnreachable`).
* `Refinement`: `Spec => MailboxSpec` with `inbox` the ring read from `head`,
  and `token` where the queue is. The work is in two lemmas: a push appends to
  the inbox, whether or not the ring grows (`PushAppends`, over the
  index arithmetic of `_queue_expand`), and a pop takes its head
  (`PopTakesHead`).

`ThreadProofs` is about what the threads share.

* The lock, for every finite set of threads: `LockExcludes`. `Exclusion` needs that
  `read` counts the announced readers, including those that will withdraw, and
  that `write` tells whether there is exactly one owner (`LockInv`).
* The handle table, for every first capacity that is a power of two, every mask
  and any names: `HandlesExact` (`HandleExact`, under `HandleSpec`). `SlotInv`: an
  occupied slot i holds the latest live handle h with h % cap = i, an empty one
  points to no live service, and a live handle that was not overwritten is in
  its slot. `ExpandInv` shows that doubling keeps this
  (two handles that differ modulo cap differ modulo 2 cap), with slot 0 as the
  exception that `wiped` records. `NameInv`: the names are sorted and are those
  with a first handle. After k iterations a name that exists is still between
  `beg` and `end`, everything before `beg` is smaller, everything behind `end`
  larger, and at most count - k entries are left (`Bracket`, `HalvesIs`); so the
  search finds the name or the place where it goes (`SearchIs`), and `_insert`
  keeps the order while the array grows (`InsertInv`).
* The workers, for every finite set of workers and services: `SleepCounted`
  (`SleepExact`). A worker that ends at the top of its loop differs from one that
  ends between `++sleep` and `--sleep` only in whether it owns `watcher.mutex`;
  `SleepInv` adds who owns it.
* The timing wheel, for rings of any size, any number of rings above one and any
  nodes: `FiresOnTick` (`ExactTick`), `NodesOnce` (`NodeOnce`) and `InOrder`
  (`FiresInOrder`), under `TimerSpec`. `WheelInv` consists of `Ticks` (the expiry is
  the present tick plus what is left, modulo the range), `InPlace` (each node is
  in the slot where `_timer_add_node` would put it *now*), `Once` (one list, once),
  `Phases` (what is in hand, and that the near list is empty before the shift)
  and `Ordered` (who was asked for first and expires together is ahead, in the
  same list or because one of the two is in hand). The heart is `ShiftPlaced`: when
  the clock moves on, every node outside the slot that `_timer_shift` spreads is
  still where it belongs, because its place changes only when the tick enters
  its slot's block, and the first ring with a nonzero index is the only one
  whose slot begins at that tick. Nodes that expire together are in the same
  slot whenever both are on the wheel (`PlacedOnce`), which is what keeps
  their order.

`ActorProofs`, for any number of services and finite sets of workers and other
threads. The invariants build on each other:

* `CountInv`: the registers of each thread fit its `pc`, and `ref` is the standing
  references plus `Grabs` - `RefsCounted` (`RefExact`). The sum has three sets of
  threads; `Lemmas` says how the size of a set changes when one element does.
* `LifeInv`: what the states of slot, context, queue memory and the flag `release`
  say about each other (`Born`), what a thread's registers say about its handle
  (`Refers`), and that two threads never complete, or take apart, one context
  (`Apart`).
* `TokenInv`: `LifeInv`, and for each service that was not killed too often one
  token if its queue is scheduled, has messages or is marked. Every action obeys
  one of seven rules (`QueueRule`), and the rules keep the token. From it
  `OneThread` (`CallbackSerial`) and `NothingStranded` (`NoStranded`).
* `ShelterInv`: until an ABORT, nobody but its launcher can get at a new service.
  With it `NothingFreedInUse` (`NoUseAfterFree`). For `pixel_log`'s read it rests on
  the count alone: log keeps a reference until both of its own are dropped.
* `CountedInv`: `total` is the services that count and the threads about to count
  one out. From it `ExitIsEmpty` (`ExitMeansEmpty`).

`SharedProofs`: `StmCounted`, `MulticastCounted` and `ShareDataCounted`, for any
finite set of readers, subscribers or clients and any number of copies, packages
or tables. Each property counts pointers; inductive are the counts together with
where a pointer can be at all in each state of its holder (`StmShape`, `McShape`,
`SdShape`; for `ShareData` also that a condemned table gains holders only through
`sdLate`) and, for `Stm`, the count of the object's own boxes. The three
modules have a specification of their own (`StmSpec`, `MulticastSpec`,
`ShareDataSpec`): the steps they contribute to the run `components`.

Also there, `MessagesOwned` (`PayloadOwned` of `Messages`, under `MessagesSpec`), for
any services, any finite set of blocks and queues of any length. The property
counts owners; the invariant (`MessagesInv`) says without counting that a block
is held at one place if it is allocated and at none if it is not
(`OwnedOnce`), a place being a part of the i-th message of a queue or of the
running callback, Lua, or the lost payloads (`Holds`). A step leaves a block
alone, frees it, puts it at one place, or moves it up in its queue (`Same`,
`Nowhere`, `HeldAt`, `Shifted`), and each action is shown to do one of these to
each block. `OwnersCounted` turns the invariant into the count.

`SocketServerProofs`, for any number of slots, callers, requests and ids:

* `ReservedForOne` (`ReservedOnce`) needs that ids are used once (`IdInv`: an id is
  with one caller, in one request or in its slot), and then a matching between
  reserved slots, callers between their two stores and requests in the pipe
  (`ReserveInv`).
* `DescriptorsExact` (`FdsExact`) is a set equation; a step removes one descriptor
  from the right side because ids are distinct, so it needs `IdInv` as well.
* `PollerExact` (`WatchedExact`), and `EventsStayFresh` (`EventsFresh`): events are left for
  a slot that is not live only while `clear_closed` is still to run for its id
  (`EventInv`).

`SocketSendProofs`, for messages of any size above one and any number of them:
`MessagesWhole` (`WholeMessages`), `BufferCounted` (`WbExact`), `WriteInterest`
(`WriteArmed`) and `StreamKept` (`StreamExact`). `WholeMessages` speaks of the wire alone. Inductive is that wire,
high and low together (`Stream`) consist of whole messages (`Whole`) and that no
message crosses into low (`Cut`) - or that low begins with the rest of a message,
after which the assertion in `socket_send_buffer` lets nothing out any more. The
lemmas: a message put in at a cut leaves whole messages and the earlier cuts
(`InsertWhole`); what is left of the first buffer of low ends at a cut
(`FirstOfRest`), so moving it to high makes one; and sending k units, with that
move, keeps the stream (`SendParts`).

For `StreamKept` the stream holds `SIZE` units of every accepted message and
nothing else, those of one priority in order (`Carries`). That a new message can
go behind the high list and still be behind all of its priority needs to know
that low holds no high-priority message (`LowFrom`); low-priority ones may well
be in high (`StreamInv`). `InsertCarries` and `InsertLow` say what putting a
message into the stream does to the two.

`SessionsProofs`, for any coroutines and any number of sessions: `ResumesExact`
(`ResumeExact`) and `CallsKept` (`CallKept`), under `SessionsSpec`. The invariant
(`IInv`) says of the stack of unfinished handlers that only its head resumes
anything, and something that waits for it (`Stacked`, `Stack`); of
`session_id_coroutine` that it holds exactly the coroutines that wait and are not
being resumed (`Ids`); that sessions are new when they are allocated (`Old`) and
no two coroutines wait for the same one (`Distinct`); which traffic there can be
for a call, a sleep and a wait (`Kinds`); what `sleep_session` still holds
(`Sleeping`); that the called service takes a request once (`Served`); and that what
`pixel.exit` announced arrives (`Told`). A coroutine woken through what
`pixel.sleep` left behind (`broken`) violates most of this and ends the
behaviour, so these parts hold until then, and the two properties also after.

The assumptions on constants are those the modules state next to them: sizes are
positive, a wheel has at least two rings of at least two slots, the first capacity
of the handle table is a power of two (`&` is taken as `%`), sets of
threads, services, readers, subscribers, clients and blocks are finite, and the
values that stand for "none" are not among the things they stand beside.

Recursion and induction. The recursive functions the proofs meet (`Width` of the
timer, the iterated `Halve`) are shown to exist and to satisfy their equations by
`Iterate` of `Lemmas`; induction is used on sets of numbers (`Induct`, from the least
element of a set: `Least`), because the induction theorems of the library take an
operator as a parameter and cannot be instantiated by the provers.

Only model-checked:

* liveness (`WriterProceeds`, `KilledIsFreed`, `Drains`, `NoLostWork`,
  `EndsOrLeaksMutex`, `CloseEnds`), which is beyond TLAPS together with ENABLED;
* what `Serial`, `Netpack`, `SocketBuffer`, `ShareTable` and the sproto modules
  compute: their recursion follows nested data (a message through the tree of
  its values, a packet through its chain of blocks), is written with RECURSIVE
  operators, which the prover does not read, and what it computes would need
  induction over such data. The modules with theorems use none.

## 5. Not modelled

* `socket.c`: UDP addresses, options, read sizes, send objects, `socket_unit`;
  `timer.c`: the clocks and `timer_unit`; `pixel.c`: session numbers and their
  overflow, `pixel_unit`, the commands that only read; `handle_unit`; the
  monitor's counters, whose unlocked reads only affect a warning.
* Lua: `pixel.fork`, `socket.lua`, `socketchannel.lua`, the handshake of gate and
  login, `sharemap.lua`, the datacenter, channels of multicast that belong to other
  nodes (`DELR`, `USUBR`, `mc_remote`), the service manager, the debug console.
* Left out for good: cryptography, redis and dns, the text parser of sproto, log
  formatting, module loading, the environment (one table under the lock of
  `RwLock`), the allocator `lalloc.c` (raw `mmap` lists), failures of pthread
  calls, the third-party code under `3rd`.

`PROJECT.json` lists every component with its status.

## 6. Plan

1. *(done)* `Mailbox`, `MessageQueue`, `RwLock`, `Actor`, `Workers`, `Timer`,
   `SocketServer` and `SocketSend`.
2. *(done)* `HandleTable`, `Messages`, `Sessions`, `Serial`, `Netpack`,
   `SocketBuffer`, `Stm`, `ShareTable`, `ShareData`, `Multicast`, sproto.
3. *(done)* Proofs: every safety property of `MessageQueue`, `RwLock`, `Actor`,
   `Workers`, `Timer`, `SocketServer`, `SocketSend`, `HandleTable`, `Messages`,
   `Sessions`, `Stm`, `Multicast` and `ShareData`.
4. `SocketChannel`: the queue of requests of `socketchannel.lua` through
   reconnects; the users of gate and login.
