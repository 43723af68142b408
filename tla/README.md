# A TLA+ model of crazyflie-lib-rs

crazyflie-lib-rs is a Rust library that talks to a Crazyflie quadcopter over a
radio or USB link. A program connects, gets one `Crazyflie` object, and shares
it between its asynchronous tasks: "All subsystems functions are only taking an
un-mutable reference to self (`&self`), the intention is for the Crazyflie
object to be shared between tasks" (src/src/lib.rs). Behind the object run
background tasks, channels and async mutexes. What can go wrong there is a
matter of interleavings, dropped futures, late answers and lost links, and that
is what these modules are about.

File names below are those of the repository, whose sources are in `src/` and
`src/subsystems/`.

## 1. Inventory

| Component | State | Operations | Interacts with |
|---|---|---|---|
| `Crazyflie`, `ConnectGuard`, uplink task (crazyflie.rs) | disconnect flag, the JoinHandles of two tasks, each in a mutex, the link | `connect_from_link`, `disconnect`, `wait_disconnect`, drop; power commands on a link of their own | every subsystem puts packets in the uplink queue the task empties |
| `CrtpDispatch` (crtp_utils.rs) | a sender for each port | `get_port_receiver`, `run` | reads the link, feeds the ports, ends with the flag or the link |
| `wait_packet`, `crtp_channel_dispatcher` (crtp_utils.rs) | none; four queues | wait for an answer and throw away the others; sort by channel | log, param, memory, platform, link service |
| `fetch_toc`, `TocCache` (crtp_utils.rs) | a cache supplied by the program, shared by two ports, that outlives the connection | fetch a table item by item, or take it from the cache | `Log::new`, `Param::new` |
| Log (subsystems/log.rs) | next identifier, table of blocks with weak references, channel of each block, receiver of the control channel in a mutex | `create_block` (with a clean-up), `add_variable`, `start`, `stop`, `next`, drop; data dispatcher | the Crazyflie holds the blocks and sends the data |
| Param (subsystems/param.rs) | cache of values, three receivers in mutexes, list of watchers | `get`, `set`, `watch_change`, queries of types, defaults and persistent storage; misc loop | the Crazyflie changes parameters by itself and says so |
| Memory (subsystems/memory/mod.rs, memory_types.rs) | a backend for each memory, in or out of the object | `open_memory`, `initialize_memory`, `close_memory`, `read`, `write`; dispatchers by memory | the wrappers of the memory types |
| Memory wrappers (raw, ow, eeprom_config, deckmem, trajectory, lighthouse, loco2, led_driver) | the decoded contents | open by reading, setters, commit by writing | a backend |
| Console, Localization, LinkService, Platform | histories and broadcasts; one queue each behind a mutex | streams; persist with confirmation and timeout; ping and bandwidth tests; version queries, app channel | uplink queue, one port each |
| Commander, HighLevelCommander | none | encode and send a packet | uplink queue |
| Values, errors | none | conversions | everyone |

What makes the code hard to get right, and to test:

* **Interleaving.** Every call may be suspended at any `await` while other
  calls go on; there are three mutexes in the parameter subsystem, two in the
  log subsystem, and two around JoinHandles.
* **Several queues.** The Crazyflie answers in one order, and the channels of a
  port have different readers.
* **Dropped futures.** A `timeout` or a `select!` drops a call half way, with
  its guards, what it took out of a mutex, and its answer still to come.
* **Loss of the link.** Each queue still holds what has come in, and tasks end
  at different moments.
* **Two parties.** The table of the program and the Crazyflie must agree about
  log blocks, variables, values and contents of memories.

The properties that make each component correct are in section 3.

## 2. Modules

| Module | Models | Run by | Proofs |
|---|---|---|---|
| Session | the promise of a Crazyflie object: packets go out in order, and none after a `disconnect()` has returned | (through Connection) | |
| Connection | life of the object, both tasks, concurrent `disconnect()` and `wait_disconnect()`, drop, failing connect; implements Session | MCConnection | ConnectionProofs |
| Log | log blocks and streams | MCLog | LogProofs |
| Param | values of parameters, their cache and watchers | MCParam | ParamProofs |
| Storage | extended types, default values and persistent storage of parameters | MCStorage | StorageProofs |
| Lending | the promise of a Memory object: each backend is at home, with one task, or lost for good | (through Memory) | |
| Memory | opening, reading and writing memories; implements Lending | MCMemory | MemoryProofs |
| Toc | tables of contents and the cache | MCSubsystems | SubsystemProofs |
| LinkService | ping and bandwidth tests of several tasks | MCSubsystems | ServiceProofs |
| Platform | version queries, app channel | MCSubsystems | ServiceProofs |
| Broadcast | a broadcast channel in overflow mode (external) | (Console, Localization) | |
| Console | history, lines, and the streams of both | MCSubsystems | SubsystemProofs |
| Localization | lighthouse angles, `persist_lighthouse_data` | MCSubsystems, MCPersist | ServiceProofs |
| Pages | lighthouse and anchor memories, page by page | MCSubsystems | ServiceProofs |
| Deck | sections of deck memories, used by several tasks | MCSubsystems | ServiceProofs |
| Values | typed values as doubles and as bytes | MCSubsystems | |
| Contents | layouts of lighthouse records, EEPROM, OneWire, LED ring | MCSubsystems | |
| Trajectory | compressed and uncompressed trajectories | MCSubsystems | |
| Commands | calls that send one packet: commander, high-level commander, emergency stop, external pose, platform commands | MCSubsystems | SubsystemProofs |
| Parts | the instances of LinkService, Platform, Console, Localization, Pages, Deck and Commands, and what each promises | MCSubsystems | ServiceProofs, SubsystemProofs |
| QueueProofs | lemmas about queues, for the other proof modules | | itself |

Each module names its sources in its comments; PROJECT.json maps every
definition to lines. The common conventions:

* A task of the program is a process with a program counter `pc`. An action
  goes from one `await` that may suspend to the next. A call that has ended has
  no state (in Memory, `result` says how it ended).
* A lock is a variable with its holder. `tokio` and `futures` mutexes are not
  assumed to be fair. Guards are dropped where the code drops them: at the end
  of a statement, of a function, or with the future.
* `wait_packet` is two actions: take the matching head of the queue, or throw
  the head away.
* Loss of the connection (`ConnectionEnds`, `DownlinkEnds`, `Lost`) takes the
  requests on their way and any last part of what was coming in. A send fails
  once the uplink task is gone; until then it succeeds and the packet goes
  nowhere. In Log and Memory both are possible from the moment of the loss.
* The Crazyflie and `crazyflie_link` are not in this repository. They are
  modelled as the code uses them and marked external: packets of one direction
  arrive in order, every request is answered once as long as the link is up.
* Data is a model value or a small number.

### Connection and Session
`task` is the place of the uplink task (crazyflie.rs:165) and of the dispatcher
(crtp_utils.rs:52) in loops "while not disconnect, receive with a timeout".
`handle` and `lock` are the two `Mutex<Option<JoinHandle>>`, `closer` the calls
of `disconnect()` and `wait_disconnect()`, `user` the subsystem calls, one of
which (Connector) is that of `connect_from_link` itself. `Session` has three
variables; `Connection` maps `closed` to "some call of disconnect() has
returned" and keeps `accepted` and `sent` as history.

### Log
`create_block` is the path lockActive, scan, lockDelete, waitDelete (clean-up)
then takeId, lockCreate, waitCreate, insert; the other calls are lockOp,
waitOp. A LogBlock or LogStream is `id[t]`, `variables[t]`, `streaming[t]`; it
stays with the task that made it. The weak reference of a table entry is alive
when some task holds the object. `fw` and `fwVars` are the blocks in the
Crazyflie. The data dispatcher feeds `queue` through `channels`.

### Param
`get` holds the lock of `values` while it reads; `set` holds that of
`write_downlink` from the request to the notification and takes that of
`values` for one assignment; the misc loop stores the updates and tells the
watchers. `heard` is what a stream was told last. Where the code has
`unwrap()` on a value that may be gone, the model has the panic as an end of the
call.

### Storage
`get_extended_type` and `is_persistent`, `get_default_value` with its cache,
`persistent_get_state`, `persistent_store` and `persistent_clear`. `rounds`
lists the commands a call has still to send: the calls about persistent storage
ask for the extended type first. A round locks `misc_downlink`, sends, waits and
releases. `misc` is the queue the misc loop reads, `miscCmd` the one it passes
answers on to, which closes with the loop. The updates are those of Param, but
for the malformed one that ends the loop. `dropped` lists the rounds that were
given up with an answer still to come.

### Memory
`home` says that the backend is in the Memory object, `object` which task owns
what was opened. A transfer is `from`, `length`, `cur` and `buf`; `asked` is the
address of the request in flight (a write moves `current_address` before its
answer). `Holders` is who has each backend, in an object or in the call that opens
it, and with `home` it is all that `Lending` speaks of. An opening makes the reads of its type of memory in turn (`todo`):
four for OneWire, one of which may be of nothing, one for the EEPROM, the
version and each section for a deck; those that are checked may fail it.

### Toc
One fetch for each port, run side by side by `connect_from_link`, over several
connections with the same cache and perhaps another firmware. A checksum
*is* the table it belongs to: collisions of CRC-32 are out of scope, and so is
a cache that returns what was not stored. The names of a table differ
(`FirmwareAssumption`): the firmware names an item by its group and itself.

### LinkService and Platform
`guard` and `commGuard` are the mutexes around the receivers. A test of the link
service gives up after a timeout, which may come at any moment of its wait; a
version query has none and waits for as long as the link lasts. What was asked
for by a call that was given up still comes, into the queue of the next.

### Console and Localization
The background task of each is one action per `await`: the console pushes to the
history, broadcasts the text, and then a line, if the buffer has one (*one*: it
is an `if let` and not a loop). A stream is opened between any two of these.
Localization sorts packets into two broadcasts. `Broadcast` is the crate
`async_broadcast` as used here: the oldest message is dropped on overflow, and a
clone of a receiver starts where the receiver is.

### Pages and Deck
Both stand on `MemoryBackend::read` and `write`, of which Memory has the requests.
In Pages a lighthouse record takes two steps (its start, and its end with the
flag that says it is valid), so the Crazyflie may change it in between; an anchor
takes one. In Deck one access of the backend is a step, which may take effect
before it fails.

### Values, Contents, Trajectory, Commands
No state is kept between calls: a behaviour is one call, its arguments and its
result, or, in Commands, a few calls and their packets. `Contents` and
`Trajectory` have next to the encoder of the source a reference definition that
was not made from it (a reader of the format, a sum), and the properties compare
the two.

## 3. Runs

All bounds are CONSTANTS that a .cfg sets; counters are bounded in guards
(`MaxCalls`, `MaxSamples`, `MaxCancels`, ...). `CHECK_DEADLOCK FALSE` is set
throughout: a program that has made all its calls stops.

| Run | Shows | Bounds, and why they suffice |
|---|---|---|
| connection_safety | the first `disconnect()` to return finds both tasks over and the link closed; the object keeps the promise of Session | two closers, to have one find the mutex the other emptied; two clients and the connect call, to have packets to put in order |
| connection_live | `disconnect()` returns, tasks end after a drop or a failed connect, waiters get an answer or an error, accepted packets are sent | the same with one client; one dropped `disconnect()` |
| connection_cancelled | **violation**, see section 5 | one dropped `disconnect()` |
| log_calls | identifiers are unique; the clean-up of one task spares the blocks of another; nothing leaks; both sides agree on the variables; every call returns, and late answers do no harm | two tasks, four calls each and five together: create, start, drop, create again; three identifiers, room for two blocks and for one variable, so that commands are refused; one sample or one dropped call, not both in one behaviour (`MCLog`), for nothing waits for either |
| log_deadlock, log_survive | **violations** | two tasks |
| param_cache | cache, watchers and Crazyflie agree when nothing is in flight; a successful set was carried out; every call returns | two tasks; a stream and two calls of get or set, which can all overlap; one parameter the program sets and another that the Crazyflie changes (both on one parameter is param_stale); one update, good or malformed; one dropped call; each direction lost |
| param_stale | **violation** | one call, one change |
| param_storage | each query takes its own answer; states are current; default values are those of the right parameter; the storage is as the last successful call left it; every query returns | two tasks and two calls of up to two rounds, which can overlap or leave a late answer to the other; one parameter of each kind (persistent and writable, or neither); refusals, a malformed update, one dropped call, each direction lost |
| memory_access | the object keeps the promise of Lending; reads return what is there; writes are a first part of the data; calls return | a memory of three cells and requests of two: transfers of nothing, of one part, of two, past the end; a content that is valid or not when opened, and that writes change; any request may be refused; one dropped call |
| subsystems | Toc, LinkService, Platform, Console, Localization, Pages, Deck, Values, Contents, Trajectory and Commands, one after the other | below |
| persist_honest | **violation** | two calls |

**subsystems.** These eleven modules share no state, so `MCSubsystems` chooses one
of them at the start and lets only that one move: the states add up (413,499) and
do not multiply, and nothing is lost. Its properties are the conjunctions that
the modules end with, each asked for where its module moves:

| Property | Parts, each named in the module | Bounds, and why they suffice |
|---|---|---|
| `TypesOK` | the type invariant of each module, and that an answer of Values is a value of its type | those below |
| `TablesRight` | `TocRight`: a fetch that succeeds has the table of the firmware that runs; `CacheSound`: only whole tables in the cache | three connections, three firmwares, one that shares a table with another and one without items |
| `TestsApart` | `OwnEchoes`: a call takes its own answers; `SinksDelivered`: an uplink test that is over has had its packets taken. Both until a call is given up | two tasks, two tests of any kind, of no packets or two, one dropped |
| `AnswersKept` | `AnswersLag`: an answer is late by exactly the queries given up before; `NoProtocolError`; `AppStreamWhole` | three queries, one given up, two app packets, so that they have an order |
| `StreamsWhole` | `Gapless`: nothing between history and broadcast; `LinesExact`: lines and buffer are the text | one stream (streams do not see one another) of each of four kinds, three packets with a line, part of one, or two ends of a line; a queue of two, so that a stream falls behind |
| `LighthouseTold` | `MaskRight`, `NoFalseDisconnect`, `AnglesWhole` | two calls of two tasks, one with a station out of range; two packets of the Crazyflie on its own; queues of one, for those of 100 and 10 |
| `PagesRight` | `ReadAllRight`, `WriteAllRight`, `AnchorsRight` | three pages for sixteen, one unknown to the firmware; lists with repetitions, out of order, too long; one change while a call is under way |
| `DecksRight` | `OwnDeck`: what a deck is made to do was asked of its section; `FlagsFresh` | three slots for eight, in two settings with an empty slot before others; two uses that overlap, one restart |
| `CodecsRight` | `ValuesRight`, `ContentsRight`, `TrajectoriesRight` | halves around every power of two where a type ends, infinities and no number; wide types made narrower in the same order; bytes changed one by one, cut short; every length of an element, and coordinates at the end of the range |
| `CommandsRight` | two calls with other arguments or of another function never make the same packet; a higher percentage is never less thrust, and one from 0 to 100 is a thrust in the documented range | every function, its arguments changed one by one, two calls; percentages below 0, above 100 and far enough to wrap around |
| `WaitsEnd` | from any state where something is waited for, one follows where nothing is: a fetch ends with the link, a call returns though nobody answers, a stream gives what it has | those above |

Each part has a mutant next to the definition it is about ("Mutant: ..."), and
each of them breaks its property in this run.

What some properties say beyond their name:

* `IdsUnique`: a block about to be created finds its identifier in no object,
  in no table, and not in the Crazyflie. Otherwise the creation would
  replace the channel of a live stream.
* `BlocksKept`: the Crazyflie has the block of every object, started exactly
  if the object is a LogStream. This needs the clean-up to look at the weak
  references at the right moment, and late answers to be told from new ones.
* `CacheCoherent`, `WatchersAgree`: in a quiet state, and stated so; in
  between the cache is behind, inevitably. They are stated, like `SetHonest`,
  for histories without dropped calls: a set that is dropped half way changes
  the Crazyflie and not the cache.
* `StateCurrent`, `LastAgrees`: stated for the parameters whose own queries
  were not dropped, whatever else was; `DefaultsRight` for all.
* `LendingKept`: a backend goes from home to one task, and from that task home or
  nowhere; it is `Spec` of another module, so every step of Memory is one of its
  steps or changes neither variable. That what is lost stays lost is part of the
  promise as the code keeps it (memory/mod.rs:229), not one a document makes.
* `ReadAgrees`, `WritePrefix`: stated for histories without dropped calls.
* `AnswersLag`: with dropped queries what can be promised is not the right answer
  but by how much it is wrong; with none it is the right one.
* `Gapless`: "no gap", not "no repetition": the text that comes in while a
  stream is opened may be both in the history and in the broadcast.
* `ReadAllRight`: the parts of a record were there during the call, not all at
  one moment; likewise the lists of `AnchorsRight`.

**Fairness.** Weak fairness of each step of a call, of each background task
and of the answers of the Crazyflie: the executor polls what can make
progress, and CRTP over the link is reliable while it lasts. Nothing obliges
the program to call, drop or cancel anything, nor the link to fail. Connection
does not assume that the Crazyflie answers. That a call gets a lock in the end
follows from the others making finitely many calls, not from fair locks.
LinkService, Platform, Console and Localization: steps of each call, of each
background task and, in Platform and Toc, of the Crazyflie as long as the link
is up; LinkService and `persist_lighthouse_data` assume no answer, for they have
a timeout.
In Param and Storage the loss of the uplink is followed by that of the downlink, since the
same flag or closed link ends both tasks (Connection). No run assumes strong
fairness.

## 4. Proofs

Every theorem below is checked by tlapm to the last leaf and holds for any value
of the constants: any number of tasks, parameters, memories, identifiers, calls,
dropped calls. All safety invariants and both refinements of the runs are among
them, but the two listed at the end of the section. An invariant of a run is
hardly ever inductive by itself; what it needs is said with it. Each strengthening
was first an invariant of a TLC run.

**ConnectionProofs**, for any number of clients, closers and requests:

* `TypeCorrect`: `Spec => []TypeOK`.
* `Disconnected`: `Spec => []FullyDisconnected` if no `disconnect()` is
  dropped (`MaxCancels = 0`; with one it is false, section 5). Inductive
  invariant `HandleInv`: a handle that is gone from its mutex is with a caller
  that awaits the task with the mutex locked, or its task is over; hence who
  finds the mutex free and empty may go on. FullyDisconnected alone is not
  inductive: it knows nothing of the callers between the two mutexes.
* `SessionImplemented`: `Spec => SessionKept` under the same assumption.
  `QueueInv` says that what was accepted and not yet sent is the packet in
  flight followed by the queue, so a send is a HandOver step of Session;
  `HandleInv` says that nothing moves after a return.

**LogProofs**, with dropped futures and a lost connection:

* `TypeCorrect`: `Spec => []TypeOK`; needs `OwnerInv`: a call past `takeId` has a block.
* `IdentifiersUnique`: `Spec => []IdsUnique`. The inductive invariant `IdInv`
  says that every identifier named anywhere (by an object, a table, a channel,
  the list of a clean-up, a command on its way, the Crazyflie) is below
  `next_block_id`, and the one of a task at `lockCreate` is named by its task
  alone. Commands on their way and the copies of the table must be among
  these: a late `create` makes a block in the Crazyflie long after its task
  has given up.
* `BlocksStay`: `Spec => []BlocksKept`. What can disturb a block is a command
  that is still on its way, so the invariant is about all of them. `EntryInv`
  sorts commands and answers into fresh ones, about the life of a block some
  task has, and the late ones of dropped calls, about blocks nobody has; a fresh
  one is what the holder of the lock of the control channel waits for, and there
  is at most one. `BlockInv` ties each task to the block as it will be when
  that one has been carried out.
* `NothingLeaks`: `Spec => []NoLeak`, `DecodersRight`: `Spec => []VariablesAgree`.
  Both are about histories without a dropped call, as the properties themselves
  are; there every command is fresh, and `CountInv` follows the number of
  variables and the deletions of the clean-up through the queues.

**ParamProofs**, with dropped calls, malformed updates and a lost connection:

* `TypeCorrect`: `Spec => []TypeOK`, with who holds which lock (`LockInv`) and
  which parameter may be where (`PlaceInv`).
* `SetsHonest`: `Spec => []SetHonest`, if the error code of a refusal is not a value
  of the parameter. It is one for 8-bit parameters (section 5), and then the
  property is false. `TrafficInv` says that each kind of request has at most
  one packet under way, that of the holder of its lock; `EchoInv` says what its
  echo tells.
* `CacheAgrees`: `Spec => []CacheCoherent`, if moreover no parameter is changed
  both by the program and by the Crazyflie (`Apart`; with one it is false,
  param_stale). In between cache and Crazyflie do not agree: `CacheInv`
  (`Coherent`) says what is still to come that will make them.
* `WatchersTold`: `Spec => []WatchersAgree`, with `WatchInv`: what a set or the
  misc loop is about to tell is what the cache holds. That a set keeps
  `write_downlink` until it has told is what makes it so.

**StorageProofs**, with refusals, malformed updates, dropped calls and a lost link:

* `TypeCorrect`: `Spec => []TypeOK`; `DefaultsNeverWrong`: `Spec => []DefaultsRight`.
  `WireInv` says that every answer in any queue is one to a request that was
  made, with the parameter it was made for, which is enough for the defaults,
  whoever takes the answer.
* `AnswersOwn`: `Spec => []OwnAnswers`. `OwnInv`: of all packets under way that no
  dropped call asked for there is at most one, and it is for the holder of
  `misc_downlink`.
* `StatesCurrent`: `Spec => []StateCurrent`; `LastWordRight`:
  `Spec => []LastAgrees`. `HoldInv`: what such an answer says is true until it is
  taken. It is needed on every packet of the two queues, since the misc loop
  passes them on; `LastInv` does the same for what the program believes, which is
  behind while an answer is on its way.

**MemoryProofs**, with failed openings, dropped objects and calls and a lost
connection:

* `TypeCorrect`: `Spec => []TypeOK`: the address of a transfer does not leave its
  range, whatever late answer it takes.
* `OneOwnerAlways`: `Spec => []OneOwner`. OneOwner counts owners; `OwnInv` names
  them: a backend at home is held by nobody, and two tasks that hold one, in an
  object or in an opening, are the same task.
* `LendingImplemented`: `Spec => LendingKept`. Opening is Lend, or Lose for a memory
  of the wrong type; closing is GiveBack; a drop, and any of the ends of an opening
  that makes no object (refused, not valid, disconnected, dropped half way) is
  Lose. The last needs `Openers`: who opens a memory has no object, or the end of
  the opening would leave the backend in it.
* `ReadsRight`: `Spec => []ReadAgrees`; `WritesRight`: `Spec => []WritePrefix`, if
  the program makes one call at a time on an object (`MaxShared <= 1`, which is
  how the run has it). `AloneInv` has that a memory is used by one call; `LineInv`
  that it has one request or answer under way, with the address and the length
  its call expects.

**SubsystemProofs**, about Toc, for any ports, firmwares, tables and number of
connections, and about the instances of Console and Commands in Parts, with the
`ConstantsOK` of each for a hypothesis:

* `TypeCorrect`: `Spec => []TypeOK`. Types alone are not inductive: a table from
  the cache is a map only because the cache is sound, so both are proved at once.
* `TablesCorrect`: `Spec => []TablesRight`. `FetchInv` says that the map is the
  first `index` items of the table of the firmware that runs; `RequestInv` and
  `AnswerInv` that a port has one request or answer under way, the one it waits
  for. That is what makes it harmless that the answer to an item is told by its
  command alone (crtp_utils.rs:152): with a second answer under way, or one of an
  earlier connection, it would not be.
* `StreamsAreWhole`: `Cons!Spec => []StreamsWhole`. `ConsText` has the lines and the
  buffer as the text so far, with the packet the task is at in or out;
  `ConsCasts` has what was broadcast as the packets, and the lines, in order;
  `ConsReaders` that what a stream was given goes on where its history or the
  channel was, or that the channel has overflowed. The text is the concatenation
  of any number of packets (`FlattenSeq`), so one packet more is an induction. The
  induction theorems of the library take an operator, which cannot be
  instantiated here; `SetInduction` says the same of sets of numbers, from the
  well-foundedness of Nat, and gives both that the recursive function is there
  and that it is what it should be (`FlattensExists`, `FlattenIs`).
* `CommandsAreRight`: `Comm!Spec => []CommandsRight`, for all numbers that fit in a
  float, all percentages, lengths and options. `CommInv`: each packet is that
  of its function with the meaning of its arguments, defaults filled in
  (`CommSends` and the lemmas before it, one for each function). `CommTold`: a
  payload tells the meaning, which is that little-endian bytes tell the number and
  that pieces of known length come apart; `CommMade`: the same meaning makes the
  same payload; `CommKey`: port, channel and first byte tell the function.
  `CommMonotone` is the arithmetic of the thrust, clipped before it is scaled.

**ServiceProofs**, about the instances of Parts. Their constants have no ASSUME
of their own: the hypothesis of each theorem is the `ConstantsOK` of its module,
which MCSubsystems assumes and TLC evaluates (bounds are natural numbers,
capacities are not zero, a kind of record has no more than 16 pages).

* `AnswersAreKept`: `Plat!Spec => []AnswersKept`. With queries that were given up
  an answer belongs to an earlier query; how much earlier takes an account
  of all that is under way. `OrderOK`: requests and answers in the queues are
  consecutive and end with the last one sent; `KindOK`: of these only the last is
  for the query that waits. `HandOutInv` is the app channel.
* `TestsAreApart`: `Link!Spec => []TestsApart`. Until a test is abandoned, what is
  under way in a queue is for the test that has its mutex, and no more than it
  still expects (`Flight`), and in a queue that is free there is nothing
  (`Quiet`).
* `LighthouseIsTold`: `Loca!Spec => []LighthouseTold`. An angle that came in is with
  the stream, in the channel, or in the queue of the task: `AnglesSent`,
  `AnglesComing` and `AnglesGot` cut the sequence of angles in those three, in
  order. The part about calls needs that a request has the number of its call
  (`LocaNumbers`) and that the list of a call that goes on is a valid one
  (`LocaLists`), for a shift by 16 would be one by 0.
* `PagesAreRight`: `Page!Spec => []PagesRight`. The Crazyflie changes pages while a
  call goes through them. `PageHad`: what is remembered of the call has what is
  there now; `PageReads`, `PageWrites`, `PageAnchors` say of the pages before the
  next one what the property says of all. The addresses of two kinds of record
  do not meet (`PagePlace`), which is where the 16 pages are needed.
* `DecksAreRight`: `Decks!Spec => []DecksRight`, if moreover the memories of two
  decks do not overlap (`Apart`), which is up to the firmware. A section keeps the
  addresses of the slot it was read from. `Found`: the k-th section is that of
  the k-th deck that is present, with an empty slot before it or not;
  `DeckHolds`: a running call has a section whose addresses reach its deck,
  and has seen every state of the bootloader since it began.

The other assumptions are the named ASSUMEs of the modules, which every run
evaluates: bounds are natural numbers, place holders (`NoOne`, `NoTask`, `NoId`,
...) are not values. Nothing else is taken on trust.

Model-checked only:

* all liveness: fairness and ENABLED are out of the prover's reach;
* `TypesOK`, a conjunction over eleven modules (those of the modules above that
  the proofs need are in their invariants);
* `CodecsRight`: Values, Contents and Trajectory compute with recursive operators.
  They are checked over the inputs the run lists, and are no statement about all
  doubles or all bytes;
* the violations of section 5, which are counterexamples.

## 5. Divergences

Each of these five has a run that shows it, and a finding in PROJECT.json
quotes the sentence it contradicts.

* **connection_cancelled** - a `disconnect()` dropped half way takes a
  JoinHandle with it; the next one returns while that task still runs.
* **log_deadlock** - `create_block` and the clean-up of another
  `create_block` take two locks in opposite orders.
* **log_survive** - a packet for a dropped stream ends the data dispatcher;
  all streams report a disconnection.
* **param_stale** - the answer to a set and the update of a change come by two
  queues; the older value may stay in the cache.

* **persist_honest** - a confirmation is taken from a clone of a receiver that
  nobody reads: every `persist_lighthouse_data` after the first returns at once,
  with the result of an earlier one.

Seen while modelling, without a run of their own:

* param.rs:356: a confirmed set panics when the misc loop has just cleared the
  map, though a comment says the unwrap cannot fail.
* param.rs:406: a get after the link is lost reports "not found", where
  crazyflie.rs:257 promises `Error::Disconnected`.
* param.rs:489: a stream opened after the misc loop has ended never ends.
* param.rs:222: a comment says the unwrap cannot fail, but the index before it
  panics on an update shorter than three bytes; the loop is over and neither the
  cache nor the watchers are cleared, so that open streams never end.
* param.rs:354: for an 8-bit parameter the error code of a refusal can be
  taken for the echo of the value.
* log.rs:177: 255 blocks rather than the 256 of log.rs:227.
* log.rs:261: a block created after the data dispatcher has ended gets a
  channel nobody closes.
* log.rs:522: samples from before a stop are decoded with a longer list of
  variables.
* param.rs:560: a query takes the late answer to a dropped query of the same
  command and parameter, so a store may be Ok that was refused.
* memory_types.rs:62: the answer to a dropped read is taken for that to a new
  read at the same address; if it is longer than the new buffer, the copy
  panics.
* memory/mod.rs:229: a failed or dropped opening, or an object that is
  dropped without being closed, loses the backend for good; opening again
  then says "not found".
* localization.rs:428: after more confirmations than the channel holds (10) the
  oldest is gone and the clone of the receiver says so, which the code reports
  as `Disconnected`; `NoFalseDisconnect` is stated up to there.
* log.rs:248, log.rs:433: a `create_block` or `add_variable` dropped after its
  answer has come leaves a block nobody knows, or a variable only the Crazyflie
  knows; `NoLeak` and `VariablesAgree` make that exception.
* console.rs:131: "the full history since connection", and then Strings "as they
  come": nothing is missing, but at the seam a text may come twice.
* console.rs:105: of a packet with two ends of a line one line is given, and the
  other stays in the buffer until the next packet.
* console.rs:95: a UTF-8 character cut between two packets becomes two
  replacement characters.
* loco2.rs:141: a "complete snapshot" is of several moments. The same goes for a
  record of lighthouse.rs, which takes several requests.
* deckmem.rs: addresses and lengths are not compared with the size of a section,
  which the library does not know; an access past the end reaches the next deck.
* trajectory.rs:256: a duration saturates at 65,535 ms; a coordinate that is no
  number passes the range check and packs as 0.
* high_level_commander.rs:305: a spiral checks its ranges with comparisons that a
  number that is none passes.
* value.rs:203: the documented truncation is that of a number that is not
  negative; a negative one becomes 0 in an unsigned type.

## 6. Not modelled

* `connect_from_uri` and the power commands: they open a link of their own, for
  one packet and a sleep, and change no state of the object.
* Wording of errors, formats of names and types, progress callbacks, logging.
* `update_memories`, which runs once before the Memory object exists, and the two
  dispatchers by memory and by channel but for their queues and their end:
  malformed channels and unknown memories end them.
* `start`, `stop` and `add_variable` on a block that outlives the Crazyflie object
  (log.rs:364, 404, 408, 464: the weak reference is gone, `Disconnected`), and the
  wait for `data_channels` in `create_block` (log.rs:261), which is a step with the
  answer before it.
* Which error a failed deck access returns: a refusal, a lost connection and a
  dropped future are one outcome in Deck. Memory tells them apart.
* The addresses of the lists of identifiers and of active anchors (loco2.rs:16-17),
  and the two lists of `persist_lighthouse_data`, which are one list in
  Localization.
* A short answer with status 0 to a read, after which memory_types.rs:85 goes on
  with zeros: the Crazyflie of Memory answers in full or refuses.
* CRC-32 collisions, and a TocCache that returns what was not stored.
* Numbers in an angle packet (float16 differences): the length is modelled.
* Examples and demos, which use the library and are no part of it, and
  `crazyflie_link`, which is not in this repository.

What the plan has left: abstract specifications for Log (a set of blocks with
owners), Param (a register for each parameter) and the contents of a memory (an
array), which the invariants of section 4 already nearly state, with the
refinement of each.
