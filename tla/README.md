# handy in TLA+

handy is a small C++11 network library: an event loop over epoll, timers, TCP
connections with buffered output and reconnection, servers, a thread pool, and
on top of these HTTP, UDP and codecs. This directory holds TLA+ models of its
core, the TLC configurations that check them on small instances, and TLAPS
proofs of the properties that matter most, for every value of the constants.
`PROJECT.json` maps every definition to the lines it models and lists the runs,
the mutants that show each property can fail, the hazards and the theorems.

Run a model with `tlc -config MCSafeQueue.cfg MCSafeQueue`, a proof with
`tlapm ThreadPoolProofs.tla`.

## 1. The system

| Part | State | Operations | Talks to |
|---|---|---|---|
| `SafeQueue<T>` (threads.h) | `items_`, `capacity_`, `exit_` (atomic), mutex, condition variable `ready_` | `push`, `pop_wait` (infinite, timed, 0), `exit`, `size` | any thread |
| `ThreadPool` (threads.cc) | a `SafeQueue` of tasks, `threads_` | `start`, `addTask`, `exit`, `join`, destructor | its workers |
| `EventBase` / `EventsImp` (event_base.cc) | `exit_`, `tasks_` (a `SafeQueue`), the wakeup pipe, timers, idle lists, `reconnectConns_` | `loop`, `loop_once`, `safeCall`, `wakeup`, `exit`, destructor | loop thread and callers; poller |
| `PollerEpoll`, `Channel` (poller.cc, event_base.cc) | `liveChannels_`, `activeEvs_`, `lastActive_`, `exited_`; a channel's fd and event mask | `addChannel`, `removeChannel`, `updateChannel`, `loop_once`; `close`, `enableRead/Write` | kernel; channel handlers |
| Timers (event_base.cc) | `timers_`, `timerReps_`, `timerSeq_`, `nextTimeout_` | `runAt`/`runAfter`, `cancel`, `handleTimeouts`, `repeatableTimeout`, `refreshNearest` | user callbacks |
| Idle lists (event_base.cc) | `idleConns_`, `idleEnabled_` | `registerIdle`, `updateIdle`, `unregisterIdle`, `callIdles` | `TcpConn` |
| `TcpConn` (conn.cc) | `state_`, `channel_`, `input_`, `output_`, callbacks, `timeoutId_`, `reconnectInterval_` | `connect`, `attach`, `handleHandshake/Read/Write`, `send` (two forms), `sendMsg`, `close`, `closeNow`, `cleanup`, `reconnect` | its loop, the kernel, user callbacks |
| `TcpServer`, `MultiBase`, `HSHA` (conn.cc, event_base.cc) | listening channel, loops, round-robin counter; a pool | `bind`, `handleAccept`, `allocBase`, `loop`, `exit`; `onMsg` of HSHA | other loops through `safeCall` |
| `Buffer` (net.h, net.cc) | `b_`, `e_`, `cap_`, `exp_` | `append`, `consume`, `makeRoom`, `absorb` | `TcpConn` |
| Codecs, HTTP, UDP | decode position and state; deferred channel deletion | `tryDecode`, `encode`, `onMsg`, `close` | `TcpConn`, loops |
| Daemon, signals, logger, conf | pid file; `lastRotate_`, `realRotate_`, fd | start, stop, restart; rotation | processes, threads |

How they interact: user threads put closures into a loop with `safeCall` (a push
plus a byte on the pipe); the loop thread runs every callback; servers hand
accepted sockets to other loops with `safeCall`; HSHA moves a message to the
pool and the answer back with `safeCall`.

What is hard:

* `exit_` of the queue is stored outside the mutex, and one `notify_one` per push
  has to be enough with timeouts and late-comers;
* push and wakeup byte are two steps, the pipe is bounded and its write end
  blocks; `exit()` of a loop is three steps;
* handlers close channels that the same `epoll_wait` reported, their own included,
  whose second handler is then still called; the destructor closes channels in
  address order and runs user code while it does;
* a repeating timer is in two maps with a raw pointer between them and may be
  cancelled inside its own callback; a wait is an `int` made from an `int64_t`;
* `TcpConn` is re-entrant: callbacks run inside `handleRead`, `handleWrite` and
  `cleanup`, may send and close, and a failing send runs `cleanup` again;
* messages are cut anywhere by partial reads and writes, and decoders resume in
  the middle of what they have scanned;
* an accepted socket, a message and its answer cross task queues and threads
  while connections close, pools exit and counters wrap;
* the idle walk runs callbacks that change the lists it is about;
* commands, daemons and copies that a failed `execvp` leaves share a pid file, and
  die between any two system calls.

`PROJECT.json` lists these hazards with their lines, the properties that catch
them, and why some have none.

## 2. Modules and how they correspond to the code

**SafeQueue** - threads.h. `items`, `exit_`, `mutex` are the fields; `qpc` is
where each thread is in `pop_wait` or `exit`. `push` is one step (it holds the
mutex and reads `exit_` once). `pop_wait` is `PopEnter`, `WaitReady` (the
predicate), `Block` (enter the wait set, release the mutex), `SpuriousWake`,
`TimedOut`, `Reacquire`, `Take`; `exit` is `ExitStore` without the mutex, then
`ExitNotify` with it. `accepted`, `refused`, `taken` are history. Values are
distinct so that loss and duplication can be told apart.

**TaskService** - the abstract promise of a pool: tasks begin in the order in
which they were accepted, each on one free worker; after `exit` a worker begins
at most one more.

**ThreadPool** - threads.cc, on top of SafeQueue's own actions. A worker tests
`exited()` without the lock, pops, runs the task; the owner starts, joins and
destroys, in this order: a pool destroyed without `join`, whose `std::thread`s
would end the program, is not in the model. A running task may call `addTask` and `exit`. Substituting
`queue <- items, running <- cur, closed <- exit_` gives `ImplementsService`.

**EventLoop** - event_base.cc and poller.cc: the two steps of `safeCall`, the
three of `exit`, the loop (`LoopTest`, `Poll`, `DispatchEnd`, `HandleWake`,
`Drain`, `HandleChannel`, `HandleRead`, `TimerFires`, `TimeoutsEnd`), user code on the loop
thread (the same calls, `CloseChannel`, `OpenChannel`) and the destructor
(`BeginDestroy`, `CloseFirst`, `DestroyEnd`). `tasks_` is a queue with atomic
operations: SafeQueue has their inside. `active` is the set of entries of
`activeEvs_` still to be dispatched, in any order. An entry has one handler to
call or two: between `handleWrite` and `handleRead` any user code runs, `owed` is
the channel whose read handler is next, and it is called through the saved pointer
without a look at `exited_` or at the entry (poller.cc:107). `closed` remembers
what was closed under the entry in hand. That this second call can meet a closed
channel is a fact about the code (the repository's crash note describes it) and the
stated exception of `ActiveAreLive`; what the read handler then does is in TcpConn,
where one event may be `hw` followed by `hr`. Channel objects are not freed.

**Timers** - event_base.cc. `timers_` maps `<<at, seq>>` to the handle whose
callback it fires, `timerReps_` maps `<<-at, seq>>` to the repeating timer's
state. `RunAt`, `Cancel`, `FireOnce`, `FireRepeat`, `PassEnd`, `LoopEnd`,
`PollReturn`. `ToInt` is the conversion of `int64_t` to `int`, with `HalfInt` for
2^31. `Cancel` of a missing repeating handle goes to `"undefined"`.

**TcpConn** - conn.cc, `reconnect` and the end of `loop` in event_base.cc. `stack`
is an explicit call stack: each frame is what is left of an active call (`hr`
handleRead, `hw`/`hw2` handleWrite before and after `writablecb_`, `cleanup`,
`cl2`, `cl3`, `rc`, and the three user callbacks), so that every re-entrance is
reached. The socket is a state (connecting, up, eof, refused, reset), a flag for
unread data and one for a full send buffer. A send carries one numbered unit;
`wire` is what the kernel took. Which operations user code performs in which
callback is a constant of the configuration.

**Buffer** - net.h and net.cc. A buffer is `b`, `e`, `exp` and `mem`, the array of
`cap_` cells, so that what stands outside `b..e` is there to be wrong about.
`MakeRoom` chooses between room at the end, `MoveHead` and `Expand` as the code
does; `Absorb` returns both buffers, swapped or appended.

**Codecs** - codec.cc and the decoding half of http.cc, as operators from input to
result. A byte is a token; a length, a magic number, a request line and a header
are one token each. `HttpDecode` keeps `scanned_`, `contentLen_` and `complete_`
between calls. Header keys are lower-cased as the code does, which is why
"Expect" is never found.

**MsgConn** - both ends of one connection, over Buffer and Codecs: `send`,
`sendMsg`, `sendOutput`, `handleRead`, `handleWrite`, the loop of `onMsg`,
`HttpConnPtr::handleRead`, HttpServer's dispatch, the three ends of `sendFile` (a
file, a missing one, one that cannot be read), the close of a connection with
input left, a reset. `handleRead` is stepped through: each `HandleRead` is one
`read()`, into the room `makeRoom()` leaves, of what has arrived or of the
beginning of it, and `ReadAgain` is the EAGAIN after which `readcb_` runs; the
connection is `"reading"` in between. `loops` counts the active calls of `readcb_`: a failing send
inside a callback runs `cleanup`, which calls `readcb_` again. A *mode* says which
codec, which messages, whether the server answers. `handed` and `taken` are
history: what user code has given to each end, and how much of its input each end
has consumed.

**Servers** - TcpServer, MultiBase, HSHA, UdpServer, UdpConn and HSHAU. Of a loop
its tasks and exit flag remain, of the pool what TaskService promises: the parts
below are the modules above. `Accept`, `AcceptFails` (the leaked socket),
`Receive`, `Begin`, `Finish`, `RunTask`, `Close`, the exits, and the UDP client
with its deferred deletion. `NextId` is the `int` counter, converted to `size_t`
before the remainder is taken, with both widths as constants. Datagrams are lost
(`Lose`) and reordered (`Reorder`).

**IdleConns** - `registerIdle`, `updateIdle`, `unregisterIdle`, `callIdles` with
their callers `addIdleCB`, `handleRead`, `cleanup`. `lists` is `idleConns_`; `walk`
is the walk that is under way: its `now`, the lists still to do and what is left
of the copy. A callback may do nothing, `close()` its connection, or `closeNow()`
any connection. A connection that reconnects keeps its registrations.

**Daemon** - daemon.cc. One step per system call on the pid file or on a process.
`cmd` is the command that runs, `proc` the stage of every process; a process may
die at any stage, exit (then its exit hook unlinks the file), or leave its place to
a child with `changeTo`. The child waits for its parent's end and executes the
program, or, if `execvp` fails, goes on in the daemon's code as a *copy* of it, with
its handlers and its exit hook (`Copy`). A pid that is only partly written is no pid
or that of another process; `Strangers` are processes that run something else from
the beginning. A process that holds the file while it is unlinked writes to a file
without a name (`lost`). A command is issued as soon as the one before has returned,
whether or not the process it forked has written the file. `hasty` and `hijacked`
are history: the two things the code has no guard against.

Each `MC...` module instantiates its module for TLC (a symmetry set, the modes of
MsgConn, the deployments of Servers); the proofs are in `ThreadPoolProofs`
(the queue's too), `EventLoopProofs`, `TimersProofs`, `TcpConnProofs`,
`MsgConnProofs` (Buffer's and the decoders' lemmas too), `ServersProofs`,
`IdleConnsProofs` and `DaemonProofs`. An operator that stands before another
one and has its name with a suffix or with `Mut` in front (`TakeNewest` before
`Take`, `MutAccept` before `Accept`) is a plausible wrong version of it, used only
to show that the properties notice.

## 3. Runs

| Run | States | What it shows |
|---|---|---|
| `safe_queue` | 12 594 | Three threads, three values, capacity 2, all kinds of `pop_wait`, timeouts, spurious wake-ups, several exits: values come out once and in order, nobody sleeps on a queue with unattended values, nobody sleeps after `exit`. Deadlock is checked too. |
| `thread_pool` | 66 590 | Two workers, the owner and a client: refinement of TaskService, `join` really means finished, every worker ends after `exit`, every accepted task is begun unless the pool exits. |
| `event_loop` | 120 664 | Two callers, one channel, two tasks and a pipe of 1 byte: no lost wake-up, no entry of a closed channel comes to its turn (the second handler of the entry in hand is the exception); queued tasks run, `exit` ends the loop, blocked callers return. The loop thread blocked on its own full pipe (`SelfBlocked`) is the one exception, and a reachable one. |
| `timers` | 255 717 | Two `runAt` calls with near and far moments (2 and 9 overflow the scaled `int`), repeating and one-shot: maps consistent, `cancel` final, nothing early, no drift, no oversleeping, and due timers fire. |
| `timers_cancel` | violation | See findings. |
| `tcp_conn` | 165 024 | One connection with and without reconnection, two attempts, three sends: no crash, one notification per end, output watched, flushed and in order, the handshake ends, `close()` ends the connection, `exit()` leaves nothing. |
| `tcp_conn_writable` | violation | See findings. |
| `msg_conn` | 839 354 | Lists of up to four messages in each codec, HTTP and raw, answered or not, in pieces of every size, read in one event or in several: no byte lost or moved, every message delivered once and only when whole, and everything answered when nothing is left to happen. |
| `msg_conn_reset` | violation | See findings. |
| `servers` | 228 844 | Three loops with a counter that wraps and comes back to 0, two loops with messages, HSHA with one and two pool threads, HSHAU: connections dealt in turn to one loop each, answers once and to whom they belong, in order where one thread computes them, and every message read is answered unless its connection closes or the server exits. |
| `idle` | 1 930 000 | Two connections, idle times 1 and 2, one that reconnects, clock to 5: a walk calls exactly the connections that have been idle. |
| `daemon` | 3 179 343 | Three processes to fork, a stranger, two signals per stop, commands back to back: the file names the daemon that serves, and a successful stop means that the process it found is dead and no daemon is left, except after a start that looked too early or a copy's deletion of a daemon's file. |

### Bounds

* Queue: three threads are a sleeper, a late-comer that steals and a pusher or
  exiter; three values overfill capacity 2. Capacity 0 is covered by the proofs.
* Pool: two workers and two callers give a worker at each end of the loop while
  `exit` is between its two steps.
* Loop: `PipeCap = 1` makes every second writer block, the hardest case for
  liveness; both tasks fit in the queue, so that one waits behind the other (a
  full queue, whose tasks are dropped, is left to the proofs); the wakeup channel and one other are
  enough for a handler that closes what the same `epoll_wait` reported. Larger
  instances add nothing to the safety properties: they are proved for all sizes.
* Timers: with `HalfInt = 2` a delay of 2 is truncated to a wrong sign and one of 9
  to a wrong size, and the clock itself outruns the `int`; `MaxNow = 3` allows a
  repeating timer to fall behind and catch up. One pass of `handleTimeouts` takes
  at most `HalfInt` (24 days in the code): after a longer one the difference
  would wrap and the loop oversleep.
  `MaxCalls = 2` is a pair of interacting timers; `RepsConsistent` and
  `OnSchedule` relate a timer to its own entries.
* TcpConn: three sends let a full send buffer, a unit behind it and one through
  another way of sending coincide; two attempts are a connection and its
  reconnection. `MaxStack = 6` is deeper than the re-entrance reached under
  the discipline of `tcp_conn`.
* MsgConn: `Suggest = 2` and `WireCap = 4` make every message of the lists larger
  than a first buffer or than the socket, so that buffers grow, move, swap and
  are absorbed; the lists hold empty, longest and too long messages (of those in
  brackets two empty ones come last, so that each end may hold one), a blank line
  inside a body, a header that does not parse. `MaxLoops = 2` (3 in the violation)
  is a read callback inside another.
* Servers: with `HalfInt = 2` and `SizeMod = 16` four connections wrap the counter of
  `allocBase` and bring it back to 0, over three loops: a difference of two between
  loops, with `jumps = 1`, is reached. Three messages and one worker, two and two,
  show overtaking and its absence.
* Idle: five seconds are two periods of the longer idle time and one more.
* Daemon: three processes are a predecessor, a daemon and a successor, or a daemon,
  its copy and a successor; the stranger is what a half-written pid may name.
  `Tries = 1` is a signal that is sent again and one that is not.

`CHECK_DEADLOCK FALSE` stands where the system may stop: after destruction, with
all tasks or messages submitted, with all processes dead, or at the end of the
bounded clock.

`tcp_conn` keeps user code to a discipline: sends happen from tasks and from
`statecb_` on Connected, `readcb_` consumes and closes, `writablecb_` does
nothing. Outside it the properties fail in the code: a send in `writablecb_` is
the run `tcp_conn_writable`; a send in `readcb_` that fails, on a connection that
reconnects, lets the outer `cleanup` call `reconnect()` with `channel_` null
(event_base.cc:439). The latter is recorded as a hazard.

The properties of `daemon` have two exceptions, which the code does nothing about
and which the run reaches (`Undisturbed`): a start that looks at the file before the
process of an earlier start has written its pid (`hasty`: the parent exits before,
daemon.cc:91, and `writePidFile` gives its lock up when it returns), so that two
daemons are left; and a copy that deletes the file of a daemon in its exit hook
(`hijacked`: daemon.cc:195 returns into the daemon's code with the hook of line 108).
In every other state they hold, with copies that serve, exit and crash as well. A
copy writes no file: unless a half-written pid happens to be its number no command
finds it, and after a stop that returned 0 it may be running. That the process a stop found is dead has no exception.

`daemon` leaves out commands that overlap, and process ids that are used again. The
code enforces neither.

`msg_conn` sends no list in which the connection's response is used for a file and
for an error: `body2` would dangle, and the status would be the other one's (hazard
at http.cc:174).

### Fairness

* Pool: strong fairness of each worker's progress: a thread that asks for a
  `std::mutex` again and again gets it. A task terminates. Nobody is obliged to
  add a task, to exit, or to wake spuriously.
* Loop: weak fairness of the loop thread (`epoll_wait` returns after at most ten
  seconds), strong fairness of user code returning and of a blocked write (other
  writers may fill the pipe again in between).
* Timers: user code and `epoll_wait` return. Time passes up to `MaxNow`, with strong
  fairness: a wait truncated to 0 makes the loop spin, and the clock runs on.
* Connection: code runs on and callbacks return; the loop serves events, tasks
  and timers although other work comes in between; the peer reads what it is
  sent. Strong fairness of `ReadAgain` rules out a peer that sends for ever
  faster than `handleRead` reads until EAGAIN: nothing in the code bounds that
  (hazard at conn.cc:156).
* Servers: weak fairness of accepting, of reading each client, of each loop's
  tasks and of each pool thread: `epoll` reports what stays ready, the queues
  are first in, first out, and user callbacks return. Nobody is obliged to
  connect, ask, close or exit.
* MsgConn states liveness as an invariant of its final states
  (`NothingStranded`): no step can repeat for ever, so a behaviour that goes on
  while it can reaches one of them.

### Findings

1. `timers_cancel`: `cancel()` of a repeating timer that is gone dereferences
   `timerReps_.end()`, where the documentation says it is ignored.
2. `tcp_conn_writable`: a send in `writablecb_` that meets a reset sets
   `channel_` to NULL under `handleWrite`, which then uses it.
3. `msg_conn_reset`: a message is consumed only after its callback; when the
   answer fails, `cleanup` calls `readcb_` inside the callback and the message is
   delivered again.

Four more facts the models show, kept as hazards because no line of the
repository says otherwise: `~PollerEpoll` closes channels in address order, and
a callback that calls `exit()` or `safeCall()` after the wakeup channel is closed
(10m/10m-svr.cc does) writes to a broken pipe (poller.cc:45); after a
reconnection `output_` holds the old connection's data while write events are off
(conn.cc:239); `execvp` that fails leaves a copy of the daemon that no pid file
names (daemon.cc:195); the read handler of an entry is called after its write
handler has closed the channel (poller.cc:107).

Smaller limits of the code, seen while modelling and outside what the runs
claim: `callIdles` never ends for an idle time of 0 (event_base.cc:220); the
handle of `runAt(0, task, interval)` is taken for a one-shot timer (:276), and
`cancel` inside a repeating callback destroys the function that is running (:268);
`BracketCodec::clone` returns a `LineCodec` (codec.h:33), an empty bracket message
is held until more arrives (codec.cc:34; `Held` in MsgConn), and a lone 0x04 is a
message only if nothing has arrived behind it (codec.cc:8); `makeRoom()` doubles a
buffer that is mostly consumed (net.h:65); the server's response keeps its status
from one request to the next (http.cc:216), and a request line that does not parse
reaches the handler when `cleanup` decodes again (http.cc:102); `handleAccept`
leaks a socket whose addresses it cannot get (conn.cc:464); `hsha->exit()` on a
pool thread joins itself (conn.h:169); a pid file may name a stranger that has got
the number (daemon.cc:73), and the program started by `changeTo` is refused by
`daemonStart` (daemon.cc:79); threads race to rotate the log (logging.cc:74).

## 4. Proofs

Each theorem holds for every value of the constants that satisfies the named
assumption of its module; TLC evaluates all of them.

| Assumption | Says |
|---|---|
| `QueueAssumption` | finitely many threads, a natural capacity, a `None` that is neither thread nor task |
| `PoolAssumption` | workers are threads, there is one, the owner is not one of them |
| `LoopAssumption` | distinct names, positive pipe and buffer sizes |
| `TimersAssumption` | delays are positive, intervals and bounds natural |
| `ConnAssumption` | user operations and states are among those the module knows; at least one attempt, since `createConnection` calls `connect` itself |
| `MsgAssumption` | sizes and bounds are positive; the length in a token is a natural number (`LengthCodec` does not look below zero); messages are sequences of tokens, requests have a uri, headers and a body |
| `ServersAssumption` | every deployment has a loop, a UDP one exactly one loop and a pool; the values of an `int` are fewer than those of a `size_t` |
| `IdleAssumption` | idle times are positive (with 0 `callIdles` never ends) |
| `DaemonAssumption` | process ids are none of the marks "none", "empty", `NoPid`; strangers are processes |

* **SafeQueue** - `QueueSpec => []QueueInv`. The invariants are not inductive
  alone. `ExitReleasesAll` needs the mutex discipline in `TypeOK`: `ExitNotify`
  takes the mutex, so no thread can be between its test and its wait.
  `NoLostWakeup` needs `BlockSawEmpty`: a thread that goes to sleep still holds
  the mutex under which it saw the queue empty. The rest is counting: a push
  adds one value and, if somebody sleeps, one thread on its way; a take removes
  one of each. Theorems `QueueTypeCorrect`, `QueueDelivers`,
  `QueueLosesNoWakeup`, `QueueExitReleases`.
* **ThreadPool** - `PoolUsesQueue` (every step is a queue step or leaves the queue
  alone) transfers the queue's theorems. `PoolInv` adds where a worker may be
  (`WorkerPlaces`), that a worker which took a task after `exit_` does not pop
  again (`LastIsLast`), that what was taken is finished or running
  (`TakenAccounted`) and that joined workers are done. From it
  `PoolDestroyedClean` and `PoolImplementsService`, the refinement of TaskService
  step by step.
* **EventLoop** - `LoopInv` adds `ChannelsConsistent`: only the destructor closes
  the wakeup channel, only registered channels are ready, and nothing waits to be
  dispatched outside the dispatch loop, or owed a second handler outside an entry.
  Theorems `LoopTypeCorrect`, `LoopLosesNoWakeup`, `LoopDispatchesLive`.

* **Timers** - `TimersInv` is the four properties with the types, `ClockInv` (a pass
  compares with a moment that has been, at most an `int` ago) and `EntriesInv`: the
  entry of a repeating timer carries its moment and is nobody's handle, so that no
  `cancel` of a one-shot timer can hit it. The last is what makes `RepsConsistent`
  and `CancelIsFinal` inductive, and it rests on `timerSeq_` being new each time.
  `NearestBounds` is about `refreshNearest`: `FirstEntry` finds the least entry by
  well-founded induction, `ToIntBounds` shows that the conversion never enlarges a
  wait and keeps a small negative one. Theorems `TimersTypeCorrect`,
  `MapsStayConsistent`, `CancelStaysFinal`, `TimersKeepSchedule`,
  `LoopNeverOversleeps`.
* **TcpConn** - the argument is about the call stack: which calls can be active
  below which (`On`, `Lower`), and what each relies on when control returns.
  `ConnTypeCorrect` needs nothing. `WireStaysInOrder` and `FirstOutputStaysArmed`
  need `SendsAfterHandshake` (no send before the connection is up, otherwise the
  handshake switches write events off over a full `output_`): `OutputInv` says that
  what a first connection has in `output_` unwatched waits for a `cleanup` that is
  under way or that the socket's error will bring, and `StreamInv` that wire and
  output together are in the order of the sends.
  `NeverCrashes` and `AlwaysEndsOnce` need `CarefulUser`: `readcb_` and
  `writablecb_` only consume and `close()`, `statecb_` does not `closeNow()`, sends
  happen when Connected. `StackInv` gives the shape of the stack, `LifeInv` the
  channel, the timer and the notifications that go with each shape. The
  condition is the code's: the run `tcp_conn_writable` and the hazard at
  conn.cc:111 show crashes outside it. `tcp_conn` satisfies it.
* **MsgConn** - `StreamStaysIntact`: for messages, buffers, reads and writes of any
  size and every codec, what was handed over at one end is what was consumed at the
  other, followed by what is in `input_`, in flight and in `output_`. Three layers.
  *Buffer*: what each operation does to the content, whatever it does to the array:
  `ConsumeFacts`, `ExpandFacts`, `MoveHeadFacts`, `AppendFacts` (the content, then
  what is appended, whichever branch of `makeRoom` is taken) and `AbsorbFacts` (the
  two contents one behind the other in one buffer, none in the other, swapped or
  appended); `AppendAllFacts` for the pieces of an encoded message, by the
  least number of pieces that would break it. *Decoders*: `DecodeFacts` and
  `HttpDecodeFacts` say that no codec asks for more to be consumed than there is,
  and that HTTP's `scanned_` stays within the input it was computed from.
  *Connection*: `SentOutputFacts` and `SentBufferFacts` split a send into what the
  socket took and what stays, and `SideStep` says that a step that moves tokens
  along the path of one direction and leaves the other alone keeps both.
  `StreamIntact` is not inductive alone. `OutputInOrder` is needed, an `output_`
  without write events is empty: `send(Buffer&)` writes past `output_` when write
  events are off, and would overtake what is there. `ScannedIsThere` is needed
  because HTTP consumes `scanned_` bytes at a later step than the one that counted
  them (`sendRequest`, `sendResponse`), after reads that may have moved the input.
  `NotAhead` bounds `taken`. `BuffersStaySound` states these and the types, offsets
  inside the array among them. After a reset bytes are lost and nothing is claimed.

  On this rest the theorems about messages. `MessageDelivered` and
  `PartNotDelivered` are about one call of `tryDecode`: of an input that begins
  with what `encode` appended, every codec makes exactly that message, whatever
  comes behind it, and nothing of a shorter piece of it. Both hold under what the
  codecs need (`Plain`: no line feed in a line and no 0x04 at its beginning, no
  closing bracket in brackets; for the length codec a body that is not too long),
  and an empty message in brackets is the exception the code has. `StreamAt` sees
  the stream of a list of messages from one of them, by the least number of
  messages that would break it, in the place of an induction over the list.
  `FrameInv` then says for each end: what has been handed over is the stream of the
  messages sent (or answered) so far; what the callback was given is a prefix of
  these messages, and exactly the bytes of that prefix have been consumed
  (`Delivered`); and between two callbacks nothing in the input can be decoded
  (`Settled`). With `StreamIntact` the input and what follows it on the way begin
  with the next message (`NextMessage`), so that the next turn of `onMsg`'s loop
  delivers that one or waits. Theorems `MessagesFramed` (`FramedExactly`),
  `NoneStranded` (`NothingStranded`) and `OnceWithoutReset`: without a reset
  `DeliveredOnce` holds, the property that the run `msg_conn_reset` refutes with
  one. All three are stated where `PlainMode` holds: one of the three codecs, with
  messages it can frame, and not the bracket server's clone, which decodes lines.
* **Servers** - `ServersInv` follows a message: unread (`UnreadInv`: sent, once, not
  read), then in the pool's queue, with a thread, in loop 1's tasks or answered.
  `OnceInv` keeps these places disjoint, `WayInv` says that what is in them was
  read, `OrderInv` that with one thread none of a client's messages is ahead of an
  earlier one, `HandedInv` that an answer is in flight to a UDP client or handed
  over. `UdpInv` is needed because `sendTo` does not look whether the client is
  there: it says that whoever was read from is. Theorem `AnswersStayOnce`, with
  lost and reordered datagrams and any number of loops and threads.
  `DealtInTurn` needs `DealInv`. `BacklogInv`, `WaitingInv` and `OnInv` say that an
  accepted connection is the client of exactly one `accept`, task or loop.
  `BalanceInv` measures how far each loop is from its next turn: `Wait(b)` is the
  number of connections that `id_` gives to others before `b`, and the loads of two
  loops differ by what that distance explains and by one more for each jump of the
  counter. `TurnMoves` is the arithmetic of one `id_++` in an `int` that becomes a
  `size_t` before the `%`; a jump is a wrap at which the two remainders are not
  consecutive (`Jump`), so with a number of loops that divides both ranges there is
  none and the loads never differ by more than one. The bound `1 + jumps` came out
  of the proof: the earlier one, two whatever the number of wraps, held only for the
  small instance. Theorem `DealtAlwaysInTurn`.
* **IdleConns** - `ListsInv`: each list is sorted by `updated_` and has one node per
  registration, with the second the connection was last heard of. `WalkInv`: what
  the walk has marked carries the walk's time and is behind what it still has to
  look at, and whoever is registered has been called or is still in the copy.
  Hence the first node that is not idle says that none behind it is. Theorems
  `IdleAreAlwaysCalled`, `OnlyIdleAreEverCalled`.
* **Daemon** - A daemon here is a process that `daemonStart` forked, not a copy.
  `OneOwner`: one daemon at most is between `fork` and its exit hook; until it has
  the file nobody alive is named there, and the file is its own once written. This
  needs `CommandKnows`: what a command has read from the file tells it who may be
  running, although that process may die meanwhile. Both are claimed while
  `Undisturbed`, and since history only grows, a step into an undisturbed state comes
  from one. `Past` and `CommandSaw` hold always: where copies come from, that the
  file never names a process that has not run, and that a stop which gets as far as
  `unlink` has seen its process die, with the right to signal it. `hasty` is what
  `StartRead` needs to conclude that whoever it does not find is nobody, and
  `hijacked` what `ExitCaller` needs to conclude that the file it deletes is not
  another's. Theorems `FileAlwaysNamesDaemon`, `StopAlwaysMeansGone`.

TLC has checked every inductive invariant on the small instances as well.

Only model-checked: every liveness property (they need fairness and ENABLED,
which the prover does not handle), and a part of two invariants of MsgConn.
`FramedExactly` and `NothingStranded` are proved for the three framing codecs; for
HTTP, and `NothingStranded` for the raw protocol, they are checked in `msg_conn`,
as is `FramedExactly` after a reset of a server that answers nothing, where the
theorem about the stream ends. Of HTTP's decoder `HttpDecodeFacts` says what is
proved of one call.

## 5. Not modelled, and the plan

Not modelled: the kqueue poller (the epoll one is; only one is compiled),
`kMaxEvents`, the logger (formatting and file output),
Conf (a sequential text parser), StatServer, the thin wrappers of files, status,
slices, time and sockets, the protobuf add-on, the examples and the 10m load
test, which are programs that use the library. Undefined behaviour of the plain
`bool exited_` beyond a late read is not modelled. Of HTTP the words of the
request line and the query arguments are one token; of Buffer the copy is left
out; of the idle lists their clearing at the end of `loop()`.

Next, in this order:

1. Framing of HTTP: `scanned_` and `contentLen_` carry a half-decoded message
   from one call to the next, so `Settled` would have to say what they may be.
2. Servers' pool part as a refinement of TaskService.
3. The logger's rotation.
