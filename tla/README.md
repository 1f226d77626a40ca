# network_analyse in TLA+

The repository traces TCP connections of one machine. Two eBPF tracers attach
programs to functions of the kernel's TCP stack, one for clients and one for a
service; an XDP monitor sees packets before the stack does; a small pair of
functions hands a string from one process to another through shared memory. An
epoll server with its client and a proxy are the applications that are
traced. This directory holds a TLA+ model of the parts that run concurrently
with the kernel or with each other, the TLC runs that check it, and proofs of
the properties that matter most.

Contents: [inventory](#inventory), [modules](#modules-and-the-code),
[runs](#runs), [bounds and fairness](#bounds), [proofs](#proofs),
[what is not modelled](#what-is-not-modelled), [plan](#plan).

## Inventory

| Part | Source | State | Operations |
|---|---|---|---|
| client tracer, kernel | `ebpf_for_client/tcp_analyse.bpf.c` | hash map `connect`, two perf event arrays | three fentry programs |
| client tracer, process | `ebpf_for_client/tcp_analyse.c` | skeleton, two perf buffers, `exiting`, `err` | `main`, three callbacks, `sig_int` |
| service tracer | `ebpf_for_service/` | two perf event arrays; the same in user space | four fentry programs, `main`, three callbacks, `sig_int` |
| XDP program | `xdp/xdp_packet_kern.c` | ring buffer `packet_ringbuf` | `xdp_prog` |
| XDP loader | `xdp/xdp_packet_load.c` | ring reader, `exiting`, the device's programs | `main`, `handle_event`, `sig_int` |
| attach and unload | `common/common_user_bpf_xdp.c` | none of its own | `load_bpf_and_xdp_attach`, `do_unload` |
| pinned maps | `common/common_libbpf.c` | files under the bpf file system | one loader function without a caller |
| parsing helpers | `common/parsing_helpers.h`, `rewrite_helpers.h` | none | pure functions |
| shared memory | `shm.c`, `test/readshm.c`, `test/writeshm.c` | a segment and a semaphore with one key | `tcp_connect_shm_read`, `tcp_connect_shm_write` |
| epoll server, client | `service/server.cpp`, `service/client.cpp` | descriptors, one epoll set for each thread, `exiting` | accept loop, worker loop, `sig_int`; connect, write, close |
| proxy | `proxy/proxy.cpp` | two sockets and two buffers for each session | chain of callbacks |
| time helpers | `utils.cpp` | none | arithmetic, a random string |

**How they interact.** A program of a tracer runs when some context (a task or
a softirq) enters the function it is attached to. The programs of one tracer
talk to each other through a map, to their process through rings that the
kernel fills and the process empties, and to nobody else. The process talks to
the kernel by attaching, opening, reading and closing. SIGINT sets a flag that
the loops test. The XDP program decides what happens to a packet, and stays on
the device when the process that attached it is gone. The processes of the
shared memory code meet only in System V objects. The threads of the epoll
server share the descriptor table of their process and no variable; the
sessions of the proxy share one thread.

**What is hard.** The connect time is computed by two programs on two CPUs in
several helper calls with no lock of their own (kernel `tcp_analyse.bpf.c:137`
and `:188`); entries of the map outlive their sockets; maps and rings fill up
and most results are ignored; rings are read while they are written; signals
come anywhere; an exit path may leave a program on the device; a semaphore is
reset and removed under processes that use it, and a wait for it ends by a signal
unseen; a descriptor is closed by one
thread and given out again by another while events for the old number wait;
a session of the proxy exists only as long as some handler points to it.
`PROJECT.json` lists these
hazards, each with its line and with the property that would catch it.

**What makes each part correct.**

- client, kernel: the connect time of an attempt is the time since
  `tcp_v4_connect`, or 0, and never a wrapped number;
- client, process: no event disappears without being counted, SIGINT ends it,
  the `-p` filter and the exit status mean what the text says;
- service tracer: what can be attached is attached, the time stamps of a
  segment are in the order of the receive path;
- XDP: the ring is a queue of whole packets, none is forgotten, the traffic is
  not disturbed, and the program is gone when the loader is;
- shared memory: the reader returns with the whole string, and what stays behind
  under the key is a whole string too;
- epoll server: each connection is read by one worker, whole and in order, it is
  closed when and only when its client has ended it, its descriptor comes back,
  and nothing is written behind the buffer;
- proxy: the answer reaches the client whole and in order, sessions end with
  the origin server's connection, and no session keeps others from being accepted.

## Modules and the code

```
TcpAnalyseBpf <------- TcpAnalyse            TcpAnalyseService    ShmHandoff
     ^                      ^                XdpPacket --> PacketFifo (refines)
TcpAnalyseBpf_proof <- TcpAnalyse_proof      EpollServer --> ByteStream (refines)
                                             Proxy ------> ByteStream (refines)
EpollServer <- EpollServer_proof <- EpollServerStream_proof
TcpAnalyseService_proof, XdpPacket_proof, ShmHandoff_proof, Proxy_proof:
    <module>_proof EXTENDS <module>          MC<module>: instances for TLC
```

Names are those of the source where TLA+ allows it. `PROJECT.json` maps every
definition to its lines.

### TcpAnalyseBpf: the kernel's side of the client tracer

A context in `Ctx` has a `frame`: the traced function it is in, the socket, the
event under construction and the step of the program. A program is several
actions, because other contexts run between them: `handle_tcp_v4_connect` (read
clock and socket), `UpdateConnect` (store the start), `Output`;
`handle_tcp_rcv_state_process`, `LookupConnect`, `DeleteConnect`, `Output`;
`handle_tcp_sendmsg`, `Output`. Then `Body`, the kernel function itself, changes
the state of the socket. `connect` is the map, with room for `MAX_ENTRIES`;
`rings` and `overrun` are the perf rings of each array and CPU, with the record
of lost samples that the kernel writes in front of the next sample that fits.
`attempt` is history: when the current attempt of a socket began and what has
become of it. `Stack` is the rest of TCP, as far as it matters: sockets are
allocated and freed (an address comes back as another socket), attempts time
out, IPv6 sockets connect without `tcp_v4_connect`. `UserSpace` is anything that
a loader may do, in any order; `BpfSpec` is the kernel's side under it.

The kernel takes the socket lock before `tcp_v4_connect` and
`tcp_rcv_state_process` and not before `tcp_sendmsg`; the model has this as
`lock`. It is what the correctness of the programs rests on.

### TcpAnalyse: the client tracer

`TcpAnalyseBpf` with the process. `main` is the program counter of `main()`,
with an action for each call that can fail or that the kernel can see. A poll
is `EpollReady` or `EpollNothing`, then for each ready ring `ReadHead` (the
library reads `data_head` once), a callback for each record up to it, and
`WriteTail`, which gives the space back: until then the kernel sees a ring that
is still full. `handled`, `lostCount` and the sequence numbers of samples are
history. `err` keeps its value where the code does not assign it. SIGINT kills
the process until the handler is installed; the kernel then closes the buffers
and the links.

### TcpAnalyseService: the service tracer

One socket of the traced service, a softirq on each CPU and the service's
thread. A segment enters `tcp_v4_rcv`; if the thread holds the socket it goes to
the `backlog` and is processed by `release_sock` in the thread, else the softirq
goes on through `tcp_v4_do_rcv` and, unless the connection is established,
`tcp_rcv_state_process`. Each entry reads the clock and outputs an event in a
later step. `Autoload` is the set-up code with its brace in the wrong place; the
programs that it loads are `links`, attached in the order of the skeleton.

### XdpPacket and PacketFifo: the XDP monitor

`cpu[c]` is the run of `xdp_prog` on a CPU: parse, `bpf_ringbuf_reserve`, `Fill`,
`bpf_ringbuf_submit`, verdict. A packet is a class of the parser and a number.
`slots` are all records reserved so far, `cons_pos` the reader's position; a
record is busy until it is submitted. The reader is libbpf's
`ringbuf_process_ring`: `Snapshot` the producer position, handle records until
that position or a busy record, start again if there were any. `Loader` is
`main()` with every way out of it. `PacketFifo` is the promise: a bounded queue
with `Put` and `Get`. `RingIsFifo` says that `XdpPacket` implements it, the queue
being the reserved packets that are not yet handled. `MCXdpPacket` adds traffic that
never ends (`EndlessSpec`): when the ring is drained and no program runs, nothing
refers to an old record or packet, and `StartOver` begins their numbers again.

### ShmHandoff: the shared memory hand-off

Any number of readers and writers, each a sequence of system calls: `shmget`,
`semget`, `SetVal`, `shmat`, the copy in two steps, `Post`, `shmdt` for a writer;
`shmget`, `semget`, `SemWait`, `shmat`, `ReadString`, `shmdt`, `RemoveSegment`,
`RemoveSem` for a reader. A removed segment lives while it is attached, and its
key makes a new one. `shmat` of a segment that is gone returns -1, and the
process crashes on it. Processes in `Mortal` may be killed at any step. Readers in
`Stoppable` may be stopped and continued while they sleep in `semop`, which is not
restarted after that: `SemopInterrupted` is the return with `EINTR` that nobody looks at.

### ByteStream, EpollServer, Proxy: the traced applications

`ByteStream` is what both applications promise for a stream of bytes: they come
out in order and once; a stream that was ended and not cut is given up only
when all of it has come out; a live one never, unless the program itself ends.
`ServesStreams` and `RelaysStreams` say that `EpollServer` (from a client to the
server's output) and `Proxy` (from the origin server to the client) implement it.

`EpollServer` has the three actors of the code. `main` is the program counter of
`main()`: set-up, the loop around `accept()` and `epoll_ctl`, the end. `worker[w]`
is a worker: the events of its last `epoll_wait`, the one it is at, and
`bytes_read`; `recvmsg`, `Close` and `PrintMessage` are its steps. `client[c]` runs
`client.cpp`. The kernel's part is `queue` (connections not yet accepted), `fds`
(what is behind a descriptor; `accept()` takes the lowest free number) and
`interest` (the epoll sets; `close()` removes a descriptor from them). An event
carries the connection it was reported for as history: the code has the number
only, and `recvmsg` uses what the number means when it runs. `Deliver` cuts the
stream as the network likes, and `Reset` breaks it. `pthread_create` and
`epoll_ctl` may fail unseen, since the code does not look at their results.

`Proxy` follows the library: `ops` are the asynchronous operations in progress,
`handlers` the completed ones whose handler waits for the thread. Each `...Completes`
action finishes an operation, each `Handle...` action is a lambda of the code, with
`HandleError` for the else branch that all of them share. `self` says whether
the handler holds a pointer to its session; `Start` ends a handler and destroys a
session that nothing holds any more. `resolve()` runs inside a handler: while
`resolving` is set no other step of the process happens, and `End` is the
exception that leaves `run()`. `WriteSome` sends a byte of the buffer as the
buffer is at that moment, so that reusing it too early would be seen.

## Runs

| Run | Module, cfg | Checks | Shows |
|---|---|---|---|
| `client_map` | MCTcpAnalyseBpf | `BpfInv`, `ConnectTimeSound`, `ConnectTimeNeverWraps` | two contexts, two sockets, a map for one entry: connect times are right in every interleaving, with reused addresses, a full map and detached programs; the invariant of the proof holds |
| `client_loop` | MCTcpAnalyse | `TypeOK`, `HolesAreReported`, `EveryEventAccounted`, `SigintTerminates` | from the start, and from a tracer at work with a ring of two records that overruns while it is read: every hole in the output is counted, both buffers are served, and SIGINT ends the process |
| `client_pid` | MCTcpAnalysePid | `TracesThisPidOnly` | violation: `-p` compares the task that was interrupted |
| `service` | MCTcpAnalyseService | `TypeOK`, `LoopTracesAll`, `PathInOrder` | from the start, every outcome of the four probes: `main()` polls only when it traces exactly what the kernel can attach; the misplaced brace costs a failed start, never a silent gap. From a tracer at work, two segments, two softirqs and the thread: time stamps follow the path, also through the backlog |
| `xdp_ring` | MCXdpPacket | `TypeOK`, `RingIsFifo`, `EveryPacketHandled`, `SigintTerminates` | two CPUs, a ring of two records, traffic without end in bursts of up to three packets: the ring implements `PacketFifo`, a record that the reader met busy is handled later, and SIGINT ends the loader from every point of `main()`, unless it stays in `ringbuf_process_ring` for ever |
| `xdp_ctrl_c` | MCXdpPacketCtrlC | `UnloadsOnCtrlC` | violation: ways out that leave the program on the device, one of them with a message of success |
| `xdp_listens` | MCXdpPacketListens | `JustListens` | violation: a full ring drops TCP packets of any port |
| `shm_one_reader` | MCShmHandoff | `TypeOK`, `ReaderGetsMessage`, `LeftIsWhole`, `ReaderReturns` | one reader, three writers, kills anywhere, a wait that a signal may end: no crash of the reader, and no part of a string for one that got its token; without kills it returns although a late writer resets the semaphore; the segment that a late writer leaves behind is whole, and an incomplete one is left only by a kill |
| `shm_two_readers` | MCShmHandoffWait | `WaitsForToken` | violation: the second reader's semaphore is removed under it |
| `epoll_server` | MCEpollServer | `TypeOK`, `TerminatorInBuffer`, `ServesStreams`, `EndedIsClosed`, `QueueDrains`, `SigintTerminates` | two clients, two workers, one or two descriptors, messages that the network cuts: the server implements `ByteStream`, and the terminator stays in the buffer; descriptors come back, and the queue drains also when they had run out; SIGINT ends the process |
| `epoll_events` | MCEpollServerEvents | `EventsAreOwn` | four clients, three descriptors, two of them of one worker: a number is closed and given out again at every possible moment, also while its worker has an event left, and no worker acts on a stale event |
| `proxy` | MCProxy | `TypeOK`, `OneStepAtATime`, `RelaysStreams`, `WaitingIsAccepted`, `OriginEndEndsSession` | two sessions on one thread: a session has one operation at a time and none after its end; the proxy implements `ByteStream`; a blocked `resolve()`, a failed accept or a reset delays other clients at most; an exception in one session ends them all, as `stopped` |

Each violation is a disagreement between the code and a line of the
repository, quoted under `findings` in `PROJECT.json`. The finding on
the client tracer holds for the service tracer too, which has the same
callbacks. More disagreements were
met while modelling and have no run, since they can be read off a few lines:

- `tcp_analyse.c:289`: when a perf buffer cannot be opened `err` is still 0 and
  the process returns 0, although `tcp_analyse.c:327` reserves that for "reset
  err to return 0 if exiting". The service tracer has the same.

- `tcp_analyse.bpf.c:111` keeps the time stamps at or above the filter, and the
  usage text promises those "lower than 1 ms" (`tcp_analyse.c:38`); the value
  compared is the uptime, not a duration. The service tracer has the same.
- `tcp_analyse_service.bpf.c:106` calls every segment a "SYN packet".
- `xdp_packet_load.c:203-211` unloads all programs of the device, those of
  others too, and says Success whether or not that worked.
- `common/parsing_helpers.h:12` says "All return values are in host byte order",
  and `parse_ethhdr_vlan` returns the EtherType in network order (`:121` says so);
  `vlan_tag_pop` of `rewrite_helpers.h` returns the whole tag where its comment
  says the VLAN ID. No program uses either.
- `tranfer_unix_time2epoch_time` of `utils.cpp` has the sign of its difference
  the wrong way round. It has no caller.
- The proxy prints `client_buffer_` under the words "server response"
  (`proxy.cpp:74`), and that buffer is what it sends to the origin server, filled with a's.

Every property of a passing run has a mutant: an operator in the module,
marked "Mutant", that changes one definition the way a plausible mistake in
that code would, and under which TLC finds the property violated.

## Bounds

Every bound is a CONSTANT that some guard names.

- `MaxClock`, `MaxCalls` (client): `client_map` uses 4 nanoseconds at 2 for a
  microsecond, so that time stamps are equal, adjacent and truncated, and three
  calls: an attempt that leaves an entry, a second one on the same address or on
  the other socket while the map is full, and an answer. Deeper histories are
  the business of the proof. `client_loop` has two starts. From the start of
  `main()`, two calls (`FewCalls`) and everything that may happen to the socket.
  From a tracer at work on an open connection (`AtWork`), four calls, enough for a
  ring of two to fill, overrun and take a record of lost samples; the socket
  stays open. Its clock stands still, as no property of it is about time.
- `U64` is a number above `MaxClock`: 2^64 nanoseconds are 584 years. It is there
  for the cut to 64 bits, and for the subtraction of the client, which would wrap.
- `MaxSegs`, `MaxReads` (service): two segments and two reads, so that one
  segment is in the backlog while the other is in a softirq. The behaviours
  in which `main()` takes steps have one of each (`FewSegs`, `FewReads`), as their
  question is about `main()`.
- `MaxPackets`, `RING_SIZE` (XDP): three packets and a ring of two give a full
  ring, two records busy at once in either order, and a record reserved after
  the reader's snapshot. In `xdp_ring` `MaxPackets` bounds a burst and not the
  traffic: the numbers start again whenever the ring was drained. `Frame` is a
  constant: `xdp_ring` has a frame for each way through the parser (dropped, passed,
  recorded), the others have all nine kinds.
- Three writers (shared memory): one that posts, one that resets, one that is
  late. The reader is in `Stoppable`; with two readers nobody is, so that the
  violation is the one by a removed semaphore.
- `Limits`, `FirstFd` (epoll server): one descriptor or two. With one, the second
  client waits in the queue until the worker has closed the first, and then gets
  the same number; with two, both workers are busy. `MSG_LEN` < `BUFFER_SIZE`, as 3000
  and 4096 in the code: two and three in `epoll_server`, so that a message is cut.
  `MaxFaults` = 1 reset, failed thread or failed `epoll_ctl`.
  `epoll_events` has three descriptors, 8 to 10, since a worker has an event left
  while it closes another only if two numbers are its own (8 and 10), and four
  clients, so that a closed number is given out again; no faults, which the proof
  of `EventsStayOwn` covers.
- `BUFFER`, `MaxBytes`, `MaxFaults` (proxy): two bytes and a buffer of two, read at
  once or one after the other, for one session or one for each; one failed
  accept or reset of the origin server; clients may leave at any time.

Symmetry is used for sockets and contexts in `client_map` and for clients in
`epoll_events`, which check invariants only. `epoll_server` checks liveness too, so it
has no SYMMETRY; `C1First` gives the name `c1` to the client that is done with
`connect()` first, which loses no behaviour up to the names. Deadlock is checked in `client_map` only: in the others the
process under study ends.

## Fairness

- `TcpAnalyse`: `WF_vars(Main)`. The scheduler runs the process, system calls
  return, and `epoll_wait` has a time-out of 100 ms. Nothing is assumed about
  the kernel's contexts, and nothing about SIGINT.
- `XdpPacket`: `WF_vars(Loader)` for the same reason, and weak fairness of
  `ProgStep(c)`, since a BPF program cannot block and runs to its end. Packets
  need not arrive.
- `ShmHandoff`: weak fairness of each process. `SemWait` is disabled while
  the semaphore is 0, so a reader is not assumed to get through. Signals and kills
  need not happen (`SemopInterrupted` and `Kill` are outside the fairness).
- `EpollServer`: weak fairness of `main()`, of each worker, of each client and of
  the delivery by TCP, which sends again what is lost. A worker's `epoll_wait` is
  disabled while nothing is ready. SIGINT and resets need not happen.
- `Proxy`: weak fairness of the thread (`Construct`, `Handlers`) and of the
  reactor (`AcceptCompletes`, `Completes(s)`): the thread never waits except in `run()`
  and in `resolve()`, which has time-outs of its own. `WF_vars(Completes(s))` also says
  that a client that stays takes what is written to it; one that stops reading
  without leaving holds its session for ever. Peers need not connect, send or
  close.
- `TcpAnalyseService` and `TcpAnalyseBpf` state no fairness: their properties
  are safety properties.

`SigintTerminates` of the XDP loader is checked with traffic that need not end, and
says of it what is true: libbpf reads a ring until it is empty or meets a busy
record, so the loader ends after SIGINT unless it never leaves
`ringbuf_process_ring` again. The exception is needed: without it TLC finds, with
every CPU and the loader scheduled fairly, a packet that is always submitted before
the reader has seen the ring empty. readme.md:79 ("it will auto unload xdp prog auto
ctrl-c") does not hold under such traffic.

## Proofs

Every safety property of the passing runs, the refinements included, is a
theorem for all values of the constants. Each module has an inductive invariant
that is stronger than its properties; it was checked with TLC on the instances of
the runs before it was proved, and a lemma for each action shows that it is
preserved.

`TcpAnalyseBpf_proof` proves about `BpfSpec`, for any number of sockets,
contexts, CPUs and processes, any size of map and rings, any filter, and any
behaviour of user space:

- `BpfTypeCorrect`: the type invariant;
- `BpfInvariance`: `BpfSpec => []BpfInv`;
- `ConnectTimeIsSound`: `BpfSpec => []ConnectTimeSound`;
- `ConnectTimeDoesNotWrap`: `BpfSpec => []ConnectTimeNeverWraps`.

The assumptions are `BpfAssumption` in `TcpAnalyseBpf`: sizes are positive
numbers, the clock stays below `U64`, and `None` is no context and no number. TLC
evaluates them in every run of the client.

**The argument.** Neither of the two properties is inductive. `ConnectTimeSound`
speaks of the moment after the lookup, so one needs to know what the lookup
finds: `ConnectMapAgrees` says that the map has the start of an attempt that
waits for its first segment, and no entry for one that was not stored or has
been measured. It is preserved only if no other program works on the entry
between two steps: `LockHeld` says that a context in one of the two functions
holds the lock of its socket, and `Phases` says which program can be at which
step. For the subtraction, `TimeOrder` orders clock, time stamps and entries; its
last part, that an entry met by a lookup is not younger than the time stamp of
that program, again rests on the lock. Entries left over from given-up attempts
and freed sockets need no clause of their own: attempts that the tracer did not
see are "untraced", and for them the property promises nothing but the absence
of a wrap. `BpfInv` is the conjunction, with the type invariant. There is a lemma
for each action and, under it, a step for each part that the action can
disturb. The lemmas on sequences cover the rings, which every part of
`RingsNeverWrap` has to look into.

`TcpAnalyse_proof` proves about `Spec` of `TcpAnalyse`, under the same
assumptions and `EnvAssumption` (`env_pid` is a process or 0, 0 is no process, and
`None` is no reading position):

- `TypeCorrect`: `Spec => []TypeOK`, with the clause that a ring that is being
  read holds all records of the reader's snapshot;
- `TracerImplementsBpf`: `Spec => BpfSpec`;
- `TracerConnectTimeIsSound`: `Spec => []ConnectTimeSound`, from the two modules;
- `NoSilentHoles`: `Spec => HolesAreReported`.

The tracer's variables include those of `BpfSpec`, so the refinement mapping is
the identity; what has to be shown is that each action of `main()` leaves the
kernel's side alone or is one of `Attach`, `OpenArray`, `ConsumeRing`,
`CloseArray`, `DetachAll`, `Release`. For `WriteTail` this needs that the snapshot
is still within the ring. `Reading` says why: a ring is read only in the loop,
where the handler is installed, so a SIGINT cannot release the rings under the
reader (a kill is possible only before the loop), and the kernel only appends
(`KernelOnlyAppends`). `TracerInv` is the conjunction with the types.

`HolesAreReported` says that each sample handed to a callback is the next one
after those already handled or counted as lost. For it, `Numbering` gives every
record of a ring the number of samples before it: a sample stands for one, a
record of lost samples for as many as it says, and a sample's own sequence number
is the next one. The numbering ends with what the kernel has output less
`overrun`, and at the reader's position it is `handled + lostCount`. The kernel
announces a loss in front of the next sample that fits, in one step, so the
numbering can always be extended; `WriteTail` cuts its front off. `OpenedOnce` is
needed since the count begins when an array is opened: `main()` opens each once,
and nothing was output before. The numbering is stated as an existential, so
that no history variable has to be added to the model.

`TcpAnalyseService_proof` proves about `Spec` of `TcpAnalyseService`, for any number
of CPUs, segments and reads, under `ServiceAssumption`:

- `TypeCorrect`: `Spec => []TypeOK`;
- `TracesWhatItCan`: `Spec => []LoopTracesAll`;
- `LatencyIsNeverNegative`: `Spec => []PathInOrder`.

`PathInOrder` compares events that are already in rings and says nothing of the
segment whose event comes next. `OnePlace` says that a segment is in one context
or once in the backlog; `EventsKnown` that all its events in rings are from
functions before the one it is in, with time stamps not later than the one just
taken, and that a segment in the backlog has only its event of `tcp_v4_rcv`. The
clock does not go back, and `Usec`, the division and the cut to 64 bits, keeps the
order below `U64`; this is where `MaxClock < U64` is used. For `LoopTracesAll`,
`Attaching` says that what is attached and what is still to be attached are
together what `Autoload` has chosen, and that only what can be attached is.

`XdpPacket_proof` proves about `Spec` of `XdpPacket`, for any number of CPUs and
packets and any size of the ring, under `XdpAssumption`:

- `TypeCorrect`: `Spec => []TypeOK`;
- `RingImplementsFifo`: `Spec => RingIsFifo`.

`RingInv` pairs records and CPUs: a CPU between reserve and submit holds a busy
record with its own packet, no two hold the same (`OwnRecord`), no packet has two
records (`OneRecordEach`), and a record that is not busy is complete (`Whole`). The last one makes `Get` of the queue
return what was put: the reader takes only records that are not busy. A
reservation is `Put`, and the space check on `cons_pos` its bound; submitting and
the reader's snapshots are stutters.

`ShmHandoff_proof` proves about `Spec` of `ShmHandoff`, for any sets of readers and
writers, any of which may be killed anywhere and any reader of which may be
interrupted in its wait, under `ShmAssumption`:

- `TypeCorrect`: `Spec => []TypeOK`;
- `LeftoversAreWhole`: `Spec => []LeftIsWhole`;
- `ReaderIsServed`: if there is at most one reader, `Spec => []ReaderGetsMessage`.

`LeftIsWhole` speaks of the segments that the key finds when a process ends, so
`LeftInv` says what each kind of end leaves: a reader past its removal has a
segment that nobody finds (`Removed`), and so has a process that crashed in
`shmat` (`Gone`); a writer past its copy has a whole one (`Written`), whether or not
its semaphore was still there. `Charged` adds that a segment never loses the last
process that knows it without one of the three having happened. Segments are
never linked again, and a whole string stays whole.

The hypothesis of `ReaderIsServed` is that of the program: with two readers the
second loses its semaphore, which the run `shm_two_readers` shows. A reader in
`Stoppable` that has no token was interrupted, and the property promises it no
string, only that it does not crash.
`HandoffInv` follows the one string: until the reader has read (`Shared`), there is
one segment and one semaphore, both there, and the semaphore is positive only
over a complete string, however many writers set it back or have been killed;
`Complete` carries this to the writer that is about to post and to the reader that
is past the semaphore. After the read nothing in the property depends on the
objects any more.

`EpollServer_proof` proves about `Spec` of `EpollServer`, for any number of
clients, workers, descriptors and events of a wait, under `ServerAssumption`:

- `TypeCorrect`: `Spec => []TypeOK`;
- `EventsStayOwn`: `Spec => []EventsAreOwn`;
- `TerminatorStaysInBuffer`: `Spec => []TerminatorInBuffer` if `MSG_LEN < BUFFER_SIZE`.

`EventsAreOwn` is not inductive: that a descriptor keeps its meaning depends on
who may close it. `SetsAreOwn` says that a descriptor is in the epoll set that its
number names, in no other, and open while it is there; `EventsInSet` says that
what a worker has an event for is in its set and still the connection that was
reported. `accept()` hands out a number that is closed, hence in no set, hence in
nobody's events; `close()` takes it out of the only set that had it, and the
worker has no second event for it, since it took the event out of its array
(`Loops`). So `fd % NUM_THREADS` is what replaces a lock: with any rule that can
give a number to two sets the argument fails, as the mutant shows. For the
terminator, `WrittenOnce` bounds what can have arrived and `OneMessage` what one
receive returned.

`EpollServerStream_proof` goes on from there, under the same assumptions (one of
them, that `None` is none of the exit statuses, is used only here):

- `ServerImplementsStreams`: `Spec => ServesStreams`.

`ByteStream` allows a connection to be given up only for a reason, and the code
closes on what `recvmsg` returned, several steps after the client or the network
acted. `Reasons` says that the reason is still there: a worker about to close has
met the end of the stream with everything received, or a reset. It rests on
`EventsStayOwn`, and on `OnePlace`: a connection waits in the queue or is behind
one descriptor, so that nobody else receives from it or closes it. `Lives` orders
what was sent, has arrived and was received.

`Proxy_proof` proves about `Spec` of `Proxy`, for any number of sessions, bytes and
faults and any size of the buffer, under `ProxyAssumption`:

- `TypeCorrect`: `Spec => []TypeOK`;
- `SessionIsChain`: `Spec => []OneStepAtATime`;
- `ProxyImplementsStreams`: `Spec => RelaysStreams`.

`OneStepAtATime` counts operations, handlers and `resolve()` of a session; the
invariant `ChainInv` says the same without counting: no two of them are for one
session, and the sessions that are alive are exactly those that have one. That
each handler starts at most one operation preserves it, and `Newcomers` that an
accepted client has no session yet. For the stream, `Stage` says for each
operation and handler what the buffer holds: after a read the bytes not yet
written are in the buffer (`Buffered`), and before the next read everything has
been written (`UpToDate`). As a session is one chain, no read into the buffer can
happen while a write uses it.

**Only model-checked.** The liveness properties: `EveryEventAccounted`,
`SigintTerminates` of the three processes, `EveryPacketHandled`, `ReaderReturns`,
`EndedIsClosed`, `QueueDrains`, `WaitingIsAccepted` and `OriginEndEndsSession`. They
rest on fairness and ENABLED, which the prover does not handle; and the four
violations, which are counterexamples.

## What is not modelled

- Contexts on one CPU interleave freely: a softirq may really interrupt a task
  but not the other way round, so the model allows more. A program that
  interrupts itself on one CPU is skipped by the kernel; the model has no such
  miss. Both are safe for the properties checked except for events that the
  kernel skips, which no property speaks of.
- Listening sockets take no lock in newer kernels. They are never in
  `SYN_SENT`, and no program touches the map for them.
- `strcat` onto a literal (`tcp_analyse.bpf.c:117`), addresses, ports, names and
  the layout of the output: data that no property tells apart.
- Losses after the last sample of a ring are never reported by the kernel;
  `EveryEventAccounted` counts them as `overrun`.
- The client runs use one CPU and one context, except `client_map`: the second
  ring is the same code, and the proofs cover any number for the kernel's side.
- Shared memory: `shmget`, `semget` and `shmat` do not fail for lack of resources or
  rights (`shm.c:17-27`, `:52-61`), and `ftok` finds its file. The code would go on
  with -1 as it does with a removed object. `semop` fails for a removed semaphore
  and for a signal, and SETVAL and +1 only for a removed one, since they do not
  sleep.
- Perf buffer: a record that wraps around the end of the ring is copied into
  memory that libbpf allocates (`lib/libbpf/src/libbpf.c:12264-12271`); that
  the allocation succeeds is assumed.
- The service tracer's rings lose events at any time, and what its callbacks
  print is left out: an abstraction of what `TcpAnalyse` has in detail.
- `parse_cmdline_args` and `argp`: their results are constants or the initial
  `cfg`. `xdp_program__attach` stands for one device.
- Epoll server: the control messages of `recvmsg` are only printed. A worker that
  starts late reads `thread_data`, which is complete before its thread is
  created. Errors come with `EPOLLIN`, so the test for it (`server.cpp:47`) is always
  true. `test/test_server.cpp` handles one connection after the other in one
  thread and shares nothing.
- Proxy: nothing is modelled in the direction of the origin server, since what
  goes there is a constant. `client_socket_` is read once.
- Pinned maps (`common_libbpf.c`), parsing and rewriting helpers and the XDP
  statistics come from the xdp-tutorial and are not part of any program here:
  nothing includes, compiles or calls them. Time helpers: only the length of the
  random string matters to a property. The test program and the build have no
  state. The
  libraries under `lib/` are modelled where the tracers call them: perf buffer,
  ring buffer, skeleton, libxdp.

## Plan

The modules are written and checked, in the order of importance:
`TcpAnalyseBpf`, `TcpAnalyse` (which implements it), `XdpPacket` with `PacketFifo`,
`TcpAnalyseService`, `ShmHandoff`, `EpollServer` with `ByteStream`, `Proxy`. What is
left of the code is listed above, with the reason why a model of it would say
nothing about a program.

The safety properties that were planned as theorems are proved. What can
still be added are the safety halves of the liveness properties: that each
state in which a process waits leaves another step that ends the wait
(for `QueueDrains`, that a full table has a worker with a reason to close; for
`EveryEventAccounted`, that a ring with a record is reported by the next poll).
