# A TLA+ model of the Trusty boot loader library (ql-tipc) and its test runner

The repository holds the code a boot loader uses to talk to the Trusty secure OS
before Linux runs: **ql-tipc**, a single-threaded IPC library on top of secure
monitor calls, and **test-runner**, a bare-metal program (arm64, QEMU) that links it
to serve Trusty's storage while tests run in the secure world. This directory models
the part of it where ordering, failure and concurrency decide correctness. Paths
below are relative to `src/`.

## 1. Inventory

| Component | State | Operations | What makes it correct |
|---|---|---|---|
| Channels, dispatcher, wait loop (`ql-tipc/ipc.c`) | per channel: handle, complete, ops | chan_init, connect, close, send, recv, poll_for_event, wait_for_complete | a wait ends for its own reason; handles and connections agree as long as none is forgotten; calls return |
| IPC device (`ql-tipc/ipc_dev.c`) | one shared page, its id | CONNECT, DISCONNECT, GET_EVENT, HAS_EVENT, SEND, RECV; create, shutdown | every failure is unwound; the page is private again before it is freed |
| RPMB proxy (`ql-tipc/rpmb_proxy.c`) | channel, request and read buffers | on_message, on_disconnect, init with drain loop, shutdown | each storage request gets one response, which fits |
| Clients (`avb.c`, `keymaster.c`, `hwbcc.c`) | channel, initialized | init with version check, request/answer calls, shutdown | the answer is the answer to this request; multi-frame answers are read to the end |
| `libtipc.c` | the device and the channels | trusty_ipc_init, trusty_ipc_shutdown | a session leaves nothing behind |
| Standard calls (`trusty_dev_common.c`) | device lock, interrupt mask, retry count | trusty_std_call32 and its two inner loops | a command runs exactly once; restarts come in order; masking is short |
| Trusty device (`trusty_dev_common.c`) | API version, FF-A buffers | dev_init, dev_shutdown, share_memory, reclaim_memory | only what was shared is reclaimed |
| Idle and wake-up (`test-runner/arm64/asm.S`) | wake-up flag, pending interrupts | trusty_idle, trusty_local_irq_disable, NOP loop | no wake-up is lost |
| Page information (`trusty_mem.c`, `arm_ffa.h`) | none | trusty_encode_page_info, memory descriptor | the secure OS maps the same page with the same attributes |
| CPU start (`asm.S`, `arm64/arch.c`) | cpu_ready, event register | arch_start_secondary_cpus, _start | CPU 0 goes on when, and only when, all are ready |
| Test runner (`test-runner.c`, `arm64/boot.c`) | place in `boot()` | boot, boot_next | a boot ends; the verdict is the test server's |
| Comm port and RPMB transport (`test-runner-comm-port.c`, `-storage.c`) | message buffer, queues | get_cmdline, log_buf, host_exit, rpmb_storage_send | the host gets every byte once and in order; commands are whole |
| Allocator (`test-runner-sysdeps.c`) | two counters | calloc, alloc_pages, free_pages, abort | what a boot needs fits |
| virtio (`virtio*.c`) | split queues, console ports | probe, negotiate, send_vq, recv_vq, control_scan, connect_port | queues keep in step with the device; no announcement is lost |
| Serialization (`keymaster_serializable.c`) | none | three serializations | what is read is what was written |
| u-boot glue, wire formats | none | wrappers, layout | sizes |

**How they interact.** A client call sends a message through the IPC device, which is
one standard call into the secure OS, and then polls. One poll returns the events of
*any* channel and dispatches them by cookie: the storage service's requests to the
RPMB proxy are therefore served inside whatever wait happens to be running, usually
that of a client whose service is waiting for that storage request. When nothing is
pending CPU 0 idles; secondary CPUs lend their time to the secure OS with NOP calls
and wake CPU 0 with an interrupt when they go idle. The device, the page and the
channels are set up and torn down by `libtipc.c`.

The test runner is such a boot loader: it brings up a virtio console, connects its log
port and its RPMB port, runs the clients once, starts the other CPUs, and waits for
the verdict of a test server, while the proxy's calls end in commands on the RPMB port.

**What is hard.** A wait that is ended by somebody else's event or error; storage
requests nested in client calls (everyone waits on everyone); connections that fail
half-way; restarts of interrupted calls from several CPUs; the race between going to
sleep and being woken; commands that fail although the secure OS keeps its part (a connection,
a queued message, an event); unwinding a session whose steps fail one by one; answers cut
into frames; a console whose device runs concurrently, sees half-published buffers and
refills buffers the driver still reads; CPUs that start while CPU 0 counts them. `PROJECT.json` lists every hazard at its line, with the properties that
would notice it, or the reason none does yet.

## 2. Modules

| Module | Models | State and actions |
|---|---|---|
| `SecureOs` | the secure side of the IPC device, *external* | connection table, event edges, queues, the services and the storage service |
| `TipcIpc` | `ipc.c`, device commands of `ipc_dev.c` | `handle`, `complete`, `ops`; `pc` is the place in the running call, `kind` the call; `left` is the connections their channel has forgotten. `Connect`, `Send`, `Recv`, `Close`, the poll (`SyncEvent`, `PollNone`, `PollFails`) and the idle (`HasEvent`, `Wake`) |
| `RpmbProxy` | `rpmb_proxy.c` | `ProxyMsgEvent` to `PxRecv` to `PxSend` or `PxClose`; the size checks are `RpmbValid`, in bytes |
| `TipcClient` | the clients' init, call, shutdown | `ClientInit`, `SendVersion`, `Call`, `ClientShutdown` |
| `TipcSystem` | the composition of the four | `Next`, fairness, properties |
| `MCTipcSystem` | instances for TLC | the storage requests, symmetry of handles |
| `Keymaster` | frames and uploads of `keymaster.c` | `ReadFirst`, `ReadRaw`, `UploadBegin`, `UploadUpdate`, `UploadFinish` |
| `SmcAbstract` | what a standard call promises | `Call`, `Begin`, `Complete`, `Return` |
| `SmcCall` | `trusty_std_call32` on several CPUs | one action per smc, lock operation and masking step; the monitor is external |
| `CpuIdle` | `trusty_idle`, NOP loop, wait loop of CPU 0 | one action per instruction on shared state (`Ldaxr`, `Stxr`, `Stlr`, `Sgi`, ...) |
| `IpcDevice` | `libtipc.c`, create/shutdown of `ipc_dev.c`, `trusty_dev_*` | one action per step that may fail |
| `MemShare` | page information on top of `IpcDevice` | `MapBuffers`, `CreateDev`, `ShareDev` add to the steps of `IpcDevice` what the secure OS is told; `page` is how the machine maps memory |
| `KmSerialize` | request contents on top of `Keymaster` | the requests are constants of any contents and lengths; `asked` is what a call was given, `seen` what the service reads from the serialized request, `data` the uploaded response |
| `MCKeymaster` | requests for TLC | |
| `VirtQueue` | `virtio.c`, `vq_attach`, `vq_kick` | `vq` is `struct virtq` with its rings; a transfer is `StartIo`, `PublishIo`, `KickIo`, `FinishIo`, the device runs in between |
| `VirtConsole` | `virtio-console.c`, probing, comm port, RPMB port, and the host (*external*) | one action per step of `init_virtio_console` and `control_scan`; `LogChunk`, `RpmbStep` |
| `HwBcc` | reading an hwbcc response | operators: iovec copy, header checks |
| `RpmbTransport` | what `rpmb_storage_send` promises | `Call`, `Execute`, `Return` |
| `TestRunner` | `boot()`, CPU start, allocator; composes the four | `pc` names the next call; one action per call |
| `MCTestRunner` | machines to boot on | |
| `*_proofs` | theorems about the module of that name; `Keymaster_proofs` also about `KmSerialize`, `IpcDevice_proofs` about `MemShare` | |
| `TestRunnerLog_proofs` | theorems about the queues, the log and the verdict of `TestRunner`, on top of `TestRunner_proofs` | |
| `TestRunnerPorts_proofs` | theorems about its control queue and its RPMB port, on top of `TestRunnerLog_proofs` | |

The definitions that start with `Mutant of` are plausible faults of the definition that
follows them. No specification uses them; `PROJECT.json` names the property that each
one breaks.

Between two commands to the secure OS the library holds no lock on it, so every command
is one step of `TipcIpc` and `SecNext` runs in between. What the library computes
between two commands touches only its own memory and is part of the step.

### Abstractions

- A message is a serial number and a body. The number exists in the model only and tells
  which request a message belongs to; the code compares the body (the command). All
  clients use one command value, the case in which a stale answer cannot be recognised.
- An answer of Keymaster in several frames is one message in `TipcSystem`.
  `Keymaster` is where frames are modelled, and `NothingLeft` is what justifies it.
- The proxy's requests carry the sizes of the code. RPMB hardware succeeds or fails.
- Any command may fail (`Fault`): GET_EVENT or a POLL_ERROR event fails the poll; HAS_EVENT
  answers `false` (`ipc_dev.c:358-373`), so that the CPU idles with an event pending; a failed
  DISCONNECT leaves the connection, whose handle `trusty_ipc_close` forgets all the same; a
  failed RECV leaves the message queued. The secure OS does nothing for a command it
  fails: one that took effect and was answered with an error is not modelled.
- `MaxFaults` bounds these failures, `MaxReq` how many requests a behaviour has. An init may be
  repeated whenever the code lets it (`avb.c` and the proxy assert that they are not initialized, `keymaster.c`
  and `hwbcc.c` do not), and then forgets a connection that is open; `MaxLeft` bounds the
  connections left that way. Hangups and refused connections are not bounded.
- The proxy's init is the first call on a new device, as in `libtipc.c` and `test-runner.c`.
- Keymaster and hwbcc calls do not look at `initialized`; the model calls them when they are
  initialized and have a handle, as the callers in the repository do. The order of inits,
  calls and shutdowns is left open (`UserStep`).
- `SmcCall`: the monitor is modelled from the return codes documented in `sm_err.h` and
  `smcall.h`. Arguments of commands are left out: a restart carries none. `tries`, which `MaskedBriefly`
  bounds, counts the smcs of the BUSY loop; the FIQ restarts between them, which the code does
  not bound either, run with interrupts masked and are not counted.
- `CpuIdle` is the GICv3 build. `skip_cpu0_wfi` is one word. The secure OS answers BUSY to CPU 0 only
  while another CPU is in a call, and a NOP call is not answered BUSY.
- `IpcDevice`: the caller shuts down only when the IPC device was created. The API version is a
  property of the secure OS: before memory objects, with them, or newer than the library.
- `Keymaster`: lengths are in words, the service cuts answers as the header of
  `km_read_raw_response` documents, and its data fits the caller's buffer. The code
  checks neither; the hazards list says where that matters. Which data words arrive is not
  modelled, only how many; of requests `KmSerialize` has the words too.
- `MemShare`: an address is the buffer it belongs to, so that a wrong address is visible and
  page arithmetic is not needed. Attribute bytes and descriptor offsets are those of the code.
- `VirtQueue`: an index is published after its ring entry, as the order of the two volatile
  writes says. Buffers are sequences of tokens; a transfer of the code's fixed 64-byte message
  is its meaningful part. Queue memory is zero at the start (statics).
- `VirtConsole`: the host is modelled from what the comments of the driver say of QEMU: all ports are
  announced when the driver is ready, answers are queued before the message they
  answer is given back, and a message without a buffer is dropped. A port may be removed
  right after it is announced; removal later on (hot unplug) is not modelled. The device
  serves a queue when it was notified, until it is empty. It goes through the ports one by one
  (`ControlAdd`, `dev.added`). A name the driver does not know is `NoName`, the empty string.
- What the code does after a message was logged through a port that does not exist, as the
  two assertions of `init_virtio_console` do when they fail, and
  after `trusty_abort` or the unbalanced stack of a failed CPU_ON, is undefined: the model goes on
  there to an error or to a wait for ever (`LogNowhere`, `Astray`).
- The asserts of `rpmb_storage_send` on sizes (`test-runner-storage.c:85-86`) repeat checks that
  `proxy_handle_rpmb` has made (`RpmbValid`), and those on the result of `send_vq` (92 to 110) compare with
  the length `send_vq` was given and returns; they are not modelled. The one on the received
  length (116) is.
- `TestRunner`: sizes of the heap, pages and their users are the real ones; texts are one token longer
  than a chunk. The libtipc calls fail or succeed freely, except that allocations of the
  device and of the boot parameters are counted. Without FF-A the two message pages are not
  allocated.

## 3. Runs

| Run | Question | Result |
|---|---|---|
| `TipcSafety` | two clients with version requests, one initialized early, and the proxy, over three handles; a valid and a truncated storage request; one failing command of any kind; one connection left by a repeated init; hangups at any time | holds, 1 988 753 states |
| `TipcLiveness` | without injected failures, do all calls return, with storage requests whose response does not even fit? | holds, 288 651 states |
| `TipcStaleAnswer` | is the answer always that of this request? | violated |
| `TipcBigRead` | can every accepted read be answered? | violated |
| `TipcReinit` | does a waited receive always find a message, also after a connection was left? | violated |
| `SmcCall` | two CPUs with commands, one with NOP, one retry: order, masking, exactly-once, and do commands return? | holds, 17 297 states |
| `CpuIdle` | CPU 0 and two secondaries, with a HAS_EVENT that may fail | holds, 75 382 states |
| `IpcDevice` (module `MemShare`) | sessions of init and shutdown, each step failing, three API versions, all page formats, release and debug builds; and what is the secure OS told of the buffer? | holds, 119 532 states |
| `IpcDevicePageInfo` | is only shared memory reclaimed? | violated |
| `MemShareFfa` | is it the buffer that is shared, on every build? | violated |
| `Keymaster` (module `MCKeymaster`) | answers of 0 to 8 words in frames of 3, uploads of 0, 2, 3 and 7 words in parts of 3, requests with empty and other buffers, failing receives and allocations | holds, 63 067 states |
| `TestRunner` (module `MCTestRunner`) | a boot on 19 machines: is every announcement, log byte, storage command, CPU and verdict where it belongs, do allocations fit, which assertions fail, and does the boot end? | holds, 135 510 states |

**Bounds.** Three handles are one per channel of `TipcSafety`, or two and one to spare where a
connection is left; a handle can be freed and used again by another channel. Two requests
are a version request and a call, a call after an abandoned one, or a storage request of the
storage service's own. One failure and one connection left show each exception of the
properties; the proofs cover any number. A queue of one message is the smallest that can be full. One retry shows a
retry and the end of the retries; the proofs cover any number. Two secondaries show one
CPU waking CPU 0 while another is about to. Two buffers show a page freed and another
allocated. In `Keymaster` a buffer of 8 words makes answers of one to four
frames, with a last frame that is full, partial or empty of data, and 7 = 3 + 3 + 1 a
partial last part. In `TestRunner` two ports need a ring of four, as 16 need 32; indices
wrap at 8, which the control and log queues pass; a buffer body of two
tokens cuts texts into two messages; up to five CPUs exceed the three there are stacks
for; two storage requests, one of which reads nothing, overlap in the device. The
machines are three good ones that differ in transport, order of ports, API version and
number of CPUs, and variations of them that have no console, or one that does not offer or does not
accept the features, no log port, no RPMB port,
no test to run or no CPU to start.

**Deadlock** is checked in the SMC and idle models. The boot loader may stop calling the
library, the bounded number of requests ends, and a fatal error stops the program;
the other configurations therefore switch the check off; a boot of the test runner ends.

**What the properties except.** `ConnectionsAgree`, `WaitedRecvHasMessage` and `AnswerMatches` hold of code
that has no general answer to a failing command, and each names the cases it does not cover:
connections that their channel has forgotten (`left`), other waits of such a channel
(`Shadowed`), and calls after one that failed without having read a message (`abandoned`).
`StorageExact` counts exactly: while the storage service waits and the proxy is connected, the
request or its response is there, once. `NoLostWakeup` and `EventsDelivered` except the sleep after
a failed HAS_EVENT (`missed`). `AssertsHold` says which assertions fail and where: the two on
features in `init_virtio_console`, where the console lacks them. `BootEnds` requires a boot to come to a
return code, the next operating system or the undefined code after an abort; a wait for ever
is not an end. It says nothing of the machines on which the driver logs before it has a port
(`LogsNowhere`), nor of what that undefined code then does.

**Fairness.**
- `TipcSystem`: nothing fails (`MaxFaults` is 0). The running library call takes its steps (it is a loop on a CPU); an idle CPU wakes
  when the secure OS has an event, which is what `CpuIdle` shows of the idle loop; GET_EVENT
  reports ready connections in turn (strong fairness per handle), which is how
  a handle set is polled; services accept or refuse, answer, and read what they asked
  for. Nothing is assumed of hangups and failures.
- `SmcCall`: CPUs run, the mutex is fair, the NOP loop never ends, and a monitor that
  could finish a call again and again does. An idling CPU whose command waits for
  another CPU is woken only once that CPU has run.
- `CpuIdle`: CPUs run, `wfi` ends when an interrupt is pending, and GET_EVENT is not made
  to wait for other CPUs for ever.

- `TestRunner`: CPU 0, the device and each secondary CPU keep running, calls into libtipc return
  (`CallsReturn` and `CommandReturns` are about that), and `wfe` returns in the end without an event. The
  last is true of QEMU, for which the runner is written, and `BootEnds` needs it: CPU 0 waits once
  per CPU, itself included, and the events of CPUs that report before it waits are
  merged into one.

**Refinement.** `RpmbFifo` says that the five transfers of `rpmb_storage_send`, the queues and the device
together implement `RpmbTransport`: the commands on their way are the issued ones that
the device has not executed. `SmcCall` implements `SmcAbstract` (also proved).

**Violations.** Each states a line of the repository's documentation or comments, which
`findings` quotes, and shows the code doing something else:
1. A poll error (for instance of the proxy) ends a client's call with its answer due; the next
   call takes that answer (`ipc.c:57`).
2. An RPMB read of 4096 bytes passes the checks and its response does not fit
   (`rpmb_proxy.c:148`).
3. Events are dispatched by cookie only, so the events of a connection that was left, by a failed
   init or a failed DISCONNECT, reach its channel when that is connected again (`ipc.c:216`).
4. A failing `trusty_encode_page_info` leads to the reclaim of an id that was never
   returned, which aborts (`ipc_dev.c:218`).
5. The Arm builds fill in one field of the page information, and with memory objects the
   others are used: the page at address 0 is shared (`arch/arm/trusty_mem.c:278`).

The models also show, without a run of their own: a HAS_EVENT that fails is taken for "no event" and
the CPU sleeps (`HasEvent`, `ipc_dev.c:358`); a failed DISCONNECT leaves a connection no channel names
(`Close`, `ipc.c:141`); a full send queue is never reported as
blocked, so `wait` has no effect on a send (`Send`, `ipc_dev.c:151`); a release build
without FF-A frees pages that the secure OS did not release (the exception in
`NoSharedFree`, `ipc_dev.c:240`); and `trusty_dev_shutdown` does not free the FF-A
message pages (`trusty_dev_common.c:306`); short descriptors that are uncached in the inner
cache are reported as device memory, which a comment says is forced to normal uncached
(`arch/arm/trusty_mem.c:190, 232`); errors of the console's start are logged through null
pointers (`LogNowhere`); CPU 1 is started even where there is none, and a failed CPU_ON
returns with the stack pointer 16 bytes off (`CpuOn`, `asm.S:184`).

## 4. Proofs

All are checked by TLAPS for every value of the constants that satisfies the named
assumptions of the modules.

**`TipcSystem_proofs`**: type correctness, `ConnectionsAgree`, `WaitedRecvHasMessage`,
`AnswerMatches`, `StorageExact`, with any number of failing commands, repeated inits and
connections left. None is inductive alone. The invariant `TipcInv` adds
- `ControlInv`, `ProxyInv`: what each `pc` implies of `kind`, `cur`, `req`, `complete` and
  the proxy's buffer;
- `SecureInv`: what a connection holds fits its state;
- `LeftInv`: a connection that was left is never closed, so that its handle is not used again;
- `ReadyInv`: a connection that is being made, or has not reported READY yet, is the
  one the running connect waits for, so a late READY cannot end another wait, unless an
  earlier connection of its channel was left;
- `AnswerInv`: a client's connection on which nothing was abandoned carries nothing
  but the request its call waits for, once: as a request, as work or as the answer.

- `ProxyAlone`: the proxy has one live connection at most, as its init is the first call on a
  device, and a request is outstanding only while it is open;
- `StorageFlow`: `StorageExact` queue by queue: the request, the proxy's buffer, the response.

**`SmcCall_proofs`**: type correctness, `NoProtocolError`, `MaskedBriefly`, and the
refinement `Spec => Abs!Spec`. The invariant says that the lock holder is the only
caller past `Lock`, that an unfinished job belongs to the lock holder whose last return
value asked for a restart (or who is in the FIQ loop), and that a CPU the monitor
expects a FIQ restart from is at that smc. The refinement maps a call to idle,
called, begun or done; every action is shown to be a step of it or a stutter.

**`CpuIdle_proofs`**: type correctness and `NoLostWakeup`, for any set of secondary CPUs. The
invariant follows CPU 0 from the acknowledgement to the sleep: from a HAS_EVENT that did not fail on, an
event that has appeared came from a CPU that has yet to set the flag or to interrupt, or
the interrupt is pending, as CPU 0 acknowledges none on this way.

**`IpcDevice_proofs`** (about `IpcDevice` and `MemShare`): type correctness, `NoSharedFree`, `CleanStart`. The invariant relates
`shared`, `mapped` and `rxtx` to the place in init or shutdown, and connections to devices
that are up or stuck; a device gets stuck, and the program goes on past the release of its
pages, only in a release build on the old API. `MSpec => Spec`: every step of the device with
page information is one of `IpcDevice` or a stutter, so that the invariant holds of `MemShare`
too; `SharedAsMapped` adds that the device whose buffer is being shared was described by the
page information of that buffer.

**`Keymaster_proofs`** (about `Keymaster` and `KmSerialize`): type correctness, `NothingLeft`,
`ReadsComplete`, `UploadExact`, `ServiceReads`, `UploadWhole`, for any frame size of at least two
words, any part size, buffer and CA response, and for requests of any contents. The invariant `KmInv` follows the words
of the running answer: those read, those in queued frames and those the service has yet to
send make up the answer (`FrameInv`), and a frame ends the answer or is as large as a frame may be;
that is why the client can tell the last frame. `FramesOf` states it with the number of
words outstanding after each frame, so that sending and receiving are one lemma each.
`ServiceReads` needs no induction over the request: each append is shown to leave what was
appended before in place (`AppendHolds`), and the service finds a sized buffer where its
length was written (`SizedReads`).

**`TestRunner_proofs`**: `AllocFits`, `SecondariesFirst`, `DiceWhole`. The difficulty is that
`boot()` is interrupted by transfers, by `log_buf` and by storage requests, so that `pc` does
not say how far it is. `Place` is the point of `boot()` that the running calls return to;
`ControlInv` says that it is well defined (where each call may return to), and every step that neither
allocates nor starts a CPU keeps `Place` within its phase or ends the boot (`Quiet`). `MemInv` then says what was
allocated in each phase and `CpuInv` which CPUs were started and which of them CPU 0 has
already seen.

**`TestRunnerLog_proofs`**: type correctness of the whole boot, `LogExact` and `VerdictTrue`, for any number of
ports, any size of message bodies and any index width that is a multiple of the ring. The
invariant `LinkInv` consists of
- `OutInv`: on every queue but `ctl_in` the driver has at most one buffer with the device, in the
  slot that the ring names; `io.step` says whether the device may see it;
- `LastInv`, `Wiring`: the device's position is the driver's used index, and each queue is
  attached once, at the ids of the port it belongs to, so that no buffer goes to another port;
- `CtlInInv`, `CtlOutInv`: a buffer of `ctl_in` the driver looks at holds a message of the host (it
  was used once, and the device overwrites it only with messages), though `port_ready` reads it
  after giving it back; while the device is busy with a control message, the driver waits for it;
- `NamesInv`, `RawInv`: ports have the host's names; queues are set up in the order of `boot()`;
- `LogInv`: `logged = hostLog \o Flight \o LogLeft`, received, with the device, and not sent yet.

`LogExact` follows from `LogInv`. `VerdictInv` adds that an exit code is the last token logged and is
in `logged` only when `boot()` has ended, and what the server must have said at each place.

**`TestRunnerPorts_proofs`**: `NoneDropped`, `PortsKnown`, `AssertsHold`, and the refinement
`Spec => RpmbFifo`, for any number of ports, any set of commands and any number of them on the
way. There are two invariants on top of `LinkInv`.

`BoardInv` describes the control queue without history: from some index on the ring holds the
messages the driver has not given back, all other buffers are with the device in ring
order (`Window`), and these messages followed by those in `dev.todo` are the `Plan`, all that
is left to be said. In a plan no message occurs twice and a port is added before it is
removed; which kinds of messages there are of a port, what the driver knows of the port and
whether the host waits for its PORT_READY fit together (`Stage`). At most two messages of a
port are in a plan, so a plan has at most `2 * MaxPorts` messages, as many as the ring, and there
is a buffer for each: `NoneDropped`. An empty plan when the driver looks for the second time
is `PortsKnown`. That `port_ready` reads a buffer it has given back is harmless because the
device writes messages only while it holds one of the driver's, and the driver waits for each of
them (`DeviceIdle`, `ReadyPort`).

`RpmbInv` says of the RPMB port that
- what the device has not executed, in its stream (`rpmb.stream`), in the buffer it has not taken
  (`Packet`) and in the parts that are not sent (`Unsent`), is the frames of the commands that
  were issued and not executed, end to end (`StreamInv`; `Framed` gives the place of each
  frame, so that adding one at the end and taking one off the front are one lemma each);
- only the running call can be one that reads, and it is the last (`CallInv`);
- its answer is, whole, in one place: with the device, in the buffer, or with the driver (`AnswerInv`).

What the device cuts from its stream by the two counts is then the oldest frame
(`NextCommand`), which is the `Execute` of `RpmbTransport`; a call that reads can return only
when nothing is on the way, with the blocks of its own command, which is its `Return` and
why the assertion on the received length holds. Those of the ports are `ReadyPort` and, for
`rpmb_scan`, `Known`; that leaves the two of `init_virtio_console` (`Usable`), the exception of
`AssertsHold`.

Assumptions: those of the modules. `MachineAssumption` is the type of a machine the runner can
be started on; `RunnerAssumption` includes that there is a stack for one secondary CPU
(`MAX_CPU_COUNT` is 4), without which CPU 1, which is always started, would have none.
The indices wrap at any multiple of the ring size that is larger than the ring, 2^16 with 32 in the code.

**Only model-checked**: the liveness properties (`CallsReturn`, `CommandReturns`, `EventsDelivered`,
`BootEnds`), which need fairness and ENABLED, out of the prover's reach. Every invariant and
action property and both refinements that the passing runs check are proved.

## 5. Not modelled

- The copy from iovecs into the shared page on send, and the check of the response opcode: the
  secure OS of the model answers the command it was given.
- The contents of AVB messages. Its requests are plain structures, and a call of `TipcClient` covers their
  order; sizes of responses are compared in one place only (`trusty_read_permanent_attributes`).
- The walk of the PCI capabilities (only whether it succeeds), the registers of the two transports,
  interrupts of the device (the driver polls).
- Address translation instructions, super sections (asserted away), exception levels, stacks.
- The numbers of Keymaster versions: a version is accepted or refused.
- RPMB answers that the device sends in several packets: `recv_vq` takes one packet, and the
  assertion after it relies on the host sending one.
- The u-boot glue, which keeps no state, string functions, formatting.
- Concurrent use of the library by several threads, which is outside its design (all its state
  is unprotected statics). The secondary CPUs of the test runner use the log only to report an
  unexpected error.

## 6. Plan

1. `proxy_handle_rpmb` with 32-bit sizes against a reference definition.
2. The AVB messages with their lengths.
3. Hot unplug of a port, with what the driver does about it.
