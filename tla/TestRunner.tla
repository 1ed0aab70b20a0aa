----------------------------- MODULE TestRunner -----------------------------
(***************************************************************************)
(* The boot of the test runner: boot() of src/test-runner/test-runner.c on *)
(* CPU 0, from _start (asm.S) to the verdict, with the console, the log,   *)
(* the RPMB port, the allocator and the start of the secondary CPUs.  pc   *)
(* names the call that CPU 0 makes next.                                   *)
(*                                                                         *)
(* A call into libtipc is one step with every outcome boot() tells apart:  *)
(* the other modules model what happens inside.  While such a call waits,  *)
(* the storage proxy may serve a request of the secure side.               *)
(*                                                                         *)
(* pc ends at "error" (semihosting exit with code 2) or "next_os", or      *)
(* stays at "hung", in code that never returns.                            *)
(***************************************************************************)
EXTENDS VirtConsole, HwBcc

CONSTANTS
    Machines,   \* what the runner can be started on: initial values of host
    Cmds,       \* storage requests
    CmdSize,    \* sizeof(cmdline)
    MaxCpu,     \* MAX_CPU_COUNT
    MaxReqs,    \* bound: storage requests
    MaxMsgs     \* bound: messages of the test server before its verdict

\* There is a stack for one secondary CPU at least (MAX_CPU_COUNT is 4).
ASSUME RunnerAssumption ==
    /\ Cmds \subseteq [rel : Nat, write : Nat, read : Nat] /\ NoCmd \notin Cmds
    /\ CmdSize \in Nat \ {0} /\ MaxCpu \in Nat /\ MaxCpu >= 2
    /\ MaxReqs \in Nat /\ MaxMsgs \in Nat

ASSUME MachineAssumption ==
    Machines \subseteq
        [transport : {"mmio", "pci"}, bus : Seq(STRING), offered : SUBSET Nat, accepts : BOOLEAN,
         kind : [PortIds -> {"plugged", "gone", "absent"}], name : [PortIds -> Names],
         line : Seq([k : STRING, v : Nat]), doorbell : Nat, secs : Nat,
         api : {"old", "mem_obj", "newer"}, kernel : {"none", "bad", "ok"}]

VARIABLES
    mem,     \* bump allocators: bytes and pages handed out, has a request failed
    smp,     \* arch_start_secondary_cpus, cpu_ready and CPU 0's event register
    hw,      \* last hwbcc response and what the client made of it
    server   \* test server: its verdict, number of messages, has it hung up

bootVars == <<mem, smp, hw, server>>
vars == <<pc, queueVars, deviceVars, consoleVars, bootVars>>

Prefix == <<Tok("b", 0), Tok(" ", 0)>>   \* boottest_cmd
DevSize == 56                            \* struct trusty_ipc_dev
ParamsSize == 24                         \* serialized boot parameters
HeapSize == 56 + 6 * 4
PageCount == 3
DiceCap == 3                             \* HWBCC_MAX_RESP_PAYLOAD_SIZE
HandoverSize == 2                        \* bcc_handover_size

Go(next) == pc' = next /\ UNCHANGED <<queueVars, deviceVars, consoleVars>>

\* log_msg; the texts are told apart by name and are longer than a chunk.
LogMsg(name, next) == LogBuf([i \in 1 .. Body + 1 |-> Tok(name, i)], next)

(***************************************************************************)
(* The allocator of test-runner-sysdeps.c, which never takes memory back.  *)
(***************************************************************************)

CallocFits(n) == mem.heap + n <= HeapSize

Calloc(n) ==
    mem' = IF CallocFits(n) THEN [mem EXCEPT !.heap = @ + n] ELSE [mem EXCEPT !.failed = TRUE]

\* Mutant of PagesFit: off by one.
PagesFitBelow(m, n) == m.pages + n < PageCount

PagesFit(m, n) == m.pages + n <= PageCount

\* trusty_alloc_pages, for one page.
AllocPage(m) == IF PagesFit(m, 1) THEN [m EXCEPT !.pages = @ + 1] ELSE [m EXCEPT !.failed = TRUE]

\* trusty_abort, which trusty_free_pages and trusty_fatal end in: it goes on
\* wherever the compiler has put the next code.
Abort == HostExit(2, "astray")

\* A return through a broken frame or a run into other code, and a failed
\* assertion: the only one that fails does so before there is a port.
Astray ==
    /\ pc \in {"astray", "assert"}
    /\ LogNowhere
    /\ UNCHANGED <<queueVars, deviceVars, consoleVars, bootVars>>

(***************************************************************************)
(* boot(), up to the command line.                                         *)
(***************************************************************************)

\* boot_arm64 supports per-cpu doorbell interrupts only.
BootArm64 ==
    /\ pc = "start"
    /\ Go(IF host.doorbell < 32 THEN "probe" ELSE "error")
    /\ UNCHANGED bootVars

InitLog ==
    /\ pc = "scanned"
    /\ IF NamedPorts("testrunner0") # {} /\ ports[PortOf("testrunner0")].host
       THEN ConnectPort("testrunner0", "log_in", "log_out", "log_open")
       ELSE Go("error")
    /\ UNCHANGED bootVars

LogOpened ==
    /\ pc = "log_opened"
    /\ PortOpened
    /\ Recv("log_in", CmdSize, "cmdline")
    /\ UNCHANGED <<got, deviceVars, host, dev, cur, log, logged, hostLog, rpmb, bootVars>>

\* starts_with: the prefix ends before the line does.
StartsWith(prefix, line) == Len(line) > Len(prefix) /\ IsPrefix(prefix, line)

\* host_get_cmdline keeps room for the terminator.
Cmdline == SubSeq(got, 1, Min({CmdSize - 1, Len(got)}))

GetCmdline ==
    /\ pc = "cmdline"
    /\ Go(IF StartsWith(Prefix, Cmdline) THEN "dev_init" ELSE "boot_next")
    /\ UNCHANGED bootVars

\* load_image: there is an image and the transfer succeeds.
LoadImage(image) == image = "ok"

\* The result of loading the ramdisk is ignored.
BootNext ==
    /\ pc = "boot_next"
    /\ Go(IF LoadImage(host.kernel) THEN "next_os" ELSE "error")
    /\ UNCHANGED bootVars

(***************************************************************************)
(* boot(), libtipc.                                                        *)
(***************************************************************************)

\* trusty_dev_init: the two message buffers of FF-A, or a return on a version
\* it does not know.
DevInit ==
    /\ pc = "dev_init"
    /\ IF host.api = "newer" THEN Go("error") /\ UNCHANGED mem
       ELSE IF host.api = "old" THEN Go("dev_create") /\ UNCHANGED mem
       ELSE /\ mem' = AllocPage(AllocPage(mem))
            /\ \/ ~mem'.failed /\ Go("dev_create")
               \/ Abort
    /\ UNCHANGED <<smp, hw, server>>

\* trusty_ipc_dev_create: the device, its buffer; when sharing the buffer or the
\* initialisation fails the buffer is freed.
DevCreate ==
    /\ pc = "dev_create"
    /\ LET m == IF CallocFits(DevSize) THEN [mem EXCEPT !.heap = @ + DevSize]
                                       ELSE [mem EXCEPT !.failed = TRUE]
       IN  IF m.failed THEN mem' = m /\ Go("error")
           ELSE /\ mem' = AllocPage(m)
                /\ IF mem'.failed THEN Go("error") ELSE Go("rpmb_scan") \/ Abort
    /\ UNCHANGED <<smp, hw, server>>

InitRpmb ==
    /\ pc = "rpmb_scan"
    /\ IF NamedPorts("rpmb0") = {} THEN LogMsg("no_rpmb", "km_init")
       ELSE IF ~ports[PortOf("rpmb0")].host THEN Go("assert")
       ELSE ConnectPort("rpmb0", "rpmb_in", "rpmb_out", "rpmb_open")
    /\ UNCHANGED bootVars

RpmbOpened ==
    /\ pc = "rpmb_opened"
    /\ PortOpened
    /\ pc' = "proxy"
    /\ UNCHANGED <<queueVars, deviceVars, host, dev, cur, log, logged, hostLog, rpmb, bootVars>>

\* A call that either works or is logged, and ends the boot.
Call(at, text, next) ==
    /\ pc = at
    /\ Go(next) \/ LogMsg(text, "error")
    /\ UNCHANGED bootVars

\* trusty_set_boot_params: the serialized parameters, the request, its answer.
SetBootParams ==
    /\ pc = "km_params"
    /\ Calloc(ParamsSize)
    /\ \/ ~mem'.failed /\ Go("hwbcc_init")
       \/ LogMsg("km_params", "error")
    /\ UNCHANGED <<smp, hw, server>>

(***************************************************************************)
(* hwbcc: what the service answers is one of Responses (external), empty   *)
(* when a request cannot be sent or nothing is received.                   *)
(***************************************************************************)

Responses ==
    {<<>>, <<GetDice + RespBit, 0>>,
     <<GetDice + RespBit, 0, 2, 7, 8>>, <<GetDice + RespBit, 0, 1, 7>>,
     <<GetDice + RespBit, 0, 2, 7>>, <<GetDice + RespBit, 0, 4, 7, 8, 9, 9>>,
     <<GetDice + RespBit, 1, 0>>, <<Deprivilege + RespBit, 0, 0>>}

NoResponse == [msg |-> <<>>, res |-> [rc |-> Err, size |-> 0, data |-> <<>>]]

\* hwbcc_get_dice_artifacts, with what is logged when it fails (at the first
\* call) or does not fail (after the service was told to refuse).
GetDiceArtifacts(at, failed, done, next) ==
    /\ pc = at
    /\ \E m \in Responses :
          LET r == ReadResponseWithData(GetDice, m, DiceCap)
          IN  /\ hw' = [msg |-> m, res |-> r]
              /\ LET text == IF r.rc = 0 THEN done ELSE failed
                 IN  IF text = "" THEN Go(next) ELSE LogMsg(text, next)
    /\ UNCHANGED <<mem, smp, server>>

\* The size is zero unless the client set it.
CheckSize ==
    /\ pc = "dice_size"
    /\ IF hw.res.size = HandoverSize THEN Go("depriv") ELSE LogMsg("dice_size", "depriv")
    /\ UNCHANGED bootVars

\* hwbcc_ns_deprivilege.
NsDeprivilege ==
    /\ pc = "depriv"
    /\ \E m \in Responses :
          IF ReadHeaderOnlyResponse(Deprivilege, m) = 0 THEN Go("shutdown")
                                                         ELSE LogMsg("depriv", "shutdown")
    /\ UNCHANGED bootVars

\* hwbcc_tipc_shutdown; the buffer and the size are cleared or not used again.
Shutdown(at, next) ==
    /\ pc = at
    /\ Go(next)
    /\ hw' = NoResponse
    /\ UNCHANGED <<mem, smp, server>>

(***************************************************************************)
(* arch_start_secondary_cpus.  smp.k is the number in x1.                  *)
(***************************************************************************)

\* The CPUs there are stacks for.
LastCpu == Min({host.secs, MaxCpu - 1})

\* PSCI CPU_ON for the next CPU, the first one even when there is none.  A failure
\* leaves the stack pointer 16 bytes off, and boot() cannot return.
CpuOn ==
    /\ pc = "cpu_on"
    /\ \/ /\ smp.k <= host.secs
          /\ smp' = [smp EXCEPT !.on = @ \cup {smp.k},
                                !.k = IF smp.k + 1 <= LastCpu THEN smp.k + 1 ELSE 0]
          /\ Go(IF smp.k + 1 <= LastCpu THEN "cpu_on" ELSE "cpu_wait")
       \/ LogMsg("cpus", "astray") /\ UNCHANGED smp
    /\ UNCHANGED <<mem, hw, server>>

\* _start on a secondary CPU: an entry in cpu_ready, then an event.
SecondaryStart(c) ==
    /\ c \in smp.on /\ smp.ready[c] # c
    /\ smp' = [smp EXCEPT !.ready[c] = c, !.event = TRUE]
    /\ UNCHANGED <<pc, queueVars, deviceVars, consoleVars, mem, hw, server>>

\* wfe returns at once when the event register is set, and clears it...
CpuWait ==
    /\ pc = "cpu_wait" /\ smp.event
    /\ smp' = [smp EXCEPT !.event = FALSE]
    /\ Go("cpu_look")
    /\ UNCHANGED <<mem, hw, server>>

\* ... and may return without an event.
WfeReturns ==
    /\ pc = "cpu_wait" /\ ~smp.event
    /\ Go("cpu_look")
    /\ UNCHANGED bootVars

\* Mutant of MoreCpus: the last CPU is not waited for.
MoreCpusBelow(k) == k + 1 < LastCpu

\* Is there a CPU to wait for after CPU k?
MoreCpus(k) == k + 1 <= LastCpu

CpuLook ==
    /\ pc = "cpu_look"
    /\ IF smp.ready[smp.k] # smp.k THEN Go("cpu_wait") /\ UNCHANGED smp
       ELSE /\ smp' = [smp EXCEPT !.k = @ + 1]
            /\ Go(IF MoreCpus(smp.k) THEN "cpu_wait" ELSE "connect")
    /\ UNCHANGED <<mem, hw, server>>

(***************************************************************************)
(* The test server.                                                        *)
(***************************************************************************)

\* trusty_ipc_recv in the loop, by the first byte of the message; an error, a
\* message that fills the buffer and an unknown one end the boot.
RecvResultByte ==
    /\ pc = "recv"
    /\ \/ /\ server.msgs < MaxMsgs
          /\ server' = [server EXCEPT !.msgs = @ + 1]
          /\ LogMsg("server", "recv")
       \/ \E v \in {"passed", "failed"} : server' = [server EXCEPT !.verdict = v] /\ Go("close")
       \/ Go("error") /\ UNCHANGED server
    /\ UNCHANGED <<mem, smp, hw>>

\* Mutant of ExitAfter: any result of the second read is taken for the end.
ExitAfterAny(closed) == "exit"

\* Where boot() goes when the read after the verdict has returned.
ExitAfter(closed) == IF closed THEN "exit" ELSE "error"

WaitForClose ==
    /\ pc = "close"
    /\ \E closed \in BOOLEAN : server' = [server EXCEPT !.closed = closed] /\ Go(ExitAfter(closed))
    /\ UNCHANGED <<mem, smp, hw>>

\* host_exit with the status, after which boot() returns like after an error.
ReportStatus ==
    /\ pc = "exit"
    /\ HostExit(IF server.verdict # "passed" THEN 1 ELSE 0, "error")
    /\ UNCHANGED bootVars

(***************************************************************************)
(* Calls of the storage proxy.                                             *)
(***************************************************************************)

\* Where CPU 0 waits in libtipc with the proxy running, first in the loop of
\* rpmb_storage_proxy_init itself.
Polling == {"proxy", "km_init", "km_params", "hwbcc_init", "dice", "depriv", "hwbcc_again",
            "dice_again", "connect", "recv", "close"}

StorageRequest ==
    /\ pc \in Polling /\ vq["rpmb_out"].raw
    /\ Len(rpmb.issued) < MaxReqs
    /\ \E c \in Cmds : RpmbSend(c, pc)
    /\ UNCHANGED bootVars

(***************************************************************************)
(* The specification.                                                      *)
(***************************************************************************)

Init ==
    /\ host \in Machines
    /\ pc = "start"
    /\ vq = [q \in Vqs |-> NewVq] /\ io = NoIo /\ got = <<>>
    /\ attached = [q \in QueueIds |-> "none"] /\ notified = {} /\ lastAvail = [q \in QueueIds |-> 0]
    /\ dev = [features |-> {}, ok |-> FALSE, busy |-> FALSE, added |-> MaxPorts,
              todo |-> <<>>, open |-> {}, dropped |-> FALSE]
    /\ ports = [p \in PortIds |-> NoPort]
    /\ cur = 0
    /\ log = NoLog /\ logged = <<>> /\ hostLog = <<>>
    /\ rpmb = [cmd |-> NoCmd, next |-> "none", issued |-> <<>>, answer |-> <<>>,
               stream |-> <<>>, executed |-> <<>>, reply |-> <<>>]
    /\ mem = [heap |-> 0, pages |-> 0, failed |-> FALSE]
    /\ smp = [k |-> 1, on |-> {}, ready |-> [c \in 0 .. MaxCpu - 1 |-> 0], event |-> FALSE]
    /\ hw = NoResponse
    /\ server = [verdict |-> "none", msgs |-> 0, closed |-> FALSE]

Libtipc ==
    \/ DevInit \/ DevCreate
    \/ Call("proxy", "proxy", "km_init")
    \/ Call("km_init", "km_init", "km_params")
    \/ SetBootParams
    \/ Call("hwbcc_init", "hwbcc_init", "dice")
    \/ GetDiceArtifacts("dice", "dice", "", "dice_size") \/ CheckSize
    \/ NsDeprivilege \/ Shutdown("shutdown", "hwbcc_again")
    \/ Call("hwbcc_again", "hwbcc_init", "dice_again")
    \/ GetDiceArtifacts("dice_again", "", "broken", "shutdown_again")
    \/ Shutdown("shutdown_again", "cpu_on")
    \/ Call("connect", "connect", "recv")
    \/ RecvResultByte \/ WaitForClose

Console ==
    /\ \/ ConsoleInit \/ LogChunk \/ RpmbStep \/ RpmbEnd
       \/ OpenPort("log_open", "log_opened")
       \/ OpenPort("rpmb_open", "rpmb_opened")
    /\ UNCHANGED bootVars

Boot ==
    \/ BootArm64 \/ InitLog \/ LogOpened \/ GetCmdline \/ BootNext
    \/ InitRpmb \/ RpmbOpened
    \/ CpuOn \/ CpuWait \/ CpuLook
    \/ ReportStatus \/ Astray
    \/ Console
    \/ (DriverIo /\ UNCHANGED <<consoleVars, bootVars>>)

Host == HostStep /\ UNCHANGED bootVars
Secondary == \E c \in 1 .. MaxCpu - 1 : SecondaryStart(c)

Next == Boot \/ Libtipc \/ StorageRequest \/ WfeReturns \/ Secondary \/ Host

\* CPU 0, the device and each secondary CPU keep running, and every call into
\* libtipc returns.  wfe returns in the end without an event too, as on the
\* emulator the runner is written for.
Fairness ==
    /\ WF_vars(Boot) /\ WF_vars(Libtipc) /\ WF_vars(WfeReturns)
    /\ WF_vars(Secondary) /\ WF_vars(Host)

Spec == Init /\ [][Next]_vars /\ Fairness

(***************************************************************************)
(* Properties.                                                             *)
(***************************************************************************)

\* Scanning the control queue is over.
Scanned == pc \notin {"start", "probe", "negotiate", "setup", "scan", "get", "poll", "msg", "ready",
                      "error", "hung", "assert"}
           /\ (pc = "io" => io.next # "get")

TypeOK ==
    /\ io.q \in Vqs /\ io.step \in {"none", "publish", "kick", "wait"}
    /\ \A q \in Vqs : /\ vq[q].avail < IdxMod /\ vq[q].used < IdxMod /\ vq[q].old < IdxMod
                      /\ \A i \in Slots : vq[q].ring[i] \in Slots
    /\ \A q \in QueueIds : attached[q] \in Vqs \cup {"none"} /\ lastAvail[q] < IdxMod
    /\ notified \subseteq QueueIds
    /\ \A p \in PortIds : ports[p].name \in Names \cup {NoName}
    /\ cur \in Slots \cup PortIds
    /\ rpmb.cmd \in Cmds \cup {NoCmd}
    /\ mem.heap \in 0 .. HeapSize /\ mem.pages \in 0 .. PageCount
    /\ smp.k \in 0 .. MaxCpu /\ smp.on \subseteq 1 .. MaxCpu - 1
    /\ server.verdict \in {"none", "passed", "failed"} /\ server.msgs \in 0 .. MaxMsgs

\* No announcement of the host is lost, however late the driver gets to a message:
\* 2 * MAX_PORTS buffers are enough for one addition and one removal of every
\* port, as control_setup says, and also for the answers to port_ready.
NoneDropped == ~dev.dropped

\* When control_scan returns, the driver knows the ports the host has, with
\* their names, and no others, though port_ready reads a buffer it has given
\* back to the device.
PortsKnown ==
    Scanned => \A p \in PortIds :
        IF host.kind[p] = "plugged" THEN ports[p].host /\ ports[p].name = host.name[p]
                                    ELSE ~ports[p].host /\ ports[p].name = NoName

\* The only assertions that can fail are the two of init_virtio_console, on a machine
\* whose console does not offer or accept the features.  On all others the ports are
\* connected when port_ready and rpmb_scan find them, and answers of the RPMB device
\* are whole when rpmb_storage_send returns.
AssertsHold == pc = "assert" => ~Usable

\* The host receives what log_buf and host_exit were given, in that order and
\* nothing twice, whatever was sent on other queues in between; a call has
\* returned only when all of it has arrived.  What is logged before there is a port
\* (the PCI probe, the assertions of init_virtio_console) does not count: it is lost.
LogExact ==
    /\ IsPrefix(hostLog, logged)
    /\ pc \notin {"io", "log"} => hostLog = logged

\* The host is told that tests passed or failed only when the server said so and
\* then hung up, and nothing follows on the port.
VerdictTrue ==
    \A i \in DOMAIN hostLog :
        hostLog[i].k = "exit" =>
            /\ i = Len(hostLog)
            /\ hostLog[i].v = 0 => server.verdict = "passed" /\ server.closed
            /\ hostLog[i].v = 1 => server.verdict = "failed" /\ server.closed

\* The allocators, which never take memory back, have just enough for every
\* boot: no allocation fails.
AllocFits == ~mem.failed

\* The server is connected to when every secondary CPU that was started has gone
\* through _start, also when events were lost or came before the wait.
SecondariesFirst ==
    pc \in {"connect", "recv", "close", "exit"} =>
        smp.on = 1 .. LastCpu /\ \A c \in smp.on : smp.ready[c] = c

\* hwbcc_get_dice_artifacts succeeds only with the payload of a response to its own
\* request, all of it and no more.
DiceWhole ==
    hw.res.rc = 0 =>
        /\ hw.msg[1] = GetDice + RespBit /\ hw.msg[2] = 0
        /\ hw.res.data = SubSeq(hw.msg, HdrLen + 1, Len(hw.msg))
        /\ hw.res.size = Len(hw.res.data)

Blocks(c, n) == [i \in 1 .. c.read |-> Tok("block", n)]

Transport == INSTANCE RpmbTransport WITH
    None <- NoCmd, Executed <- Frame, Answer <- Blocks,
    cmd <- rpmb.cmd,
    queue <- SubSeq(rpmb.issued, Len(rpmb.executed) + 1, Len(rpmb.issued)),
    done <- rpmb.executed,
    answer <- rpmb.answer

\* rpmb_storage_send, cut into five transfers on two queues that run in parallel
\* with the device, delivers whole commands in order and returns the answer to
\* its own command.
RpmbFifo == Transport!TSpec

\* What is logged before there is a port may keep CPU 0 for ever.
LogsNowhere == (host.transport = "pci" /\ ~ProbePci(host.bus)) \/ ~Usable

\* Except on the machines of LogsNowhere a boot ends, with code 2 or in the next
\* operating system, or goes astray after trusty_abort or a failed CPU_ON, and nothing
\* is promised of what it does then.  Every buffer given to the device comes back
\* and CPU 0 does not wait for a CPU that has already reported: it does not hang.
BootEnds == ~LogsNowhere => <>(pc \in {"error", "next_os", "astray"})
=============================================================================
