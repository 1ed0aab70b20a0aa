---------------------------- MODULE VirtConsole ----------------------------
(***************************************************************************)
(* The multiport console of the test runner and what runs over its ports:  *)
(* probing and negotiation (virtio-mmio.c, virtio-pci.c), the control      *)
(* protocol (virtio-console.c), the log and verdict port                   *)
(* (test-runner-comm-port.c) and the RPMB port (test-runner-storage.c).    *)
(*                                                                         *)
(* The host (external) is modelled from the comments of these files: it    *)
(* adds all ports in one sequence when the driver is ready, answers a      *)
(* PORT_READY with the name of the port and that it is open, drops a       *)
(* control message when the driver has no buffer for it, and has queued    *)
(* its answers before it gives back the message it answers.                *)
(***************************************************************************)
EXTENDS VirtQueue, SequencesExt

CONSTANTS
    MaxPorts,  \* MAX_PORTS
    CmsgMax,   \* CMSG_IN_MAX: a header and a name
    Body       \* TESTRUNNER0_BUF_SIZE - sizeof(struct msg)

ASSUME ConsoleAssumption ==
    /\ MaxPorts \in Nat \ {0} /\ CmsgMax \in Nat /\ CmsgMax >= 2 /\ Body \in Nat \ {0}
    /\ VqSize = 2 * MaxPorts

PortIds == 0 .. MaxPorts - 1
QueueIds == 0 .. 2 * MaxPorts + 1
Names == {"testrunner0", "rpmb0", "other"}
NoName == ""
Tok(kind, value) == [k |-> kind, v |-> value]

VARIABLES
    host,    \* the machine: transport, bus, offered features and whether it accepts
             \* the chosen ones, ports, command line
    dev,     \* the console device: features, ports announced, messages to send, open ports
    ports,   \* console.ports
    cur,     \* the control buffer, or the port, the driver is busy with
    log,     \* log_buf: what is left to send, and where to go on
    logged,  \* history: everything logged, and the verdicts
    hostLog, \* host: what it received on testrunner0
    rpmb     \* rpmb_storage_send, and the RPMB device of the host

NoCmd == [rel |-> 0, write |-> 0, read |-> 0]

consoleVars == <<host, dev, ports, cur, log, logged, hostLog, rpmb>>

NoPort == [host |-> FALSE, guest |-> FALSE, name |-> NoName]
Multiport == 1
Desired == {Multiport}

(***************************************************************************)
(* init_virtio_console.                                                    *)
(***************************************************************************)

\* A message logged before there is a port, that of a failed assertion too, goes
\* through a null pointer: the processor faults, which ends the run with code 2,
\* or the message is lost and the first transfer on a console that cannot be used
\* never ends.
LogNowhere == pc' \in {"error", "hung"}

\* virtio_probe_console, mmio: the bus ends with the first slot without magic.
ProbeMmio(bus) ==
    \E i \in DOMAIN bus : bus[i] = "console" /\ \A j \in 1 .. i : bus[j] # "none"

\* virtio_probe_console, PCI: all functions are looked at.  The first console must
\* have a capabilities list, with the two configurations in one BAR.
ProbePci(bus) ==
    \E i \in DOMAIN bus :
        bus[i] = "console" /\ \A j \in 1 .. i - 1 : bus[j] \notin {"no_caps", "two_bars"}

\* Only the PCI probe logs why there is no console.
Probe ==
    /\ pc = "probe"
    /\ IF host.transport = "mmio" THEN pc' = IF ProbeMmio(host.bus) THEN "negotiate" ELSE "error"
       ELSE IF ProbePci(host.bus) THEN pc' = "negotiate" ELSE LogNowhere
    /\ UNCHANGED <<queueVars, deviceVars, consoleVars>>

\* virtio_set_features: bits 16 to 31 are lost on the way.
SetFeatures(f) == {b \in f : b < 16 \/ b >= 32}

\* Both assertions of init_virtio_console hold: the console offers what is desired,
\* and accepts what was set.
Usable == Desired \subseteq host.offered /\ host.accepts

\* Reset, acknowledge, negotiate.
Negotiate ==
    /\ pc = "negotiate"
    /\ IF Usable THEN pc' = "setup" /\ dev' = [dev EXCEPT !.features = SetFeatures(Desired)]
                 ELSE pc' = "assert" /\ UNCHANGED dev
    /\ UNCHANGED <<queueVars, deviceVars, host, ports, cur, log, logged, hostLog, rpmb>>

\* control_setup makes all buffers available, then the driver is ready and
\* control_scan forgets all ports.
ControlSetup ==
    /\ pc = "setup"
    /\ LET in == VqInit([vq["ctl_in"] EXCEPT !.qid = ControlIn], TRUE)
           out == VqInit([vq["ctl_out"] EXCEPT !.qid = ControlOut], FALSE)
       IN  vq' = [vq EXCEPT !["ctl_out"] = out,
                            !["ctl_in"] = [in EXCEPT
                                !.ring = [i \in Slots |-> i],
                                !.desc = [i \in Slots |-> [data |-> <<>>, len |-> CmsgMax]],
                                !.avail = VqSize % IdxMod]]
    /\ attached' = VqAttach(VqAttach(attached, "ctl_in", ControlIn), "ctl_out", ControlOut)
    /\ dev' = [dev EXCEPT !.ok = TRUE]
    /\ ports' = [p \in PortIds |-> NoPort]
    /\ pc' = "scan"
    /\ UNCHANGED <<io, got, notified, lastAvail, host, cur, log, logged, hostLog, rpmb>>

(***************************************************************************)
(* control_scan.                                                           *)
(***************************************************************************)

Scan ==
    /\ pc = "scan"
    /\ Send("ctl_out", <<Tok("DEVICE_READY", 0)>>, "get")
    /\ UNCHANGED <<got, deviceVars, consoleVars>>

\* get_control_msg: the message of the next buffer, if there is one.
TakeMsg ==
    /\ VqReady(vq["ctl_in"])
    /\ cur' = vq["ctl_in"].old % VqSize
    /\ vq' = [vq EXCEPT !["ctl_in"] = VqAdv(@)]
    /\ pc' = "msg"
    /\ UNCHANGED notified

\* Without a message the device is notified and the queue looked at again.
GetMsg ==
    /\ pc = "get"
    /\ \/ TakeMsg
       \/ ~VqReady(vq["ctl_in"]) /\ Kick("ctl_in") /\ pc' = "poll" /\ UNCHANGED <<cur, vq>>
    /\ UNCHANGED <<io, got, attached, lastAvail, host, dev, ports, log, logged, hostLog, rpmb>>

PollMsg ==
    /\ pc = "poll"
    /\ \/ TakeMsg
       \/ ~VqReady(vq["ctl_in"]) /\ pc' = "scanned" /\ UNCHANGED <<cur, vq, notified>>
    /\ UNCHANGED <<io, got, attached, lastAvail, host, dev, ports, log, logged, hostLog, rpmb>>

Msg == vq["ctl_in"].desc[cur].data

\* Mutant of Release: a buffer is kept when the message adds a port.
ReleaseOthers ==
    IF Msg[1].k = "DEVICE_ADD" THEN UNCHANGED vq
    ELSE vq' = [vq EXCEPT !["ctl_in"] = MakeAvail(@, cur)]

\* release_control_msg.
Release == vq' = [vq EXCEPT !["ctl_in"] = MakeAvail(@, cur)]

\* Mutant of PortsAfter: a removed port stays connected.
PortsAfterAdd(event, p) ==
    CASE event \in {"DEVICE_ADD", "DEVICE_REMOVE"} -> [ports EXCEPT ![p].host = TRUE, ![p].name = NoName]
      [] event = "PORT_NAME" -> [ports EXCEPT ![p].name = Msg[2].k]
      [] OTHER -> ports

\* Mutant of PortsAfter: a port is connected when it is opened, not when it is added.
PortsAfterOpen(event, p) ==
    CASE event = "DEVICE_ADD" -> [ports EXCEPT ![p].name = NoName]
      [] event = "PORT_OPEN" -> [ports EXCEPT ![p].host = TRUE]
      [] event = "DEVICE_REMOVE" -> [ports EXCEPT ![p].host = FALSE]
      [] event = "PORT_NAME" -> [ports EXCEPT ![p].name = Msg[2].k]
      [] OTHER -> ports

\* What a control message changes; a name comes after the header.
PortsAfter(event, p) ==
    CASE event = "DEVICE_ADD" -> [ports EXCEPT ![p].host = TRUE, ![p].name = NoName]
      [] event = "DEVICE_REMOVE" -> [ports EXCEPT ![p].host = FALSE]
      [] event = "PORT_NAME" -> [ports EXCEPT ![p].name = Msg[2].k]
      [] OTHER -> ports

\* The cases of the switch; DEVICE_ADD goes on to port_ready.
HandleMsg(event) ==
    /\ pc = "msg" /\ Msg[1].k = event
    /\ ports' = PortsAfter(event, Msg[1].v)
    /\ Release
    /\ pc' = IF event = "DEVICE_ADD" THEN "ready" ELSE "get"
    /\ UNCHANGED <<io, got, deviceVars, host, dev, cur, log, logged, hostLog, rpmb>>

\* port_ready reads the id out of the released buffer.
PortReady ==
    /\ pc = "ready"
    /\ IF ports[Msg[1].v].host THEN Send("ctl_out", <<Tok("PORT_READY", Msg[1].v)>>, "get")
                               ELSE pc' = "assert" /\ UNCHANGED <<vq, io>>
    /\ UNCHANGED <<got, deviceVars, consoleVars>>

Events == {"DEVICE_ADD", "DEVICE_REMOVE", "PORT_NAME", "PORT_OPEN"}

ConsoleInit ==
    \/ Probe \/ Negotiate \/ ControlSetup \/ Scan \/ GetMsg \/ PollMsg \/ PortReady
    \/ \E e \in Events : HandleMsg(e)

(***************************************************************************)
(* Connecting the queues of a port.                                        *)
(***************************************************************************)

\* testrunner_msg_scan and rpmb_scan: the first port of that name.
NamedPorts(n) == {p \in PortIds : ports[p].name = n}
PortOf(n) == Min(NamedPorts(n))

\* virtio_console_q: the control queues come after the queues of port 0.
ConsoleQ(p) == 2 * p + (IF p >= 1 THEN 2 ELSE 0)

\* vq_init and virtio_console_connect_port up to port_open.
ConnectPort(n, in, out, next) ==
    LET id == ConsoleQ(PortOf(n))
    IN  /\ vq' = [vq EXCEPT ![in] = VqInit([@ EXCEPT !.qid = id], TRUE),
                            ![out] = VqInit([@ EXCEPT !.qid = id + 1], FALSE)]
        /\ attached' = VqAttach(VqAttach(attached, in, id), out, id + 1)
        /\ cur' = PortOf(n)
        /\ pc' = next
        /\ UNCHANGED <<io, got, notified, lastAvail, host, dev, ports, log, logged, hostLog, rpmb>>

\* port_open: the message, and once it is sent...
OpenPort(at, next) ==
    /\ pc = at
    /\ Send("ctl_out", <<Tok("PORT_OPEN", cur)>>, next)
    /\ UNCHANGED <<got, deviceVars, consoleVars>>

\* ... the bookkeeping.
PortOpened == ports' = [ports EXCEPT ![cur].guest = TRUE]

(***************************************************************************)
(* log_buf and host_exit.                                                  *)
(***************************************************************************)

NoLog == [left |-> <<>>, next |-> "none"]

\* log_buf and log_msg, after which CPU 0 is at next.
LogBuf(text, next) ==
    /\ log' = [left |-> text, next |-> next]
    /\ logged' = logged \o text
    /\ pc' = "log"
    /\ UNCHANGED <<queueVars, deviceVars, host, dev, ports, cur, hostLog, rpmb>>

\* Mutant of LogRest: the offset is not moved by the whole chunk.
LogRestByOne(n) == Tail(log.left)

\* What is left after n bytes were copied.
LogRest(n) == SubSeq(log.left, n + 1, Len(log.left))

\* The next part of the text is sent, in a message of constant size.
LogChunk ==
    /\ pc = "log"
    /\ LET n == Min({Body, Len(log.left)})
       IN  IF n = 0 THEN pc' = log.next /\ log' = NoLog /\ UNCHANGED <<vq, io>>
           ELSE /\ Send("log_out", SubSeq(log.left, 1, n), "log")
                /\ log' = [log EXCEPT !.left = LogRest(n)]
    /\ UNCHANGED <<got, deviceVars, host, dev, ports, cur, logged, hostLog, rpmb>>

\* host_exit, which returns.
HostExit(code, next) ==
    /\ Send("log_out", <<Tok("exit", code)>>, next)
    /\ logged' = Append(logged, Tok("exit", code))
    /\ UNCHANGED <<got, deviceVars, host, dev, ports, cur, log, hostLog, rpmb>>

(***************************************************************************)
(* rpmb_storage_send.                                                      *)
(***************************************************************************)

Frame(c) == <<Tok("u16", c.read), Tok("u16", c.rel + c.write)>>
            \o [i \in 1 .. c.rel |-> Tok("rel", i)] \o [i \in 1 .. c.write |-> Tok("write", i)]

\* The command starts with the number of blocks to read; next is where the
\* call was made.  Sizes are whole blocks: the caller, proxy_handle_rpmb, has
\* refused all others before (RpmbValid of RpmbProxy), so that the assertions on
\* the sizes hold; those on what was sent compare the result of send_vq, which
\* is its argument, with that argument.
RpmbSend(c, next) ==
    /\ Send("rpmb_out", <<Tok("u16", c.read)>>, "rpmb_count")
    /\ rpmb' = [rpmb EXCEPT !.cmd = c, !.next = next, !.issued = Append(@, c)]
    /\ UNCHANGED <<got, deviceVars, host, dev, ports, cur, log, logged, hostLog>>

\* Mutant of CmdCount: only the blocks of the plain write are counted.
CmdCountWrite(c) == c.write

CmdCount(c) == c.rel + c.write

RpmbStep ==
    LET c == rpmb.cmd
    IN  /\ \/ pc = "rpmb_count" /\ Send("rpmb_out", <<Tok("u16", CmdCount(c))>>, "rpmb_rel")
           \/ pc = "rpmb_rel" /\ Send("rpmb_out", [i \in 1 .. c.rel |-> Tok("rel", i)], "rpmb_write")
           \/ pc = "rpmb_write" /\ Send("rpmb_out", [i \in 1 .. c.write |-> Tok("write", i)], "rpmb_read")
           \/ pc = "rpmb_read" /\ Recv("rpmb_in", c.read, "rpmb_end")
        /\ UNCHANGED <<got, deviceVars, consoleVars>>

\* All of the answer is asserted to be there.
RpmbEnd ==
    /\ pc = "rpmb_end"
    /\ LET ok == rpmb.cmd.read \in {0, Len(got)}
       IN  /\ pc' = IF ok THEN rpmb.next ELSE "assert"
           /\ rpmb' = [rpmb EXCEPT !.cmd = NoCmd, !.next = "none",
                                  !.answer = IF rpmb.cmd.read = 0 THEN <<>> ELSE got]
    /\ UNCHANGED <<queueVars, deviceVars, host, dev, ports, cur, log, logged, hostLog>>

(***************************************************************************)
(* The host (external).                                                    *)
(***************************************************************************)

\* Control messages the host sends when it handles one of the driver.
Announce(p) ==
    CASE host.kind[p] = "plugged" -> <<<<Tok("DEVICE_ADD", p)>>>>
      [] host.kind[p] = "gone" -> <<<<Tok("DEVICE_ADD", p)>>, <<Tok("DEVICE_REMOVE", p)>>>>
      [] OTHER -> <<>>

Answers(m) ==
    IF m.k = "PORT_READY" /\ host.kind[m.v] = "plugged"
    THEN <<<<Tok("PORT_NAME", m.v), Tok(host.name[m.v], 0)>>, <<Tok("PORT_OPEN", m.v)>>>>
    ELSE <<>>

\* The device goes through a queue it was notified of until it is empty.
Notified(id) == id \in notified /\ HasBuf(id)
StillNotified(id) ==
    notified' = IF vq[attached[id]].avail = lastAvail'[id] THEN notified \ {id} ELSE notified

\* A control message of the driver is handled...
ControlTake ==
    /\ dev.ok /\ Multiport \in dev.features
    /\ Notified(ControlOut) /\ ~dev.busy
    /\ LET m == NextBuf(ControlOut).data[1]
       IN  dev' = [dev EXCEPT !.busy = TRUE, !.todo = Answers(m),
                              !.added = IF m.k = "DEVICE_READY" THEN 0 ELSE @,
                              !.open = IF m.k = "PORT_OPEN" THEN @ \cup {m.v} ELSE @]
    /\ UNCHANGED <<pc, queueVars, deviceVars, host, ports, cur, log, logged, hostLog, rpmb>>

\* ... which announces all ports if it is the first, one after the other...
ControlAdd ==
    /\ dev.todo = <<>> /\ dev.added < MaxPorts
    /\ dev' = [dev EXCEPT !.todo = Announce(dev.added), !.added = @ + 1]
    /\ UNCHANGED <<pc, queueVars, deviceVars, host, ports, cur, log, logged, hostLog, rpmb>>

\* ... each answer goes into the next buffer, or is dropped...
ControlSend ==
    /\ dev.todo # <<>>
    /\ IF HasBuf(ControlIn)
       THEN /\ UseBuf(ControlIn, Head(dev.todo), Len(Head(dev.todo)))
            /\ dev' = [dev EXCEPT !.todo = Tail(@)]
       ELSE dev' = [dev EXCEPT !.todo = Tail(@), !.dropped = TRUE] /\ UNCHANGED <<vq, lastAvail>>
    /\ UNCHANGED <<pc, io, got, attached, notified, host, ports, cur, log, logged, hostLog, rpmb>>

\* ... and the message is given back.
ControlDone ==
    /\ dev.busy /\ dev.todo = <<>> /\ dev.added = MaxPorts
    /\ UseBuf(ControlOut, <<>>, 0)
    /\ StillNotified(ControlOut)
    /\ dev' = [dev EXCEPT !.busy = FALSE]
    /\ UNCHANGED <<pc, io, got, attached, host, ports, cur, log, logged, hostLog, rpmb>>

\* Queues of a port, in the layout of a multiport console.
PortQ(p) == IF p = 0 THEN 0 ELSE 2 * (p + 1)

\* A packet for the host.
PortOut(p) ==
    /\ host.kind[p] = "plugged" /\ Notified(PortQ(p) + 1)
    /\ LET data == NextBuf(PortQ(p) + 1).data
       IN  /\ hostLog' = IF host.name[p] = "testrunner0" THEN hostLog \o data ELSE hostLog
           /\ rpmb' = IF host.name[p] = "rpmb0" THEN [rpmb EXCEPT !.stream = @ \o data] ELSE rpmb
    /\ UseBuf(PortQ(p) + 1, <<>>, 0)
    /\ StillNotified(PortQ(p) + 1)
    /\ UNCHANGED <<pc, io, got, attached, host, dev, ports, cur, log, logged>>

\* What the host has for a port: one packet, cut to the driver's buffer.
ToGuest(p) == IF host.name[p] = "testrunner0" THEN host.line ELSE rpmb.reply

PortIn(p) ==
    /\ p \in dev.open /\ host.name[p] # "other" /\ ToGuest(p) # <<>>
    /\ Notified(PortQ(p))
    /\ LET n == Min({Len(ToGuest(p)), NextBuf(PortQ(p)).len})
           rest == SubSeq(ToGuest(p), n + 1, Len(ToGuest(p)))
       IN  /\ UseBuf(PortQ(p), SubSeq(ToGuest(p), 1, n), n)
           /\ IF host.name[p] = "testrunner0"
              THEN host' = [host EXCEPT !.line = rest] /\ UNCHANGED rpmb
              ELSE rpmb' = [rpmb EXCEPT !.reply = rest] /\ UNCHANGED host
    /\ StillNotified(PortQ(p))
    /\ UNCHANGED <<pc, io, got, attached, dev, ports, cur, log, logged, hostLog>>

\* The RPMB device of the host reads two counts and that many blocks, executes
\* the command and answers with as many blocks as it was asked for.
RpmbExecute ==
    LET s == rpmb.stream
    IN  /\ Len(s) >= 2 /\ Len(s) >= 2 + s[2].v
        /\ rpmb.reply = <<>>
        /\ rpmb' = [rpmb EXCEPT
              !.stream = SubSeq(s, 3 + s[2].v, Len(s)),
              !.executed = Append(@, SubSeq(s, 1, 2 + s[2].v)),
              !.reply = [i \in 1 .. s[1].v |-> Tok("block", Len(rpmb.executed) + 1)]]
        /\ UNCHANGED <<pc, queueVars, deviceVars, host, dev, ports, cur, log, logged, hostLog>>

HostStep ==
    \/ ControlTake \/ ControlAdd \/ ControlSend \/ ControlDone \/ RpmbExecute
    \/ \E p \in PortIds : PortOut(p) \/ PortIn(p)
=============================================================================
