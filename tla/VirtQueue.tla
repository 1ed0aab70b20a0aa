----------------------------- MODULE VirtQueue -----------------------------
(***************************************************************************)
(* The split virtqueues of the test runner, src/test-runner/virtio.c, and  *)
(* how virtio-mmio.c and virtio-pci.c attach them to a device and notify   *)
(* it.  Indices are 16-bit counters that wrap (IdxMod stands for 2^16), a  *)
(* ring slot is an index modulo VqSize.  The driver uses one descriptor at *)
(* a time and waits for it; the device takes descriptors in the order in   *)
(* which they are made available.                                          *)
(*                                                                         *)
(* A buffer is a sequence of tokens, [k |-> kind, v |-> number].           *)
(***************************************************************************)
EXTENDS Naturals, Sequences, FiniteSetsExt

CONSTANTS
    VqSize,  \* VQ_SIZE
    IdxMod   \* 2^16: values of an index

ASSUME QueueAssumption ==
    /\ VqSize \in Nat \ {0} /\ IdxMod \in Nat
    /\ IdxMod > VqSize /\ IdxMod % VqSize = 0

Slots == 0 .. VqSize - 1
Vqs == {"ctl_in", "ctl_out", "log_in", "log_out", "rpmb_in", "rpmb_out"}
ControlIn == 2
ControlOut == 3

VARIABLES
    pc,        \* where CPU 0 is in boot() and the calls it makes
    vq,        \* the driver's queues: struct virtq and its struct virtq_raw
    io,        \* the running send_vq or recv_vq, and where to go on after it
    got,       \* what the last recv_vq put into its caller's buffer
    attached,  \* device: the queue attached at a queue id
    notified,  \* device: queue ids it was notified of and has not gone through
    lastAvail  \* device: per queue id, how far it has taken the available ring

queueVars == <<vq, io, got>>
deviceVars == <<attached, notified, lastAvail>>

NoBuf == [data |-> <<>>, len |-> 0]
NoIo == [q |-> "ctl_in", step |-> "none", next |-> "none"]
NewVq ==
    [raw |-> FALSE, write |-> FALSE, qid |-> 0, old |-> 0, avail |-> 0, used |-> 0,
     ring |-> [i \in Slots |-> 0], desc |-> [i \in Slots |-> NoBuf], len |-> [i \in Slots |-> 0]]

(***************************************************************************)
(* The functions of virtio.c on one queue v.                               *)
(***************************************************************************)

\* old_used_idx is not touched.
VqInit(v, input) == [v EXCEPT !.raw = TRUE, !.write = input]

SetBuf(v, d, data, n) == [v EXCEPT !.desc[d] = [data |-> data, len |-> n]]

\* vq_make_avail: the ring entry first, then the index the device looks at.
PutAvail(v, d) == [v EXCEPT !.ring[v.avail % VqSize] = d]

\* Mutant of IncAvail: the index does not wrap.
IncAvailWide(v) == [v EXCEPT !.avail = @ + 1]

IncAvail(v) == [v EXCEPT !.avail = (@ + 1) % IdxMod]
MakeAvail(v, d) == IncAvail(PutAvail(v, d))

VqReady(v) == v.used # v.old

VqAdv(v) == [v EXCEPT !.old = (@ + 1) % IdxMod]
UsedLen(v) == v.len[v.old % VqSize]

\* vq_attach: queue q gets the place id in the attachments a.
VqAttach(a, q, id) == [a EXCEPT ![id] = q]

(***************************************************************************)
(* send_vq and recv_vq, after which CPU 0 is at next.                      *)
(***************************************************************************)

\* The descriptor is filled; a call for no bytes returns at once.
StartIo(q, data, n, next) ==
    IF n = 0 THEN pc' = next /\ UNCHANGED <<vq, io>>
    ELSE LET d == vq[q].old % VqSize
         IN  /\ vq' = [vq EXCEPT ![q] = PutAvail(SetBuf(vq[q], d, data, n), d)]
             /\ io' = [q |-> q, step |-> "publish", next |-> next]
             /\ pc' = "io"

Send(q, data, next) == StartIo(q, data, Len(data), next)
Recv(q, n, next) == StartIo(q, <<>>, n, next)

PublishIo ==
    /\ pc = "io" /\ io.step = "publish"
    /\ vq' = [vq EXCEPT ![io.q] = IncAvail(@)]
    /\ io' = [io EXCEPT !.step = "kick"]
    /\ UNCHANGED <<pc, got, deviceVars>>

\* Mutant of Kick: the notification is for the queue that is last in the order of ids.
KickControl(q) == notified' = notified \cup {ControlOut}

\* vq_kick.
Kick(q) == notified' = notified \cup {vq[q].qid}

KickIo ==
    /\ pc = "io" /\ io.step = "kick"
    /\ Kick(io.q)
    /\ io' = [io EXCEPT !.step = "wait"]
    /\ UNCHANGED <<pc, vq, got, attached, lastAvail>>

\* vq_wait is over: the buffer is taken back.
FinishIo ==
    /\ pc = "io" /\ io.step = "wait"
    /\ LET v == vq[io.q]
           d == v.old % VqSize
       IN  /\ VqReady(v)
           /\ vq' = [vq EXCEPT ![io.q] = VqAdv(SetBuf(v, d, <<>>, 0))]
           /\ got' = IF v.write THEN SubSeq(v.desc[d].data, 1, UsedLen(v)) ELSE got
    /\ pc' = io.next
    /\ io' = NoIo
    /\ UNCHANGED deviceVars

DriverIo == PublishIo \/ KickIo \/ FinishIo

(***************************************************************************)
(* The device (external).                                                  *)
(***************************************************************************)

HasBuf(id) == attached[id] # "none" /\ vq[attached[id]].avail # lastAvail[id]
NextDesc(id) == vq[attached[id]].ring[lastAvail[id] % VqSize]
NextBuf(id) == vq[attached[id]].desc[NextDesc(id)]

\* The device is done with the next buffer; one it may write is overwritten as
\* far as data goes.
UseBuf(id, data, n) ==
    LET v == vq[attached[id]]
        d == NextDesc(id)
        old == v.desc[d].data
        new == IF v.write THEN data \o SubSeq(old, Len(data) + 1, Len(old)) ELSE old
    IN  /\ vq' = [vq EXCEPT ![attached[id]] =
                    [v EXCEPT !.desc[d].data = new, !.len[v.used % VqSize] = n,
                              !.used = (@ + 1) % IdxMod]]
        /\ lastAvail' = [lastAvail EXCEPT ![id] = (@ + 1) % IdxMod]
=============================================================================
