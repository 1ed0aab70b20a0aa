------------------------ MODULE TestRunnerLog_proofs ------------------------
(***************************************************************************)
(* What the host is told: theorems about the queues of the test runner's   *)
(* console, the log and the verdict.                                       *)
(***************************************************************************)
EXTENDS TestRunner_proofs, SequenceTheorems, WellFoundedInduction

\* What is logged, and all that tokens stand for.
Texts == {"no_rpmb", "proxy", "km_init", "km_params", "hwbcc_init", "dice", "broken", "dice_size",
          "depriv", "cpus", "connect", "server"}
Kinds == STRING \cup Texts \cup Names
         \cup {"DEVICE_READY", "PORT_READY", "PORT_OPEN", "DEVICE_ADD", "DEVICE_REMOVE", "PORT_NAME",
               "u16", "rel", "write", "block", "exit"}
Token == [k : Kinds, v : Nat]
Message == Seq(Token)
Idx == 0 .. IdxMod - 1
Machine ==
    [transport : {"mmio", "pci"}, bus : Seq(STRING), offered : SUBSET Nat, accepts : BOOLEAN,
     kind : [PortIds -> {"plugged", "gone", "absent"}], name : [PortIds -> Names],
     line : Message, doorbell : Nat, secs : Nat,
     api : {"old", "mem_obj", "newer"}, kernel : {"none", "bad", "ok"}]

(***************************************************************************)
(* Types.                                                                  *)
(***************************************************************************)

IsVq(v) ==
    /\ v = [raw |-> v.raw, write |-> v.write, qid |-> v.qid, old |-> v.old, avail |-> v.avail,
            used |-> v.used, ring |-> v.ring, desc |-> v.desc, len |-> v.len]
    /\ v.qid \in QueueIds /\ v.old \in Idx /\ v.avail \in Idx /\ v.used \in Idx
    /\ v.ring \in [Slots -> Slots]
    /\ v.desc \in [Slots -> [data : Message, len : Nat]]
    /\ v.len \in [Slots -> Nat]

QueueTypes ==
    /\ vq = [q \in Vqs |-> vq[q]] /\ \A q \in Vqs : IsVq(vq[q])
    /\ io.q \in Vqs /\ io.step \in {"none", "publish", "kick", "wait"}
    /\ attached \in [QueueIds -> Vqs \cup {"none"}] /\ notified \subseteq QueueIds
    /\ lastAvail \in [QueueIds -> Idx]

\* A control message of the host: if it names a port, then by its name.
Good(m) ==
    /\ m \in Message /\ m # <<>> /\ m[1].v \in PortIds
    /\ m[1].k = "PORT_NAME" => Len(m) >= 2 /\ m[2].k = host.name[m[1].v]

DevTypes ==
    /\ dev = [features |-> dev.features, ok |-> dev.ok, busy |-> dev.busy, added |-> dev.added,
              todo |-> dev.todo, open |-> dev.open, dropped |-> dev.dropped]
    /\ dev.added \in 0 .. MaxPorts
    /\ dev.todo \in Seq(Message) /\ \A i \in 1 .. Len(dev.todo) : Good(dev.todo[i])

PortTypes ==
    ports = [p \in PortIds |-> [host |-> ports[p].host, guest |-> ports[p].guest, name |-> ports[p].name]]

CurTypes == cur \in Slots /\ (pc \in {"log_open", "rpmb_open"} => cur \in PortIds)

LogTypes == log.left \in Message /\ logged \in Message /\ hostLog \in Message

RpmbTypes ==
    /\ rpmb.cmd \in Cmds \cup {NoCmd} /\ rpmb.stream \in Message /\ rpmb.reply \in Message
    /\ rpmb.executed \in Seq(Message)

ConsoleTypes == host \in Machine /\ DevTypes /\ PortTypes /\ CurTypes /\ LogTypes /\ RpmbTypes

(***************************************************************************)
(* The queues with one buffer at a time.                                   *)
(***************************************************************************)

IdleVq(v) == v.avail = v.old /\ v.used = v.old
Filled(v) == v.ring[v.old % VqSize] = v.old % VqSize
SentVq(v) == v.avail = (v.old + 1) % IdxMod /\ v.used \in {v.old, v.avail}

Out == Vqs \ {"ctl_in"}

QueueState(q) ==
    IF pc = "io" /\ io.q = q
    THEN Filled(vq[q]) /\ IF io.step = "publish" THEN IdleVq(vq[q]) ELSE SentVq(vq[q])
    ELSE IdleVq(vq[q])

OutInv ==
    /\ pc = "io" => io.q \in Out
    /\ \A q \in Out : QueueState(q)

(***************************************************************************)
(* The device and the queues it was given.                                 *)
(***************************************************************************)

Wired(q, n, d) == vq[q].raw => \E p \in PortIds : ports[p].name = n /\ vq[q].qid = ConsoleQ(p) + d

Wiring ==
    /\ \A q \in Vqs : vq[q].raw => attached[vq[q].qid] = q
    /\ \A id \in QueueIds : attached[id] # "none" => vq[attached[id]].raw /\ vq[attached[id]].qid = id
    /\ vq["ctl_in"].raw => vq["ctl_in"].qid = ControlIn
    /\ vq["ctl_out"].raw => vq["ctl_out"].qid = ControlOut
    /\ Wired("log_in", "testrunner0", 0) /\ Wired("log_out", "testrunner0", 1)
    /\ Wired("rpmb_in", "rpmb0", 0) /\ Wired("rpmb_out", "rpmb0", 1)

LastInv ==
    /\ \A q \in Vqs : IF vq[q].raw THEN lastAvail[vq[q].qid] = vq[q].used
                                   ELSE vq[q].used = 0 /\ vq[q].old = 0
    /\ \A id \in QueueIds : attached[id] = "none" => lastAvail[id] = 0

NamesInv == \A p \in PortIds : ports[p].name \in {NoName, host.name[p]}

\* What CPU 0 has not come to yet.
Unready == {"start", "probe", "negotiate", "setup"}
Unlogged == Unready \cup {"scan", "get", "poll", "msg", "ready", "scanned"}
Unstored == Early \cup {"dev_create", "rpmb_scan"}

RawInv ==
    /\ Place \in Unready => ~vq["ctl_in"].raw /\ ~vq["ctl_out"].raw
    /\ Place \in Unlogged => ~vq["log_in"].raw /\ ~vq["log_out"].raw
    /\ Place \in Unstored => ~vq["rpmb_in"].raw /\ ~vq["rpmb_out"].raw

(***************************************************************************)
(* The control queues.                                                     *)
(***************************************************************************)

\* Before the device has used every buffer once, it has used those below the
\* used index.
FreshVq(v) ==
    /\ v.used < VqSize /\ v.old <= v.used
    /\ \A i \in Slots : IF i < v.used THEN v.desc[i].data # <<>> ELSE v.ring[i] = i
    /\ IF pc = "msg" THEN v.old >= 1 /\ v.avail = VqSize + v.old - 1
                     ELSE v.avail = VqSize + v.old

CtlInInv ==
    LET v == vq["ctl_in"]
    IN  /\ v.raw => v.write /\ (FreshVq(v) \/ \A i \in Slots : v.desc[i].data # <<>>)
        /\ \A i \in Slots : v.desc[i].data # <<>> => Good(v.desc[i].data)
        /\ pc \in {"msg", "ready"} => Msg # <<>>

CtlOutInv ==
    LET v == vq["ctl_out"]
        data == v.desc[v.old % VqSize].data
    IN  /\ pc = "io" /\ io.q = "ctl_out" /\ v.used = v.old => data # <<>> /\ data[1].v \in PortIds
        /\ dev.busy => v.raw /\ pc = "io" /\ io.q = "ctl_out" /\ io.step # "publish" /\ v.used = v.old

(***************************************************************************)
(* The log.                                                                *)
(***************************************************************************)

\* What was given to the device and not taken by it yet, and what log_buf has
\* not sent yet.
Flight ==
    LET v == vq["log_out"]
    IN  IF pc = "io" /\ io.q = "log_out" /\ v.used = v.old THEN v.desc[v.old % VqSize].data ELSE <<>>

LogLeft == IF Inner = "log" THEN log.left ELSE <<>>

LogInv == logged = (hostLog \o Flight) \o LogLeft

QueueInv ==
    /\ QueueTypes /\ OutInv /\ Wiring /\ LastInv /\ NamesInv /\ RawInv /\ CtlInInv /\ CtlOutInv

LinkInv == QueueInv /\ ConsoleTypes /\ LogInv

(***************************************************************************)
(* The verdict.                                                            *)
(***************************************************************************)

Server == [verdict : {"none", "passed", "failed"}, msgs : 0 .. MaxMsgs, closed : BOOLEAN]

\* An exit code that has a meaning has been earned.
Earned(t) ==
    /\ t.v = 0 => server.verdict = "passed" /\ server.closed
    /\ t.v = 1 => server.verdict = "failed" /\ server.closed

VerdictInv ==
    /\ server \in Server
    /\ Place \in {"close", "exit"} => server.verdict \in {"passed", "failed"}
    /\ Place = "exit" => server.closed
    /\ \A i \in 1 .. Len(logged) :
          logged[i].k = "exit" => i = Len(logged) /\ Place \in Ending /\ Earned(logged[i])
(***************************************************************************)
(* Numbers.                                                                *)
(***************************************************************************)

LEMMA NatMin ==
    ASSUME NEW S \in SUBSET Nat, S # {}
    PROVE  Min(S) \in S /\ \A y \in S : Min(S) <= y
<1>1. PICK x \in S : \A y \in S : ~(<<y, x>> \in OpToRel(<, Nat))
  BY NatLessThanWellFounded, WFMin
<1>2. \A y \in S : x <= y
  <2> TAKE y \in S
  <2>1. ~(y < x)
    <3>1. y < x => <<y, x>> \in OpToRel(<, Nat)
      BY DEF OpToRel
    <3> QED BY <3>1, <1>1
  <2> QED BY <2>1
<1> QED BY <1>2 DEF Min

LEMMA Sizes ==
    /\ MaxPorts \in Nat /\ MaxPorts >= 1 /\ VqSize = 2 * MaxPorts
    /\ IdxMod \in Nat /\ IdxMod >= 2 * VqSize
<1>1. /\ MaxPorts \in Nat /\ MaxPorts >= 1 /\ VqSize = 2 * MaxPorts /\ VqSize \in Nat
      /\ IdxMod \in Nat /\ IdxMod > VqSize /\ IdxMod % VqSize = 0
  BY ConsoleAssumption, QueueAssumption
<1>2. \A m, v \in Nat : v > 0 /\ m > v /\ m < 2 * v => m % v = m - v
  OBVIOUS
<1> QED BY <1>1, <1>2

\* An index and the slot it stands for.
LEMMA IdxSlot ==
    ASSUME NEW x \in Idx
    PROVE  /\ x % VqSize \in Slots
           /\ (x + 1) % IdxMod \in Idx /\ (x + 1) % IdxMod # x
<1>1. VqSize \in Nat /\ VqSize > 0 /\ IdxMod \in Nat /\ IdxMod > 1 /\ x \in Nat
  BY Sizes DEF Idx
<1>2. x % VqSize \in 0 .. VqSize - 1
  BY <1>1
<1>3. (x + 1) % IdxMod = IF x + 1 = IdxMod THEN 0 ELSE x + 1
  BY <1>1 DEF Idx
<1> QED BY <1>1, <1>2, <1>3 DEF Slots, Idx

LEMMA SmallIdx ==
    ASSUME NEW x \in Nat, x < 2 * VqSize
    PROVE  /\ x % VqSize = IF x < VqSize THEN x ELSE x - VqSize
           /\ x + 1 < 2 * VqSize => (x + 1) % IdxMod = x + 1
           /\ x % IdxMod = x
<1>1. VqSize \in Nat /\ VqSize > 0 /\ IdxMod \in Nat /\ IdxMod >= 2 * VqSize
  BY Sizes
<1>2. x % VqSize = IF x < VqSize THEN x ELSE x - VqSize
  BY <1>1
<1>3. \A y \in Nat : y < IdxMod => y % IdxMod = y
  BY <1>1
<1> QED BY <1>1, <1>2, <1>3

\* Queue ids: different ports have different queues, and none a control queue.
LEMMA PortQueues ==
    ASSUME NEW p \in PortIds
    PROVE  /\ ConsoleQ(p) \in QueueIds /\ ConsoleQ(p) + 1 \in QueueIds /\ ConsoleQ(p) = PortQ(p)
           /\ p \in Slots
           /\ {ConsoleQ(p), ConsoleQ(p) + 1} \cap {ControlIn, ControlOut} = {}
           /\ \A r \in PortIds : /\ ConsoleQ(p) + 1 # ConsoleQ(r)
                                  /\ ConsoleQ(p) = ConsoleQ(r) => p = r
<1>1. MaxPorts \in Nat /\ p \in 0 .. MaxPorts - 1 /\ VqSize = 2 * MaxPorts
  BY Sizes DEF PortIds
<1>2. \A r \in PortIds : r \in 0 .. MaxPorts - 1
  BY DEF PortIds
<1> QED BY <1>1, <1>2 DEF ConsoleQ, PortQ, QueueIds, ControlIn, ControlOut, Slots

LEMMA PortsApart ==
    \A p, r \in PortIds : ConsoleQ(p) + 1 # ConsoleQ(r) /\ (ConsoleQ(p) = ConsoleQ(r) => p = r)
BY Sizes DEF PortIds, ConsoleQ

LEMMA ControlsApart ==
    /\ ControlIn # ControlOut
    /\ \A p \in PortIds : \A d \in {0, 1} : ConsoleQ(p) + d # ControlIn /\ ConsoleQ(p) + d # ControlOut
BY Sizes DEF PortIds, ConsoleQ, ControlIn, ControlOut

LEMMA Unnamed == NoName \notin Names
BY Zenon DEF NoName, Names

LEMMA ControlQueues == ControlIn \in QueueIds /\ ControlOut \in QueueIds
BY Sizes DEF ControlIn, ControlOut, QueueIds
(***************************************************************************)
(* What the functions of virtio.c do to one queue.                         *)
(***************************************************************************)

\* A queue with these parts.
Vq(r, w, id, o, a, u, ring, desc, len) ==
    [raw |-> r, write |-> w, qid |-> id, old |-> o, avail |-> a, used |-> u,
     ring |-> ring, desc |-> desc, len |-> len]

LEMMA VqParts ==
    ASSUME NEW r, NEW w, NEW id \in QueueIds, NEW o \in Idx, NEW a \in Idx, NEW u \in Idx,
           NEW ring \in [Slots -> Slots], NEW desc \in [Slots -> [data : Message, len : Nat]],
           NEW len \in [Slots -> Nat]
    PROVE  LET v == Vq(r, w, id, o, a, u, ring, desc, len) IN
           /\ IsVq(v) /\ v.raw = r /\ v.write = w /\ v.qid = id /\ v.old = o /\ v.avail = a
           /\ v.used = u /\ v.ring = ring /\ v.desc = desc /\ v.len = len
BY DEF Vq, IsVq

\* Every queue is made of its parts.
LEMMA VqWhole ==
    ASSUME NEW v, IsVq(v)
    PROVE  /\ v = Vq(v.raw, v.write, v.qid, v.old, v.avail, v.used, v.ring, v.desc, v.len)
           /\ v.qid \in QueueIds /\ v.old \in Idx /\ v.avail \in Idx /\ v.used \in Idx
           /\ v.ring \in [Slots -> Slots] /\ v.desc \in [Slots -> [data : Message, len : Nat]]
           /\ v.len \in [Slots -> Nat]
BY SMTT(30) DEF IsVq, Vq

\* send_vq and recv_vq fill the descriptor that comes next and enter it in the ring.
LEMMA FillVq ==
    ASSUME NEW v, IsVq(v), IdleVq(v), NEW data \in Message, NEW n \in Nat, NEW d, d = v.old % VqSize,
           NEW w, w = PutAvail(SetBuf(v, d, data, n), d)
    PROVE  /\ IsVq(w) /\ Filled(w) /\ IdleVq(w)
           /\ w.raw = v.raw /\ w.write = v.write /\ w.qid = v.qid /\ w.old = v.old /\ w.used = v.used
           /\ w.desc[w.old % VqSize].data = data /\ w.desc[w.old % VqSize].len = n
<1>1. d \in Slots /\ v.avail = v.old /\ v.used = v.old
  BY IdxSlot DEF IsVq, IdleVq
<1> DEFINE ring == [v.ring EXCEPT ![d] = d]
           desc == [v.desc EXCEPT ![d] = [data |-> data, len |-> n]]
<1>2. ring \in [Slots -> Slots] /\ ring[d] = d
  BY <1>1 DEF IsVq
<1>3. desc \in [Slots -> [data : Message, len : Nat]] /\ desc[d].data = data /\ desc[d].len = n
  BY <1>1 DEF IsVq
<1>4. w = Vq(v.raw, v.write, v.qid, v.old, v.avail, v.used, ring, desc, v.len)
  <2>1. SetBuf(v, d, data, n) = Vq(v.raw, v.write, v.qid, v.old, v.avail, v.used, v.ring, desc, v.len)
    BY SMTT(30) DEF SetBuf, Vq, IsVq
  <2>2. PutAvail(Vq(v.raw, v.write, v.qid, v.old, v.avail, v.used, v.ring, desc, v.len), d)
          = Vq(v.raw, v.write, v.qid, v.old, v.avail, v.used, [v.ring EXCEPT ![v.avail % VqSize] = d], desc, v.len)
    BY DEF PutAvail, Vq
  <2> QED BY <2>1, <2>2, <1>1
<1> HIDE DEF ring, desc
<1>5. /\ IsVq(w) /\ w.raw = v.raw /\ w.write = v.write /\ w.qid = v.qid /\ w.old = v.old /\ w.avail = v.avail
      /\ w.used = v.used /\ w.ring = ring /\ w.desc = desc
  BY <1>2, <1>3, <1>4, VqParts, VqWhole
<1> QED BY <1>1, <1>2, <1>3, <1>5 DEF Filled, IdleVq

\* Then the index is moved.
LEMMA IncVq ==
    ASSUME NEW v, IsVq(v)
    PROVE  LET w == IncAvail(v)
           IN  /\ IsVq(w) /\ w.raw = v.raw /\ w.write = v.write /\ w.qid = v.qid /\ w.old = v.old
               /\ w.used = v.used /\ w.ring = v.ring /\ w.desc = v.desc
               /\ w.avail = (v.avail + 1) % IdxMod
<1>1. (v.avail + 1) % IdxMod \in Idx
  BY IdxSlot DEF IsVq
<1>2. IncAvail(v) = Vq(v.raw, v.write, v.qid, v.old, (v.avail + 1) % IdxMod, v.used, v.ring, v.desc, v.len)
  BY DEF IncAvail, Vq, IsVq
<1> QED BY <1>1, <1>2, VqParts, VqWhole

\* vq_adv.
LEMMA AdvVq ==
    ASSUME NEW v, IsVq(v)
    PROVE  LET w == VqAdv(v)
           IN  /\ IsVq(w) /\ w.raw = v.raw /\ w.write = v.write /\ w.qid = v.qid
               /\ w.avail = v.avail /\ w.used = v.used /\ w.ring = v.ring /\ w.desc = v.desc
               /\ w.old = (v.old + 1) % IdxMod
<1>1. (v.old + 1) % IdxMod \in Idx
  BY IdxSlot DEF IsVq
<1>2. VqAdv(v) = Vq(v.raw, v.write, v.qid, (v.old + 1) % IdxMod, v.avail, v.used, v.ring, v.desc, v.len)
  BY DEF VqAdv, Vq, IsVq
<1> QED BY <1>1, <1>2, VqParts, VqWhole

\* A descriptor is cleared when it is taken back.
LEMMA ClearVq ==
    ASSUME NEW v, IsVq(v), NEW d \in Slots
    PROVE  LET w == SetBuf(v, d, <<>>, 0)
           IN  /\ IsVq(w) /\ w.raw = v.raw /\ w.write = v.write /\ w.qid = v.qid /\ w.old = v.old
               /\ w.avail = v.avail /\ w.used = v.used /\ w.ring = v.ring
<1> DEFINE desc == [v.desc EXCEPT ![d] = [data |-> <<>>, len |-> 0]]
<1>1. desc \in [Slots -> [data : Message, len : Nat]]
  BY DEF IsVq, Message
<1>2. SetBuf(v, d, <<>>, 0) = Vq(v.raw, v.write, v.qid, v.old, v.avail, v.used, v.ring, desc, v.len)
  <2>1. v = Vq(v.raw, v.write, v.qid, v.old, v.avail, v.used, v.ring, v.desc, v.len)
    BY VqWhole
  <2>2. SetBuf(Vq(v.raw, v.write, v.qid, v.old, v.avail, v.used, v.ring, v.desc, v.len), d, <<>>, 0)
          = Vq(v.raw, v.write, v.qid, v.old, v.avail, v.used, v.ring, desc, v.len)
    BY DEF SetBuf, Vq
  <2> QED BY <2>1, <2>2
<1> HIDE DEF desc
<1> QED BY <1>1, <1>2, VqParts, VqWhole

\* vq_make_avail.
LEMMA AvailVq ==
    ASSUME NEW v, IsVq(v), NEW d \in Slots
    PROVE  LET w == MakeAvail(v, d)
           IN  /\ IsVq(w) /\ w.raw = v.raw /\ w.write = v.write /\ w.qid = v.qid /\ w.old = v.old
               /\ w.used = v.used /\ w.desc = v.desc
               /\ w.ring = [v.ring EXCEPT ![v.avail % VqSize] = d]
               /\ w.avail = (v.avail + 1) % IdxMod
<1> DEFINE ring == [v.ring EXCEPT ![v.avail % VqSize] = d]
           u == PutAvail(v, d)
<1>1. ring \in [Slots -> Slots]
  BY IdxSlot DEF IsVq
<1>2. u = Vq(v.raw, v.write, v.qid, v.old, v.avail, v.used, ring, v.desc, v.len)
  <2>1. v = Vq(v.raw, v.write, v.qid, v.old, v.avail, v.used, v.ring, v.desc, v.len)
    BY VqWhole
  <2>2. PutAvail(Vq(v.raw, v.write, v.qid, v.old, v.avail, v.used, v.ring, v.desc, v.len), d)
          = Vq(v.raw, v.write, v.qid, v.old, v.avail, v.used, ring, v.desc, v.len)
    BY DEF PutAvail, Vq
  <2> QED BY <2>1, <2>2
<1>3. MakeAvail(v, d) = IncAvail(u)
  BY DEF MakeAvail
<1> HIDE DEF ring, u
<1>4. /\ IsVq(u) /\ u.raw = v.raw /\ u.write = v.write /\ u.qid = v.qid /\ u.old = v.old
      /\ u.avail = v.avail /\ u.used = v.used /\ u.ring = ring /\ u.desc = v.desc
  BY <1>1, <1>2, VqParts, VqWhole
<1>5. MakeAvail(v, d).ring = ring
  BY <1>3, <1>4, IncVq
<1> QED BY <1>3, <1>4, <1>5, IncVq DEF ring

\* vq_init.
WithId(v, id) == [v EXCEPT !.qid = id]

LEMMA InitVq ==
    ASSUME NEW v, IsVq(v), NEW id \in QueueIds, NEW input, NEW z, z = VqInit(WithId(v, id), input)
    PROVE  /\ IsVq(z) /\ z.raw /\ z.write = input /\ z.qid = id /\ z.old = v.old
           /\ z.avail = v.avail /\ z.used = v.used /\ z.ring = v.ring /\ z.desc = v.desc
<1> DEFINE u == Vq(v.raw, v.write, id, v.old, v.avail, v.used, v.ring, v.desc, v.len)
           w == [[u EXCEPT !.raw = TRUE] EXCEPT !.write = input]
<1>1. WithId(v, id) = u
  BY DEF Vq, IsVq, WithId
<1>2. z = w
  BY <1>1 DEF VqInit
<1>3. w.raw
  BY DEF Vq
<1>4. /\ w.write = input /\ w.qid = id /\ w.old = v.old
      /\ w.avail = v.avail /\ w.used = v.used /\ w.ring = v.ring /\ w.desc = v.desc
      /\ w.len = v.len
  BY DEF Vq
<1>5. w = Vq(w.raw, w.write, w.qid, w.old, w.avail, w.used, w.ring, w.desc, w.len)
  <2> DEFINE t == TRUE
  <2>1. w = [[u EXCEPT !.raw = t] EXCEPT !.write = input]
    OBVIOUS
  <2> HIDE DEF t
  <2>2. [u EXCEPT !.raw = t] = Vq(t, v.write, id, v.old, v.avail, v.used, v.ring, v.desc, v.len)
    BY DEF Vq
  <2>3. [Vq(t, v.write, id, v.old, v.avail, v.used, v.ring, v.desc, v.len) EXCEPT !.write = input]
          = Vq(t, input, id, v.old, v.avail, v.used, v.ring, v.desc, v.len)
    BY DEF Vq
  <2> HIDE DEF w, u
  <2>4. w = Vq(t, input, id, v.old, v.avail, v.used, v.ring, v.desc, v.len)
    BY <2>1, <2>2, <2>3
  <2> QED BY <2>4 DEF Vq
<1> HIDE DEF w
<1>6. IsVq(w)
  BY <1>4, <1>5, VqParts, VqWhole
<1> QED BY <1>2, <1>3, <1>4, <1>6

\* An input queue can be written by the device.
InVq(v, id) == VqInit([v EXCEPT !.qid = id], TRUE)
OutVq(v, id) == VqInit([v EXCEPT !.qid = id], FALSE)

LEMMA InitIn ==
    ASSUME NEW v, IsVq(v), NEW id \in QueueIds, NEW w, w = InVq(v, id)
    PROVE  /\ IsVq(w) /\ w.raw /\ w.write /\ w.qid = id /\ w.old = v.old
           /\ w.avail = v.avail /\ w.used = v.used /\ w.ring = v.ring /\ w.desc = v.desc
<1> DEFINE b == TRUE
<1>1. w = VqInit(WithId(v, id), b)
  BY DEF InVq, OutVq, WithId
<1> HIDE DEF b
<1>2. /\ IsVq(w) /\ w.raw /\ w.write = b /\ w.qid = id /\ w.old = v.old
      /\ w.avail = v.avail /\ w.used = v.used /\ w.ring = v.ring /\ w.desc = v.desc
  BY ONLY <1>1, IsVq(v), id \in QueueIds, InitVq
<1> QED BY <1>2 DEF b

LEMMA InitOut ==
    ASSUME NEW v, IsVq(v), NEW id \in QueueIds, NEW w, w = OutVq(v, id)
    PROVE  /\ IsVq(w) /\ w.raw /\ w.qid = id /\ w.old = v.old
           /\ w.avail = v.avail /\ w.used = v.used /\ w.ring = v.ring /\ w.desc = v.desc
<1> DEFINE b == FALSE
<1>1. w = VqInit(WithId(v, id), b)
  BY DEF InVq, OutVq, WithId
<1> HIDE DEF b
<1>2. /\ IsVq(w) /\ w.raw /\ w.write = b /\ w.qid = id /\ w.old = v.old
      /\ w.avail = v.avail /\ w.used = v.used /\ w.ring = v.ring /\ w.desc = v.desc
  BY ONLY <1>1, IsVq(v), id \in QueueIds, InitVq
<1> QED BY <1>2

\* The device uses a buffer.
UsedVq(v, d, data, n) ==
    LET old == v.desc[d].data
        new == IF v.write THEN data \o SubSeq(old, Len(data) + 1, Len(old)) ELSE old
    IN  [v EXCEPT !.desc[d].data = new, !.len[v.used % VqSize] = n, !.used = (@ + 1) % IdxMod]

LEMMA Overwrite ==
    ASSUME NEW data \in Message, NEW old \in Message
    PROVE  LET new == data \o SubSeq(old, Len(data) + 1, Len(old))
           IN  /\ new \in Message /\ Len(new) >= Len(data) /\ Len(new) >= Len(old)
               /\ \A i \in 1 .. Len(data) : new[i] = data[i]
<1>1. SubSeq(old, Len(data) + 1, Len(old)) \in Message
      /\ Len(SubSeq(old, Len(data) + 1, Len(old))) = IF Len(data) + 1 <= Len(old) THEN Len(old) - Len(data) ELSE 0
  BY DEF Message
<1> HIDE DEF Message
<1>2. Message = Seq(Token)
  BY DEF Message
<1> DEFINE rest == SubSeq(old, Len(data) + 1, Len(old))
<1>3. rest \in Seq(Token) /\ data \in Seq(Token) /\ old \in Seq(Token)
  BY <1>1, <1>2
<1>4. Len(rest) = IF Len(data) + 1 <= Len(old) THEN Len(old) - Len(data) ELSE 0
  BY <1>1
<1> HIDE DEF rest
<1>5. /\ data \o rest \in Seq(Token) /\ Len(data \o rest) = Len(data) + Len(rest)
      /\ \A i \in 1 .. Len(data) : (data \o rest)[i] = data[i]
  BY <1>3, ConcatProperties
<1>6. Len(data) \in Nat /\ Len(old) \in Nat
  BY <1>3
<1>7. Len(data \o rest) >= Len(data) /\ Len(data \o rest) >= Len(old)
  BY <1>4, <1>5, <1>6
<1> QED BY <1>2, <1>5, <1>7 DEF rest

LEMMA UseVq ==
    ASSUME NEW v, IsVq(v), NEW d \in Slots, NEW data \in Message, NEW n \in Nat
    PROVE  LET w == UsedVq(v, d, data, n)
           IN  /\ IsVq(w) /\ w.raw = v.raw /\ w.write = v.write /\ w.qid = v.qid /\ w.old = v.old
               /\ w.avail = v.avail /\ w.ring = v.ring /\ w.used = (v.used + 1) % IdxMod
               /\ \A i \in Slots \ {d} : w.desc[i] = v.desc[i]
               /\ w.desc[d].data = IF v.write THEN data \o SubSeq(v.desc[d].data, Len(data) + 1, Len(v.desc[d].data))
                                              ELSE v.desc[d].data
               /\ w.desc[d].len = v.desc[d].len /\ w.len[v.used % VqSize] = n
<1> DEFINE old == v.desc[d].data
           new == IF v.write THEN data \o SubSeq(old, Len(data) + 1, Len(old)) ELSE old
           desc == [v.desc EXCEPT ![d].data = new]
           len == [v.len EXCEPT ![v.used % VqSize] = n]
<1>1. old \in Message
  BY DEF IsVq
<1>2. new \in Message
  BY <1>1, Overwrite
<1> HIDE DEF new
<1>3. /\ desc \in [Slots -> [data : Message, len : Nat]] /\ desc[d].data = new /\ desc[d].len = v.desc[d].len
      /\ \A i \in Slots \ {d} : desc[i] = v.desc[i]
  BY <1>2 DEF IsVq
<1>4. len \in [Slots -> Nat] /\ len[v.used % VqSize] = n
  BY IdxSlot DEF IsVq
<1>5. (v.used + 1) % IdxMod \in Idx
  BY IdxSlot DEF IsVq
<1>6. UsedVq(v, d, data, n) = Vq(v.raw, v.write, v.qid, v.old, v.avail, (v.used + 1) % IdxMod, v.ring, desc, len)
  <2>1. UsedVq(v, d, data, n)
          = [v EXCEPT !.desc[d].data = new, !.len[v.used % VqSize] = n, !.used = (v.used + 1) % IdxMod]
    BY DEF UsedVq, new, IsVq
  <2>2. v = Vq(v.raw, v.write, v.qid, v.old, v.avail, v.used, v.ring, v.desc, v.len)
    BY VqWhole
  <2>3. [Vq(v.raw, v.write, v.qid, v.old, v.avail, v.used, v.ring, v.desc, v.len)
          EXCEPT !.desc[d].data = new] = Vq(v.raw, v.write, v.qid, v.old, v.avail, v.used, v.ring, desc, v.len)
    BY DEF Vq
  <2>4. [Vq(v.raw, v.write, v.qid, v.old, v.avail, v.used, v.ring, desc, v.len)
          EXCEPT !.len[v.used % VqSize] = n] = Vq(v.raw, v.write, v.qid, v.old, v.avail, v.used, v.ring, desc, len)
    BY DEF Vq
  <2>5. [Vq(v.raw, v.write, v.qid, v.old, v.avail, v.used, v.ring, desc, len)
          EXCEPT !.used = (v.used + 1) % IdxMod]
          = Vq(v.raw, v.write, v.qid, v.old, v.avail, (v.used + 1) % IdxMod, v.ring, desc, len)
    BY DEF Vq
  <2>6. UsedVq(v, d, data, n)
          = [[[v EXCEPT !.desc[d].data = new] EXCEPT !.len[v.used % VqSize] = n] EXCEPT !.used = (v.used + 1) % IdxMod]
    BY <2>1
  <2> HIDE DEF desc, len
  <2> QED BY ZenonT(30), <2>2, <2>3, <2>4, <2>5, <2>6
<1> HIDE DEF desc, len
<1>7. LET w == UsedVq(v, d, data, n)
      IN  /\ IsVq(w) /\ w.raw = v.raw /\ w.write = v.write /\ w.qid = v.qid /\ w.old = v.old
          /\ w.avail = v.avail /\ w.ring = v.ring /\ w.used = (v.used + 1) % IdxMod /\ w.desc = desc /\ w.len = len
  BY <1>3, <1>4, <1>5, <1>6, VqParts, VqWhole
<1>8. UsedVq(v, d, data, n).desc[d].len = v.desc[d].len /\ UsedVq(v, d, data, n).len[v.used % VqSize] = n
  <2>w. PICK w : w = UsedVq(v, d, data, n)
    OBVIOUS
  <2>1. w.desc = desc /\ w.len = len
    BY <1>7, <2>w
  <2>2. w.desc[d].len = v.desc[d].len
    BY <2>1, <1>3
  <2>3. w.len[v.used % VqSize] = n
    BY <2>1, <1>4
  <2> QED BY <2>2, <2>3, <2>w
<1> QED BY <1>3, <1>7, <1>8 DEF new
(***************************************************************************)
(* boot() does not go back.                                                *)
(***************************************************************************)

LEMMA MovesTo ==
    ASSUME ControlInv, pc \notin Inside
    PROVE  /\ Place = pc
           /\ UNCHANGED <<io, log, rpmb, host>> /\ pc' \notin Inside => Place' = pc'
           /\ \A text : \A next \in LogNext : LogBuf(text, next) => Place' = next
           /\ UNCHANGED <<host, log, rpmb>> =>
                 \A q, data, n : \A next \in IoNext \ ({"log"} \cup RpmbAt) :
                     StartIo(q, data, n, next) => Place' = next
<1>1. Place = pc
  BY AtPlace
<1>2. ASSUME UNCHANGED <<io, log, rpmb, host>>, pc' \notin Inside PROVE Place' = pc'
  BY <1>2, GoPlace
<1>3. ASSUME NEW text, NEW next \in LogNext, LogBuf(text, next) PROVE Place' = next
  BY <1>3, LogPlace
<1>4. ASSUME NEW q, NEW data, NEW n, NEW next \in IoNext \ ({"log"} \cup RpmbAt),
             StartIo(q, data, n, next), UNCHANGED <<host, log, rpmb>>
      PROVE  Place' = next
  <2>1. /\ log' = [left |-> log'.left, next |-> log'.next]
        /\ rpmb' = [cmd |-> rpmb'.cmd, next |-> rpmb'.next, issued |-> rpmb'.issued,
                  answer |-> rpmb'.answer, stream |-> rpmb'.stream,
                  executed |-> rpmb'.executed, reply |-> rpmb'.reply]
    BY <1>4 DEF ControlInv
  <2>2. next \in IoNext /\ next # "log" /\ next \notin RpmbAt
    OBVIOUS
  <2> QED BY <2>1, <2>2, <1>4, IoPlace
<1> QED BY <1>1, <1>2, <1>3, <1>4

Onward == \A S \in {Unready, Unlogged, Unstored} : Place' \in S => Place \in S

LEMMA OnwardSteps ==
    ASSUME RunInv, [Next]_vars
    PROVE  Onward
<1> USE DEF bootVars, consoleVars, queueVars
<1>a. ASSUME Place' = Place PROVE Onward
  BY <1>a DEF Onward
<1>b. Unready \subseteq Unlogged /\ Unlogged \subseteq Unstored
  BY DEF Unready, Unlogged, Unstored, Early
<1>c. ASSUME Place' \notin Unstored PROVE Onward
  BY <1>b, <1>c DEF Onward
<1>d. ASSUME Place \in Unstored, Place' \notin Unlogged PROVE Onward
  BY <1>b, <1>d DEF Onward
<1>e. ASSUME Place \in Unlogged, Place' \notin Unready PROVE Onward
  BY <1>b, <1>e DEF Onward
<1>f. ASSUME Place \in Unready PROVE Onward
  BY <1>b, <1>f DEF Onward
<1>g. Ending \cap Unstored = {} /\ LogNext \cap Unstored = {} /\ Unstored \cap Inside = {}
  BY DEF Ending, Stopped, Unstored, Early, LogNext, Inside, RpmbAt
<1>h. ControlInv
  BY DEF RunInv
<1>i. ASSUME pc \notin Inside, NEW text, NEW next \in LogNext, LogBuf(text, next) PROVE Onward
  BY <1>i, <1>c, <1>g, <1>h, MovesTo
<1>j. ASSUME pc \notin Inside, NEW next, Go(next), next \notin Unstored, next \notin Inside PROVE Onward
  BY <1>j, <1>c, <1>h, MovesTo DEF Go
<1>k. \A x \in Storage \cup Bcc \cup Serving \cup Ending \cup {"dev_create", "cpu_on"} \cup Waiting :
          x \notin Inside /\ (x \notin {"dev_create", "rpmb_scan"} => x \notin Unstored)
  BY DEF Storage, Bcc, Serving, Ending, Stopped, Waiting, Inside, RpmbAt, Unstored, Early
<1>1. CASE ConsoleInit /\ UNCHANGED bootVars
  <2>1. pc \in Unlogged \ {"scanned"} /\ pc \notin Inside
    BY <1>1 DEF ConsoleInit, Probe, Negotiate, ControlSetup, Scan, GetMsg, PollMsg, PortReady, HandleMsg,
                Unlogged, Unready, Inside, RpmbAt
  <2>2. Place = pc
    BY <2>1, <1>h, MovesTo
  <2>3. CASE pc \in Unready
    BY <2>2, <2>3, <1>f
  <2>4. CASE pc \notin Unready
    <3>1. CASE UNCHANGED <<io, log, rpmb, host>> /\ pc' \in {"scanned", "msg", "poll", "get", "ready", "assert"}
      <4>1. pc' \notin Inside /\ pc' \notin Unready
        BY <3>1 DEF Inside, RpmbAt, Unready
      <4> QED BY <3>1, <4>1, <2>1, <2>2, <1>e, <1>h, MovesTo
    <3>2. CASE UNCHANGED <<log, rpmb, host>> /\ \E q, data, n : StartIo(q, data, n, "get")
      <4>1. "get" \in IoNext \ ({"log"} \cup RpmbAt) /\ "get" \notin Unready
        BY DEF IoNext, RpmbAt, Unready
      <4> QED BY <3>2, <4>1, <2>1, <2>2, <1>e, <1>h, MovesTo
    <3>3. CASE Scan
      BY <3>3, <3>2 DEF Scan, Send
    <3>4. CASE GetMsg \/ PollMsg
      BY <3>4, <3>1 DEF GetMsg, PollMsg, TakeMsg
    <3>5. CASE PortReady
      BY <3>5, <3>1, <3>2 DEF PortReady, Send
    <3>6. ASSUME NEW e \in Events, HandleMsg(e) PROVE Onward
      BY <3>6, <3>1 DEF HandleMsg
    <3>7. CASE Probe \/ Negotiate \/ ControlSetup
      BY <3>7, <2>4 DEF Probe, Negotiate, ControlSetup, Unready
    <3> QED BY <1>1, <3>3, <3>4, <3>5, <3>6, <3>7 DEF ConsoleInit
  <2> QED BY <2>3, <2>4
<1>2. CASE UNCHANGED vars
  BY <1>2, <1>a DEF vars, Place, Inner
<1>3. CASE \/ (Console /\ ~ConsoleInit /\ ~OpenPort("log_open", "log_opened") /\ ~OpenPort("rpmb_open", "rpmb_opened"))
           \/ (DriverIo /\ UNCHANGED <<consoleVars, bootVars>>) \/ StorageRequest \/ Host
  <2>1. Place' = Place \/ Place' \in Ending
    BY <1>3, <1>h, CallsQuiet DEF Console, StorageRequest, Host
  <2> QED BY <2>1, <1>a, <1>c, <1>g
<1>4. CASE BootArm64
  BY <1>4, <1>f, AtPlace DEF BootArm64, Unready, Inside, RpmbAt
<1>5. CASE InitLog
  <2>1. pc = "scanned" /\ pc \notin Inside /\ pc \in Unlogged
    BY <1>5 DEF InitLog, Inside, RpmbAt, Unlogged
  <2>2. pc' \in {"log_open", "error"} /\ UNCHANGED <<io, log, rpmb, host>>
    BY <1>5 DEF InitLog, Go, ConnectPort
  <2>3. pc' \notin Inside /\ pc' \notin Unready
    BY <2>2 DEF Inside, RpmbAt, Unready
  <2> QED BY <2>1, <2>2, <2>3, <1>e, <1>h, MovesTo
<1>6. CASE \/ LogOpened \/ GetCmdline \/ BootNext \/ DevInit
           \/ (OpenPort("log_open", "log_opened") /\ UNCHANGED bootVars)
  <2>1. pc \in Unstored /\ pc \notin Inside
    BY <1>6, <1>g DEF LogOpened, GetCmdline, BootNext, DevInit, OpenPort, Unstored, Early
  <2>2. Place = pc
    BY <2>1, AtPlace
  <2>3. CASE Go("dev_init") \/ Go("boot_next") \/ Go("next_os") \/ Go("error") \/ Go("dev_create")
    <3>1. pc' \notin Inside /\ pc' \notin Unlogged /\ UNCHANGED <<io, log, rpmb, host>>
      BY <2>3 DEF Go, Inside, RpmbAt, Unlogged, Unready
    <3> QED BY <3>1, <2>1, <2>2, <1>d, <1>h, MovesTo
  <2>4. CASE UNCHANGED <<log, rpmb, host>>
             /\ \E q, data, n : StartIo(q, data, n, "cmdline") \/ StartIo(q, data, n, "log_opened") \/ StartIo(q, data, n, "astray")
    <3>1. /\ {"cmdline", "log_opened", "astray"} \subseteq IoNext \ ({"log"} \cup RpmbAt)
          /\ {"cmdline", "log_opened", "astray"} \cap Unlogged = {}
      BY DEF IoNext, RpmbAt, Unlogged, Unready
    <3> QED BY <2>4, <3>1, <2>1, <2>2, <1>d, <1>h, MovesTo
  <2>5. CASE LogOpened
    BY <2>5, <2>4 DEF LogOpened, Recv
  <2>6. CASE GetCmdline
    BY <2>6, <2>3 DEF GetCmdline
  <2>7. CASE BootNext
    BY <2>7, <2>3 DEF BootNext
  <2>8. CASE DevInit
    BY <2>8, <2>3, <2>4 DEF DevInit, Abort, HostExit, Send
  <2>9. CASE OpenPort("log_open", "log_opened") /\ UNCHANGED bootVars
    BY <2>9, <2>4 DEF OpenPort, Send
  <2> QED BY <1>6, <2>5, <2>6, <2>7, <2>8, <2>9
<1>7. CASE DevCreate
  <2>1. pc = "dev_create" /\ pc \notin Inside /\ pc \in Unstored
    BY <1>7, <1>g DEF DevCreate, Unstored
  <2>2. CASE Go("error") \/ Go("rpmb_scan")
    <3>1. pc' \notin Inside /\ pc' \notin Unlogged /\ UNCHANGED <<io, log, rpmb, host>>
      BY <2>2 DEF Go, Inside, RpmbAt, Unlogged, Unready
    <3> QED BY <3>1, <2>1, <1>d, <1>h, MovesTo
  <2>3. CASE Abort
    BY <2>3, AbortPlace, <1>c, <1>g DEF Ending
  <2> QED BY <1>7, <2>2, <2>3 DEF DevCreate
<1>8. CASE InitRpmb
  <2>1. pc = "rpmb_scan" /\ pc \notin Inside /\ pc \in Unstored
    BY <1>8, <1>g DEF InitRpmb, Unstored
  <2>2. CASE LogMsg("no_rpmb", "km_init")
    BY <2>1, <2>2, <1>i DEF LogMsg, LogNext
  <2>3. CASE Go("assert") \/ ConnectPort("rpmb0", "rpmb_in", "rpmb_out", "rpmb_open")
    <3>1. pc' \notin Inside /\ pc' \notin Unlogged /\ UNCHANGED <<io, log, rpmb, host>>
      BY <2>3 DEF Go, ConnectPort, Inside, RpmbAt, Unlogged, Unready
    <3> QED BY <3>1, <2>1, <1>d, <1>h, MovesTo
  <2> QED BY <1>8, <2>2, <2>3 DEF InitRpmb
<1>9. CASE RpmbOpened
  <2>1. pc \notin Inside /\ pc' \notin Inside /\ pc' \notin Unstored /\ UNCHANGED <<io, log, rpmb, host>>
    BY <1>9 DEF RpmbOpened, Inside, RpmbAt, Unstored, Early
  <2> QED BY <2>1, <1>c, <1>h, MovesTo
<1>10. CASE OpenPort("rpmb_open", "rpmb_opened") /\ UNCHANGED bootVars
  <2>1. pc \notin Inside /\ UNCHANGED <<log, rpmb, host>> /\ \E q, data, n : StartIo(q, data, n, "rpmb_opened")
    BY <1>10 DEF OpenPort, Send, Inside, RpmbAt
  <2>2. "rpmb_opened" \in IoNext \ ({"log"} \cup RpmbAt) /\ "rpmb_opened" \notin Unstored
    BY DEF IoNext, RpmbAt, Unstored, Early
  <2> QED BY <2>1, <2>2, <1>c, <1>h, MovesTo
<1>11. ASSUME NEW at \in Storage \cup Bcc \cup Serving, NEW text,
              NEW next \in Storage \cup Bcc \cup Serving, next # "rpmb_scan", Call(at, text, next)
       PROVE  Onward
  <2>1. at \notin Inside /\ next \notin Inside /\ next \notin Unstored
    BY <1>11, <1>k DEF Storage, Bcc, Serving
  <2> QED BY <1>11, <2>1, <1>i, <1>j DEF Call, LogMsg, LogNext
<1>12. CASE SetBootParams
  <2>1. pc \notin Inside /\ "hwbcc_init" \notin Inside /\ "hwbcc_init" \notin Unstored
    BY <1>12 DEF SetBootParams, Inside, RpmbAt, Unstored, Early
  <2> QED BY <1>12, <2>1, <1>i, <1>j DEF SetBootParams, LogMsg, LogNext
<1>13. CASE \/ GetDiceArtifacts("dice", "dice", "", "dice_size") \/ CheckSize \/ NsDeprivilege
            \/ Shutdown("shutdown", "hwbcc_again") \/ Shutdown("shutdown_again", "cpu_on")
            \/ GetDiceArtifacts("dice_again", "", "broken", "shutdown_again")
            \/ RecvResultByte \/ WaitForClose \/ CpuOn \/ CpuWait \/ CpuLook \/ WfeReturns
  <2> DEFINE To == {"dice_size", "depriv", "shutdown", "hwbcc_again", "cpu_on", "shutdown_again", "recv",
                    "close", "error", "exit", "cpu_wait", "cpu_look", "connect", "astray"}
  <2>1. pc \notin Inside
    BY <1>13 DEF GetDiceArtifacts, CheckSize, NsDeprivilege, Shutdown, RecvResultByte, WaitForClose, CpuOn,
                 CpuWait, CpuLook, WfeReturns, Inside, RpmbAt
  <2>2. \/ \E next \in To : Go(next)
        \/ \E text : \E next \in {"dice_size", "depriv", "shutdown", "shutdown_again", "recv", "astray"} :
               LogBuf(text, next)
    BY <1>13 DEF GetDiceArtifacts, CheckSize, NsDeprivilege, Shutdown, RecvResultByte, WaitForClose, CpuOn,
                 CpuWait, CpuLook, WfeReturns, LogMsg, ExitAfter
  <2>3. To \cap Unstored = {} /\ To \cap Inside = {}
    BY DEF Inside, RpmbAt, Unstored, Early
  <2>4. {"dice_size", "depriv", "shutdown", "shutdown_again", "recv", "astray"} \subseteq LogNext
    BY DEF LogNext
  <2> HIDE DEF To
  <2> QED BY <2>1, <2>2, <2>3, <2>4, <1>i, <1>j
<1>14. CASE ReportStatus
  <2>1. pc \notin Inside /\ UNCHANGED <<log, rpmb, host>> /\ \E q, data, n : StartIo(q, data, n, "error")
    BY <1>14 DEF ReportStatus, HostExit, Send, Inside, RpmbAt
  <2>2. "error" \in IoNext \ ({"log"} \cup RpmbAt) /\ "error" \notin Unstored
    BY DEF IoNext, RpmbAt, Unstored, Early
  <2> QED BY <2>1, <2>2, <1>c, <1>h, MovesTo
<1>15. CASE Astray
  <2>1. pc \notin Inside /\ pc' \notin Inside /\ pc' \notin Unstored /\ UNCHANGED <<io, log, rpmb, host>>
    BY <1>15 DEF Astray, LogNowhere, Inside, RpmbAt, Unstored, Early
  <2> QED BY <2>1, <1>c, <1>h, MovesTo
<1>16. CASE Secondary
  BY <1>16, <1>a DEF Secondary, SecondaryStart, Place, Inner
<1>17. CASE \/ Call("proxy", "proxy", "km_init") \/ Call("km_init", "km_init", "km_params")
            \/ Call("hwbcc_init", "hwbcc_init", "dice") \/ Call("hwbcc_again", "hwbcc_init", "dice_again")
            \/ Call("connect", "connect", "recv")
  BY <1>17, <1>11 DEF Storage, Bcc, Serving
<1>18. CASE Libtipc
  BY <1>18, <1>6, <1>7, <1>12, <1>13, <1>17 DEF Libtipc
<1>19. CASE Boot
  BY <1>19, <1>1, <1>3, <1>4, <1>5, <1>6, <1>8, <1>9, <1>10, <1>13, <1>14, <1>15 DEF Boot, Console
<1> QED BY <1>2, <1>3, <1>13, <1>16, <1>18, <1>19 DEF Next
(***************************************************************************)
(* Steps that touch one queue, or none.                                    *)
(***************************************************************************)

SameNames == \A p \in PortIds : ports'[p].name = ports[p].name

\* As long as a queue keeps its id, the wiring stays.
LEMMA OneQueue ==
    ASSUME QueueInv, Onward, NEW q \in Vqs, NEW w, IsVq(w), vq' = [vq EXCEPT ![q] = w],
           w.raw = vq[q].raw, w.qid = vq[q].qid, UNCHANGED attached,
           SameNames \/ Place \in Unlogged
    PROVE  /\ vq' = [r \in Vqs |-> vq'[r]] /\ vq'[q] = w
           /\ \A r \in Vqs : IsVq(vq'[r]) /\ (r # q => vq'[r] = vq[r])
           /\ Wiring' /\ RawInv'
<1>1. vq = [r \in Vqs |-> vq[r]] /\ \A r \in Vqs : IsVq(vq[r])
  BY DEF QueueInv, QueueTypes
<1>2. vq' = [r \in Vqs |-> vq'[r]] /\ vq'[q] = w /\ \A r \in Vqs : r # q => vq'[r] = vq[r]
  BY <1>1
<1>3. \A r \in Vqs : IsVq(vq'[r])
  BY <1>1, <1>2
<1>4. \A r \in Vqs : vq'[r].raw = vq[r].raw /\ vq'[r].qid = vq[r].qid
  BY <1>2
<1>v. {"ctl_in", "ctl_out", "log_in", "log_out", "rpmb_in", "rpmb_out"} \subseteq Vqs
  BY DEF Vqs
<1>5. RawInv'
  BY <1>4, <1>v DEF Onward, RawInv, QueueInv
<1>6. Unlogged \subseteq Unstored
  BY DEF Unlogged, Unready, Unstored, Early
<1>7. ASSUME NEW r \in {"log_in", "log_out", "rpmb_in", "rpmb_out"}, NEW n, NEW d, Wired(r, n, d)
      PROVE  Wired(r, n, d)'
  <2>1. r \in Vqs
    BY <1>v
  <2>2. CASE SameNames
    BY <1>4, <1>7, <2>1, <2>2 DEF Wired, SameNames
  <2>3. CASE Place \in Unlogged
    BY <1>4, <1>6, <2>1, <2>3 DEF Wired, QueueInv, RawInv
  <2> QED BY <2>2, <2>3
<1>8. /\ Wired("log_in", "testrunner0", 0)' /\ Wired("log_out", "testrunner0", 1)'
      /\ Wired("rpmb_in", "rpmb0", 0)' /\ Wired("rpmb_out", "rpmb0", 1)'
  BY <1>7 DEF QueueInv, Wiring
<1>9. /\ \A r \in Vqs : vq'[r].raw => attached'[vq'[r].qid] = r
      /\ \A id \in QueueIds : attached'[id] # "none" => vq'[attached'[id]].raw /\ vq'[attached'[id]].qid = id
      /\ vq'["ctl_in"].raw => vq'["ctl_in"].qid = ControlIn
      /\ vq'["ctl_out"].raw => vq'["ctl_out"].qid = ControlOut
  <2>1. attached \in [QueueIds -> Vqs \cup {"none"}]
    BY DEF QueueInv, QueueTypes
  <2> QED BY <2>1, <1>4, <1>v DEF QueueInv, Wiring
<1>10. Wiring'
  BY <1>8, <1>9 DEF Wiring
<1> QED BY <1>2, <1>3, <1>5, <1>10

\* A step of CPU 0 outside the queues.
LEMMA IdleKeeps ==
    ASSUME QueueInv, Onward, UNCHANGED <<vq, io, attached, lastAvail>>, notified' \subseteq QueueIds,
           pc # "io", pc' # "io", pc # "msg", pc' \notin {"msg", "ready"}, SameNames,
           host'.name = host.name, dev'.busy = dev.busy
    PROVE  QueueInv' /\ Flight = <<>> /\ Flight' = <<>>
<1>1. QueueTypes' /\ OutInv' /\ LastInv'
  BY DEF QueueInv, QueueTypes, OutInv, QueueState, LastInv
<1>2. Wiring'
  BY DEF QueueInv, Wiring, Wired, SameNames
<1>3. NamesInv'
  BY DEF QueueInv, NamesInv, SameNames
<1>4. RawInv'
  BY Zenon DEF QueueInv, RawInv, Onward
<1>5. CtlInInv'
  BY ZenonT(30) DEF QueueInv, CtlInInv, FreshVq, Good, Msg
<1>6. CtlOutInv'
  BY DEF QueueInv, CtlOutInv
<1>7. Flight = <<>> /\ Flight' = <<>>
  BY Zenon DEF Flight
<1> QED BY <1>1, <1>2, <1>3, <1>4, <1>5, <1>6, <1>7 DEF QueueInv
\* The control queue of the host's messages stays as it is.
LEMMA CtlInStays ==
    ASSUME QueueInv, vq'["ctl_in"] = vq["ctl_in"], host'.name = host.name,
           pc # "msg", pc' \notin {"msg", "ready"}
    PROVE  CtlInInv'
BY ZenonT(30) DEF QueueInv, CtlInInv, FreshVq, Good

\* send_vq and recv_vq start.
LEMMA StartKeeps ==
    ASSUME QueueInv, Onward, NEW q \in Out, NEW data \in Message, NEW n \in Nat, NEW next \in IoNext,
           StartIo(q, data, n, next), UNCHANGED <<attached, lastAvail, notified>>,
           pc # "io", pc # "msg", SameNames, host'.name = host.name, dev'.busy = dev.busy,
           q = "ctl_out" => data # <<>> /\ data[1].v \in PortIds,
           n = 0 => data = <<>>
    PROVE  QueueInv' /\ Flight = <<>> /\ Flight' = IF q = "log_out" THEN data ELSE <<>>
<1>1. next # "io" /\ next \notin {"msg", "ready"}
  BY DEF IoNext, RpmbAt
<1>2. CASE n = 0
  <2>1. pc' = next /\ UNCHANGED <<vq, io>>
    BY <1>2 DEF StartIo
  <2>2. notified' \subseteq QueueIds
    BY DEF QueueInv, QueueTypes
  <2> QED BY <1>1, <1>2, <2>1, <2>2, IdleKeeps
<1>3. CASE n # 0
  <2> DEFINE d == vq[q].old % VqSize
             w == PutAvail(SetBuf(vq[q], d, data, n), d)
  <2>1. /\ vq' = [vq EXCEPT ![q] = w]
        /\ io' = [q |-> q, step |-> "publish", next |-> next] /\ pc' = "io"
    BY <1>3 DEF StartIo
  <2>2. q \in Vqs /\ q # "ctl_in" /\ IsVq(vq[q]) /\ IdleVq(vq[q])
    BY Zenon DEF Out, QueueInv, QueueTypes, OutInv, QueueState
  <2>3. /\ IsVq(w) /\ Filled(w) /\ IdleVq(w)
        /\ w.raw = vq[q].raw /\ w.qid = vq[q].qid /\ w.old = vq[q].old /\ w.used = vq[q].used
        /\ w.desc[w.old % VqSize].data = data
    BY <2>2, FillVq
  <2> HIDE DEF w
  <2>4. /\ vq' = [r \in Vqs |-> vq'[r]] /\ vq'[q] = w
        /\ \A r \in Vqs : IsVq(vq'[r]) /\ (r # q => vq'[r] = vq[r])
        /\ Wiring' /\ RawInv'
    BY <2>1, <2>2, <2>3, OneQueue
  <2>5. QueueTypes'
    BY <1>1, <2>1, <2>2, <2>4 DEF QueueInv, QueueTypes
  <2>6. OutInv'
    <3>1. io'.q = q /\ io'.step = "publish"
      BY <2>1
    <3>2. ASSUME NEW r \in Out, r # q PROVE QueueState(r)'
      BY <2>1, <2>4, <3>1, <3>2 DEF QueueState, QueueInv, OutInv, Out, IdleVq
    <3>3. QueueState(q)'
      BY <2>1, <2>3, <2>4, <3>1 DEF QueueState, IdleVq, Filled
    <3> QED BY <3>1, <3>2, <3>3 DEF OutInv
  <2>7. LastInv'
    BY <2>3, <2>4 DEF QueueInv, LastInv
  <2>8. NamesInv'
    BY DEF QueueInv, NamesInv, SameNames
  <2>9. CtlInInv'
    <3>1. vq'["ctl_in"] = vq["ctl_in"]
      BY SMTT(30), <2>2, <2>4 DEF Vqs
    <3> QED BY <2>1, <3>1, CtlInStays
  <2>10. ~dev.busy
    BY Zenon DEF QueueInv, CtlOutInv
  <2>11. CtlOutInv'
    BY <2>1, <2>3, <2>4, <2>10 DEF CtlOutInv
  <2>12. Flight = <<>> /\ Flight' = IF q = "log_out" THEN data ELSE <<>>
    BY <2>1, <2>2, <2>3, <2>4 DEF Flight, IdleVq
  <2> QED BY <2>4, <2>5, <2>6, <2>7, <2>8, <2>9, <2>11, <2>12 DEF QueueInv
<1> QED BY <1>2, <1>3
\* A step of the driver or the device on one of the queues with one buffer.
LEMMA OutKeeps ==
    ASSUME QueueInv, Onward, NEW q \in Out, NEW w, IsVq(w), vq' = [vq EXCEPT ![q] = w],
           w.raw = vq[q].raw, w.qid = vq[q].qid, UNCHANGED <<attached, ports>>, host'.name = host.name,
           pc \notin {"msg", "ready"}, pc' \notin {"msg", "ready"}, notified' \subseteq QueueIds,
           io'.q \in Vqs, io'.step \in {"none", "publish", "kick", "wait"}, 
           lastAvail' \in [QueueIds -> Idx],
           pc' = "io" => io'.q \in Out, QueueState(q)', \A r \in Out \ {q} : QueueState(r)',
           LastInv'
    PROVE  /\ QueueTypes' /\ OutInv' /\ Wiring' /\ LastInv' /\ NamesInv' /\ RawInv' /\ CtlInInv'
           /\ vq'[q] = w /\ \A r \in Vqs \ {q} : vq'[r] = vq[r]
<1>1. q \in Vqs /\ q # "ctl_in" /\ "ctl_in" \in Vqs
  BY DEF Out, Vqs
<1>2. SameNames
  BY DEF SameNames
<1>3. /\ vq' = [r \in Vqs |-> vq'[r]] /\ vq'[q] = w
      /\ \A r \in Vqs : IsVq(vq'[r]) /\ (r # q => vq'[r] = vq[r])
      /\ Wiring' /\ RawInv'
  BY <1>1, <1>2, OneQueue
<1>4. QueueTypes'
  BY <1>3 DEF QueueInv, QueueTypes
<1>5. OutInv'
  BY DEF OutInv
<1>6. NamesInv'
  BY DEF QueueInv, NamesInv
<1>7. CtlInInv'
  BY <1>1, <1>3, CtlInStays
<1> QED BY <1>3, <1>4, <1>5, <1>6, <1>7
\* vq_make_avail moves the index, vq_kick notifies the device.
LEMMA PublishKeeps ==
    ASSUME QueueInv, ControlInv, Onward, PublishIo \/ KickIo, UNCHANGED consoleVars
    PROVE  QueueInv' /\ Flight' = Flight
<1> USE DEF consoleVars
<1> DEFINE q == io.q
           v == vq[q]
<1>1. pc = "io" /\ pc' = "io" /\ q \in Out /\ q \in Vqs /\ IsVq(v) /\ io'.q = q
      /\ UNCHANGED <<attached, lastAvail>>
  BY DEF PublishIo, KickIo, QueueInv, QueueTypes, OutInv, Out, deviceVars, ControlInv
<1>2. Filled(v) /\ IF io.step = "publish" THEN IdleVq(v) ELSE SentVq(v)
  BY <1>1 DEF QueueInv, OutInv, QueueState
<1>3. CASE PublishIo
  <2> DEFINE w == IncAvail(v)
  <2>1. io.step = "publish" /\ io'.step = "kick" /\ vq' = [vq EXCEPT ![q] = w] /\ UNCHANGED notified
    BY <1>1, <1>3 DEF PublishIo, deviceVars, QueueInv, QueueTypes, ControlInv
  <2>2. /\ IsVq(w) /\ w.raw = v.raw /\ w.qid = v.qid /\ w.old = v.old /\ w.used = v.used
        /\ w.ring = v.ring /\ w.desc = v.desc /\ w.avail = (v.avail + 1) % IdxMod
    BY <1>1, IncVq
  <2> HIDE DEF w
  <2>3. Filled(w) /\ SentVq(w)
    BY <1>2, <2>1, <2>2 DEF Filled, SentVq, IdleVq
  <2>4. vq'[q] = w /\ \A r \in Vqs \ {q} : vq'[r] = vq[r]
    BY <1>1, <2>1 DEF QueueInv, QueueTypes
  <2>5. QueueState(q)' /\ \A r \in Out \ {q} : QueueState(r)'
    BY <1>1, <2>1, <2>3, <2>4 DEF QueueState, QueueInv, OutInv, Out, Filled, SentVq, IdleVq
  <2>6. LastInv'
    BY <1>1, <2>2, <2>4 DEF QueueInv, LastInv
  <2>7. QueueTypes' /\ OutInv' /\ Wiring' /\ NamesInv' /\ RawInv' /\ CtlInInv'
    BY <1>1, <2>1, <2>2, <2>5, <2>6, OutKeeps DEF QueueInv, QueueTypes
  <2>8. "ctl_out" \in Vqs /\ "log_out" \in Vqs
    BY DEF Vqs
  <2>9. CtlOutInv'
    BY ZenonT(30), <1>1, <2>1, <2>2, <2>4, <2>8 DEF QueueInv, CtlOutInv
  <2>10. Flight' = Flight
    BY <1>1, <2>1, <2>2, <2>4, <2>8 DEF Flight
  <2> QED BY <2>6, <2>7, <2>9, <2>10 DEF QueueInv
<1>4. CASE KickIo
  <2>1. io.step = "kick" /\ io'.step = "wait" /\ UNCHANGED vq /\ notified' = notified \cup {v.qid}
    BY <1>4 DEF KickIo, Kick, ControlInv
  <2>2. QueueTypes'
    BY <1>1, <2>1 DEF QueueInv, QueueTypes, IsVq
  <2>3. OutInv'
    BY <1>1, <2>1 DEF QueueInv, OutInv, QueueState, Filled, SentVq, IdleVq
  <2>4. Wiring' /\ LastInv' /\ NamesInv'
    BY <1>1, <2>1 DEF QueueInv, Wiring, Wired, LastInv, NamesInv
  <2>5. RawInv'
    BY <2>1 DEF QueueInv, RawInv, Onward
  <2>6. CtlInInv'
    BY <1>1, <2>1, CtlInStays
  <2>7. CtlOutInv' /\ Flight' = Flight
    BY <1>1, <2>1 DEF QueueInv, CtlOutInv, Flight
  <2> QED BY <2>2, <2>3, <2>4, <2>5, <2>6, <2>7 DEF QueueInv
<1> QED BY <1>3, <1>4

\* vq_wait is over: the device has used the buffer.
LEMMA FinishKeeps ==
    ASSUME QueueInv, ControlInv, Onward, FinishIo, UNCHANGED consoleVars
    PROVE  QueueInv' /\ Flight = <<>> /\ Flight' = <<>>
<1> USE DEF consoleVars
<1>q. PICK q : q = io.q
  BY Zenon
<1> DEFINE v == vq[q]
           d == v.old % VqSize
           u == SetBuf(v, d, <<>>, 0)
           w == VqAdv(u)
<1>1. /\ pc = "io" /\ io.step = "wait" /\ q \in Out /\ q \in Vqs /\ IsVq(v)
      /\ UNCHANGED <<attached, lastAvail, notified>>
  BY Zenon, <1>q DEF FinishIo, QueueInv, QueueTypes, OutInv, Out, deviceVars
<1>2. v.used # v.old /\ vq' = [vq EXCEPT ![q] = w] /\ pc' = io.next /\ io' = NoIo
  BY <1>q DEF FinishIo, VqReady
<1>3. pc' \notin {"io", "msg", "ready"}
  BY <1>1, <1>2 DEF ControlInv, IoNext, RpmbAt
<1>4. SentVq(v)
  BY <1>1, <1>q DEF QueueInv, OutInv, QueueState
<1>5. d \in Slots
  BY <1>1, IdxSlot DEF IsVq
<1>6. /\ IsVq(u) /\ u.raw = v.raw /\ u.qid = v.qid /\ u.old = v.old /\ u.avail = v.avail /\ u.used = v.used
  BY <1>1, <1>5, ClearVq
<1> HIDE DEF u
<1>7. /\ IsVq(w) /\ w.raw = v.raw /\ w.qid = v.qid /\ w.avail = v.avail /\ w.used = v.used
      /\ w.old = (v.old + 1) % IdxMod
  BY <1>6, AdvVq
<1> HIDE DEF w
<1>8. IdleVq(w)
  BY <1>2, <1>4, <1>7 DEF SentVq, IdleVq
<1>9. vq'[q] = w /\ \A r \in Vqs \ {q} : vq'[r] = vq[r]
  BY <1>1, <1>2 DEF QueueInv, QueueTypes
<1>10. QueueState(q)' /\ \A r \in Out \ {q} : QueueState(r)'
  BY <1>1, <1>q, <1>3, <1>8, <1>9 DEF QueueState, QueueInv, OutInv, Out, IdleVq
<1>11. v.raw
  BY <1>1, <1>2 DEF QueueInv, LastInv
<1>12. LastInv'
  <2>1. lastAvail[v.qid] = v.used
    BY <1>1, <1>11 DEF QueueInv, LastInv
  <2>2. w.raw /\ lastAvail'[w.qid] = w.used
    BY <1>1, <1>7, <1>11, <2>1
  <2>3. vq'[q].raw /\ lastAvail'[vq'[q].qid] = vq'[q].used
    BY <1>9, <2>2
  <2>4. \A r \in Vqs : IF vq'[r].raw THEN lastAvail'[vq'[r].qid] = vq'[r].used
                                     ELSE vq'[r].used = 0 /\ vq'[r].old = 0
    BY <1>1, <1>9, <2>3 DEF QueueInv, LastInv
  <2> QED BY <1>1, <2>4 DEF QueueInv, LastInv
<1>13. io'.q \in Vqs /\ io'.step \in {"none", "publish", "kick", "wait"}
  BY <1>2 DEF NoIo, Vqs
<1>14. QueueTypes' /\ OutInv' /\ Wiring' /\ NamesInv' /\ RawInv' /\ CtlInInv'
  BY <1>1, <1>2, <1>3, <1>7, <1>10, <1>12, <1>13, OutKeeps DEF QueueInv, QueueTypes
<1>15. ~dev.busy
  BY <1>2, <1>q DEF QueueInv, CtlOutInv
<1>16. CtlOutInv'
  BY <1>3, <1>15 DEF CtlOutInv
<1>17. Flight = <<>> /\ Flight' = <<>>
  BY <1>2, <1>3, <1>q DEF Flight
<1> QED BY <1>12, <1>14, <1>16, <1>17 DEF QueueInv

(***************************************************************************)
(* The device uses a buffer.                                               *)
(***************************************************************************)

\* A queue with one buffer: the buffer is the one CPU 0 waits for.
LEMMA UseKeeps ==
    ASSUME QueueInv, Onward, NEW id \in QueueIds, HasBuf(id), NEW q, q = attached[id], q \in Out,
           NEW data \in Message, NEW n \in Nat, UseBuf(id, data, n),
           UNCHANGED <<pc, io, attached, ports>>, host'.name = host.name, notified' \subseteq QueueIds,
           dev'.busy => dev.busy /\ q # "ctl_out"
    PROVE  /\ QueueInv'
           /\ pc = "io" /\ io.q = q /\ vq[q].used = vq[q].old /\ NextDesc(id) = vq[q].old % VqSize
           /\ Flight = IF q = "log_out" THEN NextBuf(id).data ELSE <<>>
           /\ Flight' = <<>>
<1> DEFINE v == vq[q]
           d == NextDesc(id)
           w == UsedVq(v, d, data, n)
<1>1. q \in Vqs /\ q # "ctl_in" /\ IsVq(v) /\ v.raw /\ v.qid = id
  BY DEF Out, QueueInv, QueueTypes, Wiring, Vqs
<1>2. lastAvail[id] = v.used /\ v.avail # v.used
  BY <1>1 DEF QueueInv, LastInv, HasBuf
<1>3. pc = "io" /\ io.q = q /\ io.step # "publish" /\ Filled(v) /\ SentVq(v)
  BY <1>2 DEF QueueInv, OutInv, QueueState, IdleVq
<1>4. v.used = v.old /\ v.avail = (v.old + 1) % IdxMod
  BY <1>2, <1>3 DEF SentVq
<1>5. d = v.old % VqSize /\ d \in Slots
  BY <1>1, <1>2, <1>3, <1>4, IdxSlot DEF NextDesc, Filled, IsVq
<1>6. vq' = [vq EXCEPT ![q] = w] /\ lastAvail' = [lastAvail EXCEPT ![id] = (@ + 1) % IdxMod]
  BY DEF UseBuf, UsedVq
<1> HIDE DEF d
<1>7. /\ IsVq(w) /\ w.raw = v.raw /\ w.qid = v.qid /\ w.old = v.old
      /\ w.avail = v.avail /\ w.ring = v.ring /\ w.used = (v.used + 1) % IdxMod
  <2>1. IsVq(v) /\ d \in Slots /\ data \in Message /\ n \in Nat
    BY <1>1, <1>5
  <2> HIDE DEF v
  <2> QED BY ONLY <2>1, UseVq
<1> HIDE DEF w
<1>8. w.used = w.avail /\ w.used # w.old /\ Filled(w) /\ SentVq(w)
  <2>1. (v.old + 1) % IdxMod # v.old
    BY <1>1, IdxSlot DEF IsVq
  <2> QED BY <2>1, <1>3, <1>4, <1>7 DEF Filled, SentVq
<1>9. vq'[q] = w /\ \A r \in Vqs \ {q} : vq'[r] = vq[r]
  BY <1>1, <1>6 DEF QueueInv, QueueTypes
<1>10. /\ lastAvail' \in [QueueIds -> Idx] /\ lastAvail'[id] = w.used
       /\ \A x \in QueueIds \ {id} : lastAvail'[x] = lastAvail[x]
  <2>1. lastAvail \in [QueueIds -> Idx]
    BY DEF QueueInv, QueueTypes
  <2>2. w.used \in Idx
    BY <1>7 DEF IsVq
  <2> QED BY <1>2, <1>6, <1>7, <2>1, <2>2
<1>11. QueueState(q)'
  BY <1>3, <1>8, <1>9 DEF QueueState, Filled, SentVq
<1>12. \A r \in Out \ {q} : QueueState(r)'
  BY <1>3, <1>9 DEF QueueState, QueueInv, OutInv, Out, IdleVq
<1>13. LastInv'
  <2>1. ASSUME NEW r \in Vqs, r # q
        PROVE  IF vq'[r].raw THEN lastAvail'[vq'[r].qid] = vq'[r].used ELSE vq'[r].used = 0 /\ vq'[r].old = 0
    <3>1. vq'[r] = vq[r]
      BY <1>9, <2>1
    <3>2. vq[r].raw => vq[r].qid # id /\ vq[r].qid \in QueueIds
      BY <2>1 DEF QueueInv, Wiring, QueueTypes, IsVq
    <3> QED BY <3>1, <3>2, <1>10 DEF QueueInv, LastInv
  <2>2. vq'[q].raw /\ lastAvail'[vq'[q].qid] = vq'[q].used
    <3>1. w.raw /\ w.qid = id
      BY <1>1, <1>7
    <3> QED BY <3>1, <1>9, <1>10
  <2>3. \A x \in QueueIds : attached'[x] = "none" => lastAvail'[x] = 0
    <3>1. attached[id] # "none"
      BY DEF HasBuf
    <3> QED BY <3>1, <1>10 DEF QueueInv, LastInv
  <2>4. \A r \in Vqs : IF vq'[r].raw THEN lastAvail'[vq'[r].qid] = vq'[r].used
                                     ELSE vq'[r].used = 0 /\ vq'[r].old = 0
    <3> TAKE r \in Vqs
    <3>1. CASE r = q
      BY <3>1, <2>2
    <3>2. CASE r # q
      BY <3>2, <2>1
    <3> QED BY <3>1, <3>2
  <2> QED BY <2>3, <2>4 DEF LastInv
<1>14. QueueTypes' /\ OutInv' /\ Wiring' /\ NamesInv' /\ RawInv' /\ CtlInInv'
  BY <1>1, <1>3, <1>6, <1>7, <1>10, <1>11, <1>12, <1>13, OutKeeps DEF QueueInv, QueueTypes
<1>15. CtlOutInv'
  <2>1. "ctl_out" \in Vqs
    BY DEF Vqs
  <2>2. ~dev'.busy
    BY <1>3 DEF QueueInv, CtlOutInv
  <2> QED BY <2>1, <2>2, <1>3, <1>8, <1>9 DEF CtlOutInv
<1>16. Flight = IF q = "log_out" THEN NextBuf(id).data ELSE <<>>
  BY <1>3, <1>4, <1>5 DEF Flight, NextBuf, d
<1>17. Flight' = <<>>
  BY <1>3, <1>8, <1>9 DEF Flight
<1> QED BY <1>3, <1>4, <1>5, <1>13, <1>14, <1>15, <1>16, <1>17 DEF QueueInv, d

\* Which queue the device finds at a port.
LEMMA PortQueue ==
    ASSUME QueueInv, NEW p \in PortIds, NEW d \in {0, 1}, attached[PortQ(p) + d] # "none"
    PROVE  /\ PortQ(p) + d \in QueueIds
           /\ attached[PortQ(p) + d] \in Out \ {"ctl_out"}
           /\ attached[PortQ(p) + d] = "log_out" <=> (d = 1 /\ host.name[p] = "testrunner0")
           /\ attached[PortQ(p) + d] = "rpmb_out" <=> (d = 1 /\ host.name[p] = "rpmb0")
           /\ attached[PortQ(p) + d] = "rpmb_in" <=> (d = 0 /\ host.name[p] = "rpmb0")
<1> DEFINE id == PortQ(p) + d
           q == attached[id]
<1>1. id \in QueueIds /\ id = ConsoleQ(p) + d /\ id # ControlIn /\ id # ControlOut
  <2>1. PortQ(p) \in QueueIds /\ PortQ(p) + 1 \in QueueIds /\ ConsoleQ(p) = PortQ(p)
    BY PortQueues
  <2>2. PortQ(p) \notin {ControlIn, ControlOut} /\ PortQ(p) + 1 \notin {ControlIn, ControlOut}
    BY PortQueues, <2>1
  <2>3. PortQ(p) + 0 = PortQ(p)
    BY <2>1 DEF QueueIds
  <2> QED BY <2>1, <2>2, <2>3
<1> HIDE DEF id
<1>2. q \in Vqs /\ vq[q].raw /\ vq[q].qid = id
  <2>1. attached[id] # "none"
    BY DEF id
  <2>2. attached \in [QueueIds -> Vqs \cup {"none"}]
    BY DEF QueueInv, QueueTypes
  <2> QED BY <1>1, <2>1, <2>2 DEF QueueInv, Wiring
<1>3. q # "ctl_in" /\ q # "ctl_out"
  BY <1>1, <1>2 DEF QueueInv, Wiring
<1>4. ASSUME NEW n \in Names, NEW e \in {0, 1}, \E r \in PortIds : ports[r].name = n /\ id = ConsoleQ(r) + e
      PROVE  host.name[p] = n /\ d = e
  <2>1. PICK r \in PortIds : ports[r].name = n /\ id = ConsoleQ(r) + e
    BY <1>4
  <2>2. r = p /\ d = e
    <3>1. ConsoleQ(p) + d = ConsoleQ(r) + e /\ ConsoleQ(p) \in Nat /\ ConsoleQ(r) \in Nat
      BY <1>1, <2>1, PortQueues DEF QueueIds
    <3>2. ConsoleQ(p) + 1 # ConsoleQ(r) /\ ConsoleQ(r) + 1 # ConsoleQ(p) /\ (ConsoleQ(p) = ConsoleQ(r) => p = r)
      BY PortsApart
    <3> QED BY <3>1, <3>2
  <2>3. host.name[p] = n
    <3>1. ports[p].name = n /\ n # NoName /\ ports[p].name \in {NoName, host.name[p]}
      BY <2>1, <2>2, Unnamed DEF QueueInv, NamesInv
    <3> QED BY <3>1
  <2> QED BY <2>2, <2>3
<1>5. CASE q = "log_in"
  BY <1>1, <1>2, <1>4, <1>5 DEF QueueInv, Wiring, Wired, Names, Out, id
<1>6. CASE q = "log_out"
  BY <1>1, <1>2, <1>4, <1>6 DEF QueueInv, Wiring, Wired, Names, Out, id
<1>7. CASE q = "rpmb_in"
  BY <1>1, <1>2, <1>4, <1>7 DEF QueueInv, Wiring, Wired, Names, Out, id
<1>8. CASE q = "rpmb_out"
  BY <1>1, <1>2, <1>4, <1>8 DEF QueueInv, Wiring, Wired, Names, Out, id
<1> QED BY <1>2, <1>3, <1>5, <1>6, <1>7, <1>8 DEF Vqs, id

(***************************************************************************)
(* The messages of the host.                                               *)
(***************************************************************************)

LEMMA CtlInKeeps ==
    ASSUME QueueInv, Onward, NEW w, IsVq(w), vq' = [vq EXCEPT !["ctl_in"] = w],
           w.raw = vq["ctl_in"].raw, w.qid = vq["ctl_in"].qid,
           UNCHANGED <<io, attached>>, pc = "io" <=> pc' = "io",
           notified' \subseteq QueueIds, lastAvail' \in [QueueIds -> Idx],
           SameNames \/ Place \in Unlogged, dev'.busy = dev.busy, LastInv', NamesInv', CtlInInv'
    PROVE  QueueInv' /\ Flight' = Flight
<1>1. "ctl_in" \in Vqs /\ "ctl_out" \in Vqs /\ "log_out" \in Vqs /\ "ctl_in" \notin Out
  BY DEF Vqs, Out
<1>2. /\ vq' = [r \in Vqs |-> vq'[r]]
      /\ \A r \in Vqs : IsVq(vq'[r]) /\ (r # "ctl_in" => vq'[r] = vq[r])
      /\ Wiring' /\ RawInv'
  BY <1>1, OneQueue
<1>3. QueueTypes'
  BY <1>2 DEF QueueInv, QueueTypes
<1>4. \A r \in Out : vq'[r] = vq[r]
  BY <1>1, <1>2 DEF Out
<1>5. OutInv'
  BY ZenonT(30), <1>4 DEF QueueInv, OutInv, QueueState, Filled, SentVq, IdleVq
<1>6. CtlOutInv' /\ Flight' = Flight
  BY <1>1, <1>2 DEF QueueInv, CtlOutInv, Flight
<1> QED BY <1>2, <1>3, <1>5, <1>6 DEF QueueInv

\* get_control_msg takes the next message.
LEMMA TakeKeeps ==
    ASSUME QueueInv, Onward, TakeMsg, pc \in {"get", "poll"},
           UNCHANGED <<io, attached, lastAvail, host, dev, ports>>
    PROVE  QueueInv' /\ Flight' = Flight /\ cur' \in Slots
<1>v. PICK v : v = vq["ctl_in"]
  OBVIOUS
<1>w. PICK w : w = VqAdv(v)
  OBVIOUS
<1>1. "ctl_in" \in Vqs /\ IsVq(v) /\ v.used # v.old
  BY <1>v DEF Vqs, QueueInv, QueueTypes, TakeMsg, VqReady
<1>2. v.raw /\ lastAvail[v.qid] = v.used /\ v.write /\ (FreshVq(v) \/ \A i \in Slots : v.desc[i].data # <<>>)
  BY <1>v, <1>1 DEF QueueInv, LastInv, CtlInInv
<1>3. vq' = [vq EXCEPT !["ctl_in"] = w] /\ cur' = v.old % VqSize /\ pc' = "msg" /\ UNCHANGED notified
  BY <1>v, <1>w DEF TakeMsg
<1>4. cur' \in Slots /\ v.old \in Idx /\ v.old \in Nat /\ v.used \in Nat
  BY <1>1, <1>3, IdxSlot, Sizes DEF IsVq, Idx
<1>5. /\ IsVq(w) /\ w.raw = v.raw /\ w.write = v.write /\ w.qid = v.qid
      /\ w.avail = v.avail /\ w.used = v.used /\ w.ring = v.ring /\ w.desc = v.desc
      /\ w.old = (v.old + 1) % IdxMod
  BY <1>w, <1>1, AdvVq
<1>6. vq'["ctl_in"] = w /\ \A r \in Vqs \ {"ctl_in"} : vq'[r] = vq[r]
  BY <1>1, <1>3 DEF QueueInv, QueueTypes
<1>7. LastInv'
  <2>1. w.raw /\ lastAvail'[w.qid] = w.used
    BY <1>2, <1>5
  <2>2. \A r \in Vqs : IF vq'[r].raw THEN lastAvail'[vq'[r].qid] = vq'[r].used
                                     ELSE vq'[r].used = 0 /\ vq'[r].old = 0
    <3> TAKE r \in Vqs
    <3>1. CASE r = "ctl_in"
      BY <3>1, <2>1, <1>6
    <3>2. CASE r # "ctl_in"
      BY <3>2, <1>6 DEF QueueInv, LastInv
    <3> QED BY <3>1, <3>2
  <2> QED BY <2>2 DEF QueueInv, LastInv
<1>8. FreshVq(v) => v.old < v.used /\ v.old < VqSize /\ v.old % VqSize = v.old /\ w.old = v.old + 1
  <2>1. ASSUME FreshVq(v) PROVE v.old < v.used /\ v.old < VqSize
    BY <2>1, <1>1, <1>4, Sizes DEF FreshVq
  <2>2. ASSUME v.old < VqSize PROVE v.old % VqSize = v.old /\ (v.old + 1) % IdxMod = v.old + 1
    <3>1. v.old < 2 * VqSize /\ v.old + 1 < 2 * VqSize
      BY <2>2, <1>4, Sizes
    <3> QED BY <3>1, <2>2, <1>4, SmallIdx
  <2> QED BY <2>1, <2>2, <1>5
<1>9. v.desc[v.old % VqSize].data # <<>>
  BY <1>2, <1>4, <1>8, <1>3 DEF FreshVq
<1>10. FreshVq(v) => FreshVq(w)'
  <2> SUFFICES ASSUME FreshVq(v) PROVE FreshVq(w)'
    OBVIOUS
  <2>1. /\ w.old = v.old + 1 /\ v.old < v.used /\ v.used < VqSize /\ v.avail = VqSize + v.old
        /\ \A i \in Slots : IF i < v.used THEN v.desc[i].data # <<>> ELSE v.ring[i] = i
    BY <1>8 DEF FreshVq
  <2>2. w.used < VqSize /\ w.old <= w.used /\ w.old >= 1 /\ w.avail = VqSize + w.old - 1
    BY SMTT(30), <2>1, <1>4, <1>5, Sizes
  <2>3. \A i \in Slots : IF i < w.used THEN w.desc[i].data # <<>> ELSE w.ring[i] = i
    BY <2>1, <1>5
  <2> QED BY <2>2, <2>3, <1>3 DEF FreshVq
<1>11. CtlInInv'
  <2>1. \A i \in Slots : w.desc[i].data # <<>> => Good(w.desc[i].data)'
    BY <1>v, <1>5 DEF QueueInv, CtlInInv, Good
  <2>2. FreshVq(w)' \/ \A i \in Slots : w.desc[i].data # <<>>
    BY <1>2, <1>5, <1>10
  <2>3. Msg' # <<>>
    BY <1>3, <1>5, <1>6, <1>9 DEF Msg
  <2> QED BY ZenonT(30), <1>2, <1>5, <1>6, <2>1, <2>2, <2>3 DEF CtlInInv, Good, FreshVq
<1>12. NamesInv' /\ SameNames
  BY DEF QueueInv, NamesInv, SameNames
<1>13. notified' \subseteq QueueIds /\ lastAvail' \in [QueueIds -> Idx]
  BY <1>3 DEF QueueInv, QueueTypes
<1>14. w.raw = vq["ctl_in"].raw /\ w.qid = vq["ctl_in"].qid
  BY <1>v, <1>5
<1> QED BY <1>3, <1>4, <1>5, <1>7, <1>11, <1>12, <1>13, <1>14, CtlInKeeps

\* A message is handled and its buffer given back, which does not fill the ring
\* in front of the device.
LEMMA HandleKeeps ==
    ASSUME QueueInv, ConsoleTypes, Onward, NEW e \in Events, HandleMsg(e)
    PROVE  /\ QueueInv' /\ Flight' = Flight
           /\ ports' = [p \in PortIds |-> [host |-> ports'[p].host, guest |-> ports'[p].guest, name |-> ports'[p].name]]
<1>v. PICK v : v = vq["ctl_in"]
  OBVIOUS
<1>w. PICK w : w = MakeAvail(v, cur)
  OBVIOUS
<1>1. "ctl_in" \in Vqs /\ IsVq(v) /\ cur \in Slots
  BY <1>v DEF Vqs, QueueInv, QueueTypes, ConsoleTypes, CurTypes
<1>2. /\ vq' = [vq EXCEPT !["ctl_in"] = w] /\ pc = "msg" /\ pc' \in {"ready", "get"}
      /\ UNCHANGED <<io, attached, notified, lastAvail, host, dev, cur>>
  BY <1>v, <1>w DEF HandleMsg, Release, deviceVars
<1>3. /\ IsVq(w) /\ w.raw = v.raw /\ w.write = v.write /\ w.qid = v.qid /\ w.old = v.old
      /\ w.used = v.used /\ w.desc = v.desc
      /\ w.ring = [v.ring EXCEPT ![v.avail % VqSize] = cur]
      /\ w.avail = (v.avail + 1) % IdxMod
  BY <1>1, <1>w, AvailVq
<1>4. vq'["ctl_in"] = w /\ \A r \in Vqs \ {"ctl_in"} : vq'[r] = vq[r]
  BY <1>1, <1>2 DEF QueueInv, QueueTypes
<1>5. LastInv'
  <2>1. \A r \in Vqs : /\ vq'[r].raw = vq[r].raw /\ vq'[r].qid = vq[r].qid /\ vq'[r].used = vq[r].used
                       /\ vq'[r].old = vq[r].old
    BY <1>v, <1>3, <1>4
  <2> QED BY <2>1, <1>2 DEF QueueInv, LastInv
<1>6. FreshVq(v) => FreshVq(w)'
  <2> SUFFICES ASSUME FreshVq(v) PROVE FreshVq(w)'
    OBVIOUS
  <2>1. v.old \in Nat /\ v.used \in Nat /\ v.avail \in Nat /\ VqSize \in Nat
    BY <1>1, Sizes DEF IsVq, Idx
  <2>2. v.old >= 1 /\ v.old <= v.used /\ v.used < VqSize /\ v.avail = VqSize + v.old - 1
    BY <1>2 DEF FreshVq
  <2>3. v.avail < 2 * VqSize /\ v.avail + 1 < 2 * VqSize /\ v.avail >= VqSize
    BY <2>1, <2>2
  <2>4. v.avail % VqSize = v.old - 1 /\ w.avail = VqSize + v.old
    <3>1. v.avail % VqSize = v.avail - VqSize /\ (v.avail + 1) % IdxMod = v.avail + 1
      BY <2>1, <2>3, SmallIdx
    <3> QED BY <3>1, <2>1, <2>2, <1>3
  <2>5. \A i \in Slots : i >= v.used => w.ring[i] = v.ring[i]
    <3> TAKE i \in Slots
    <3>1. i \in Nat
      BY DEF Slots
    <3> QED BY <3>1, <2>1, <2>2, <2>4, <1>1, <1>3 DEF IsVq
  <2>6. \A i \in Slots : IF i < w.used THEN w.desc[i].data # <<>> ELSE w.ring[i] = i
    <3>1. \A i \in Slots : IF i < v.used THEN v.desc[i].data # <<>> ELSE v.ring[i] = i
      BY DEF FreshVq
    <3> TAKE i \in Slots
    <3>2. i \in Nat
      BY DEF Slots
    <3>3. CASE i < v.used
      BY <3>1, <3>3, <1>3
    <3>4. CASE i >= v.used
      BY <3>1, <3>2, <3>4, <2>1, <2>5, <1>3
    <3> QED BY <3>2, <3>3, <3>4, <2>1
  <2>7. w.used < VqSize /\ w.old <= w.used /\ w.avail = VqSize + w.old
    BY <2>2, <2>4, <1>3
  <2>8. pc' # "msg"
    BY <1>2
  <2> QED BY <2>6, <2>7, <2>8 DEF FreshVq
<1>7. Msg # <<>> /\ Msg = v.desc[cur].data /\ Good(Msg)
  BY <1>v, <1>1, <1>2 DEF QueueInv, CtlInInv, Msg
<1>8. CtlInInv'
  <2>1. \A i \in Slots : w.desc[i].data # <<>> => Good(w.desc[i].data)'
    BY <1>v, <1>2, <1>3 DEF QueueInv, CtlInInv, Good
  <2>2. w.raw => w.write /\ (FreshVq(w)' \/ \A i \in Slots : w.desc[i].data # <<>>)
    BY <1>v, <1>3, <1>6 DEF QueueInv, CtlInInv
  <2>3. Msg' # <<>>
    BY <1>2, <1>3, <1>4, <1>7 DEF Msg
  <2> QED BY ZenonT(30), <1>4, <2>1, <2>2, <2>3 DEF CtlInInv, Good, FreshVq
<1>9. PICK p \in PortIds : p = Msg[1].v
  BY <1>7 DEF Good
<1>10. Msg[1].k = e /\ ports' = PortsAfter(e, p)
  BY <1>9 DEF HandleMsg
<1>11. e = "PORT_NAME" => Msg[2].k = host.name[p]
  BY <1>7, <1>9, <1>10 DEF Good
<1>12. /\ ports' = [r \in PortIds |-> [host |-> ports'[r].host, guest |-> ports'[r].guest, name |-> ports'[r].name]]
       /\ \A r \in PortIds : ports'[r].name \in {NoName, host.name[r]}
  <2>1. /\ ports = [r \in PortIds |-> [host |-> ports[r].host, guest |-> ports[r].guest, name |-> ports[r].name]]
        /\ \A r \in PortIds : ports[r].name \in {NoName, host.name[r]}
    BY DEF ConsoleTypes, PortTypes, QueueInv, NamesInv
  <2>2. \/ ports' = [ports EXCEPT ![p].host = TRUE, ![p].name = NoName]
        \/ ports' = [ports EXCEPT ![p].host = FALSE]
        \/ ports' = [ports EXCEPT ![p].name = host.name[p]]
        \/ ports' = ports
    BY <1>10, <1>11 DEF PortsAfter, Events
  <2> QED BY <2>1, <2>2
<1>13. NamesInv'
  BY <1>2, <1>12 DEF NamesInv
<1>14. Place \in Unlogged
  BY <1>2, AtPlace DEF Inside, RpmbAt, Unlogged
<1>15. notified' \subseteq QueueIds /\ lastAvail' \in [QueueIds -> Idx]
  BY <1>2 DEF QueueInv, QueueTypes
<1>16. w.raw = vq["ctl_in"].raw /\ w.qid = vq["ctl_in"].qid
  BY <1>v, <1>3
<1>17. QueueInv' /\ Flight' = Flight
  BY <1>2, <1>3, <1>5, <1>8, <1>13, <1>14, <1>15, <1>16, CtlInKeeps
<1> QED BY <1>12, <1>17

\* A message of the host goes into the next buffer: the first ones find empty
\* buffers in their order, later ones overwrite messages.
LEMMA SendKeeps ==
    ASSUME QueueInv, ConsoleTypes, Onward, HasBuf(ControlIn), NEW m, Good(m), UseBuf(ControlIn, m, Len(m)),
           UNCHANGED <<pc, io, attached, notified, host, ports, cur>>, dev'.busy = dev.busy
    PROVE  QueueInv' /\ Flight' = Flight
<1>v. PICK v : v = vq["ctl_in"]
  OBVIOUS
<1>d. PICK d : d = NextDesc(ControlIn)
  OBVIOUS
<1>w. PICK w : w = UsedVq(v, d, m, Len(m))
  OBVIOUS
<1>1. attached[ControlIn] = "ctl_in" /\ v.raw /\ v.qid = ControlIn
  <2>1. PICK q \in Vqs : q = attached[ControlIn] /\ vq[q].raw /\ vq[q].qid = ControlIn
    <3>1. attached[ControlIn] # "none" /\ ControlIn \in QueueIds
      BY ControlQueues DEF HasBuf
    <3>2. attached \in [QueueIds -> Vqs \cup {"none"}]
      BY DEF QueueInv, QueueTypes
    <3> QED BY <3>1, <3>2 DEF QueueInv, Wiring
  <2>4. q \notin {"ctl_out", "log_in", "log_out", "rpmb_in", "rpmb_out"}
    BY <2>1, ControlsApart DEF QueueInv, Wiring, Wired
  <2>5. q = "ctl_in"
    BY <2>4 DEF Vqs
  <2> QED BY <1>v, <2>1, <2>5
<1>2. "ctl_in" \in Vqs /\ IsVq(v) /\ cur \in Slots /\ m \in Message /\ m # <<>> /\ Len(m) \in Nat
  BY <1>v DEF Vqs, QueueInv, QueueTypes, ConsoleTypes, CurTypes, Good, Message
<1>3. lastAvail[ControlIn] = v.used /\ d = v.ring[v.used % VqSize] /\ d \in Slots
  <2>1. lastAvail[ControlIn] = v.used
    BY <1>1, <1>2, <1>v DEF QueueInv, LastInv
  <2>2. v.used % VqSize \in Slots /\ v.ring \in [Slots -> Slots]
    BY <1>2, IdxSlot DEF IsVq
  <2> QED BY <2>1, <2>2, <1>1, <1>v, <1>d DEF NextDesc
<1>4. vq' = [vq EXCEPT !["ctl_in"] = w] /\ lastAvail' = [lastAvail EXCEPT ![ControlIn] = (@ + 1) % IdxMod]
  BY <1>1, <1>v, <1>d, <1>w DEF UseBuf, UsedVq
<1>5. v.write /\ (FreshVq(v) \/ \A i \in Slots : v.desc[i].data # <<>>)
      /\ \A i \in Slots : v.desc[i].data # <<>> => Good(v.desc[i].data)
  BY <1>1, <1>v DEF QueueInv, CtlInInv
<1> DEFINE old == v.desc[d].data
           new == m \o SubSeq(old, Len(m) + 1, Len(old))
<1>6. /\ IsVq(w) /\ w.raw = v.raw /\ w.write = v.write /\ w.qid = v.qid /\ w.old = v.old
      /\ w.avail = v.avail /\ w.ring = v.ring /\ w.used = (v.used + 1) % IdxMod
      /\ \A i \in Slots \ {d} : w.desc[i] = v.desc[i]
      /\ w.desc[d].data = new
  <2>1. /\ IsVq(w) /\ w.raw = v.raw /\ w.write = v.write /\ w.qid = v.qid /\ w.old = v.old
        /\ w.avail = v.avail /\ w.ring = v.ring /\ w.used = (v.used + 1) % IdxMod
        /\ \A i \in Slots \ {d} : w.desc[i] = v.desc[i]
        /\ w.desc[d].data = IF v.write THEN m \o SubSeq(v.desc[d].data, Len(m) + 1, Len(v.desc[d].data))
                                       ELSE v.desc[d].data
    <3>1. IsVq(v) /\ d \in Slots /\ m \in Message /\ Len(m) \in Nat
      BY <1>2, <1>3
    <3>2. LET u == UsedVq(v, d, m, Len(m))
          IN  /\ IsVq(u) /\ u.raw = v.raw /\ u.write = v.write /\ u.qid = v.qid /\ u.old = v.old
              /\ u.avail = v.avail /\ u.ring = v.ring /\ u.used = (v.used + 1) % IdxMod
              /\ \A i \in Slots \ {d} : u.desc[i] = v.desc[i]
              /\ u.desc[d].data = IF v.write THEN m \o SubSeq(v.desc[d].data, Len(m) + 1, Len(v.desc[d].data))
                                             ELSE v.desc[d].data
      BY ONLY <3>1, UseVq
    <3> QED BY ONLY <3>2, <1>w
  <2> QED BY <2>1, <1>5
<1>7. old \in Message
  BY <1>2, <1>3 DEF IsVq
<1>8. new \in Message /\ Len(new) >= Len(m) /\ \A i \in 1 .. Len(m) : new[i] = m[i]
  BY <1>2, <1>7, Overwrite
<1> HIDE DEF new
<1>9. new # <<>> /\ Good(new)
  <2>1. Len(m) >= 1 /\ (m[1].k = "PORT_NAME" => Len(m) >= 2)
    BY <1>2, EmptySeq DEF Message, Good
  <2>2. Len(new) \in Nat /\ Len(new) >= 1
    BY <2>1, <1>2, <1>8 DEF Message
  <2>3. new # <<>>
    BY <2>2
  <2>4. new[1] = m[1]
    BY <2>1, <1>2, <1>8
  <2>5. m[1].k = "PORT_NAME" => new[2] = m[2] /\ Len(new) >= 2
    BY <2>1, <2>2, <1>2, <1>8
  <2> QED BY <1>8, <2>3, <2>4, <2>5 DEF Good
<1>10. vq'["ctl_in"] = w /\ \A r \in Vqs \ {"ctl_in"} : vq'[r] = vq[r]
  BY <1>2, <1>4 DEF QueueInv, QueueTypes
<1>11. /\ lastAvail' \in [QueueIds -> Idx] /\ lastAvail'[ControlIn] = w.used
       /\ \A x \in QueueIds \ {ControlIn} : lastAvail'[x] = lastAvail[x]
  <2>1. lastAvail \in [QueueIds -> Idx] /\ w.used \in Idx
    BY <1>6 DEF QueueInv, QueueTypes, IsVq
  <2> QED BY <2>1, <1>3, <1>4, <1>6, ControlQueues
<1>12. LastInv'
  <2>1. \A r \in Vqs : IF vq'[r].raw THEN lastAvail'[vq'[r].qid] = vq'[r].used
                                     ELSE vq'[r].used = 0 /\ vq'[r].old = 0
    <3> TAKE r \in Vqs
    <3>1. CASE r = "ctl_in"
      BY <3>1, <1>1, <1>6, <1>10, <1>11
    <3>2. CASE r # "ctl_in"
      <4>1. vq'[r] = vq[r]
        BY <3>2, <1>10
      <4>2. vq[r].raw => vq[r].qid # ControlIn /\ vq[r].qid \in QueueIds
        BY <3>2, <1>1 DEF QueueInv, Wiring, QueueTypes, IsVq
      <4> QED BY <4>1, <4>2, <1>11 DEF QueueInv, LastInv
    <3> QED BY <3>1, <3>2
  <2>2. \A x \in QueueIds : attached'[x] = "none" => lastAvail'[x] = 0
    BY <1>1, <1>11 DEF QueueInv, LastInv
  <2> QED BY <2>1, <2>2 DEF LastInv
<1>13. FreshVq(v) => FreshVq(w)' \/ \A i \in Slots : w.desc[i].data # <<>>
  <2> SUFFICES ASSUME FreshVq(v) PROVE FreshVq(w)' \/ \A i \in Slots : w.desc[i].data # <<>>
    OBVIOUS
  <2>1. v.used \in Nat /\ v.old \in Nat /\ VqSize \in Nat /\ v.used < VqSize /\ v.old <= v.used
        /\ \A i \in Slots : i \in Nat /\ i < VqSize
    BY SMTT(30), <1>2, Sizes DEF FreshVq, IsVq, Idx, Slots
  <2>2. v.used % VqSize = v.used /\ w.used = v.used + 1 /\ v.used \in Slots
    <3>1. v.used < 2 * VqSize /\ v.used + 1 < 2 * VqSize
      BY <2>1
    <3>2. v.used % VqSize = v.used /\ (v.used + 1) % IdxMod = v.used + 1
      BY <3>1, <2>1, SmallIdx
    <3> QED BY <3>2, <2>1, <1>6 DEF Slots
  <2>3. d = v.used
    BY SMTT(30), <2>1, <2>2, <1>3 DEF FreshVq
  <2>4. \A i \in Slots : IF i < w.used THEN w.desc[i].data # <<>> ELSE w.ring[i] = i
    <3> TAKE i \in Slots
    <3>1. CASE i = d
      BY <3>1, <2>1, <2>2, <2>3, <1>6, <1>9
    <3>2. CASE i # d
      <4>1. i < w.used <=> i < v.used
        <5>1. i \in Nat /\ i # v.used
          BY <3>2, <2>1, <2>3
        <5>2. v.used \in Nat /\ w.used = v.used + 1
          BY <2>1, <2>2
        <5> QED BY ONLY <5>1, <5>2
      <4> QED BY <4>1, <3>2, <1>6 DEF FreshVq
    <3> QED BY <3>1, <3>2
  <2>5. CASE w.used < VqSize
    <3>1. w.old <= w.used
      <4>1. w.old = v.old /\ w.used = v.used + 1 /\ v.old <= v.used /\ v.old \in Nat /\ v.used \in Nat
        BY <2>1, <2>2, <1>6
      <4> QED BY <4>1
    <3> QED BY <3>1, <2>4, <2>5, <1>6 DEF FreshVq
  <2>6. CASE ~(w.used < VqSize)
    <3>1. \A i \in Slots : i < w.used
      BY <2>1, <2>2, <2>6
    <3> QED BY <3>1, <2>4
  <2> QED BY <2>5, <2>6
<1>14. (\A i \in Slots : v.desc[i].data # <<>>) => \A i \in Slots : w.desc[i].data # <<>>
  BY <1>6, <1>9
<1>15. CtlInInv'
  <2>1. \A i \in Slots : w.desc[i].data # <<>> => Good(w.desc[i].data)'
    <3> SUFFICES ASSUME NEW i \in Slots, w.desc[i].data # <<>> PROVE Good(w.desc[i].data)
      BY DEF Good
    <3>1. CASE i = d
      BY <3>1, <1>6, <1>9
    <3>2. CASE i # d
      BY <3>2, <1>5, <1>6
    <3> QED BY <3>1, <3>2
  <2>2. w.raw => w.write /\ (FreshVq(w)' \/ \A i \in Slots : w.desc[i].data # <<>>)
    BY <1>5, <1>6, <1>13, <1>14
  <2>3. pc \in {"msg", "ready"} => Msg' # <<>>
    <3>1. pc \in {"msg", "ready"} => v.desc[cur].data # <<>>
      BY <1>v DEF QueueInv, CtlInInv, Msg
    <3>2. Msg' = w.desc[cur].data
      BY <1>10 DEF Msg
    <3> QED BY <3>1, <3>2, <1>2, <1>6, <1>9
  <2> QED BY <1>10, <2>1, <2>2, <2>3 DEF CtlInInv, Good, FreshVq
<1>16. NamesInv' /\ SameNames
  BY DEF QueueInv, NamesInv, SameNames
<1>17. notified' \subseteq QueueIds
  BY DEF QueueInv, QueueTypes
<1>18. w.raw = vq["ctl_in"].raw /\ w.qid = vq["ctl_in"].qid
  BY <1>v, <1>6
<1> QED BY <1>4, <1>6, <1>11, <1>12, <1>15, <1>16, <1>17, <1>18, CtlInKeeps

(***************************************************************************)
(* Queues are given to the device.                                         *)
(***************************************************************************)

LEMMA AttachKeeps ==
    ASSUME QueueInv, NEW a \in Vqs, NEW b \in Vqs, a # b, NEW i \in QueueIds, NEW j \in QueueIds, i # j,
           NEW w, NEW x, IsVq(w), IsVq(x), vq' = [vq EXCEPT ![a] = w, ![b] = x],
           attached' = VqAttach(VqAttach(attached, a, i), b, j), UNCHANGED lastAvail,
           attached[i] = "none", attached[j] = "none", ~vq[a].raw, ~vq[b].raw,
           w.raw, x.raw, w.qid = i, x.qid = j, w.used = 0, x.used = 0
    PROVE  /\ vq' = [r \in Vqs |-> vq'[r]] /\ vq'[a] = w /\ vq'[b] = x
           /\ \A r \in Vqs : IsVq(vq'[r]) /\ (r \notin {a, b} => vq'[r] = vq[r])
           /\ attached' \in [QueueIds -> Vqs \cup {"none"}]
           /\ \A r \in Vqs : vq'[r].raw => attached'[vq'[r].qid] = r
           /\ \A id \in QueueIds : attached'[id] # "none" => vq'[attached'[id]].raw /\ vq'[attached'[id]].qid = id
           /\ LastInv'
<1>1. /\ vq = [r \in Vqs |-> vq[r]] /\ \A r \in Vqs : IsVq(vq[r])
      /\ attached \in [QueueIds -> Vqs \cup {"none"}] /\ "none" \notin Vqs
  BY DEF QueueInv, QueueTypes, Vqs
<1>2. vq' = [r \in Vqs |-> vq'[r]] /\ vq'[a] = w /\ vq'[b] = x /\ \A r \in Vqs : r \notin {a, b} => vq'[r] = vq[r]
  BY <1>1
<1>3. \A r \in Vqs : IsVq(vq'[r])
  <2> TAKE r \in Vqs
  <2>1. CASE r = a
    BY <2>1, <1>2
  <2>2. CASE r = b
    BY <2>2, <1>2
  <2>3. CASE r \notin {a, b}
    BY <2>3, <1>1, <1>2
  <2> QED BY <2>1, <2>2, <2>3
<1>4. /\ attached' \in [QueueIds -> Vqs \cup {"none"}] /\ attached'[i] = a /\ attached'[j] = b
      /\ \A id \in QueueIds \ {i, j} : attached'[id] = attached[id]
  BY <1>1 DEF VqAttach
<1>5. ASSUME NEW r \in Vqs, r \notin {a, b}, vq[r].raw
      PROVE  attached[vq[r].qid] = r /\ vq[r].qid \in QueueIds \ {i, j}
  <2>1. attached[vq[r].qid] = r /\ vq[r].qid \in QueueIds /\ r # "none"
    BY <1>1, <1>5 DEF QueueInv, Wiring, IsVq
  <2> QED BY <2>1
<1>6. \A r \in Vqs : vq'[r].raw => attached'[vq'[r].qid] = r
  <2> TAKE r \in Vqs
  <2>1. CASE r = a
    BY <2>1, <1>2, <1>4
  <2>2. CASE r = b
    BY <2>2, <1>2, <1>4
  <2>3. CASE r \notin {a, b}
    <3>1. vq'[r] = vq[r]
      BY <2>3, <1>2
    <3>2. vq[r].raw => attached[vq[r].qid] = r /\ vq[r].qid \in QueueIds \ {i, j}
      BY <2>3, <1>5
    <3>3. vq[r].raw => attached'[vq[r].qid] = r
      BY <3>2, <1>4
    <3> QED BY <3>1, <3>3
  <2> QED BY <2>1, <2>2, <2>3
<1>7. \A id \in QueueIds : attached'[id] # "none" => vq'[attached'[id]].raw /\ vq'[attached'[id]].qid = id
  <2> TAKE id \in QueueIds
  <2>1. CASE id = i
    BY <2>1, <1>2, <1>4
  <2>2. CASE id = j
    BY <2>2, <1>2, <1>4
  <2>3. CASE id \notin {i, j} /\ attached[id] # "none"
    <3>1. attached[id] \in Vqs /\ vq[attached[id]].raw /\ vq[attached[id]].qid = id
      BY <2>3, <1>1 DEF QueueInv, Wiring
    <3>2. attached[id] \notin {a, b}
      BY <3>1
    <3>3. attached'[id] = attached[id] /\ vq'[attached[id]] = vq[attached[id]]
      BY <3>1, <3>2, <2>3, <1>2, <1>4
    <3> QED BY <3>1, <3>3
  <2>4. CASE id \notin {i, j} /\ attached[id] = "none"
    BY <2>4, <1>4
  <2> QED BY <2>1, <2>2, <2>3, <2>4
<1>8. lastAvail[i] = 0 /\ lastAvail[j] = 0
  BY DEF QueueInv, LastInv
<1>9. \A r \in Vqs : IF vq'[r].raw THEN lastAvail'[vq'[r].qid] = vq'[r].used
                                   ELSE vq'[r].used = 0 /\ vq'[r].old = 0
  <2> TAKE r \in Vqs
  <2>1. CASE r = a
    BY <2>1, <1>2, <1>8
  <2>2. CASE r = b
    BY <2>2, <1>2, <1>8
  <2>3. CASE r \notin {a, b}
    BY <2>3, <1>2 DEF QueueInv, LastInv
  <2> QED BY <2>1, <2>2, <2>3
<1>10. \A id \in QueueIds : attached'[id] = "none" => lastAvail'[id] = 0
  <2> TAKE id \in QueueIds
  <2>1. CASE id \in {i, j}
    BY <2>1, <1>8
  <2>2. CASE id \notin {i, j}
    BY <2>2, <1>4 DEF QueueInv, LastInv
  <2> QED BY <2>1, <2>2
<1>11. LastInv'
  BY <1>9, <1>10 DEF LastInv
<1> QED BY ZenonT(30), <1>2, <1>3, <1>4, <1>6, <1>7, <1>11

\* control_setup.
LEMMA SetupKeeps ==
    ASSUME QueueInv, ConsoleTypes, ControlInv, Onward, ControlSetup
    PROVE  QueueInv' /\ Flight = <<>> /\ Flight' = <<>>
<1>v. PICK v : v = vq["ctl_in"]
  OBVIOUS
<1>o. PICK o : o = vq["ctl_out"]
  OBVIOUS
<1>t. PICK t : t = InVq(v, ControlIn)
  OBVIOUS
<1>x. PICK x : x = OutVq(o, ControlOut)
  OBVIOUS
<1> DEFINE ring == [i \in Slots |-> i]
           desc == [i \in Slots |-> [data |-> <<>>, len |-> CmsgMax]]
<1>w. PICK w : w = [t EXCEPT !.ring = ring, !.desc = desc, !.avail = VqSize % IdxMod]
  OBVIOUS
<1>1. /\ pc = "setup" /\ pc' = "scan"
      /\ vq' = [vq EXCEPT !["ctl_out"] = x, !["ctl_in"] = w]
      /\ attached' = VqAttach(VqAttach(attached, "ctl_in", ControlIn), "ctl_out", ControlOut)
      /\ dev' = [dev EXCEPT !.ok = TRUE] /\ ports' = [p \in PortIds |-> NoPort]
      /\ UNCHANGED <<io, notified, lastAvail, host, cur>>
  BY <1>v, <1>o, <1>t, <1>x, <1>w DEF ControlSetup, InVq, OutVq
<1>2. \A q \in Vqs : ~vq[q].raw
  <2>1. Place = "setup"
    BY <1>1, AtPlace DEF Inside, RpmbAt
  <2> QED BY <2>1 DEF QueueInv, RawInv, Unready, Unlogged, Unstored, Early, Vqs
<1>3. {"ctl_in", "ctl_out"} \subseteq Vqs /\ IsVq(v) /\ IsVq(o)
  BY <1>v, <1>o DEF QueueInv, QueueTypes, Vqs
<1>4. v.used = 0 /\ v.old = 0 /\ o.used = 0 /\ o.old = 0 /\ o.avail = 0
  <2>1. v.used = 0 /\ v.old = 0 /\ o.used = 0 /\ o.old = 0
    BY <1>v, <1>o, <1>2, <1>3 DEF QueueInv, LastInv
  <2>2. IdleVq(o)
    BY <1>1, <1>o DEF QueueInv, OutInv, QueueState, Out, Vqs
  <2> QED BY <2>1, <2>2 DEF IdleVq
<1>5. \A id \in QueueIds : attached[id] = "none"
  <2>1. attached \in [QueueIds -> Vqs \cup {"none"}]
    BY DEF QueueInv, QueueTypes
  <2> QED BY <2>1, <1>2 DEF QueueInv, Wiring
<1>6. IsVq(t) /\ t.raw /\ t.write /\ t.qid = ControlIn /\ t.old = 0 /\ t.used = 0
  <2>1. IsVq(t) /\ t.raw /\ t.write /\ t.qid = ControlIn /\ t.old = v.old /\ t.used = v.used
    BY <1>3, <1>t, ControlQueues, InitIn
  <2> QED BY <2>1, <1>4
<1>7. IsVq(x) /\ x.raw /\ x.qid = ControlOut /\ x.old = 0 /\ x.used = 0 /\ x.avail = 0
  <2>1. IsVq(x) /\ x.raw /\ x.qid = ControlOut /\ x.old = o.old /\ x.used = o.used /\ x.avail = o.avail
    BY <1>3, <1>x, ControlQueues, InitOut
  <2> QED BY <2>1, <1>4
<1>8. ring \in [Slots -> Slots] /\ desc \in [Slots -> [data : Message, len : Nat]] /\ VqSize \in Idx /\ VqSize % IdxMod = VqSize
  <2>1. CmsgMax \in Nat /\ <<>> \in Message
    BY ConsoleAssumption DEF Message
  <2>2. VqSize \in Nat /\ VqSize < IdxMod /\ IdxMod \in Nat
    BY Sizes
  <2>3. VqSize \in Idx /\ VqSize % IdxMod = VqSize
    BY ONLY <2>2 DEF Idx
  <2> QED BY <2>1, <2>3
<1>9. /\ IsVq(w) /\ w.raw = t.raw /\ w.write = t.write /\ w.qid = ControlIn /\ w.old = 0 /\ w.used = 0
      /\ w.ring = ring /\ w.desc = desc /\ w.avail = VqSize
  <2> HIDE DEF ring, desc
  <2>1. t = Vq(t.raw, t.write, t.qid, t.old, t.avail, t.used, t.ring, t.desc, t.len)
    BY <1>6, VqWhole
  <2>2. w = Vq(t.raw, t.write, t.qid, t.old, VqSize, t.used, ring, desc, t.len)
    <3>1. w = [[[t EXCEPT !.ring = ring] EXCEPT !.desc = desc] EXCEPT !.avail = VqSize]
      BY <1>w, <1>8
    <3>2. [t EXCEPT !.ring = ring] = Vq(t.raw, t.write, t.qid, t.old, t.avail, t.used, ring, t.desc, t.len)
      <4>1. [Vq(t.raw, t.write, t.qid, t.old, t.avail, t.used, t.ring, t.desc, t.len) EXCEPT !.ring = ring]
              = Vq(t.raw, t.write, t.qid, t.old, t.avail, t.used, ring, t.desc, t.len)
        BY DEF Vq
      <4> QED BY <4>1, <2>1
    <3>3. [Vq(t.raw, t.write, t.qid, t.old, t.avail, t.used, ring, t.desc, t.len) EXCEPT !.desc = desc]
            = Vq(t.raw, t.write, t.qid, t.old, t.avail, t.used, ring, desc, t.len)
      BY DEF Vq
    <3>4. [Vq(t.raw, t.write, t.qid, t.old, t.avail, t.used, ring, desc, t.len) EXCEPT !.avail = VqSize]
            = Vq(t.raw, t.write, t.qid, t.old, VqSize, t.used, ring, desc, t.len)
      BY DEF Vq
    <3> QED BY <3>1, <3>2, <3>3, <3>4
  <2>3. /\ t.qid \in QueueIds /\ t.old \in Idx /\ t.used \in Idx /\ t.len \in [Slots -> Nat]
        /\ ring \in [Slots -> Slots] /\ desc \in [Slots -> [data : Message, len : Nat]] /\ VqSize \in Idx
    BY <1>6, <1>8, VqWhole
  <2>4. /\ IsVq(w) /\ w.raw = t.raw /\ w.write = t.write /\ w.qid = t.qid /\ w.old = t.old /\ w.avail = VqSize
        /\ w.used = t.used /\ w.ring = ring /\ w.desc = desc
    BY ONLY <2>2, <2>3, VqParts
  <2> QED BY <2>4, <1>6
<1> HIDE DEF ring, desc
<1>10. /\ vq' = [vq EXCEPT !["ctl_in"] = w, !["ctl_out"] = x] 
  BY <1>1, <1>3 DEF QueueInv, QueueTypes
<1>11. /\ vq' = [r \in Vqs |-> vq'[r]] /\ vq'["ctl_in"] = w /\ vq'["ctl_out"] = x
       /\ \A r \in Vqs : IsVq(vq'[r]) /\ (r \notin {"ctl_in", "ctl_out"} => vq'[r] = vq[r])
       /\ attached' \in [QueueIds -> Vqs \cup {"none"}]
       /\ \A r \in Vqs : vq'[r].raw => attached'[vq'[r].qid] = r
       /\ \A id \in QueueIds : attached'[id] # "none" => vq'[attached'[id]].raw /\ vq'[attached'[id]].qid = id
       /\ LastInv'
  <2>1. ControlIn \in QueueIds /\ ControlOut \in QueueIds /\ ControlIn # ControlOut /\ "ctl_in" # "ctl_out"
    BY ControlQueues, ControlsApart
  <2>2. /\ "ctl_in" \in Vqs /\ "ctl_out" \in Vqs /\ ~vq["ctl_in"].raw /\ ~vq["ctl_out"].raw
        /\ attached[ControlIn] = "none" /\ attached[ControlOut] = "none"
        /\ w.raw /\ x.raw /\ IsVq(w) /\ IsVq(x) /\ w.qid = ControlIn /\ x.qid = ControlOut
        /\ w.used = 0 /\ x.used = 0
        /\ attached' = VqAttach(VqAttach(attached, "ctl_in", ControlIn), "ctl_out", ControlOut)
        /\ lastAvail' = lastAvail
    BY <2>1, <1>1, <1>2, <1>3, <1>5, <1>6, <1>7, <1>9
  <2> QED BY <2>1, <2>2, <1>10, AttachKeeps
<1>12. QueueTypes'
  BY <1>1, <1>11 DEF QueueInv, QueueTypes
<1>13. OutInv'
  <2>1. IdleVq(x)
    BY <1>7 DEF IdleVq
  <2>2. \A r \in Out : vq'[r] = x \/ vq'[r] = vq[r]
    BY <1>11 DEF Out
  <2>3. \A r \in Out : IdleVq(vq[r])
    BY <1>1 DEF QueueInv, OutInv, QueueState
  <2>4. \A r \in Out : QueueState(r)'
    BY <2>1, <2>2, <2>3, <1>1 DEF QueueState, IdleVq
  <2> QED BY <2>4, <1>1 DEF OutInv
<1>14. /\ ~vq'["log_in"].raw /\ ~vq'["log_out"].raw /\ ~vq'["rpmb_in"].raw /\ ~vq'["rpmb_out"].raw
  BY <1>2, <1>11 DEF Vqs
<1>15. Wiring'
  BY <1>7, <1>9, <1>11, <1>14 DEF Wiring, Wired
<1>16. RawInv'
  <2>1. Place' = "scan"
    BY <1>1, AtPlace DEF Inside, RpmbAt, Place, Inner
  <2> QED BY <2>1, <1>14 DEF RawInv, Unready
<1>17. NamesInv'
  BY <1>1 DEF NamesInv, NoPort
<1>18. CtlInInv'
  <2>1. \A i \in Slots : w.desc[i].data = <<>> /\ w.ring[i] = i /\ ~(i < w.used)
    <3> TAKE i \in Slots
    <3>1. i \in Nat
      BY DEF Slots
    <3> QED BY <3>1, <1>9 DEF ring, desc
  <2>2. FreshVq(w)'
    <3>1. w.used < VqSize /\ w.old <= w.used /\ w.avail = VqSize + w.old
      BY <1>9, Sizes
    <3> QED BY <3>1, <2>1, <1>1 DEF FreshVq
  <2>3. w.write
    BY <1>6, <1>9
  <2>4. /\ vq'["ctl_in"].write /\ FreshVq(vq["ctl_in"])'
        /\ \A i \in Slots : vq'["ctl_in"].desc[i].data = <<>>
    BY <2>1, <2>2, <2>3, <1>11 DEF FreshVq
  <2> QED BY <2>4, <1>1 DEF CtlInInv
<1>19. ~dev.busy
  BY <1>1 DEF QueueInv, CtlOutInv
<1>20. CtlOutInv'
  <2>1. dev'.busy = dev.busy
    BY <1>1 DEF ConsoleTypes, DevTypes
  <2> QED BY <2>1, <1>1, <1>19 DEF CtlOutInv
<1>21. Flight = <<>> /\ Flight' = <<>>
  BY <1>1 DEF Flight
<1> QED BY <1>11, <1>12, <1>13, <1>15, <1>16, <1>17, <1>18, <1>20, <1>21 DEF QueueInv

\* vq_init and virtio_console_connect_port: nobody else has the queues of the port.
LEMMA ConnectKeeps ==
    ASSUME QueueInv, ControlInv, Onward, NEW n, NEW in, NEW out, NEW next,
           \/ /\ n = "testrunner0" /\ in = "log_in" /\ out = "log_out" /\ pc = "scanned" /\ next = "log_open"
           \/ /\ n = "rpmb0" /\ in = "rpmb_in" /\ out = "rpmb_out" /\ pc = "rpmb_scan" /\ next = "rpmb_open",
           NamedPorts(n) # {}, ConnectPort(n, in, out, next)
    PROVE  QueueInv' /\ Flight = <<>> /\ Flight' = <<>> /\ cur' \in PortIds
<1>p. PICK p : p = PortOf(n)
  OBVIOUS
<1>1. p \in PortIds /\ ports[p].name = n
  <2>1. NamedPorts(n) \in SUBSET Nat
    BY DEF NamedPorts, PortIds
  <2>2. Min(NamedPorts(n)) \in NamedPorts(n)
    BY <2>1, NatMin
  <2> QED BY <2>2, <1>p DEF PortOf, NamedPorts
<1>i. PICK id : id = ConsoleQ(p)
  OBVIOUS
<1>2. id \in QueueIds /\ id + 1 \in QueueIds /\ id \in Nat /\ id + 0 = id
  BY <1>1, <1>i, PortQueues DEF QueueIds
<1>v. PICK w : w = InVq(vq[in], id)
  OBVIOUS
<1>x. PICK x : x = OutVq(vq[out], id + 1)
  OBVIOUS
<1>3. in \in Vqs /\ out \in Vqs /\ in # out /\ in # "ctl_in" /\ out # "ctl_in" /\ out # "ctl_out" /\ in # "ctl_out"
      /\ in \in Out /\ out \in Out /\ n \in Names
  BY DEF Vqs, Out, Names
<1>4. vq = [r \in Vqs |-> vq[r]] /\ \A r \in Vqs : IsVq(vq[r])
  BY DEF QueueInv, QueueTypes
<1>5. /\ vq' = [vq EXCEPT ![in] = w, ![out] = x]
      /\ attached' = VqAttach(VqAttach(attached, in, id), out, id + 1)
      /\ cur' = p /\ pc' = next
      /\ UNCHANGED <<io, got, notified, lastAvail, host, dev, ports, log, logged, hostLog, rpmb>>
  <2>1. vq' = [vq EXCEPT ![in] = VqInit([@ EXCEPT !.qid = id], TRUE),
                         ![out] = VqInit([@ EXCEPT !.qid = id + 1], FALSE)]
    BY <1>p, <1>i DEF ConnectPort
  <2>2. vq' = [vq EXCEPT ![in] = InVq(@, id), ![out] = OutVq(@, id + 1)]
    BY <2>1 DEF InVq, OutVq
  <2>3. vq' = [vq EXCEPT ![in] = w, ![out] = x]
    BY <2>2, <1>3, <1>4, <1>v, <1>x
  <2> QED BY <2>3, <1>p, <1>i DEF ConnectPort
<1>6. Place = pc
  BY AtPlace DEF Inside, RpmbAt
<1>7. ~vq[in].raw /\ ~vq[out].raw
  BY <1>6 DEF QueueInv, RawInv, Unlogged, Unstored, Early
<1>8. ASSUME NEW d \in {0, 1}, attached[id + d] # "none" PROVE FALSE
  <2>a. PICK e \in QueueIds : e = id + d
    BY <1>2
  <2>q. PICK q \in Vqs : q = attached[e]
    BY <2>a, <1>8 DEF QueueInv, QueueTypes
  <2>1. vq[q].raw /\ vq[q].qid = ConsoleQ(p) + d
    BY <2>a, <2>q, <1>i, <1>8 DEF QueueInv, Wiring, Vqs
  <2>2. q # "ctl_in" /\ q # "ctl_out"
    BY <2>1, <1>1, ControlsApart DEF QueueInv, Wiring
  <2>3. q # in /\ q # out
    BY <2>1, <1>7
  <2>4. CASE n = "testrunner0"
    <3>1. ~vq["rpmb_in"].raw /\ ~vq["rpmb_out"].raw
      BY <2>4, <1>6 DEF QueueInv, RawInv, Unstored, Early
    <3> QED BY <3>1, <2>1, <2>2, <2>3, <2>4 DEF Vqs
  <2>5. CASE n = "rpmb0"
    <3>1. q \in {"log_in", "log_out"}
      BY <2>2, <2>3, <2>5 DEF Vqs
    <3>2. PICK r \in PortIds, f \in {0, 1} : ports[r].name = "testrunner0" /\ vq[q].qid = ConsoleQ(r) + f
      BY <3>1, <2>1 DEF QueueInv, Wiring, Wired
    <3>3. r = p
      <4>1. ConsoleQ(p) + d = ConsoleQ(r) + f
        BY <3>2, <2>1
      <4>2. ConsoleQ(p) \in Nat /\ ConsoleQ(r) \in Nat
        BY <1>1, PortQueues DEF QueueIds
      <4>3. ConsoleQ(p) + 1 # ConsoleQ(r) /\ ConsoleQ(r) + 1 # ConsoleQ(p) /\ (ConsoleQ(p) = ConsoleQ(r) => p = r)
        BY <1>1, PortsApart
      <4> QED BY <4>1, <4>2, <4>3
    <3> QED BY <3>2, <3>3, <2>5, <1>1
  <2> QED BY <2>4, <2>5
<1>9. attached[id] = "none" /\ attached[id + 1] = "none"
  BY <1>2, <1>8
<1>10. vq[in].used = 0 /\ vq[out].used = 0 /\ IdleVq(vq[in]) /\ IdleVq(vq[out])
  BY <1>3, <1>7 DEF QueueInv, LastInv, OutInv, QueueState
<1>11. IsVq(w) /\ w.raw /\ w.qid = id /\ w.old = vq[in].old /\ w.used = vq[in].used /\ w.avail = vq[in].avail
  BY <1>2, <1>3, <1>4, <1>v, InitIn
<1>12. IsVq(x) /\ x.raw /\ x.qid = id + 1 /\ x.old = vq[out].old /\ x.used = vq[out].used /\ x.avail = vq[out].avail
  BY <1>2, <1>3, <1>4, <1>x, InitOut
<1>13. IdleVq(w) /\ IdleVq(x) /\ w.used = 0 /\ x.used = 0 /\ id # id + 1
  BY <1>2, <1>10, <1>11, <1>12 DEF IdleVq
<1>14. /\ vq' = [r \in Vqs |-> vq'[r]] /\ vq'[in] = w /\ vq'[out] = x
       /\ \A r \in Vqs : IsVq(vq'[r]) /\ (r \notin {in, out} => vq'[r] = vq[r])
       /\ attached' \in [QueueIds -> Vqs \cup {"none"}]
       /\ \A r \in Vqs : vq'[r].raw => attached'[vq'[r].qid] = r
       /\ \A e \in QueueIds : attached'[e] # "none" => vq'[attached'[e]].raw /\ vq'[attached'[e]].qid = e
       /\ LastInv'
  BY ZenonT(30), <1>2, <1>3, <1>5, <1>7, <1>9, <1>11, <1>12, <1>13, AttachKeeps
<1>15. QueueTypes'
  BY <1>5, <1>14 DEF QueueInv, QueueTypes
<1>16. pc # "io" /\ pc' # "io" /\ pc # "msg" /\ pc' \notin {"msg", "ready"}
  BY <1>5
<1>17. OutInv'
  <2>1. \A r \in Out : vq'[r] = w \/ vq'[r] = x \/ vq'[r] = vq[r]
    BY <1>14 DEF Out
  <2>2. \A r \in Out : IdleVq(vq[r])
    BY <1>16 DEF QueueInv, OutInv, QueueState
  <2>3. \A r \in Out : QueueState(r)'
    BY <2>1, <2>2, <1>13, <1>16 DEF QueueState, IdleVq
  <2> QED BY <2>3, <1>16 DEF OutInv
<1>18. vq'["ctl_in"] = vq["ctl_in"] /\ vq'["ctl_out"] = vq["ctl_out"]
  BY <1>3, <1>14 DEF Vqs
<1>19. Wired(in, n, 0)' /\ Wired(out, n, 1)'
  <2>1. ports'[p].name = n /\ vq'[in].qid = ConsoleQ(p) + 0 /\ vq'[out].qid = ConsoleQ(p) + 1
    <3>1. vq'[in].qid = id /\ vq'[out].qid = id + 1
      BY <1>11, <1>12, <1>14
    <3>2. id = ConsoleQ(p) + 0
      BY <1>2, <1>i
    <3> QED BY <3>1, <3>2, <1>1, <1>5, <1>i
  <2> QED BY <2>1, <1>1 DEF Wired
<1>20. \A r \in Vqs \ {in, out} : \A m, d : Wired(r, m, d) => Wired(r, m, d)'
  BY ZenonT(30), <1>5, <1>14 DEF Wired
<1>21. /\ Wired("log_in", "testrunner0", 0)' /\ Wired("log_out", "testrunner0", 1)'
       /\ Wired("rpmb_in", "rpmb0", 0)' /\ Wired("rpmb_out", "rpmb0", 1)'
  BY <1>19, <1>20 DEF QueueInv, Wiring, Vqs
<1>22. Wiring'
  BY <1>14, <1>18, <1>21 DEF QueueInv, Wiring
<1>23. RawInv'
  <2>1. Place' = next
    <3>1. next \notin Inside
      BY DEF Inside, RpmbAt
    <3> QED BY <3>1, <1>5, GoPlace
  <2>2. CASE n = "testrunner0"
    <3>1. next = "log_open" /\ vq'["rpmb_in"] = vq["rpmb_in"] /\ vq'["rpmb_out"] = vq["rpmb_out"]
      BY <2>2, <1>14 DEF Vqs
    <3>2. pc = "scanned" /\ "scanned" \in Unstored
      BY <2>2 DEF Unstored, Early
    <3> QED BY <3>1, <3>2, <2>1, <1>6 DEF QueueInv, RawInv, Unready, Unlogged
  <2>3. CASE n = "rpmb0"
    BY <2>1, <2>3 DEF RawInv, Unready, Unlogged, Unstored, Early
  <2> QED BY <2>2, <2>3
<1>24. NamesInv'
  BY <1>5 DEF QueueInv, NamesInv
<1>25. CtlInInv'
  BY SMTT(30), <1>5, <1>16, <1>18, CtlInStays
<1>26. CtlOutInv'
  BY <1>5, <1>16 DEF QueueInv, CtlOutInv
<1>27. Flight = <<>> /\ Flight' = <<>>
  BY <1>16 DEF Flight
<1> QED BY <1>1, <1>5, <1>14, <1>15, <1>17, <1>22, <1>23, <1>24, <1>25, <1>26, <1>27 DEF QueueInv

(***************************************************************************)
(* The steps of the host.                                                  *)
(***************************************************************************)

\* What the device finds in a queue with one buffer.
LEMMA OutBuf ==
    ASSUME QueueInv, NEW id \in QueueIds, HasBuf(id), NEW q, q = attached[id], q \in Out
    PROVE  /\ vq[q].raw /\ pc = "io" /\ io.q = q /\ io.step # "publish" /\ vq[q].used = vq[q].old
           /\ NextDesc(id) = vq[q].old % VqSize
<1> DEFINE v == vq[q]
<1>1. q \in Vqs /\ v.raw /\ v.qid = id
  BY DEF Out, QueueInv, QueueTypes, Wiring, Vqs
<1>2. lastAvail[id] = v.used /\ v.avail # v.used
  BY <1>1 DEF QueueInv, LastInv, HasBuf
<1>3. pc = "io" /\ io.q = q /\ io.step # "publish" /\ Filled(v) /\ SentVq(v)
  BY <1>2 DEF QueueInv, OutInv, QueueState, IdleVq
<1>4. v.used = v.old
  BY <1>2, <1>3 DEF SentVq
<1> QED BY <1>1, <1>2, <1>3, <1>4 DEF NextDesc, Filled

\* The control queue of the driver.
LEMMA ControlOutQueue ==
    ASSUME QueueInv, attached[ControlOut] # "none"
    PROVE  attached[ControlOut] = "ctl_out" /\ attached[ControlOut] \in Out
<1>1. PICK q \in Vqs : q = attached[ControlOut] /\ vq[q].raw /\ vq[q].qid = ControlOut
  <2>1. ControlOut \in QueueIds
    BY ControlQueues
  <2>2. attached \in [QueueIds -> Vqs \cup {"none"}]
    BY DEF QueueInv, QueueTypes
  <2> QED BY <2>1, <2>2 DEF QueueInv, Wiring
<1>2. q \notin {"ctl_in", "log_in", "log_out", "rpmb_in", "rpmb_out"}
  BY <1>1, ControlsApart DEF QueueInv, Wiring, Wired
<1>3. q = "ctl_out" /\ "ctl_out" \in Out
  BY <1>2 DEF Vqs, Out
<1> QED BY <1>1, <1>3

LEMMA TextTypes ==
    ASSUME QueueInv, ConsoleTypes
    PROVE  Flight \in Message /\ LogLeft \in Message /\ <<>> \in Message
<1>1. <<>> \in Message
  BY DEF Message
<1>2. IsVq(vq["log_out"])
  BY DEF QueueInv, QueueTypes, Vqs
<1>3. vq["log_out"].old % VqSize \in Slots
  BY <1>2, IdxSlot DEF IsVq
<1>4. vq["log_out"].desc[vq["log_out"].old % VqSize].data \in Message
  BY <1>2, <1>3 DEF IsVq
<1> QED BY <1>1, <1>4 DEF Flight, LogLeft, ConsoleTypes, LogTypes

\* The device has taken a control message and not given it back.
Taken ==
    /\ vq["ctl_out"].raw /\ pc = "io" /\ io.q = "ctl_out" /\ io.step # "publish"
    /\ vq["ctl_out"].used = vq["ctl_out"].old

\* Only the device's own state changes.
LEMMA DeviceOnly ==
    ASSUME QueueInv, Onward, UNCHANGED <<pc, vq, io, attached, notified, lastAvail, ports, host, cur>>,
           ~dev'.busy \/ Taken
    PROVE  QueueInv' /\ Flight' = Flight
<1>1. QueueTypes' /\ OutInv' /\ LastInv' /\ NamesInv'
  BY DEF QueueInv, QueueTypes, OutInv, QueueState, LastInv, NamesInv
<1>2. Wiring'
  BY DEF QueueInv, Wiring, Wired
<1>3. RawInv'
  BY DEF QueueInv, RawInv, Onward
<1>4. CtlInInv'
  BY DEF QueueInv, CtlInInv, FreshVq, Good, Msg
<1>5. CtlOutInv'
  BY DEF QueueInv, CtlOutInv, Taken
<1>6. Flight' = Flight
  BY DEF Flight
<1> QED BY <1>1, <1>2, <1>3, <1>4, <1>5, <1>6 DEF QueueInv

\* The device writes to and reads from the ports, which changes neither dev nor
LEMMA Regrouped ==
    ASSUME NEW a \in Message, NEW b \in Message, NEW c \in Message
    PROVE  (a \o b) \o c = a \o (b \o c)
BY ConcatAssociative DEF Message

\* the control queues.
LEMMA ControlLink ==
    ASSUME LinkInv, Onward, ControlTake \/ ControlAdd \/ ControlSend \/ ControlDone
    PROVE  LinkInv'
<1>1. /\ UNCHANGED <<pc, io, attached, host, ports, cur, log, logged, hostLog, rpmb>>
      /\ QueueInv /\ ConsoleTypes /\ LogInv
  BY DEF ControlTake, ControlAdd, ControlSend, ControlDone, queueVars, deviceVars, LinkInv
<1>2. LogLeft' = LogLeft
  BY <1>1 DEF LogLeft, Inner
<1>3. ASSUME QueueInv', DevTypes', Flight' = Flight PROVE LinkInv'
  <2>1. ConsoleTypes'
    BY <1>1, <1>3 DEF ConsoleTypes, PortTypes, CurTypes, LogTypes, RpmbTypes
  <2>2. LogInv'
    BY <1>1, <1>2, <1>3 DEF LogInv
  <2> QED BY <2>1, <2>2, <1>3 DEF LinkInv
<1>4. /\ dev = [features |-> dev.features, ok |-> dev.ok, busy |-> dev.busy, added |-> dev.added,
                todo |-> dev.todo, open |-> dev.open, dropped |-> dev.dropped]
      /\ dev.added \in 0 .. MaxPorts
      /\ dev.todo \in Seq(Message) /\ \A i \in 1 .. Len(dev.todo) : Good(dev.todo[i])
  BY <1>1 DEF ConsoleTypes, DevTypes
<1>5. \A m : Good(m)' <=> Good(m)
  BY <1>1 DEF Good
<1>6. ~dev.busy \/ Taken
  BY <1>1 DEF QueueInv, CtlOutInv, Taken
<1>7. CASE ControlTake
  <2>1. HasBuf(ControlOut) /\ UNCHANGED <<vq, lastAvail, notified>> /\ attached[ControlOut] # "none"
    BY <1>7 DEF ControlTake, Notified, queueVars, deviceVars, HasBuf
  <2>2. PICK q : q = attached[ControlOut]
    OBVIOUS
  <2>3. q = "ctl_out" /\ q \in Out /\ ControlOut \in QueueIds
    BY <1>1, <2>1, <2>2, ControlOutQueue, ControlQueues
  <2>4. /\ vq["ctl_out"].raw /\ pc = "io" /\ io.q = "ctl_out" /\ io.step # "publish"
        /\ vq["ctl_out"].used = vq["ctl_out"].old
        /\ NextDesc(ControlOut) = vq["ctl_out"].old % VqSize
    <3>1. /\ vq[q].raw /\ pc = "io" /\ io.q = q /\ io.step # "publish" /\ vq[q].used = vq[q].old
          /\ NextDesc(ControlOut) = vq[q].old % VqSize
      <4>1. QueueInv /\ ControlOut \in QueueIds /\ HasBuf(ControlOut) /\ q \in Out
        BY <1>1, <2>1, <2>3
      <4> QED BY ONLY <4>1, <2>2, OutBuf
    <3> QED BY <3>1, <2>3
  <2>5. QueueInv' /\ Flight' = Flight
    <3>1. Taken
      BY <2>4 DEF Taken
    <3> QED BY <3>1, <1>1, <2>1, DeviceOnly
  <2>m. PICK m : m = NextBuf(ControlOut).data[1]
    BY Zenon
  <2>6. m.v \in PortIds
    <3>1. NextBuf(ControlOut).data = vq["ctl_out"].desc[vq["ctl_out"].old % VqSize].data
      BY <2>2, <2>3, <2>4 DEF NextBuf
    <3> QED BY <2>m, <3>1, <2>4, <1>1 DEF QueueInv, CtlOutInv
  <2>7. dev' = [dev EXCEPT !.busy = TRUE, !.todo = Answers(m),
                          !.added = IF m.k = "DEVICE_READY" THEN 0 ELSE @,
                          !.open = IF m.k = "PORT_OPEN" THEN @ \cup {m.v} ELSE @]
    BY <2>m, <1>7 DEF ControlTake
  <2>8. /\ dev' = [features |-> dev'.features, ok |-> dev'.ok, busy |-> dev'.busy, added |-> dev'.added,
                todo |-> dev'.todo, open |-> dev'.open, dropped |-> dev'.dropped]
        /\ dev'.added \in {0, dev.added} /\ dev'.todo = Answers(m)
    BY <2>7, <1>4
  <2>9. Answers(m) \in Seq(Message) /\ \A i \in 1 .. Len(Answers(m)) : Good(Answers(m)[i])
    <3>1. CASE Answers(m) = <<>>
      BY <3>1
    <3>2. CASE Answers(m) = <<<<Tok("PORT_NAME", m.v), Tok(host.name[m.v], 0)>>, <<Tok("PORT_OPEN", m.v)>>>>
      <4>0. host.name \in [PortIds -> Names]
        BY <1>1 DEF ConsoleTypes, Machine
      <4>n. m.v \in Nat
        BY <2>6, Sizes DEF PortIds
      <4>1. host.name[m.v] \in Names
        BY <4>0, <2>6
      <4>2. Tok("PORT_NAME", m.v) \in Token /\ Tok(host.name[m.v], 0) \in Token /\ Tok("PORT_OPEN", m.v) \in Token
        BY <4>n, <4>1 DEF Tok, Token, Kinds
      <4> DEFINE a == <<Tok("PORT_NAME", m.v), Tok(host.name[m.v], 0)>>
                 b == <<Tok("PORT_OPEN", m.v)>>
      <4>3. a \in Message /\ b \in Message
        BY <4>2 DEF Message
      <4>4. Good(a) /\ Good(b)
        BY <4>3, <2>6 DEF Good, Tok
      <4> HIDE DEF a, b
      <4>5. Answers(m) = <<a, b>>
        BY <3>2 DEF a, b
      <4> QED BY <4>3, <4>4, <4>5
    <3> QED BY <3>1, <3>2 DEF Answers
  <2>10. DevTypes'
    <3>1. dev'.added \in 0 .. MaxPorts
      BY <2>8, <1>4, Sizes
    <3> QED BY <3>1, <2>8, <2>9, <1>5 DEF DevTypes
  <2> QED BY <2>5, <2>10, <1>3
<1>8. CASE ControlAdd
  <2>1. /\ UNCHANGED <<vq, lastAvail, notified>> /\ dev.added < MaxPorts
        /\ dev' = [dev EXCEPT !.todo = Announce(dev.added), !.added = @ + 1]
    BY <1>8 DEF ControlAdd, queueVars, deviceVars
  <2>2. /\ dev' = [features |-> dev'.features, ok |-> dev'.ok, busy |-> dev'.busy, added |-> dev'.added,
                todo |-> dev'.todo, open |-> dev'.open, dropped |-> dev'.dropped]
        /\ dev'.added = dev.added + 1 /\ dev'.todo = Announce(dev.added) /\ dev'.busy = dev.busy
    BY <2>1, <1>4
  <2>3. PICK p \in PortIds : p = dev.added
    BY <2>1, <1>4, Sizes DEF PortIds
  <2>4. Announce(p) \in Seq(Message) /\ \A i \in 1 .. Len(Announce(p)) : Good(Announce(p)[i])
    <3> DEFINE a == <<Tok("DEVICE_ADD", p)>>
               b == <<Tok("DEVICE_REMOVE", p)>>
    <3>1. Tok("DEVICE_ADD", p) \in Token /\ Tok("DEVICE_REMOVE", p) \in Token
      BY DEF Tok, Token, Kinds, PortIds
    <3>2. a \in Message /\ b \in Message
      BY <3>1 DEF Message
    <3>3. Good(a) /\ Good(b)
      BY <3>2 DEF Good, Tok
    <3>4. Announce(p) = <<a>> \/ Announce(p) = <<a, b>> \/ Announce(p) = <<>>
      BY DEF Announce
    <3> HIDE DEF a, b
    <3>5. CASE Announce(p) = <<a>>
      BY <3>2, <3>3, <3>5
    <3>6. CASE Announce(p) = <<a, b>>
      BY <3>2, <3>3, <3>6
    <3>7. CASE Announce(p) = <<>>
      BY <3>7
    <3> QED BY <3>4, <3>5, <3>6, <3>7
  <2>5. DevTypes'
    <3>1. dev'.added \in 0 .. MaxPorts
      BY <2>1, <2>2, <1>4, Sizes
    <3> QED BY <3>1, <2>2, <2>3, <2>4, <1>5 DEF DevTypes
  <2>6. QueueInv' /\ Flight' = Flight
    <3>1. ~dev'.busy \/ Taken
      BY <2>2, <1>6
    <3> QED BY <3>1, <1>1, <2>1, DeviceOnly
  <2> QED BY <2>5, <2>6, <1>3
<1>9. ASSUME dev.todo # <<>>, dev'.todo = Tail(dev.todo), dev'.added = dev.added,
             dev' = [features |-> dev'.features, ok |-> dev'.ok, busy |-> dev'.busy, added |-> dev'.added,
                todo |-> dev'.todo, open |-> dev'.open, dropped |-> dev'.dropped]
      PROVE  DevTypes'
  <2>1. /\ Tail(dev.todo) \in Seq(Message) /\ Len(Tail(dev.todo)) = Len(dev.todo) - 1 /\ Len(dev.todo) \in Nat
        /\ \A i \in 1 .. Len(Tail(dev.todo)) : Tail(dev.todo)[i] = dev.todo[i + 1]
    BY <1>4, <1>9, HeadTailProperties
  <2>2. \A i \in 1 .. Len(Tail(dev.todo)) : Good(Tail(dev.todo)[i])
    BY <2>1, <1>4
  <2> QED BY <2>1, <2>2, <1>4, <1>5, <1>9 DEF DevTypes
<1>10. CASE ControlSend
  <2>1. dev.todo # <<>> /\ UNCHANGED notified
    BY <1>10 DEF ControlSend
  <2>2. CASE ~HasBuf(ControlIn)
    <3>1. dev' = [dev EXCEPT !.todo = Tail(@), !.dropped = TRUE] /\ UNCHANGED <<vq, lastAvail>>
      BY <1>10, <2>2 DEF ControlSend
    <3>2. /\ dev' = [features |-> dev'.features, ok |-> dev'.ok, busy |-> dev'.busy, added |-> dev'.added,
                todo |-> dev'.todo, open |-> dev'.open, dropped |-> dev'.dropped]
          /\ dev'.added = dev.added /\ dev'.todo = Tail(dev.todo) /\ dev'.busy = dev.busy
      BY <3>1, <1>4
    <3>3. ~dev'.busy \/ Taken
      BY <3>2, <1>6
    <3>4. QueueInv' /\ Flight' = Flight
      BY <3>1, <3>3, <2>1, <1>1, DeviceOnly
    <3>5. DevTypes'
      BY <3>2, <2>1, <1>9
    <3> QED BY <3>4, <3>5, <1>3
  <2>3. CASE HasBuf(ControlIn)
    <3>1. UseBuf(ControlIn, Head(dev.todo), Len(Head(dev.todo))) /\ dev' = [dev EXCEPT !.todo = Tail(@)]
      BY <1>10, <2>3 DEF ControlSend
    <3>2. /\ dev' = [features |-> dev'.features, ok |-> dev'.ok, busy |-> dev'.busy, added |-> dev'.added,
                todo |-> dev'.todo, open |-> dev'.open, dropped |-> dev'.dropped]
          /\ dev'.added = dev.added /\ dev'.todo = Tail(dev.todo) /\ dev'.busy = dev.busy
      BY <3>1, <1>4
    <3>3. Good(Head(dev.todo))
      <4>1. Head(dev.todo) = dev.todo[1] /\ Len(dev.todo) \in Nat /\ Len(dev.todo) >= 1
        BY <1>4, <2>1, EmptySeq
      <4> QED BY <4>1, <1>4
    <3>4. QueueInv' /\ Flight' = Flight
      BY <3>1, <3>2, <3>3, <2>1, <2>3, <1>1, SendKeeps
    <3> QED BY <3>2, <3>4, <2>1, <1>3, <1>9
  <2> QED BY <2>2, <2>3
<1>11. CASE ControlDone
  <2>1. /\ dev.busy /\ UseBuf(ControlOut, <<>>, 0) /\ dev' = [dev EXCEPT !.busy = FALSE]
        /\ notified' \subseteq notified
    BY <1>11 DEF ControlDone, StillNotified
  <2>2. /\ dev' = [features |-> dev'.features, ok |-> dev'.ok, busy |-> dev'.busy, added |-> dev'.added,
                todo |-> dev'.todo, open |-> dev'.open, dropped |-> dev'.dropped]
        /\ dev'.added = dev.added /\ dev'.todo = dev.todo /\ ~dev'.busy
    BY <2>1, <1>4
  <2>v. PICK v : v = vq["ctl_out"]
    OBVIOUS
  <2>3. /\ v.raw /\ pc = "io" /\ io.q = "ctl_out" /\ io.step # "publish" /\ v.used = v.old
        /\ "ctl_out" \in Vqs /\ "ctl_out" \in Out /\ IsVq(v)
    BY <2>1, <2>v, <1>1 DEF QueueInv, CtlOutInv, QueueTypes, Vqs, Out
  <2>4. v.qid = ControlOut /\ attached[ControlOut] = "ctl_out" /\ lastAvail[ControlOut] = v.used
    BY <2>v, <2>3, <1>1 DEF QueueInv, Wiring, LastInv
  <2>5. v.avail # v.used
    <3>1. SentVq(v)
      BY <2>v, <2>3, <1>1 DEF QueueInv, OutInv, QueueState
    <3>2. (v.old + 1) % IdxMod # v.old
      BY <2>3, IdxSlot DEF IsVq
    <3> QED BY <3>1, <3>2, <2>3 DEF SentVq
  <2>6. HasBuf(ControlOut)
    BY <2>v, <2>4, <2>5 DEF HasBuf
  <2>7. notified' \subseteq QueueIds /\ <<>> \in Message
    BY <2>1, <1>1 DEF QueueInv, QueueTypes, Message
  <2>8. QueueInv' /\ Flight = <<>> /\ Flight' = <<>>
    BY <2>1, <2>2, <2>3, <2>4, <2>6, <2>7, <1>1, ControlQueues, UseKeeps
  <2>9. DevTypes'
    BY <2>2, <1>4, <1>5 DEF DevTypes
  <2> QED BY <2>8, <2>9, <1>3
<1> QED BY <1>7, <1>8, <1>10, <1>11

(***************************************************************************)
(* Sequences of tokens.                                                    *)
(***************************************************************************)

LEMMA Cut ==
    ASSUME NEW s \in Message, NEW i \in Nat, i >= 1, NEW j \in Nat, j <= Len(s)
    PROVE  SubSeq(s, i, j) \in Message
<1>1. s \in Seq(Token) /\ Len(s) \in Nat
  BY LenProperties DEF Message
<1>2. \A k \in i .. j : s[k] \in Token
  <2> TAKE k \in i .. j
  <2>1. k \in 1 .. Len(s)
    BY <1>1
  <2> QED BY <1>1, <2>1, ElementOfSeq
<1>3. SubSeq(s, i, j) \in Seq(Token)
  BY <1>2, SubSeqProperties
<1> QED BY <1>3 DEF Message

LEMMA Joined ==
    ASSUME NEW s \in Message, NEW t \in Message
    PROVE  s \o t \in Message /\ s \o <<>> = s /\ <<>> \o s = s
<1>1. s \in Seq(Token) /\ t \in Seq(Token)
  BY DEF Message
<1>2. s \o t \in Seq(Token)
  BY <1>1, ConcatProperties
<1>3. s \o <<>> = s /\ <<>> \o s = s
  BY <1>1, ConcatEmptySeq
<1> QED BY <1>2, <1>3 DEF Message

\* The buffer of a queue with one buffer.
LEMMA BufText ==
    ASSUME QueueInv, NEW id \in QueueIds, HasBuf(id), NEW q, q = attached[id], q \in Out
    PROVE  NextBuf(id).data \in Message /\ NextBuf(id).len \in Nat
<1>1. NextDesc(id) = vq[q].old % VqSize
  BY OutBuf
<1>2. IsVq(vq[q])
  BY DEF Out, QueueInv, QueueTypes
<1>3. vq[q].old % VqSize \in Slots
  BY <1>2, IdxSlot DEF IsVq
<1> QED BY <1>1, <1>2, <1>3 DEF NextBuf, IsVq

\* A packet for the host: what arrives on testrunner0 is what was on the way.
LEMMA PortOutLink ==
    ASSUME LinkInv, ControlInv, Onward, NEW p \in PortIds, PortOut(p)
    PROVE  LinkInv'
<1> DEFINE id == PortQ(p) + 1
           log0 == host.name[p] = "testrunner0"
<1>1. /\ UNCHANGED <<pc, io, attached, host, dev, ports, cur, log, logged>>
      /\ QueueInv /\ ConsoleTypes /\ LogInv
      /\ HasBuf(id) /\ attached[id] # "none" /\ UseBuf(id, <<>>, 0) /\ notified' \subseteq notified
      /\ hostLog' = (IF log0 THEN hostLog \o NextBuf(id).data ELSE hostLog)
      /\ rpmb' = (IF host.name[p] = "rpmb0" THEN [rpmb EXCEPT !.stream = @ \o NextBuf(id).data] ELSE rpmb)
  BY DEF PortOut, LinkInv, Notified, HasBuf, StillNotified
<1>2. /\ id \in QueueIds /\ attached[id] \in Out \ {"ctl_out"}
      /\ attached[id] = "log_out" <=> log0
  BY <1>1, PortQueue
<1> HIDE DEF id
<1>q. PICK q : q = attached[id]
  OBVIOUS
<1>3. NextBuf(id).data \in Message
  BY <1>1, <1>2, <1>q, BufText
<1>d. PICK data : data = NextBuf(id).data
  OBVIOUS
<1>4. notified' \subseteq QueueIds /\ <<>> \in Message
  BY <1>1 DEF QueueInv, QueueTypes, Message
<1>5. QueueInv' /\ Flight' = <<>> /\ Flight = IF q = "log_out" THEN data ELSE <<>>
  <2>1. dev'.busy => dev.busy /\ q # "ctl_out"
    BY <1>1, <1>2, <1>q
  <2>2. q \in Out /\ host'.name = host.name /\ 0 \in Nat
    BY <1>1, <1>2, <1>q
  <2> QED BY <1>1, <1>2, <1>4, <1>q, <1>d, <2>1, <2>2, UseKeeps
<1>6. hostLog \in Message /\ LogLeft \in Message /\ LogLeft' = LogLeft
  BY <1>1, TextTypes DEF ConsoleTypes, LogTypes, LogLeft, Inner
<1>7. hostLog' = hostLog \o Flight /\ hostLog' \in Message
  <2>1. CASE log0
    BY <2>1, <1>1, <1>2, <1>3, <1>5, <1>6, <1>q, <1>d, Joined
  <2>2. CASE ~log0
    BY <2>2, <1>1, <1>2, <1>4, <1>5, <1>6, <1>q, <1>d, Joined
  <2> QED BY <2>1, <2>2
<1>8. LogInv'
  <2>1. hostLog' \o <<>> = hostLog'
    BY <1>7, <1>4, Joined
  <2> QED BY <2>1, <1>1, <1>5, <1>6, <1>7 DEF LogInv
<1>9. RpmbTypes'
  <2>1. /\ rpmb.cmd \in Cmds \cup {NoCmd} /\ rpmb.stream \in Message /\ rpmb.reply \in Message
        /\ rpmb.executed \in Seq(Message)
    BY <1>1 DEF ConsoleTypes, RpmbTypes
  <2>2. rpmb.stream \o data \in Message
    BY <2>1, <1>3, <1>d, Joined
  <2>3. CASE host.name[p] = "rpmb0"
    <3>1. rpmb' = [rpmb EXCEPT !.stream = @ \o data]
      BY <2>3, <1>1, <1>d
    <3>2. /\ rpmb'.cmd = rpmb.cmd /\ rpmb'.reply = rpmb.reply /\ rpmb'.stream = rpmb.stream \o data
          /\ rpmb'.executed = rpmb.executed
      BY <3>1 DEF ControlInv
    <3> QED BY <3>2, <2>1, <2>2 DEF RpmbTypes
  <2>4. CASE host.name[p] # "rpmb0"
    BY <2>4, <2>1, <1>1 DEF RpmbTypes
  <2> QED BY <2>3, <2>4
<1>10. ConsoleTypes'
  BY <1>1, <1>7, <1>9 DEF ConsoleTypes, DevTypes, Good, PortTypes, CurTypes, LogTypes
<1> QED BY <1>5, <1>8, <1>10 DEF LinkInv

\* A packet for the driver.
LEMMA PortInLink ==
    ASSUME LinkInv, ControlInv, Onward, NEW p \in PortIds, PortIn(p)
    PROVE  LinkInv'
<1> DEFINE id == PortQ(p)
           all == ToGuest(p)
           n == Min({Len(all), NextBuf(id).len})
           rest == SubSeq(all, n + 1, Len(all))
<1>1. /\ UNCHANGED <<pc, io, attached, dev, ports, cur, log, logged, hostLog>>
      /\ QueueInv /\ ConsoleTypes /\ LogInv
      /\ HasBuf(id) /\ attached[id] # "none" /\ UseBuf(id, SubSeq(all, 1, n), n) /\ notified' \subseteq notified
      /\ \/ host.name[p] = "testrunner0" /\ host' = [host EXCEPT !.line = rest] /\ UNCHANGED rpmb
         \/ rpmb' = [rpmb EXCEPT !.reply = rest] /\ UNCHANGED host
  BY DEF PortIn, LinkInv, Notified, HasBuf, StillNotified
<1>2. id \in QueueIds /\ attached[id] \in Out \ {"ctl_out"} /\ attached[id] # "log_out"
  <2>1. id + 0 = id
    BY PortQueues DEF QueueIds
  <2> QED BY <2>1, <1>1, PortQueue
<1> HIDE DEF id
<1>q. PICK q : q = attached[id]
  OBVIOUS
<1>3. all \in Message
  BY <1>1 DEF ToGuest, ConsoleTypes, Machine, RpmbTypes
<1> HIDE DEF all
<1>4. NextBuf(id).len \in Nat /\ Len(all) \in Nat
  BY <1>1, <1>2, <1>3, <1>q, BufText, LenProperties DEF Message
<1>5. n \in Nat /\ n <= Len(all)
  <2>1. {Len(all), NextBuf(id).len} \in SUBSET Nat /\ {Len(all), NextBuf(id).len} # {}
    BY <1>4
  <2> QED BY <2>1, <1>4, NatMin
<1> HIDE DEF n
<1>6. SubSeq(all, 1, n) \in Message /\ rest \in Message
  BY <1>3, <1>4, <1>5, Cut
<1> HIDE DEF rest
<1>7. notified' \subseteq QueueIds
  BY <1>1 DEF QueueInv, QueueTypes
<1>8. /\ host' \in Machine /\ host'.name = host.name
      /\ RpmbTypes'
  <2>1. CASE host' = [host EXCEPT !.line = rest] /\ UNCHANGED rpmb
    BY <2>1, <1>1, <1>6 DEF ConsoleTypes, Machine, RpmbTypes
  <2>2. CASE rpmb' = [rpmb EXCEPT !.reply = rest] /\ UNCHANGED host
    <3>1. /\ rpmb'.cmd = rpmb.cmd /\ rpmb'.reply = rest /\ rpmb'.stream = rpmb.stream
          /\ rpmb'.executed = rpmb.executed
      BY <2>2 DEF ControlInv
    <3> QED BY <3>1, <2>2, <1>1, <1>6 DEF ConsoleTypes, RpmbTypes
  <2> QED BY <2>1, <2>2, <1>1
<1>9. QueueInv' /\ Flight' = <<>> /\ Flight = <<>>
  <2>t. PICK t : t = SubSeq(all, 1, n)
    OBVIOUS
  <2>1. dev'.busy => dev.busy /\ q # "ctl_out"
    BY <1>1, <1>2, <1>q
  <2>2. q \in Out /\ q # "log_out" /\ t \in Message /\ UseBuf(id, t, n)
    BY <1>1, <1>2, <1>6, <1>q, <2>t
  <2> QED BY <1>1, <1>2, <1>5, <1>7, <1>8, <1>q, <2>1, <2>2, UseKeeps
<1>10. LogInv'
  BY <1>1, <1>9 DEF LogInv, LogLeft, Inner
<1>11. ConsoleTypes'
  BY <1>1, <1>8 DEF ConsoleTypes, DevTypes, Good, PortTypes, CurTypes, LogTypes
<1> QED BY <1>9, <1>10, <1>11 DEF LinkInv

\* The RPMB device of the host is not on the queues.
LEMMA RpmbExecuteLink ==
    ASSUME LinkInv, ControlInv, Onward, RpmbExecute
    PROVE  LinkInv'
<1>s. PICK s : s = rpmb.stream
  OBVIOUS
<1> DEFINE rest == SubSeq(s, 3 + s[2].v, Len(s))
           reply == [i \in 1 .. s[1].v |-> Tok("block", Len(rpmb.executed) + 1)]
<1>1. /\ UNCHANGED <<pc, vq, io, attached, notified, lastAvail, host, dev, ports, cur, log, logged, hostLog>>
      /\ QueueInv /\ ConsoleTypes /\ LogInv /\ Len(s) >= 2 /\ Len(s) >= 2 + s[2].v
      /\ s \in Message
      /\ rpmb' = [rpmb EXCEPT !.stream = rest,
                              !.executed = Append(@, SubSeq(s, 1, 2 + s[2].v)),
                              !.reply = reply]
  BY <1>s DEF RpmbExecute, LinkInv, queueVars, deviceVars, ConsoleTypes, RpmbTypes
<1>2. QueueInv' /\ Flight' = Flight
  <2>1. ~dev'.busy \/ Taken
    BY <1>1 DEF QueueInv, CtlOutInv, Taken
  <2> QED BY <2>1, <1>1, DeviceOnly
<1>3. s[1].v \in Nat /\ s[2].v \in Nat /\ Len(s) \in Nat
  <2>1. s \in Seq(Token) /\ Len(s) \in Nat
    BY <1>1, LenProperties DEF Message
  <2>2. s[1] \in Token /\ s[2] \in Token
    BY <2>1, <1>1, ElementOfSeq
  <2> QED BY <2>1, <2>2 DEF Token
<1>4. rest \in Message
  <2>1. 3 + s[2].v \in Nat /\ 3 + s[2].v >= 1 /\ Len(s) <= Len(s)
    BY <1>3
  <2> QED BY <2>1, <1>1, <1>3, Cut
<1>5. reply \in Message
  <2>1. Len(rpmb.executed) + 1 \in Nat
    BY <1>1, LenProperties DEF ConsoleTypes, RpmbTypes
  <2>2. Tok("block", Len(rpmb.executed) + 1) \in Token
    BY <2>1 DEF Token, Kinds, Tok
  <2>t. PICK t \in Token : t = Tok("block", Len(rpmb.executed) + 1)
    BY <2>2
  <2>3. [i \in 1 .. s[1].v |-> t] \in Seq(Token)
    BY <1>3
  <2> QED BY <2>3, <2>t DEF Message
<1>6. RpmbTypes'
  <2>1. SubSeq(s, 1, 2 + s[2].v) \in Message
    <3>n. PICK n \in Nat : n = 2 + s[2].v
      BY <1>3
    <3>1. n <= Len(s)
      BY <1>1, <3>n
    <3>2. 1 \in Nat /\ 1 >= 1
      OBVIOUS
    <3>3. SubSeq(s, 1, n) \in Message
      BY ONLY Zenon, <3>1, <3>2, <1>1, Cut
    <3> QED BY <3>n, <3>3
  <2>d. PICK done : done = SubSeq(s, 1, 2 + s[2].v)
    OBVIOUS
  <2> HIDE DEF rest, reply
  <2>2. /\ rpmb'.cmd = rpmb.cmd /\ rpmb'.stream = rest /\ rpmb'.reply = reply
        /\ rpmb'.executed = Append(rpmb.executed, done)
    BY <1>1, <2>d DEF ControlInv
  <2>3. Append(rpmb.executed, done) \in Seq(Message)
    BY <2>1, <2>d, <1>1, AppendProperties DEF ConsoleTypes, RpmbTypes
  <2> QED BY <2>2, <2>3, <1>1, <1>4, <1>5 DEF ConsoleTypes, RpmbTypes
<1>7. LogInv'
  BY <1>1, <1>2 DEF LogInv, LogLeft, Inner
<1>8. ConsoleTypes'
  BY <1>1, <1>6 DEF ConsoleTypes, DevTypes, Good, PortTypes, CurTypes, LogTypes
<1> QED BY <1>2, <1>7, <1>8 DEF LinkInv

LEMMA HostLink ==
    ASSUME LinkInv, ControlInv, Onward, HostStep
    PROVE  LinkInv'
BY ControlLink, RpmbExecuteLink, PortOutLink, PortInLink DEF HostStep

(***************************************************************************)
(* The steps of CPU 0.                                                     *)
(***************************************************************************)

LEMMA DevStays == ASSUME DevTypes, UNCHANGED <<dev, host>> PROVE DevTypes'
BY DEF DevTypes, Good

\* Between the calls everything logged has arrived.
LEMMA Arrived ==
    ASSUME LinkInv, pc \notin {"io", "log"}
    PROVE  logged = hostLog /\ LogLeft = <<>> /\ hostLog \in Message
<1>1. Flight = <<>> /\ LogLeft = <<>> /\ hostLog \in Message /\ <<>> \in Message
  BY EmptySeq DEF Flight, LogLeft, Inner, LinkInv, ConsoleTypes, LogTypes, Message
<1>2. hostLog \o <<>> = hostLog
  BY <1>1, Joined
<1> QED BY <1>1, <1>2 DEF LinkInv, LogInv

\* A step that neither starts a call nor ends one.
LEMMA StepLink ==
    ASSUME LinkInv, Onward, UNCHANGED <<vq, io, attached, lastAvail, host, log, logged, hostLog>>,
           notified' \subseteq QueueIds, SameNames, dev'.busy = dev.busy,
           pc \notin {"io", "log", "msg"}, pc' \notin {"io", "log", "msg", "ready"},
           DevTypes', PortTypes', CurTypes', RpmbTypes'
    PROVE  LinkInv'
<1>1. QueueInv' /\ Flight' = <<>>
  BY IdleKeeps DEF LinkInv
<1>2. logged = hostLog /\ hostLog \in Message /\ <<>> \in Message
  BY Arrived, EmptySeq DEF Message
<1>3. LogLeft' = <<>>
  BY DEF LogLeft, Inner
<1>4. hostLog \o <<>> = hostLog
  BY <1>2, Joined
<1>5. LogInv'
  BY <1>1, <1>2, <1>3, <1>4 DEF LogInv
<1>6. ConsoleTypes'
  BY DEF LinkInv, ConsoleTypes, LogTypes
<1> QED BY <1>1, <1>5, <1>6 DEF LinkInv

LEMMA GoLink ==
    ASSUME LinkInv, Onward, NEW next, Go(next), pc \notin {"io", "log", "msg"},
           next \notin {"io", "log", "msg", "ready", "log_open", "rpmb_open"}
    PROVE  LinkInv'
<1>1. /\ UNCHANGED <<vq, io, attached, notified, lastAvail, host, dev, ports, cur, log, logged, hostLog, rpmb>>
      /\ pc' = next
  BY DEF Go, queueVars, deviceVars, consoleVars
<1>2. DevTypes' /\ PortTypes' /\ CurTypes' /\ RpmbTypes'
  BY <1>1, DevStays DEF LinkInv, ConsoleTypes, PortTypes, CurTypes, RpmbTypes
<1>3. notified' \subseteq QueueIds /\ SameNames
  BY <1>1 DEF LinkInv, QueueInv, QueueTypes, SameNames
<1> QED BY <1>1, <1>2, <1>3, StepLink

\* send_vq and recv_vq outside log_buf.
LEMMA IoLink ==
    ASSUME LinkInv, Onward, NEW q \in Out, NEW data \in Message, NEW n \in Nat, NEW next \in IoNext \ {"log"},
           StartIo(q, data, n, next), UNCHANGED <<deviceVars, host, dev, cur, log, hostLog>>,
           pc \notin {"io", "log", "msg"}, SameNames, PortTypes', RpmbTypes',
           q = "ctl_out" => data # <<>> /\ data[1].v \in PortIds,
           n = 0 => data = <<>>,
           logged' = logged \o (IF q = "log_out" THEN data ELSE <<>>)
    PROVE  LinkInv'
<1> USE DEF deviceVars
<1>t. PICK t : t = IF q = "log_out" THEN data ELSE <<>>
  OBVIOUS
<1>1. QueueInv' /\ Flight' = t
  BY <1>t, StartKeeps DEF LinkInv
<1>2. logged = hostLog /\ hostLog \in Message /\ <<>> \in Message /\ t \in Message
  BY <1>t, Arrived, EmptySeq DEF Message
<1>3. pc' \in {"io", next} /\ (pc' = "io" => io'.next = next) /\ next # "io" /\ next # "log"
      /\ next \notin {"log_open", "rpmb_open"}
  BY DEF StartIo, IoNext, RpmbAt
<1>4. LogLeft' = <<>>
  BY <1>3 DEF LogLeft, Inner
<1>5. hostLog \o t \in Message /\ (hostLog \o t) \o <<>> = hostLog \o t
  BY <1>2, Joined
<1>6. LogInv'
  BY <1>1, <1>2, <1>4, <1>5, <1>t DEF LogInv
<1>7. DevTypes' /\ CurTypes'
  BY <1>3, DevStays DEF LinkInv, ConsoleTypes, CurTypes
<1>8. ConsoleTypes'
  BY <1>2, <1>5, <1>7, <1>t DEF LinkInv, ConsoleTypes, LogTypes
<1> QED BY <1>1, <1>6, <1>8 DEF LinkInv

\* log_buf is called.
LEMMA LogBufLink ==
    ASSUME LinkInv, Onward, NEW text \in Message, NEW next, LogBuf(text, next), pc \notin {"io", "log", "msg"}
    PROVE  LinkInv'
<1>1. /\ UNCHANGED <<vq, io, attached, notified, lastAvail, host, dev, ports, cur, hostLog, rpmb>>
      /\ pc' = "log" /\ log'.left = text /\ logged' = logged \o text
  BY DEF LogBuf, queueVars, deviceVars
<1>2. notified' \subseteq QueueIds /\ SameNames
  BY <1>1 DEF LinkInv, QueueInv, QueueTypes, SameNames
<1>3. QueueInv' /\ Flight' = <<>>
  BY <1>1, <1>2, IdleKeeps DEF LinkInv
<1>4. logged = hostLog /\ hostLog \in Message /\ <<>> \in Message
  BY Arrived, EmptySeq DEF Message
<1>5. LogLeft' = text
  BY <1>1 DEF LogLeft, Inner
<1>6. hostLog \o <<>> = hostLog /\ hostLog \o text \in Message
  BY <1>4, Joined
<1>7. LogInv'
  BY <1>1, <1>3, <1>4, <1>5, <1>6 DEF LogInv
<1>8. ConsoleTypes'
  BY <1>1, <1>4, <1>6, DevStays DEF LinkInv, ConsoleTypes, PortTypes, CurTypes, LogTypes, RpmbTypes
<1> QED BY <1>3, <1>7, <1>8 DEF LinkInv

\* The text of log_msg.
LEMMA LogMsgLink ==
    ASSUME LinkInv, Onward, NEW name \in Texts, NEW next, LogMsg(name, next), pc \notin {"io", "log", "msg"}
    PROVE  LinkInv'
<1> DEFINE text == [i \in 1 .. Body + 1 |-> Tok(name, i)]
<1>1. Body \in Nat
  BY ConsoleAssumption
<1>2. \A i \in 1 .. Body + 1 : Tok(name, i) \in Token
  BY <1>1 DEF Tok, Token, Kinds
<1>3. text \in Message
  BY <1>1, <1>2 DEF Message
<1>4. LogBuf(text, next)
  BY DEF LogMsg
<1> HIDE DEF text
<1> QED BY <1>3, <1>4, LogBufLink

\* log_buf goes on.
LEMMA LogChunkLink ==
    ASSUME LinkInv, ControlInv, Onward, LogChunk
    PROVE  LinkInv'
<1>l. PICK left : left = log.left
  OBVIOUS
<1>n. PICK n : n = Min({Body, Len(left)})
  OBVIOUS
<1>1. /\ pc = "log" /\ UNCHANGED <<attached, notified, lastAvail, host, dev, ports, cur, logged, hostLog, rpmb>>
      /\ IF n = 0 THEN pc' = log.next /\ log' = NoLog /\ UNCHANGED <<vq, io>>
         ELSE /\ Send("log_out", SubSeq(left, 1, n), "log")
              /\ log' = [log EXCEPT !.left = SubSeq(left, n + 1, Len(left))]
  BY <1>l, <1>n DEF LogChunk, LogRest, deviceVars
<1>2. left \in Message /\ hostLog \in Message /\ <<>> \in Message /\ Len(left) \in Nat /\ left \in Seq(Token)
  BY <1>l, LenProperties, EmptySeq DEF LinkInv, ConsoleTypes, LogTypes, Message
<1>3. n \in {Body, Len(left)} /\ n <= Len(left) /\ n \in Nat /\ Body \in Nat /\ Body # 0
  <2>1. Body \in Nat /\ Body # 0
    BY ConsoleAssumption
  <2>2. {Body, Len(left)} \in SUBSET Nat /\ {Body, Len(left)} # {}
    BY <1>2, <2>1
  <2> QED BY <2>1, <2>2, <1>n, <1>2, NatMin
<1>4. LogLeft = left /\ Flight = <<>>
  BY <1>1, <1>l DEF LogLeft, Inner, Flight
<1>5. logged = hostLog \o left
  <2>1. hostLog \o <<>> = hostLog
    BY <1>2, Joined
  <2> QED BY <2>1, <1>4 DEF LinkInv, LogInv
<1>6. SameNames /\ notified' \subseteq QueueIds /\ DevTypes' /\ PortTypes' /\ RpmbTypes' /\ cur' \in Slots
  BY <1>1, DevStays DEF LinkInv, ConsoleTypes, PortTypes, RpmbTypes, CurTypes, SameNames, QueueInv, QueueTypes
<1>7. CASE n = 0
  <2>1. pc' = log.next /\ log' = NoLog /\ UNCHANGED <<vq, io>> /\ pc' \in LogNext
    BY <1>1, <1>7 DEF ControlInv, Inner
  <2>2. pc' \notin {"io", "log", "msg", "ready", "log_open", "rpmb_open"}
    BY <2>1 DEF LogNext
  <2>3. left = <<>>
    BY <1>2, <1>3, <1>7, EmptySeq
  <2>4. QueueInv' /\ Flight' = <<>>
    BY <1>1, <1>6, <2>1, <2>2, IdleKeeps DEF LinkInv
  <2>5. LogLeft' = <<>> /\ log'.left = <<>>
    BY <2>1, <2>2 DEF LogLeft, Inner, NoLog
  <2>6. hostLog \o <<>> = hostLog
    BY <1>2, Joined
  <2>7. LogInv'
    BY <1>1, <1>5, <2>3, <2>4, <2>5, <2>6 DEF LogInv
  <2>8. ConsoleTypes'
    BY <1>1, <1>2, <1>6, <2>2, <2>5 DEF LinkInv, ConsoleTypes, CurTypes, LogTypes
  <2> QED BY <2>4, <2>7, <2>8 DEF LinkInv
<1>8. CASE n # 0
  <2>d. PICK data : data = SubSeq(left, 1, n)
    OBVIOUS
  <2>r. PICK rest : rest = SubSeq(left, n + 1, Len(left))
    OBVIOUS
  <2>1. data \in Message /\ rest \in Message
    BY <1>2, <1>3, <2>d, <2>r, Cut
  <2>2. data \o rest = left
    <3>1. SubSeq(left, 1, n) \o SubSeq(left, n + 1, Len(left)) = SubSeq(left, 1, Len(left))
      <4>1. 1 \in 1 .. Len(left) + 1 /\ n \in 1 - 1 .. Len(left) /\ Len(left) \in n .. Len(left)
        BY <1>2, <1>3
      <4> QED BY <4>1, <1>2, ConcatAdjacentSubSeq
    <3> QED BY <3>1, <2>d, <2>r, <1>2, SubSeqFull
  <2>3. Len(data) \in Nat /\ (Len(data) = 0 => data = <<>>)
    BY <2>1, LenProperties, EmptySeq DEF Message
  <2>m. PICK m : m = Len(data)
    OBVIOUS
  <2>4. StartIo("log_out", data, m, "log") /\ log' = [log EXCEPT !.left = rest]
    BY <1>1, <1>8, <2>d, <2>r, <2>m DEF Send
  <2>5. "log_out" \in Out /\ "log" \in IoNext
    BY DEF Out, Vqs, IoNext
  <2>6. QueueInv' /\ Flight' = data
    BY <1>1, <1>6, <2>1, <2>3, <2>4, <2>5, <2>m, StartKeeps DEF LinkInv
  <2>7. log'.left = rest
    BY <2>4 DEF ControlInv
  <2>8. pc' \in {"io", "log"} /\ (pc' = "io" => io'.next = "log")
    BY <2>4 DEF StartIo
  <2>9. LogLeft' = rest
    BY <2>7, <2>8 DEF LogLeft, Inner
  <2>10. (hostLog \o data) \o rest = hostLog \o (data \o rest)
    BY ONLY <1>2, <2>1, Regrouped
  <2>11. LogInv'
    BY <1>1, <1>5, <2>2, <2>6, <2>9, <2>10 DEF LogInv
  <2>12. ConsoleTypes'
    BY <1>1, <1>6, <2>1, <2>7, <2>8 DEF LinkInv, ConsoleTypes, CurTypes, LogTypes
  <2> QED BY <2>6, <2>11, <2>12 DEF LinkInv
<1> QED BY <1>7, <1>8

\* The steps of send_vq and recv_vq.
LEMMA DriverLink ==
    ASSUME LinkInv, ControlInv, Onward, DriverIo, UNCHANGED consoleVars
    PROVE  LinkInv'
<1>1. UNCHANGED <<host, dev, ports, cur, log, logged, hostLog, rpmb>> /\ pc = "io" /\ io.next \in IoNext
  BY Zenon DEF consoleVars, DriverIo, PublishIo, KickIo, FinishIo, ControlInv
<1>2. io.next # "io" /\ io.next \notin {"log_open", "rpmb_open"}
  BY <1>1 DEF IoNext, RpmbAt
<1>3. Inner' = Inner /\ pc' \notin {"log_open", "rpmb_open"}
  <2>1. CASE PublishIo \/ KickIo
    BY <2>1, <1>1 DEF PublishIo, KickIo, Inner, ControlInv
  <2>2. CASE FinishIo
    BY <2>2, <1>1, <1>2 DEF FinishIo, Inner
  <2> QED BY <2>1, <2>2 DEF DriverIo
<1>4. QueueInv' /\ Flight' = Flight
  BY PublishKeeps, FinishKeeps DEF DriverIo, LinkInv
<1>5. LogInv'
  BY <1>1, <1>3, <1>4 DEF LinkInv, LogInv, LogLeft
<1>6. ConsoleTypes'
  BY <1>1, <1>3, DevStays DEF LinkInv, ConsoleTypes, PortTypes, CurTypes, LogTypes, RpmbTypes
<1> QED BY SMTT(30), <1>4, <1>5, <1>6 DEF LinkInv

\* vq_init and virtio_console_connect_port.
LEMMA ConnectLink ==
    ASSUME LinkInv, ControlInv, Onward, NEW n, NEW in, NEW out, NEW next,
           \/ /\ n = "testrunner0" /\ in = "log_in" /\ out = "log_out" /\ pc = "scanned" /\ next = "log_open"
           \/ /\ n = "rpmb0" /\ in = "rpmb_in" /\ out = "rpmb_out" /\ pc = "rpmb_scan" /\ next = "rpmb_open",
           NamedPorts(n) # {}, ConnectPort(n, in, out, next)
    PROVE  LinkInv'
<1>1. QueueInv' /\ Flight' = <<>> /\ cur' \in PortIds
  <2>1. QueueInv
    BY DEF LinkInv
  <2> QED BY <2>1, ConnectKeeps
<1>2. UNCHANGED <<host, dev, ports, log, logged, hostLog, rpmb>> /\ pc' = next
  BY DEF ConnectPort
<1>3. logged = hostLog /\ hostLog \in Message /\ <<>> \in Message
  BY Arrived, EmptySeq DEF Message
<1>4. LogLeft' = <<>>
  BY <1>2 DEF LogLeft, Inner
<1>5. hostLog \o <<>> = hostLog
  BY <1>3, Joined
<1>6. LogInv'
  BY <1>1, <1>2, <1>3, <1>4, <1>5 DEF LogInv
<1>7. cur' \in Slots
  BY <1>1, PortQueues
<1>8. ConsoleTypes'
  BY <1>1, <1>2, <1>7, DevStays DEF LinkInv, ConsoleTypes, PortTypes, CurTypes, LogTypes, RpmbTypes
<1> QED BY <1>1, <1>6, <1>8 DEF LinkInv

\* control_setup.
LEMMA SetupLink ==
    ASSUME LinkInv, ControlInv, Onward, ControlSetup
    PROVE  LinkInv'
<1>1. QueueInv' /\ Flight' = <<>>
  BY SetupKeeps DEF LinkInv
<1>2. /\ UNCHANGED <<host, cur, log, logged, hostLog, rpmb>> /\ pc = "setup" /\ pc' = "scan"
      /\ dev' = [dev EXCEPT !.ok = TRUE] /\ ports' = [p \in PortIds |-> NoPort]
  BY DEF ControlSetup
<1>3. logged = hostLog /\ hostLog \in Message /\ <<>> \in Message
  BY <1>2, Arrived, EmptySeq DEF Message
<1>4. LogLeft' = <<>>
  BY <1>2 DEF LogLeft, Inner
<1>5. hostLog \o <<>> = hostLog
  BY <1>3, Joined
<1>6. LogInv'
  BY <1>1, <1>2, <1>3, <1>4, <1>5 DEF LogInv
<1>7. DevTypes'
  <2>1. /\ dev' = [features |-> dev'.features, ok |-> dev'.ok, busy |-> dev'.busy, added |-> dev'.added,
                   todo |-> dev'.todo, open |-> dev'.open, dropped |-> dev'.dropped]
        /\ dev'.added = dev.added /\ dev'.todo = dev.todo
    BY <1>2 DEF LinkInv, ConsoleTypes, DevTypes
  <2> QED BY <1>2, <2>1 DEF LinkInv, ConsoleTypes, DevTypes, Good
<1>8. PortTypes'
  BY <1>2 DEF PortTypes, NoPort
<1>9. ConsoleTypes'
  BY <1>2, <1>7, <1>8 DEF LinkInv, ConsoleTypes, CurTypes, LogTypes, RpmbTypes
<1> QED BY <1>1, <1>6, <1>9 DEF LinkInv

\* The control messages of the host are taken and handled.
LEMMA MsgLink ==
    ASSUME LinkInv, Onward, GetMsg \/ PollMsg \/ \E e \in Events : HandleMsg(e)
    PROVE  LinkInv'
<1>1. /\ UNCHANGED <<io, attached, lastAvail, host, dev, log, logged, hostLog, rpmb>>
      /\ pc \in {"get", "poll", "msg"}
  BY DEF GetMsg, PollMsg, HandleMsg, deviceVars
<1>2. logged = hostLog /\ LogLeft = <<>> /\ hostLog \in Message
  BY <1>1, Arrived
<1>3. ASSUME QueueInv', Flight' = Flight, pc' \in {"msg", "ready", "get"}, cur' \in Slots, PortTypes'
      PROVE  LinkInv'
  <2>1. LogLeft' = <<>> /\ pc' \notin {"log_open", "rpmb_open"}
    BY <1>3 DEF LogLeft, Inner
  <2>2. LogInv'
    BY <1>1, <1>2, <1>3, <2>1 DEF LinkInv, LogInv
  <2>3. ConsoleTypes'
    BY <1>1, <1>3, <2>1, DevStays DEF LinkInv, ConsoleTypes, CurTypes, LogTypes, RpmbTypes
  <2> QED BY <2>2, <2>3, <1>3 DEF LinkInv
<1>4. ASSUME GetMsg \/ PollMsg, TakeMsg PROVE LinkInv'
  <2>1. UNCHANGED ports /\ pc \in {"get", "poll"} /\ pc' = "msg"
    BY <1>4 DEF GetMsg, PollMsg, TakeMsg
  <2>2. QueueInv' /\ Flight' = Flight /\ cur' \in Slots
    BY <1>1, <1>4, <2>1, TakeKeeps DEF LinkInv
  <2>3. PortTypes'
    BY <2>1 DEF LinkInv, ConsoleTypes, PortTypes
  <2> QED BY <2>1, <2>2, <2>3, <1>3
<1>5. ASSUME GetMsg \/ PollMsg, ~TakeMsg PROVE LinkInv'
  <2>1. UNCHANGED <<ports, cur, vq>> /\ pc \in {"get", "poll"} /\ pc' \in {"poll", "scanned"}
    BY <1>5 DEF GetMsg, PollMsg
  <2>2. notified' \subseteq QueueIds
    <3>1. vq["ctl_in"].qid \in QueueIds /\ notified \subseteq QueueIds
      BY DEF LinkInv, QueueInv, QueueTypes, IsVq, Vqs
    <3> QED BY <3>1, <1>5 DEF GetMsg, PollMsg, Kick
  <2>3. DevTypes' /\ PortTypes' /\ CurTypes' /\ RpmbTypes' /\ SameNames
    BY <1>1, <2>1, DevStays DEF LinkInv, ConsoleTypes, PortTypes, CurTypes, RpmbTypes, SameNames
  <2> QED BY <1>1, <2>1, <2>2, <2>3, StepLink
<1>6. ASSUME NEW e \in Events, HandleMsg(e) PROVE LinkInv'
  <2>1. QueueInv' /\ Flight' = Flight /\ PortTypes'
    BY <1>6, HandleKeeps DEF LinkInv, PortTypes
  <2>2. UNCHANGED cur /\ pc' \in {"ready", "get"}
    BY <1>6 DEF HandleMsg
  <2> QED BY <2>1, <2>2, <1>3 DEF LinkInv, ConsoleTypes, CurTypes
<1> QED BY <1>4, <1>5, <1>6

\* A message of one token.
LEMMA TokenLink ==
    ASSUME LinkInv, Onward, NEW q \in Out, NEW k \in Kinds, NEW v \in Nat, NEW next \in IoNext \ {"log"},
           Send(q, <<Tok(k, v)>>, next), UNCHANGED <<deviceVars, host, dev, cur, log, hostLog>>,
           pc \notin {"io", "log", "msg"}, SameNames, PortTypes', RpmbTypes',
           q = "ctl_out" => v \in PortIds,
           logged' = IF q = "log_out" THEN Append(logged, Tok(k, v)) ELSE logged
    PROVE  LinkInv'
<1>1. Tok(k, v) \in Token /\ Tok(k, v).v = v
  BY DEF Tok, Token
<1>t. PICK t \in Token : t = Tok(k, v)
  BY <1>1
<1>2. <<t>> \in Message /\ Len(<<t>>) = 1 /\ <<t>> # <<>> /\ <<t>>[1] = t
  BY DEF Message
<1>3. StartIo(q, <<t>>, 1, next)
  BY <1>2, <1>t DEF Send
<1>4. logged \in Message /\ <<>> \in Message
  BY EmptySeq DEF LinkInv, ConsoleTypes, LogTypes, Message
<1>5. Append(logged, t) = logged \o <<t>> /\ logged \o <<>> = logged
  <2>1. Append(logged, t) = logged \o <<t>>
    BY <1>4, AppendIsConcat DEF Message
  <2> QED BY <2>1, <1>4, Joined
<1>d. PICK data : data = <<t>>
  OBVIOUS
<1>6. logged' = logged \o (IF q = "log_out" THEN data ELSE <<>>)
  BY <1>5, <1>t, <1>d
<1>7. data \in Message /\ StartIo(q, data, 1, next) /\ data # <<>> /\ (q = "ctl_out" => data[1].v \in PortIds)
  BY <1>1, <1>2, <1>3, <1>t, <1>d
<1> QED BY <1>6, <1>7, IoLink

LEMMA Same ==
    ASSUME LinkInv, UNCHANGED <<ports, rpmb>>
    PROVE  SameNames /\ PortTypes' /\ RpmbTypes'
BY DEF LinkInv, ConsoleTypes, PortTypes, RpmbTypes, SameNames

\* The start of the console.
LEMMA ConsoleInitLink ==
    ASSUME LinkInv, ControlInv, Onward, ConsoleInit
    PROVE  LinkInv'
<1>1. CASE Probe
  <2>1. Go(pc') /\ pc = "probe" /\ pc' \in {"negotiate", "error", "hung"}
    BY <1>1 DEF Probe, Go, LogNowhere
  <2>2. PICK next : next = pc'
    OBVIOUS
  <2> QED BY <2>1, <2>2, GoLink
<1>2. CASE Negotiate
  <2>1. /\ UNCHANGED <<vq, io, attached, notified, lastAvail, host, ports, cur, log, logged, hostLog, rpmb>>
        /\ pc = "negotiate" /\ pc' \in {"setup", "assert"}
        /\ UNCHANGED dev \/ dev' = [dev EXCEPT !.features = SetFeatures(Desired)]
    BY <1>2 DEF Negotiate, queueVars, deviceVars
  <2>2. /\ dev' = [features |-> dev'.features, ok |-> dev'.ok, busy |-> dev'.busy, added |-> dev'.added,
                   todo |-> dev'.todo, open |-> dev'.open, dropped |-> dev'.dropped]
        /\ dev'.added = dev.added /\ dev'.todo = dev.todo /\ dev'.busy = dev.busy
    BY <2>1 DEF LinkInv, ConsoleTypes, DevTypes
  <2>3. DevTypes'
    BY <2>1, <2>2 DEF LinkInv, ConsoleTypes, DevTypes, Good
  <2>4. CurTypes' /\ notified' \subseteq QueueIds
    BY <2>1 DEF LinkInv, ConsoleTypes, CurTypes, QueueInv, QueueTypes
  <2> QED BY <2>1, <2>2, <2>3, <2>4, Same, StepLink
<1>3. CASE Scan
  <2>1. /\ pc = "scan" /\ Send("ctl_out", <<Tok("DEVICE_READY", 0)>>, "get")
        /\ UNCHANGED <<deviceVars, host, dev, ports, cur, log, logged, hostLog, rpmb>>
    BY <1>3 DEF Scan, consoleVars
  <2>2. "DEVICE_READY" \in Kinds /\ 0 \in Nat /\ 0 \in PortIds /\ "get" \in IoNext \ {"log"} /\ "ctl_out" \in Out
    BY Sizes DEF Kinds, PortIds, IoNext, Out, Vqs
  <2> QED BY <2>1, <2>2, Same, TokenLink
<1>4. CASE PortReady
  <2>v. PICK v : v = Msg[1].v
    OBVIOUS
  <2>1. /\ pc = "ready" /\ UNCHANGED <<got, deviceVars, host, dev, ports, cur, log, logged, hostLog, rpmb>>
        /\ Send("ctl_out", <<Tok("PORT_READY", v)>>, "get") \/ (pc' = "assert" /\ UNCHANGED <<vq, io>>)
    BY <1>4, <2>v DEF PortReady, consoleVars
  <2>2. v \in PortIds
    <3>1. Msg # <<>> /\ cur \in Slots
      BY <2>1 DEF LinkInv, QueueInv, CtlInInv, ConsoleTypes, CurTypes
    <3>2. Good(Msg)
      BY <3>1 DEF LinkInv, QueueInv, CtlInInv, Msg
    <3> QED BY <3>2, <2>v DEF Good
  <2>3. "PORT_READY" \in Kinds /\ v \in Nat /\ "get" \in IoNext \ {"log"} /\ "ctl_out" \in Out
    BY <2>2, Sizes DEF Kinds, PortIds, IoNext, Out, Vqs
  <2>4. CASE Send("ctl_out", <<Tok("PORT_READY", v)>>, "get")
    BY <2>1, <2>2, <2>3, <2>4, Same, TokenLink
  <2>5. CASE pc' = "assert" /\ UNCHANGED <<vq, io>>
    <3>1. Go("assert")
      BY <2>1, <2>5 DEF Go, queueVars, consoleVars
    <3> QED BY <3>1, <2>1, GoLink
  <2> QED BY <2>1, <2>4, <2>5
<1>5. CASE ControlSetup
  BY <1>5, SetupLink
<1>6. CASE GetMsg \/ PollMsg \/ \E e \in Events : HandleMsg(e)
  BY <1>6, MsgLink
<1> QED BY <1>1, <1>2, <1>3, <1>4, <1>5, <1>6 DEF ConsoleInit

\* port_open.
LEMMA OpenLink ==
    ASSUME LinkInv, Onward, NEW at, NEW next, OpenPort(at, next),
           at \in {"log_open", "rpmb_open"}, next \in {"log_opened", "rpmb_opened"}
    PROVE  LinkInv'
<1>c. PICK c : c = cur
  OBVIOUS
<1>1. /\ pc = at /\ Send("ctl_out", <<Tok("PORT_OPEN", c)>>, next)
      /\ UNCHANGED <<deviceVars, host, dev, ports, cur, log, logged, hostLog, rpmb>>
  BY <1>c DEF OpenPort, consoleVars
<1>2. c \in PortIds
  BY <1>1, <1>c DEF LinkInv, ConsoleTypes, CurTypes
<1>3. "PORT_OPEN" \in Kinds /\ c \in Nat /\ next \in IoNext \ {"log"} /\ "ctl_out" \in Out
  BY <1>2, Sizes DEF Kinds, PortIds, IoNext, Out, Vqs
<1> QED BY <1>1, <1>2, <1>3, Same, TokenLink

\* The bookkeeping of port_open.
LEMMA OpenedPorts ==
    ASSUME LinkInv, PortOpened
    PROVE  PortTypes' /\ SameNames
<1>1. ports = [p \in PortIds |-> [host |-> ports[p].host, guest |-> ports[p].guest, name |-> ports[p].name]]
  BY DEF LinkInv, ConsoleTypes, PortTypes
<1>2. ports' = [ports EXCEPT ![cur].guest = TRUE]
  BY DEF PortOpened
<1>b. PICK b : b = TRUE
  OBVIOUS
<1>3. ports' = [ports EXCEPT ![cur].guest = b]
  BY <1>2, <1>b
<1>4. ports' = [p \in PortIds |-> ports'[p]]
  BY <1>1, <1>3
<1>5. ASSUME NEW p \in PortIds
      PROVE  /\ ports'[p] = [host |-> ports'[p].host, guest |-> ports'[p].guest, name |-> ports'[p].name]
             /\ ports'[p].name = ports[p].name
  <2>r. PICK r : r = ports[p]
    OBVIOUS
  <2>1. r = [host |-> r.host, guest |-> r.guest, name |-> r.name]
    BY <1>1, <2>r
  <2>2. ports'[p] = r \/ ports'[p] = [r EXCEPT !.guest = b]
    BY <1>1, <1>3, <2>r
  <2>s. PICK s : s = ports'[p]
    OBVIOUS
  <2>3. s = [host |-> s.host, guest |-> s.guest, name |-> s.name] /\ s.name = r.name
    <3>1. CASE s = r
      BY <3>1, <2>1
    <3>2. CASE s = [r EXCEPT !.guest = b]
      BY <3>2, <2>1
    <3> QED BY <3>1, <3>2, <2>2, <2>s
  <2> QED BY <2>3, <2>r, <2>s
<1> QED BY <1>4, <1>5 DEF PortTypes, SameNames

LEMMA LogOpenedLink ==
    ASSUME LinkInv, Onward, LogOpened
    PROVE  LinkInv'
<1>1. /\ pc = "log_opened" /\ StartIo("log_in", <<>>, CmdSize, "cmdline")
      /\ UNCHANGED <<deviceVars, host, dev, cur, log, logged, hostLog, rpmb>>
  BY DEF LogOpened, Recv
<1>2. PortTypes' /\ SameNames
  BY OpenedPorts DEF LogOpened
<1>3. RpmbTypes'
  BY <1>1 DEF LinkInv, ConsoleTypes, RpmbTypes
<1>4. CmdSize \in Nat /\ <<>> \in Message /\ "cmdline" \in IoNext \ {"log"} /\ "log_in" \in Out
  BY RunnerAssumption, EmptySeq DEF Message, IoNext, Out, Vqs
<1>5. logged \o <<>> = logged
  BY <1>4, Joined DEF LinkInv, ConsoleTypes, LogTypes
<1>6. logged' = logged \o (IF "log_in" = "log_out" THEN <<>> ELSE <<>>)
  BY <1>1, <1>5
<1>d. PICK data : data = <<>>
  OBVIOUS
<1>q. PICK q : q = "log_in"
  OBVIOUS
<1>7. /\ q \in Out /\ data \in Message /\ StartIo(q, data, CmdSize, "cmdline") /\ q # "ctl_out" /\ data = <<>>
      /\ logged' = logged \o (IF q = "log_out" THEN data ELSE <<>>)
  BY <1>1, <1>4, <1>6, <1>d, <1>q
<1> QED BY <1>1, <1>2, <1>3, <1>4, <1>7, IoLink

LEMMA RpmbOpenedLink ==
    ASSUME LinkInv, Onward, RpmbOpened
    PROVE  LinkInv'
<1>1. /\ UNCHANGED <<vq, io, attached, notified, lastAvail, host, dev, cur, log, logged, hostLog, rpmb>>
      /\ pc = "rpmb_opened" /\ pc' = "proxy"
  BY DEF RpmbOpened, queueVars, deviceVars
<1>2. PortTypes' /\ SameNames
  BY OpenedPorts DEF RpmbOpened
<1>3. DevTypes' /\ CurTypes' /\ RpmbTypes' /\ notified' \subseteq QueueIds
  BY <1>1, DevStays DEF LinkInv, ConsoleTypes, CurTypes, RpmbTypes, QueueInv, QueueTypes
<1> QED BY <1>1, <1>2, <1>3, StepLink

\* rpmb_storage_send.
LEMMA CmdNumbers ==
    ASSUME NEW c \in Cmds \cup {NoCmd}
    PROVE  c.rel \in Nat /\ c.write \in Nat /\ c.read \in Nat
BY RunnerAssumption DEF NoCmd

LEMMA RpmbStepLink ==
    ASSUME LinkInv, Onward, RpmbStep
    PROVE  LinkInv'
<1>c. PICK c : c = rpmb.cmd
  OBVIOUS
<1>1. /\ \/ pc = "rpmb_count" /\ Send("rpmb_out", <<Tok("u16", CmdCount(c))>>, "rpmb_rel")
         \/ pc = "rpmb_rel" /\ Send("rpmb_out", [i \in 1 .. c.rel |-> Tok("rel", i)], "rpmb_write")
         \/ pc = "rpmb_write" /\ Send("rpmb_out", [i \in 1 .. c.write |-> Tok("write", i)], "rpmb_read")
         \/ pc = "rpmb_read" /\ Recv("rpmb_in", c.read, "rpmb_end")
      /\ UNCHANGED <<deviceVars, host, dev, ports, cur, log, logged, hostLog, rpmb>>
  BY <1>c DEF RpmbStep, consoleVars
<1>2. c.rel \in Nat /\ c.write \in Nat /\ c.read \in Nat
  BY <1>c, CmdNumbers DEF LinkInv, ConsoleTypes, RpmbTypes
<1>3. /\ {"rpmb_rel", "rpmb_write", "rpmb_read", "rpmb_end"} \subseteq IoNext \ {"log"}
      /\ "rpmb_out" \in Out /\ "rpmb_in" \in Out
      /\ "u16" \in Kinds /\ "rel" \in Kinds /\ "write" \in Kinds
  BY DEF IoNext, RpmbAt, Out, Vqs, Kinds
<1>4. SameNames /\ PortTypes' /\ RpmbTypes'
  BY <1>1, Same
<1>5. logged \in Message /\ <<>> \in Message /\ logged \o <<>> = logged
  <2>1. logged \in Message /\ <<>> \in Message
    BY EmptySeq DEF LinkInv, ConsoleTypes, LogTypes, Message
  <2> QED BY <2>1, Joined
<1>6. ASSUME NEW q \in Out \ {"ctl_out", "log_out"}, NEW data \in Message, NEW n \in Nat, n = 0 => data = <<>>,
             NEW next \in IoNext \ {"log"}, StartIo(q, data, n, next), pc \in RpmbAt
      PROVE  LinkInv'
  <2>1. logged' = logged \o (IF q = "log_out" THEN data ELSE <<>>)
    BY <1>1, <1>5
  <2>2. pc \notin {"io", "log", "msg"} /\ (q = "ctl_out" => data # <<>> /\ data[1].v \in PortIds)
    BY <1>6 DEF RpmbAt
  <2> QED BY <1>1, <1>4, <1>6, <2>1, <2>2, IoLink
<1>7. ASSUME NEW k \in {"rel", "write"}, NEW n \in Nat, NEW next \in {"rpmb_write", "rpmb_read"},
             Send("rpmb_out", [i \in 1 .. n |-> Tok(k, i)], next), pc \in RpmbAt
      PROVE  LinkInv'
  <2> DEFINE data == [i \in 1 .. n |-> Tok(k, i)]
  <2>1. \A i \in 1 .. n : Tok(k, i) \in Token
    BY <1>3 DEF Tok, Token
  <2>2. data \in Message
    BY <2>1 DEF Message
  <2>3. Send("rpmb_out", data, next)
    BY <1>7
  <2> HIDE DEF data
  <2>4. Len(data) \in Nat /\ (Len(data) = 0 => data = <<>>)
    BY <2>2, LenProperties, EmptySeq DEF Message
  <2>m. PICK m : m = Len(data)
    OBVIOUS
  <2>5. StartIo("rpmb_out", data, m, next) /\ "rpmb_out" \in Out \ {"ctl_out", "log_out"} /\ next \in IoNext \ {"log"}
    BY <1>3, <2>3, <2>m DEF Send
  <2> QED BY <1>6, <1>7, <2>2, <2>4, <2>5, <2>m
<1>8. CASE pc = "rpmb_count" /\ Send("rpmb_out", <<Tok("u16", CmdCount(c))>>, "rpmb_rel")
  <2>v. PICK v \in Nat : v = CmdCount(c)
    BY <1>2 DEF CmdCount
  <2>1. Send("rpmb_out", <<Tok("u16", v)>>, "rpmb_rel") /\ pc \notin {"io", "log", "msg"}
    BY <1>8, <2>v
  <2> QED BY <1>1, <1>3, <1>4, <2>1, TokenLink
<1>9. CASE pc = "rpmb_read" /\ Recv("rpmb_in", c.read, "rpmb_end")
  <2>n. PICK n \in Nat : n = c.read
    BY <1>2
  <2>1. StartIo("rpmb_in", <<>>, n, "rpmb_end") /\ pc \in RpmbAt /\ "rpmb_in" \in Out \ {"ctl_out", "log_out"}
    BY <1>3, <1>9, <2>n DEF Recv, RpmbAt
  <2>d. PICK data \in Message : data = <<>>
    BY <1>5
  <2>2. StartIo("rpmb_in", data, n, "rpmb_end") /\ "rpmb_end" \in IoNext \ {"log"}
    BY <1>3, <2>1, <2>d
  <2> QED BY <1>6, <2>1, <2>2, <2>d
<1>10. CASE pc = "rpmb_rel" /\ Send("rpmb_out", [i \in 1 .. c.rel |-> Tok("rel", i)], "rpmb_write")
  BY <1>2, <1>7, <1>10 DEF RpmbAt
<1>11. CASE pc = "rpmb_write" /\ Send("rpmb_out", [i \in 1 .. c.write |-> Tok("write", i)], "rpmb_read")
  BY <1>2, <1>7, <1>11 DEF RpmbAt
<1> QED BY <1>1, <1>8, <1>9, <1>10, <1>11

LEMMA RpmbEndLink ==
    ASSUME LinkInv, ControlInv, Onward, RpmbEnd
    PROVE  LinkInv'
<1>1. /\ UNCHANGED <<vq, io, attached, notified, lastAvail, host, dev, ports, cur, log, logged, hostLog>>
      /\ pc = "rpmb_end" /\ pc' \in {rpmb.next, "assert"}
      /\ \E a : rpmb' = [rpmb EXCEPT !.cmd = NoCmd, !.next = "none", !.answer = a]
  BY DEF RpmbEnd, queueVars, deviceVars
<1>2. rpmb.next \in Polling
  BY <1>1 DEF ControlInv, Inner, RpmbAt
<1>3. pc' \notin {"io", "log", "msg", "ready", "log_open", "rpmb_open"}
  BY <1>1, <1>2 DEF Polling
<1>4. rpmb'.cmd = NoCmd /\ UNCHANGED <<rpmb.stream, rpmb.reply, rpmb.executed>>
  BY <1>1 DEF ControlInv
<1>5. RpmbTypes' /\ DevTypes' /\ PortTypes' /\ CurTypes' /\ SameNames /\ notified' \subseteq QueueIds
  BY <1>1, <1>3, <1>4, DevStays
     DEF LinkInv, ConsoleTypes, PortTypes, CurTypes, RpmbTypes, SameNames, QueueInv, QueueTypes
<1> QED BY <1>1, <1>3, <1>5, StepLink

LEMMA StorageLink ==
    ASSUME LinkInv, ControlInv, Onward, StorageRequest
    PROVE  LinkInv'
<1>1. PICK c \in Cmds : RpmbSend(c, pc) /\ pc \in Polling
  BY DEF StorageRequest
<1>2. /\ Send("rpmb_out", <<Tok("u16", c.read)>>, "rpmb_count")
      /\ rpmb' = [rpmb EXCEPT !.cmd = c, !.next = pc, !.issued = Append(@, c)]
      /\ UNCHANGED <<deviceVars, host, dev, ports, cur, log, logged, hostLog>>
  BY <1>1 DEF RpmbSend
<1>3. rpmb'.cmd = c /\ UNCHANGED <<rpmb.stream, rpmb.reply, rpmb.executed>>
  BY <1>2 DEF ControlInv
<1>4. RpmbTypes' /\ PortTypes' /\ SameNames
  BY <1>2, <1>3 DEF LinkInv, ConsoleTypes, PortTypes, RpmbTypes, SameNames
<1>v. PICK v \in Nat : v = c.read
  BY CmdNumbers
<1>5. /\ Send("rpmb_out", <<Tok("u16", v)>>, "rpmb_count") /\ pc \notin {"io", "log", "msg"}
      /\ "rpmb_out" \in Out /\ "u16" \in Kinds /\ "rpmb_count" \in IoNext \ {"log"}
  BY <1>1, <1>2, <1>v DEF Polling, Out, Vqs, Kinds, IoNext, RpmbAt
<1> QED BY <1>2, <1>4, <1>5, TokenLink

\* host_exit.
LEMMA ExitLink ==
    ASSUME LinkInv, Onward, NEW code \in Nat, NEW next \in {"astray", "error"}, HostExit(code, next),
           pc \notin {"io", "log", "msg"}
    PROVE  LinkInv'
<1>1. /\ Send("log_out", <<Tok("exit", code)>>, next) /\ logged' = Append(logged, Tok("exit", code))
      /\ UNCHANGED <<deviceVars, host, dev, ports, cur, log, hostLog, rpmb>>
  BY DEF HostExit
<1>2. "log_out" \in Out /\ "exit" \in Kinds /\ next \in IoNext \ {"log"}
  BY DEF Out, Vqs, Kinds, IoNext
<1>3. SameNames /\ PortTypes' /\ RpmbTypes'
  BY <1>1, Same
<1> QED BY <1>1, <1>2, <1>3, TokenLink

(***************************************************************************)
(* The invariant.                                                          *)
(***************************************************************************)

LEMMA NewVqs == IsVq(NewVq)
<1>1. VqSize \in Nat /\ VqSize >= 1 /\ IdxMod \in Nat /\ IdxMod >= 1 /\ MaxPorts \in Nat
  BY Sizes
<1>2. 0 \in QueueIds /\ 0 \in Idx /\ 0 \in Slots
  BY <1>1 DEF QueueIds, Idx, Slots
<1>3. <<>> \in Message
  BY EmptySeq DEF Message
<1> QED BY <1>2, <1>3 DEF IsVq, NewVq, NoBuf

LEMMA LinkInit ==
    ASSUME Init
    PROVE  LinkInv
<1>1. /\ pc = "start" /\ vq = [q \in Vqs |-> NewVq] /\ io = NoIo
      /\ attached = [q \in QueueIds |-> "none"] /\ notified = {} /\ lastAvail = [q \in QueueIds |-> 0]
      /\ ports = [p \in PortIds |-> NoPort] /\ cur = 0
      /\ log = NoLog /\ logged = <<>> /\ hostLog = <<>>
  BY DEF Init
<1>2. /\ host \in Machines
      /\ dev = [features |-> {}, ok |-> FALSE, busy |-> FALSE, added |-> MaxPorts,
                todo |-> <<>>, open |-> {}, dropped |-> FALSE]
      /\ rpmb = [cmd |-> NoCmd, next |-> "none", issued |-> <<>>, answer |-> <<>>,
                 stream |-> <<>>, executed |-> <<>>, reply |-> <<>>]
  BY DEF Init
<1>3. /\ MaxPorts \in Nat /\ 0 \in Idx /\ 0 \in Slots /\ <<>> \in Message
      /\ <<>> \in Seq(Message)
  BY Sizes, EmptySeq DEF Idx, Slots, Message
<1>4. \A q \in Vqs : vq[q] = NewVq /\ IsVq(vq[q])
  BY <1>1, NewVqs
<1>5. QueueTypes
  BY <1>1, <1>3, <1>4 DEF QueueTypes, NoIo, Vqs
<1>6. \A q \in Vqs : /\ ~vq[q].raw /\ vq[q].avail = 0 /\ vq[q].used = 0 /\ vq[q].old = 0
                     /\ \A i \in Slots : vq[q].desc[i].data = <<>>
  BY <1>4 DEF NewVq, NoBuf
<1>7. OutInv
  BY <1>1, <1>6 DEF OutInv, QueueState, IdleVq, Out
<1>8. {"ctl_in", "ctl_out", "log_in", "log_out", "rpmb_in", "rpmb_out"} \subseteq Vqs
  BY DEF Vqs
<1>9. Wiring /\ RawInv
  BY <1>1, <1>6, <1>8 DEF Wiring, Wired, RawInv
<1>10. LastInv
  BY <1>1, <1>6 DEF LastInv
<1>11. NamesInv
  BY <1>1 DEF NamesInv, NoPort
<1>12. CtlInInv
  BY <1>1, <1>6, <1>8 DEF CtlInInv
<1>13. CtlOutInv /\ Flight = <<>> /\ LogLeft = <<>>
  BY <1>1, <1>2 DEF CtlOutInv, Flight, LogLeft, Inner
<1>14. LogInv
  BY <1>1, <1>3, <1>13, Joined DEF LogInv
<1>15. host \in Machine
  <2>1. host \in [transport : {"mmio", "pci"}, bus : Seq(STRING), offered : SUBSET Nat, accepts : BOOLEAN,
                  kind : [PortIds -> {"plugged", "gone", "absent"}], name : [PortIds -> Names],
                  line : Seq([k : STRING, v : Nat]), doorbell : Nat, secs : Nat,
                  api : {"old", "mem_obj", "newer"}, kernel : {"none", "bad", "ok"}]
    BY <1>2, MachineAssumption
  <2>2. [k : STRING, v : Nat] \subseteq Token
    BY DEF Token, Kinds
  <2>3. host.line \in Message
    <3>1. host.line \in Seq([k : STRING, v : Nat])
      BY <2>1
    <3> QED BY <3>1, <2>2, SeqMonotonic DEF Message
  <2> QED BY <2>1, <2>3 DEF Machine
<1>16. DevTypes /\ PortTypes /\ CurTypes /\ LogTypes /\ RpmbTypes
  <2>1. DevTypes
    BY <1>2, <1>3 DEF DevTypes
  <2>2. PortTypes
    BY <1>1 DEF PortTypes, NoPort
  <2>3. CurTypes /\ LogTypes
    BY <1>1, <1>3 DEF CurTypes, LogTypes, NoLog
  <2>4. RpmbTypes
    BY <1>2, <1>3 DEF RpmbTypes
  <2> QED BY <2>1, <2>2, <2>3, <2>4
<1> QED BY <1>5, <1>7, <1>9, <1>10, <1>11, <1>12, <1>13, <1>14, <1>15, <1>16 DEF LinkInv, QueueInv, ConsoleTypes

(***************************************************************************)
(* Steps of boot() between the calls: it goes on, logs something or gives  *)
(* up.                                                                     *)
(***************************************************************************)

Goals == {"probe", "dev_init", "boot_next", "next_os", "error", "dev_create", "rpmb_scan", "km_init", "km_params",
          "hwbcc_init", "dice", "dice_size", "depriv", "shutdown", "hwbcc_again", "dice_again", "shutdown_again",
          "cpu_on", "cpu_wait", "cpu_look", "connect", "recv", "close", "exit"}

\* boot() goes on, or logs a text first.
Moves(G) == \/ \E next \in G : Go(next)
            \/ \E name \in Texts : \E next \in LogNext : LogMsg(name, next)

LEMMA DiceMoves ==
    ASSUME NEW at, NEW failed, NEW done, NEW next, GetDiceArtifacts(at, failed, done, next)
    PROVE  /\ pc = at /\ UNCHANGED server
           /\ \/ Go(next)
              \/ failed # "" /\ LogMsg(failed, next)
              \/ done # "" /\ LogMsg(done, next)
BY Zenon DEF GetDiceArtifacts

Between == {"start", "cmdline", "boot_next", "dev_init", "dev_create", "proxy", "km_init", "km_params", "hwbcc_init",
            "dice", "dice_size", "depriv", "shutdown", "hwbcc_again", "dice_again", "shutdown_again", "cpu_on",
            "cpu_wait", "cpu_look", "connect", "recv", "close"}

LEMMA PlainMoves ==
    ASSUME \/ BootArm64 \/ GetCmdline \/ BootNext \/ CpuOn \/ CpuWait \/ CpuLook \/ WfeReturns
           \/ Libtipc /\ ~RecvResultByte /\ ~WaitForClose
    PROVE  pc \in Between /\ UNCHANGED server /\ (Moves(Goals \ {"close", "exit"}) \/ Abort)
<1> DEFINE G == Goals \ {"close", "exit"}
<1> USE DEF bootVars
<1>g. /\ {"probe", "error", "dev_init", "boot_next", "next_os", "dev_create", "rpmb_scan", "km_init", "km_params",
          "hwbcc_init", "dice", "dice_size", "depriv", "shutdown", "hwbcc_again", "dice_again", "shutdown_again",
          "cpu_on", "cpu_wait", "cpu_look", "connect", "recv"} \subseteq G
      /\ {"error", "dice_size", "depriv", "shutdown", "shutdown_again", "astray"} \subseteq LogNext
      /\ {"proxy", "km_init", "km_params", "hwbcc_init", "dice", "broken", "dice_size", "depriv", "cpus", "connect"}
             \subseteq Texts
  BY DEF Goals, LogNext, Texts
<1> HIDE DEF G
<1>m. ASSUME NEW next \in G, Go(next) PROVE Moves(G)
  BY <1>m DEF Moves
<1>l. ASSUME NEW name \in Texts, NEW next \in LogNext, LogMsg(name, next) PROVE Moves(G)
  BY <1>l DEF Moves
<1>1. CASE BootArm64 \/ GetCmdline \/ BootNext
  BY <1>1, <1>g, <1>m DEF BootArm64, GetCmdline, BootNext, Between, G
<1>2. CASE CpuOn \/ CpuWait \/ CpuLook \/ WfeReturns
  BY <1>2, <1>g, <1>m, <1>l DEF CpuOn, CpuWait, CpuLook, WfeReturns, Between, G
<1>3. CASE DevInit
  BY <1>3, <1>g, <1>m DEF DevInit, Between, G
<1>4. CASE DevCreate
  BY <1>4, <1>g, <1>m DEF DevCreate, Between, G
<1>5. ASSUME NEW at \in {"proxy", "km_init", "hwbcc_init", "hwbcc_again", "connect"}, NEW text \in Texts,
             NEW next \in G, Call(at, text, next)
      PROVE  pc \in Between /\ UNCHANGED server /\ Moves(G)
  BY <1>5, <1>g, <1>m, <1>l DEF Call, Between
<1>6. CASE SetBootParams
  BY <1>6, <1>g, <1>m, <1>l DEF SetBootParams, Between, G
<1>7. CASE GetDiceArtifacts("dice", "dice", "", "dice_size")
  <2>1. pc = "dice" /\ UNCHANGED server /\ (Go("dice_size") \/ LogMsg("dice", "dice_size"))
    BY <1>7, DiceMoves, Zenon
  <2> QED BY <2>1, <1>g, <1>m, <1>l DEF Between, G
<1>8. CASE GetDiceArtifacts("dice_again", "", "broken", "shutdown_again")
  <2>1. pc = "dice_again" /\ UNCHANGED server /\ (Go("shutdown_again") \/ LogMsg("broken", "shutdown_again"))
    BY <1>8, DiceMoves, Zenon
  <2> QED BY <2>1, <1>g, <1>m, <1>l DEF Between, G
<1>9. CASE CheckSize \/ NsDeprivilege
  BY <1>9, <1>g, <1>m, <1>l DEF CheckSize, NsDeprivilege, Between, G
<1>10. CASE Shutdown("shutdown", "hwbcc_again") \/ Shutdown("shutdown_again", "cpu_on")
  BY <1>10, <1>g, <1>m DEF Shutdown, Between, G
<1>11. CASE \/ Call("proxy", "proxy", "km_init") \/ Call("km_init", "km_init", "km_params")
            \/ Call("hwbcc_init", "hwbcc_init", "dice") \/ Call("hwbcc_again", "hwbcc_init", "dice_again")
            \/ Call("connect", "connect", "recv")
  BY <1>11, <1>5, <1>g DEF G
<1> QED BY <1>1, <1>2, <1>3, <1>4, <1>6, <1>7, <1>8, <1>9, <1>10, <1>11 DEF Libtipc, G

\* What the test server says.
LEMMA ServerMoves ==
    ASSUME RecvResultByte \/ WaitForClose
    PROVE  \/ /\ pc = "recv" /\ server' = [server EXCEPT !.msgs = @ + 1] /\ server.msgs < MaxMsgs
              /\ LogMsg("server", "recv")
           \/ /\ pc = "recv" /\ Go("close")
              /\ \E v \in {"passed", "failed"} : server' = [server EXCEPT !.verdict = v]
           \/ pc = "recv" /\ Go("error") /\ UNCHANGED server
           \/ /\ pc = "close"
              /\ \E c \in BOOLEAN : server' = [server EXCEPT !.closed = c] /\ Go(IF c THEN "exit" ELSE "error")
BY DEF RecvResultByte, WaitForClose, ExitAfter

LEMMA BetweenCalls ==
    ASSUME pc \in Between
    PROVE  pc \notin Inside /\ pc \notin Ending /\ pc \notin {"io", "log", "msg"} /\ Place = pc
<1>1. pc \notin Inside /\ pc \notin Ending
  BY DEF Between, Inside, RpmbAt, Ending, Stopped
<1> QED BY <1>1, AtPlace DEF Between

LEMMA MovesLink ==
    ASSUME LinkInv, Onward, pc \in Between, Moves(Goals) \/ Abort
    PROVE  LinkInv'
<1>1. pc \notin {"io", "log", "msg"}
  BY BetweenCalls
<1>2. ASSUME NEW next \in Goals, Go(next) PROVE LinkInv'
  <2>1. next \notin {"io", "log", "msg", "ready", "log_open", "rpmb_open"}
    BY DEF Goals
  <2> QED BY <1>1, <1>2, <2>1, GoLink
<1>3. CASE Abort
  BY <1>1, <1>3, ExitLink DEF Abort
<1> QED BY <1>1, <1>2, <1>3, LogMsgLink DEF Moves

LEMMA LinkSteps ==
    ASSUME LinkInv, RunInv, [Next]_vars
    PROVE  LinkInv'
<1> USE DEF consoleVars, queueVars, deviceVars
<1>1. Onward /\ ControlInv
  BY OnwardSteps DEF RunInv
<1>2. CASE ConsoleInit
  BY <1>1, <1>2, ConsoleInitLink
<1>3. CASE UNCHANGED <<pc, vq, io, attached, notified, lastAvail, host, dev, ports, cur, log, logged, hostLog, rpmb>>
  <2>1. QueueInv' /\ Flight' = Flight
    <3>1. ~dev'.busy \/ Taken
      BY <1>3 DEF LinkInv, QueueInv, CtlOutInv, Taken
    <3> QED BY <3>1, <1>1, <1>3, DeviceOnly DEF LinkInv
  <2>2. LogInv'
    BY <1>3, <2>1 DEF LinkInv, LogInv, LogLeft, Inner
  <2>3. ConsoleTypes'
    BY <1>3, DevStays DEF LinkInv, ConsoleTypes, PortTypes, CurTypes, LogTypes, RpmbTypes
  <2> QED BY <2>1, <2>2, <2>3 DEF LinkInv
<1>4. CASE UNCHANGED vars \/ Secondary
  BY <1>3, <1>4 DEF vars, Secondary, SecondaryStart
<1>5. CASE \/ LogChunk \/ RpmbStep \/ RpmbEnd \/ StorageRequest \/ Host
           \/ OpenPort("log_open", "log_opened") \/ OpenPort("rpmb_open", "rpmb_opened")
           \/ (DriverIo /\ UNCHANGED <<consoleVars, bootVars>>)
  BY <1>1, <1>5, LogChunkLink, RpmbStepLink, RpmbEndLink, StorageLink, HostLink, OpenLink, DriverLink DEF Host
<1>6. CASE LogOpened \/ RpmbOpened
  BY <1>1, <1>6, LogOpenedLink, RpmbOpenedLink
<1>7. CASE InitLog
  <2>1. pc = "scanned" /\ (Go("error") \/ (NamedPorts("testrunner0") # {} /\ ConnectPort("testrunner0", "log_in", "log_out", "log_open")))
    BY <1>7 DEF InitLog
  <2>2. CASE Go("error")
    BY <1>1, <2>1, <2>2, GoLink
  <2>3. CASE NamedPorts("testrunner0") # {} /\ ConnectPort("testrunner0", "log_in", "log_out", "log_open")
    BY <1>1, <2>1, <2>3, ConnectLink
  <2> QED BY <2>1, <2>2, <2>3
<1>8. CASE InitRpmb
  <2>1. /\ pc = "rpmb_scan"
        /\ \/ LogMsg("no_rpmb", "km_init") \/ Go("assert")
           \/ NamedPorts("rpmb0") # {} /\ ConnectPort("rpmb0", "rpmb_in", "rpmb_out", "rpmb_open")
    BY <1>8 DEF InitRpmb
  <2>2. CASE LogMsg("no_rpmb", "km_init")
    BY <1>1, <2>1, <2>2, LogMsgLink DEF Texts
  <2>3. CASE Go("assert")
    BY <1>1, <2>1, <2>3, GoLink
  <2>4. CASE NamedPorts("rpmb0") # {} /\ ConnectPort("rpmb0", "rpmb_in", "rpmb_out", "rpmb_open")
    BY <1>1, <2>1, <2>4, ConnectLink
  <2> QED BY <2>1, <2>2, <2>3, <2>4
<1>9. CASE Astray
  <2>1. pc \in {"astray", "assert"} /\ Go(pc') /\ pc' \in {"error", "hung"}
    BY <1>9 DEF Astray, LogNowhere, Go
  <2>n. PICK next : next = pc'
    OBVIOUS
  <2> QED BY <1>1, <2>1, <2>n, GoLink
<1>10. CASE ReportStatus
  <2>1. pc = "exit" /\ \E code \in {0, 1} : HostExit(code, "error")
    BY <1>10 DEF ReportStatus
  <2> QED BY <1>1, <2>1, ExitLink
<1>11. CASE RecvResultByte \/ WaitForClose
  <2>1. pc \in Between
    BY <1>11 DEF RecvResultByte, WaitForClose, Between
  <2>2. Moves(Goals)
    <3>1. {"close", "error", "exit"} \subseteq Goals /\ "server" \in Texts /\ "recv" \in LogNext
      BY DEF Goals, Texts, LogNext
    <3>2. ASSUME NEW next \in Goals, Go(next) PROVE Moves(Goals)
      BY <3>2 DEF Moves
    <3>3. CASE LogMsg("server", "recv")
      BY <3>1, <3>3 DEF Moves
    <3>4. Go("close") \/ Go("error") \/ Go("exit") \/ LogMsg("server", "recv")
      BY <1>11 DEF RecvResultByte, WaitForClose, ExitAfter
    <3> QED BY <3>1, <3>2, <3>3, <3>4
  <2> QED BY <1>1, <2>1, <2>2, MovesLink
<1>12. CASE \/ BootArm64 \/ GetCmdline \/ BootNext \/ CpuOn \/ CpuWait \/ CpuLook \/ WfeReturns
            \/ Libtipc /\ ~RecvResultByte /\ ~WaitForClose
  <2>1. pc \in Between /\ (Moves(Goals \ {"close", "exit"}) \/ Abort)
    BY <1>12, PlainMoves
  <2>2. Moves(Goals) \/ Abort
    BY <2>1 DEF Moves
  <2> QED BY <1>1, <2>1, <2>2, MovesLink
<1> QED BY <1>2, <1>4, <1>5, <1>6, <1>7, <1>8, <1>9, <1>10, <1>11, <1>12 DEF Next, Boot, Console

\* The invariant of the queues, the console and the log holds in every
\* reachable state.
THEOREM LinkInvariance == Spec => []LinkInv
<1>1. Init => LinkInv
  BY LinkInit
<1>2. LinkInv /\ RunInv /\ [Next]_vars => LinkInv'
  BY LinkSteps
<1> QED BY <1>1, <1>2, RunInvariance, PTL DEF Spec

(***************************************************************************)
(* The verdict.                                                            *)
(***************************************************************************)

LEMMA Apart ==
    /\ Ending \cap {"close", "exit"} = {} /\ LogNext \cap {"close", "exit"} = {}
    /\ Goals \cap Inside = {} /\ LogNext \cap Inside = {} /\ "exit" \notin Texts
BY DEF Ending, Stopped, LogNext, Goals, Inside, RpmbAt, Texts

\* Nothing is logged, and boot() does not come to the verdict.
LEMMA SameVerdict ==
    ASSUME VerdictInv, UNCHANGED <<server, logged>>,
           Place' = Place \/ Place' \in Ending \/ (Place \notin Ending /\ Place' \notin {"close", "exit"})
    PROVE  VerdictInv'
<1>1. Place' \in {"close", "exit"} => Place' = Place
  BY Apart
<1>2. \A i \in 1 .. Len(logged) : logged[i].k = "exit" => Place' \in Ending
  BY DEF VerdictInv
<1> QED BY <1>1, <1>2 DEF VerdictInv, Earned

\* The log grows while boot() goes on.
LEMMA LogVerdict ==
    ASSUME VerdictInv, ControlInv, logged \in Message, Place \notin Ending, pc \notin Inside, server' \in Server,
           NEW name \in Texts, NEW next \in LogNext, LogMsg(name, next)
    PROVE  VerdictInv'
<1> DEFINE text == [i \in 1 .. Body + 1 |-> Tok(name, i)]
<1>1. Body \in Nat /\ name # "exit"
  BY ConsoleAssumption, Apart
<1>2. text \in Message /\ Len(text) = Body + 1 /\ \A i \in 1 .. Len(text) : text[i].k # "exit"
  <2>1. \A i \in 1 .. Body + 1 : Tok(name, i) \in Token /\ Tok(name, i).k = name
    BY <1>1 DEF Tok, Token, Kinds
  <2>2. text \in Message
    BY <1>1, <2>1 DEF Message
  <2>3. Len(text) = Body + 1
    BY <1>1
  <2> QED BY <1>1, <2>1, <2>2, <2>3
<1>3. LogBuf(text, next)
  BY DEF LogMsg
<1> HIDE DEF text
<1>4. logged' = logged \o text /\ Place' = next
  BY <1>3, MovesTo DEF LogBuf
<1>5. \A i \in 1 .. Len(logged) : logged[i].k # "exit"
  BY DEF VerdictInv
<1>6. \A i \in 1 .. Len(logged') : logged'[i].k # "exit"
  <2>1. logged \in Seq(Token) /\ text \in Seq(Token) /\ Len(logged) \in Nat /\ Len(text) \in Nat
    BY <1>2, LenProperties DEF Message
  <2>2. /\ Len(logged \o text) = Len(logged) + Len(text)
        /\ \A i \in 1 .. Len(logged) + Len(text) :
             (logged \o text)[i] = IF i <= Len(logged) THEN logged[i] ELSE text[i - Len(logged)]
    BY <2>1, ConcatProperties
  <2> SUFFICES ASSUME NEW i \in 1 .. Len(logged) + Len(text) PROVE (logged \o text)[i].k # "exit"
    BY <1>4, <2>2
  <2>3. CASE i <= Len(logged)
    <3>1. i \in 1 .. Len(logged)
      BY <2>1, <2>3
    <3> QED BY <3>1, <1>5, <2>2, <2>3
  <2>4. CASE ~(i <= Len(logged))
    <3>1. i - Len(logged) \in 1 .. Len(text)
      BY <2>1, <2>4
    <3> QED BY <3>1, <1>2, <2>2, <2>4
  <2> QED BY <2>3, <2>4
<1>7. Place' \notin {"close", "exit"}
  BY <1>4, Apart
<1> QED BY <1>6, <1>7 DEF VerdictInv

\* host_exit ends the log.
LEMMA ExitVerdict ==
    ASSUME VerdictInv, logged \in Message, Place \notin Ending, UNCHANGED server, Place' \in Ending,
           NEW code \in Nat, Earned(Tok("exit", code)), logged' = Append(logged, Tok("exit", code))
    PROVE  VerdictInv'
<1>1. \A i \in 1 .. Len(logged) : logged[i].k # "exit"
  BY DEF VerdictInv
<1>t. PICK t : t = Tok("exit", code)
  OBVIOUS
<1>2. t \in Token /\ Earned(t) /\ logged' = Append(logged, t)
  BY <1>t DEF Tok, Token, Kinds
<1>3. Earned(t)'
  BY <1>2 DEF Earned
<1>4. /\ Len(Append(logged, t)) = Len(logged) + 1 /\ Len(logged) \in Nat
      /\ \A i \in 1 .. Len(logged) : Append(logged, t)[i] = logged[i]
      /\ Append(logged, t)[Len(logged) + 1] = t
  BY <1>2, LenProperties, AppendProperties DEF Message
<1>5. ASSUME NEW i \in 1 .. Len(logged'), logged'[i].k = "exit"
      PROVE  i = Len(logged') /\ Earned(logged[i])'
  <2>1. i \in 1 .. Len(logged) \/ i = Len(logged) + 1
    BY <1>2, <1>4
  <2>2. i = Len(logged) + 1
    BY <1>1, <1>2, <1>4, <1>5, <2>1
  <2>3. logged'[i] = t /\ i = Len(logged')
    BY <1>2, <1>4, <2>2
  <2> QED BY <2>3, <1>3 DEF Earned
<1>6. Place' \notin {"close", "exit"}
  BY Apart
<1> QED BY <1>5, <1>6 DEF VerdictInv

LEMMA VerdictInit ==
    ASSUME Init
    PROVE  VerdictInv
<1>1. server = [verdict |-> "none", msgs |-> 0, closed |-> FALSE] /\ pc = "start" /\ logged = <<>>
  BY DEF Init
<1>2. server \in Server
  BY <1>1, RunnerAssumption DEF Server
<1>3. Place = "start" /\ Len(logged) = 0
  BY <1>1 DEF Place, Inner, RpmbAt
<1> QED BY <1>2, <1>3 DEF VerdictInv

\* The steps of the start of the console stay before the command line, or end.
LEMMA EarlyPlace ==
    ASSUME ControlInv, ConsoleInit, UNCHANGED bootVars
    PROVE  UNCHANGED <<server, logged>> /\ (Place' = Place \/ Place' \in Ending \/ (Place \notin Ending /\ Place' \notin {"close", "exit"}))
<1>1. UNCHANGED <<server, logged>>
  BY DEF bootVars, consoleVars, ConsoleInit, Probe, Negotiate, ControlSetup, Scan, GetMsg, PollMsg, PortReady,
         HandleMsg
<1>2. pc \in Early /\ pc \notin Inside
  BY DEF ConsoleInit, Probe, Negotiate, ControlSetup, Scan, GetMsg, PollMsg, PortReady, HandleMsg, Early, Inside, RpmbAt
<1>3. Place \in Early
  BY <1>2, AtPlace
<1>4. Place' = Place \/ Place' \in Ending \/ \E S \in Phases : Place \in S /\ Place' \in S
  BY ConsoleQuiet DEF Quiet
<1>5. \A S \in Phases : Place \in S => S = Early
  BY <1>3 DEF Phases, Early, Storage, Bcc, Waiting, Serving, Ending, Stopped
<1>6. Early \cap {"close", "exit"} = {} /\ Early \cap Ending = {}
  BY DEF Early, Ending, Stopped
<1> QED BY <1>1, <1>3, <1>4, <1>5, <1>6

\* boot() goes on without logging anything.
LEMMA GoVerdict ==
    ASSUME VerdictInv, ControlInv, pc \notin Inside, Place \notin Ending, UNCHANGED server,
           NEW next, Go(next), next \notin Inside, next \notin {"close", "exit"}
    PROVE  VerdictInv'
<1>1. Place' = next /\ UNCHANGED logged
  BY MovesTo DEF Go, consoleVars, queueVars
<1> QED BY <1>1, SameVerdict

\* boot() starts a transfer that is not logged.
LEMMA IoVerdict ==
    ASSUME VerdictInv, ControlInv, pc \notin Inside, Place \notin Ending, UNCHANGED <<server, logged, host, log, rpmb>>,
           NEW q, NEW data, NEW n, NEW next \in {"log_opened", "rpmb_opened", "cmdline"}, StartIo(q, data, n, next)
    PROVE  VerdictInv'
<1>1. next \in IoNext \ ({"log"} \cup RpmbAt) /\ next \notin {"close", "exit"}
  BY DEF IoNext, RpmbAt
<1>2. Place' = next
  BY <1>1, MovesTo
<1> QED BY <1>1, <1>2, SameVerdict

LEMMA AbortVerdict ==
    ASSUME VerdictInv, RunInv, logged \in Message, Place \notin Ending, Abort, UNCHANGED server
    PROVE  VerdictInv'
<1>1. Place' = "astray" /\ "astray" \in Ending
  BY AbortPlace DEF Ending
<1>2. logged' = Append(logged, Tok("exit", 2))
  BY DEF Abort, HostExit
<1>3. Earned(Tok("exit", 2))
  BY DEF Earned, Tok
<1> QED BY <1>1, <1>2, <1>3, ExitVerdict

LEMMA ReportVerdict ==
    ASSUME VerdictInv, RunInv, logged \in Message, ReportStatus
    PROVE  VerdictInv'
<1>c. PICK code : code = IF server.verdict # "passed" THEN 1 ELSE 0
  OBVIOUS
<1>1. /\ pc = "exit" /\ HostExit(code, "error") /\ UNCHANGED server /\ code \in Nat /\ ControlInv
  BY <1>c DEF ReportStatus, bootVars, RunInv
<1>2. pc \notin Inside /\ Place = "exit" /\ Place \notin Ending
  <2>1. pc \notin Inside
    BY <1>1 DEF Inside, RpmbAt
  <2> QED BY <2>1, <1>1, AtPlace, Apart
<1>3. Place' = "error" /\ "error" \in Ending
  <2>1. UNCHANGED <<host, log, rpmb>> /\ \E q, data, n : StartIo(q, data, n, "error")
    BY <1>1 DEF HostExit, Send
  <2>2. "error" \in IoNext \ ({"log"} \cup RpmbAt) /\ "error" \in Ending
    BY DEF IoNext, RpmbAt, Ending, Stopped
  <2> QED BY <2>1, <2>2, <1>1, <1>2, MovesTo
<1>4. logged' = Append(logged, Tok("exit", code))
  BY <1>1 DEF HostExit
<1>5. Earned(Tok("exit", code))
  <2>1. server.verdict \in {"passed", "failed"} /\ server.closed
    BY <1>2 DEF VerdictInv
  <2> QED BY <2>1, <1>c DEF Earned, Tok
<1> QED BY <1>1, <1>2, <1>3, <1>4, <1>5, ExitVerdict

\* The test server says how the tests went, and hangs up.
LEMMA ServerVerdict ==
    ASSUME VerdictInv, ControlInv, logged \in Message, RecvResultByte \/ WaitForClose
    PROVE  VerdictInv'
<1>1. pc \in Between /\ pc \notin Inside /\ pc \notin Ending /\ Place = pc
  <2>1. pc \in Between
    BY DEF RecvResultByte, WaitForClose, Between
  <2> QED BY <2>1, BetweenCalls
<1>2. \A i \in 1 .. Len(logged) : logged[i].k # "exit"
  BY <1>1 DEF VerdictInv
<1>3. server \in Server /\ MaxMsgs \in Nat
  BY RunnerAssumption DEF VerdictInv
<1>4. ASSUME NEW next \in {"close", "error", "exit"}, Go(next) PROVE Place' = next /\ UNCHANGED logged
  <2>1. next \notin Inside
    BY DEF Inside, RpmbAt
  <2> QED BY <2>1, <1>1, <1>4, MovesTo DEF Go, consoleVars, queueVars
<1>5. CASE server' = [server EXCEPT !.msgs = @ + 1] /\ server.msgs < MaxMsgs /\ LogMsg("server", "recv")
  <2>1. server' \in Server
    BY <1>3, <1>5 DEF Server
  <2>2. "server" \in Texts /\ "recv" \in LogNext
    BY DEF Texts, LogNext
  <2> QED BY <1>1, <1>5, <2>1, <2>2, LogVerdict
<1>6. ASSUME NEW v \in {"passed", "failed"}, Go("close"), server' = [server EXCEPT !.verdict = v]
      PROVE  VerdictInv'
  <2>1. Place' = "close" /\ UNCHANGED logged
    BY <1>4, <1>6
  <2>2. server' \in Server /\ server'.verdict = v
    BY <1>3, <1>6 DEF Server
  <2> QED BY <1>2, <2>1, <2>2 DEF VerdictInv
<1>7. CASE Go("error") /\ UNCHANGED server
  <2>1. Place' = "error" /\ UNCHANGED logged
    BY <1>4, <1>7
  <2> QED BY <1>2, <1>3, <2>1, <1>7 DEF VerdictInv
<1>8. ASSUME pc = "close", NEW c \in BOOLEAN, server' = [server EXCEPT !.closed = c],
             Go(IF c THEN "exit" ELSE "error")
      PROVE  VerdictInv'
  <2>1. /\ Place' = (IF c THEN "exit" ELSE "error") /\ UNCHANGED logged
    BY <1>4, <1>8
  <2>2. server' \in Server /\ server'.verdict = server.verdict /\ server'.closed = c
    BY <1>3, <1>8 DEF Server
  <2>3. server.verdict \in {"passed", "failed"}
    BY <1>1, <1>8 DEF VerdictInv
  <2> QED BY <1>2, <2>1, <2>2, <2>3 DEF VerdictInv
<1> QED BY <1>5, <1>6, <1>7, <1>8, ServerMoves

LEMMA VerdictSteps ==
    ASSUME VerdictInv, LinkInv, RunInv, [Next]_vars
    PROVE  VerdictInv'
<1>1. ControlInv /\ logged \in Message
  BY DEF RunInv, LinkInv, ConsoleTypes, LogTypes
<1>2. CASE ConsoleInit /\ UNCHANGED bootVars
  BY <1>1, <1>2, EarlyPlace, SameVerdict
<1>3. CASE UNCHANGED vars \/ Secondary
  <2>1. UNCHANGED <<pc, io, log, rpmb, server, logged>>
    BY <1>3 DEF vars, bootVars, consoleVars, queueVars, Secondary, SecondaryStart
  <2>2. Place' = Place
    BY <2>1 DEF Place, Inner
  <2> QED BY <2>1, <2>2, SameVerdict
<1>4. CASE /\ UNCHANGED bootVars
           /\ \/ LogChunk \/ RpmbStep \/ RpmbEnd \/ StorageRequest \/ HostStep
              \/ DriverIo /\ UNCHANGED consoleVars
  <2>1. Place' = Place \/ Place' \in Ending
    BY Zenon, <1>1, <1>4, CallsQuiet
  <2>2. UNCHANGED <<server, logged>>
    BY <1>4 DEF bootVars, consoleVars, LogChunk, RpmbStep, RpmbEnd, StorageRequest, RpmbSend, HostStep, ControlTake,
                ControlAdd, ControlSend, ControlDone, RpmbExecute, PortOut, PortIn
  <2> QED BY <2>1, <2>2, SameVerdict
<1>5. CASE \/ LogOpened
           \/ UNCHANGED bootVars /\ (OpenPort("log_open", "log_opened") \/ OpenPort("rpmb_open", "rpmb_opened"))
  <2>1. pc \in {"log_opened", "log_open", "rpmb_open"} /\ UNCHANGED <<server, logged, host, log, rpmb>>
    BY <1>5 DEF LogOpened, OpenPort, bootVars, consoleVars
  <2>2. pc \notin Inside /\ Place \notin Ending
    <3>1. pc \notin Inside /\ pc \notin Ending
      BY <2>1 DEF Inside, RpmbAt, Ending, Stopped
    <3> QED BY <3>1, AtPlace
  <2>3. \E q, data, n : \E next \in {"log_opened", "rpmb_opened", "cmdline"} : StartIo(q, data, n, next)
    BY <1>5 DEF LogOpened, OpenPort, Send, Recv
  <2> QED BY <1>1, <2>1, <2>2, <2>3, IoVerdict
<1>6. CASE \/ RpmbOpened \/ InitLog
           \/ InitRpmb /\ Go("assert")
           \/ InitRpmb /\ ConnectPort("rpmb0", "rpmb_in", "rpmb_out", "rpmb_open")
  <2>1. /\ pc \in {"rpmb_opened", "scanned", "rpmb_scan"} /\ pc' \in {"proxy", "log_open", "error", "assert", "rpmb_open"}
        /\ UNCHANGED <<server, logged, io, log, rpmb, host>>
    BY <1>6 DEF RpmbOpened, InitLog, InitRpmb, Go, ConnectPort, bootVars, consoleVars, queueVars
  <2>2. pc \notin Inside /\ Place \notin Ending /\ pc' \notin Inside /\ pc' \notin {"close", "exit"}
    <3>1. pc \notin Inside /\ pc \notin Ending /\ pc' \notin Inside /\ pc' \notin {"close", "exit"}
      BY <2>1 DEF Inside, RpmbAt, Ending, Stopped
    <3> QED BY <3>1, AtPlace
  <2>3. Place' = pc'
    BY <1>1, <2>1, <2>2, MovesTo
  <2> QED BY <2>1, <2>2, <2>3, SameVerdict
<1>7. CASE InitRpmb /\ LogMsg("no_rpmb", "km_init")
  <2>1. pc = "rpmb_scan" /\ UNCHANGED server
    BY <1>7 DEF InitRpmb, bootVars
  <2>2. pc \notin Inside /\ pc \notin Ending
    BY <2>1 DEF Inside, RpmbAt, Ending, Stopped
  <2>3. Place \notin Ending
    BY <2>2, AtPlace
  <2>4. server' \in Server /\ "no_rpmb" \in Texts /\ "km_init" \in LogNext
    BY <2>1 DEF VerdictInv, Texts, LogNext
  <2> QED BY <1>1, <1>7, <2>2, <2>3, <2>4, LogVerdict
<1>8. CASE Astray
  <2>1. /\ pc \in {"astray", "assert"} /\ pc' \in {"error", "hung"}
        /\ UNCHANGED <<server, logged, io, log, rpmb, host>>
    BY <1>8 DEF Astray, LogNowhere, bootVars, consoleVars, queueVars
  <2>2. pc \notin Inside /\ pc' \notin Inside /\ pc' \in Ending
    BY <2>1 DEF Inside, RpmbAt, Ending, Stopped
  <2>3. Place' = pc'
    BY <1>1, <2>1, <2>2, MovesTo
  <2> QED BY <2>1, <2>2, <2>3, SameVerdict
<1>9. CASE ReportStatus
  BY <1>1, <1>9, ReportVerdict
<1>10. CASE RecvResultByte \/ WaitForClose
  BY <1>1, <1>10, ServerVerdict
<1>11. CASE \/ BootArm64 \/ GetCmdline \/ BootNext \/ CpuOn \/ CpuWait \/ CpuLook \/ WfeReturns
            \/ Libtipc /\ ~RecvResultByte /\ ~WaitForClose
  <2>1. pc \in Between /\ UNCHANGED server /\ (Moves(Goals \ {"close", "exit"}) \/ Abort)
    BY <1>11, PlainMoves
  <2>2. pc \notin Inside /\ Place \notin Ending /\ server' \in Server
    BY <2>1, BetweenCalls DEF VerdictInv
  <2>3. ASSUME NEW next \in Goals \ {"close", "exit"}, Go(next) PROVE VerdictInv'
    <3>1. next \notin Inside /\ next \notin {"close", "exit"}
      BY Apart
    <3> QED BY <1>1, <2>1, <2>2, <2>3, <3>1, GoVerdict
  <2>4. ASSUME NEW name \in Texts, NEW next \in LogNext, LogMsg(name, next) PROVE VerdictInv'
    BY <1>1, <2>2, <2>4, LogVerdict
  <2>5. CASE Abort
    BY <1>1, <2>1, <2>2, <2>5, AbortVerdict
  <2> QED BY <2>1, <2>3, <2>4, <2>5 DEF Moves
<1>12. CASE InitRpmb
  <2>1. \/ LogMsg("no_rpmb", "km_init") \/ Go("assert")
        \/ ConnectPort("rpmb0", "rpmb_in", "rpmb_out", "rpmb_open")
    BY <1>12 DEF InitRpmb
  <2> QED BY <1>6, <1>7, <1>12, <2>1
<1>13. CASE StorageRequest \/ Host
  BY <1>4, <1>13 DEF StorageRequest, Host
<1>14. CASE Console
  BY <1>2, <1>4, <1>5, <1>14 DEF Console
<1>17. CASE DriverIo /\ UNCHANGED <<consoleVars, bootVars>>
  <2>1. UNCHANGED bootVars /\ UNCHANGED consoleVars
    BY <1>17
  <2> QED BY <1>4, <1>17, <2>1
<1>15. CASE Boot
  <2>1. CASE \/ InitLog \/ LogOpened \/ InitRpmb \/ RpmbOpened \/ ReportStatus \/ Astray
    BY <1>5, <1>6, <1>8, <1>9, <1>12, <2>1
  <2>2. CASE \/ BootArm64 \/ GetCmdline \/ BootNext \/ CpuOn \/ CpuWait \/ CpuLook
    BY <1>11, <2>2
  <2> QED BY <1>14, <1>15, <1>17, <2>1, <2>2 DEF Boot
<1>16. CASE Libtipc
  BY <1>10, <1>11, <1>16
<1> QED BY <1>3, <1>11, <1>13, <1>15, <1>16 DEF Next

\* What was logged agrees with the verdict of the test server in every reachable
\* state.
THEOREM VerdictInvariance == Spec => []VerdictInv
<1>1. Init => VerdictInv
  BY VerdictInit
<1>2. VerdictInv /\ LinkInv /\ RunInv /\ [Next]_vars => VerdictInv'
  BY VerdictSteps
<1> QED BY <1>1, <1>2, RunInvariance, LinkInvariance, PTL DEF Spec

(***************************************************************************)
(* The theorems.                                                           *)
(***************************************************************************)

\* What was logged begins with what the host has received.
LEMMA Received ==
    ASSUME LinkInv
    PROVE  /\ hostLog \in Seq(Token) /\ logged \in Seq(Token)
           /\ Len(hostLog) \in Nat /\ Len(logged) \in Nat /\ Len(hostLog) <= Len(logged)
           /\ \A i \in 1 .. Len(hostLog) : logged[i] = hostLog[i]
<1>1. PICK rest : rest \in Seq(Token) /\ logged = hostLog \o rest
  <2>1. Flight \in Message /\ LogLeft \in Message /\ hostLog \in Message
    BY TextTypes DEF LinkInv, ConsoleTypes, LogTypes
  <2>2. Flight \o LogLeft \in Message
    BY <2>1, Joined
  <2>3. (hostLog \o Flight) \o LogLeft = hostLog \o (Flight \o LogLeft)
    BY ONLY <2>1, Regrouped
  <2>4. logged = hostLog \o (Flight \o LogLeft)
    BY <2>3 DEF LinkInv, LogInv
  <2> QED BY <2>2, <2>4 DEF Message
<1>2. hostLog \in Seq(Token) /\ logged \in Seq(Token)
  BY DEF LinkInv, ConsoleTypes, LogTypes, Message
<1>3. Len(hostLog) \in Nat /\ Len(logged) \in Nat /\ Len(rest) \in Nat
  BY <1>1, <1>2, LenProperties
<1>4. /\ Len(logged) = Len(hostLog) + Len(rest)
      /\ \A i \in 1 .. Len(hostLog) + Len(rest) :
           logged[i] = IF i <= Len(hostLog) THEN hostLog[i] ELSE rest[i - Len(hostLog)]
  BY <1>1, <1>2, ConcatProperties
<1>5. Len(hostLog) <= Len(logged)
  BY <1>3, <1>4
<1>6. ASSUME NEW i \in 1 .. Len(hostLog) PROVE logged[i] = hostLog[i]
  <2>1. i \in 1 .. Len(hostLog) + Len(rest) /\ i <= Len(hostLog)
    BY <1>3
  <2> QED BY <1>4, <2>1
<1> QED BY <1>2, <1>3, <1>5, <1>6

\* The host receives what log_buf and host_exit were given, in that order and
\* nothing twice, across the chunks of log_buf, the wrap of the 16-bit indices and
\* whatever the other five queues do in between; log_buf and host_exit return
\* only when all of it has arrived.
THEOREM LogArrives == Spec => []LogExact
<1>1. LinkInv => LogExact
  <2> SUFFICES ASSUME LinkInv PROVE LogExact
    OBVIOUS
  <2>1. pc \notin {"io", "log"} => hostLog = logged
    BY Arrived
  <2>n. PICK n : n = Len(hostLog)
    OBVIOUS
  <2>2. /\ hostLog \in Seq(Token) /\ logged \in Seq(Token) /\ n \in Nat /\ Len(logged) \in Nat /\ n <= Len(logged)
        /\ \A i \in 1 .. n : logged[i] = hostLog[i]
    BY <2>n, Received
  <2>3. SubSeq(hostLog, 1, n) = hostLog
    BY <2>2, <2>n, SubSeqFull
  <2>4. SubSeq(logged, 1, n) = hostLog
    <3>1. \A i \in 1 .. n : logged[i] \in Token
      BY <2>2, <2>n, ElementOfSeq
    <3>2. /\ SubSeq(logged, 1, n) \in Seq(Token) /\ Len(SubSeq(logged, 1, n)) = n
          /\ \A i \in 1 .. n : SubSeq(logged, 1, n)[i] = logged[i]
      BY <2>2, <3>1
    <3> QED BY <3>2, <2>2, <2>n, SeqEqual
  <2>5. IsPrefix(hostLog, logged)
    BY <2>2, <2>3, <2>4, <2>n DEF IsPrefix
  <2> QED BY <2>1, <2>5 DEF LogExact
<1> QED BY <1>1, LinkInvariance, PTL

\* The host exits with 0 or 1 only after the test server has said passed or failed
\* and hung up, and with 2 for everything else that ends in host_exit; nothing
\* follows the exit code on the port.
THEOREM VerdictEarned == Spec => []VerdictTrue
<1>1. LinkInv /\ VerdictInv => VerdictTrue
  <2> SUFFICES ASSUME LinkInv, VerdictInv, NEW i \in DOMAIN hostLog, hostLog[i].k = "exit"
               PROVE  i = Len(hostLog) /\ Earned(hostLog[i])
    BY DEF VerdictTrue, Earned
  <2>1. /\ hostLog \in Seq(Token) /\ Len(hostLog) \in Nat /\ Len(logged) \in Nat /\ Len(hostLog) <= Len(logged)
        /\ \A j \in 1 .. Len(hostLog) : logged[j] = hostLog[j]
    BY Received
  <2>2. i \in 1 .. Len(hostLog)
    BY <2>1, LenProperties
  <2>3. i \in 1 .. Len(logged) /\ logged[i] = hostLog[i]
    BY <2>1, <2>2
  <2>4. i = Len(logged) /\ Earned(logged[i])
    BY <2>3 DEF VerdictInv
  <2> QED BY <2>1, <2>2, <2>3, <2>4
<1> QED BY <1>1, LinkInvariance, VerdictInvariance, PTL

\* Every index of a queue is one of 16 bits and every ring entry a slot, what is
\* known of a port is the name the host has for it, and the allocators, the
\* numbers of the CPUs and the state of the test server stay in their ranges.
THEOREM ConsoleTypeCorrect == Spec => []TypeOK
<1>1. LinkInv /\ RunInv /\ VerdictInv => TypeOK
  <2> SUFFICES ASSUME LinkInv, RunInv, VerdictInv PROVE TypeOK
    OBVIOUS
  <2>1. io.q \in Vqs /\ io.step \in {"none", "publish", "kick", "wait"}
    BY DEF LinkInv, QueueInv, QueueTypes
  <2>2. ASSUME NEW q \in Vqs
        PROVE  /\ vq[q].avail < IdxMod /\ vq[q].used < IdxMod /\ vq[q].old < IdxMod
               /\ \A i \in Slots : vq[q].ring[i] \in Slots
    <3>1. IsVq(vq[q])
      BY DEF LinkInv, QueueInv, QueueTypes
    <3> QED BY <3>1, Sizes DEF IsVq, Idx
  <2>3. ASSUME NEW q \in QueueIds PROVE attached[q] \in Vqs \cup {"none"} /\ lastAvail[q] < IdxMod
    <3>1. attached \in [QueueIds -> Vqs \cup {"none"}] /\ lastAvail \in [QueueIds -> Idx]
      BY DEF LinkInv, QueueInv, QueueTypes
    <3> QED BY <3>1, Sizes DEF Idx
  <2>4. notified \subseteq QueueIds
    BY DEF LinkInv, QueueInv, QueueTypes
  <2>5. ASSUME NEW p \in PortIds PROVE ports[p].name \in Names \cup {NoName}
    <3>1. host.name \in [PortIds -> Names]
      BY DEF LinkInv, ConsoleTypes, Machine
    <3>2. ports[p].name \in {NoName, host.name[p]}
      BY DEF LinkInv, QueueInv, NamesInv
    <3> QED BY <3>1, <3>2
  <2>6. cur \in Slots \cup PortIds /\ rpmb.cmd \in Cmds \cup {NoCmd}
    BY DEF LinkInv, ConsoleTypes, CurTypes, RpmbTypes
  <2>7. mem.heap \in 0 .. HeapSize /\ mem.pages \in 0 .. PageCount
    BY DEF RunInv, MemInv, Memory
  <2>8. smp.k \in 0 .. MaxCpu /\ smp.on \subseteq 1 .. MaxCpu - 1
    BY DEF RunInv, CpuInv
  <2>9. server.verdict \in {"none", "passed", "failed"} /\ server.msgs \in 0 .. MaxMsgs
    BY DEF VerdictInv, Server
  <2> QED BY <2>1, <2>2, <2>3, <2>4, <2>5, <2>6, <2>7, <2>8, <2>9 DEF TypeOK
<1> QED BY <1>1, LinkInvariance, RunInvariance, VerdictInvariance, PTL
=============================================================================
