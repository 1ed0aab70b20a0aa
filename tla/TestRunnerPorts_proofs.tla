------------------------ MODULE TestRunnerPorts_proofs ------------------------
(***************************************************************************)
(* The ports of the console of the test runner: theorems about the control *)
(* queue of the host's messages, from which control_scan learns of them,   *)
(* and about the commands and answers on the RPMB port.                    *)
(***************************************************************************)
EXTENDS TestRunnerLog_proofs, FiniteSetTheorems

(***************************************************************************)
(* The ring of the host's messages.  h is the index of the oldest message  *)
(* the driver has not given back, n the number of messages from there.     *)
(***************************************************************************)

\* x + n for a counter that wraps at m.
Plus(x, n, m) == IF x + n < m THEN x + n ELSE x + n - m

\* The buffer of message i.
Slot(h, i) == Plus(h % VqSize, i - 1, VqSize)

\* All buffers but those of the n messages are with the device, in ring order.
Window(h, n) ==
    LET v == vq["ctl_in"]
    IN  /\ v.raw
        /\ v.avail = Plus(h, VqSize, IdxMod) /\ v.used = Plus(h, n, IdxMod)
        /\ v.old = IF pc = "msg" THEN Plus(h, 1, IdxMod) ELSE h
        /\ pc = "msg" => n > 0 /\ cur = h % VqSize
        /\ \A i \in Slots : v.ring[i] = i
        /\ \A i \in 1 .. n : v.desc[Slot(h, i)].data # <<>>

\* What the messages say: kind and port.
Held(h, n) == [i \in 1 .. n |-> vq["ctl_in"].desc[Slot(h, i)].data[1]]
Heads(todo) == [i \in 1 .. Len(todo) |-> todo[i][1]]

\* The messages the driver has yet to handle, those the host has yet to send too.
Rest(h, n) == Held(h, n) \o Heads(dev.todo)

(***************************************************************************)
(* What the host and the driver have said about a port.                    *)
(***************************************************************************)

\* The device has not looked at the driver's message yet.
Untaken ==
    pc = "io" /\ io.q = "ctl_out" /\ ~dev.busy /\ vq["ctl_out"].used = vq["ctl_out"].old

OutTok == vq["ctl_out"].desc[vq["ctl_out"].old % VqSize].data[1]

\* The host has not announced port p.
Coming(p) == pc = "scan" \/ (Untaken /\ OutTok.k = "DEVICE_READY") \/ p >= dev.added

\* The driver has been told of port p and the host not that it is ready.
AnswerDue(p) ==
    \/ pc = "ready" /\ Msg[1].v = p
    \/ Untaken /\ OutTok.k = "PORT_READY" /\ OutTok.v = p

\* The kinds of the messages about port p.
KindsOf(s, p) == {s[i].k : i \in {j \in 1 .. Len(s) : s[j].v = p}}

Absent(p, ks) == ks = {} /\ ~ports[p].host /\ ports[p].name = NoName /\ ~AnswerDue(p)

Going(p, ks) ==
    /\ ports[p].name = NoName
    /\ \/ ks = {"DEVICE_ADD", "DEVICE_REMOVE"} /\ ~ports[p].host /\ ~AnswerDue(p)
       \/ ks = {"DEVICE_REMOVE"} /\ ports[p].host
       \/ ks = {} /\ ~ports[p].host /\ ~AnswerDue(p)

Plugged(p, ks) ==
    \/ ks = {"DEVICE_ADD"} /\ ~ports[p].host /\ ports[p].name = NoName /\ ~AnswerDue(p)
    \/ /\ ports[p].host
       /\ \/ ks = {} /\ ports[p].name = NoName /\ AnswerDue(p)
          \/ ks \in {{"PORT_NAME", "PORT_OPEN"}, {"PORT_NAME"}} /\ ports[p].name = NoName /\ ~AnswerDue(p)
          \/ ks \in {{"PORT_OPEN"}, {}} /\ ports[p].name = host.name[p] /\ ~AnswerDue(p)

Stage(p, ks) ==
    IF Coming(p) \/ host.kind[p] = "absent" THEN Absent(p, ks)
    ELSE IF host.kind[p] = "gone" THEN Going(p, ks) ELSE Plugged(p, ks)

\* No message is on the way twice, and a port is added before it is removed.
Distinct(s) == \A i, j \in 1 .. Len(s) : s[i] = s[j] => i = j
Ordered(s) ==
    \A i, j \in 1 .. Len(s) :
        s[i].v = s[j].v /\ s[i].k = "DEVICE_ADD" /\ s[j].k = "DEVICE_REMOVE" => i < j

Plan(s) ==
    /\ s \in Message /\ \A i \in 1 .. Len(s) : s[i].v \in PortIds
    /\ Distinct(s) /\ Ordered(s)
    /\ \A p \in PortIds : Stage(p, KindsOf(s, p))

(***************************************************************************)
(* The invariant.                                                          *)
(***************************************************************************)

Scanning == pc \in {"scan", "get", "poll", "msg", "ready"} \/ (pc = "io" /\ io.next = "get")

Known(p) ==
    IF host.kind[p] = "plugged" THEN ports[p].host /\ ports[p].name = host.name[p]
                                ELSE ~ports[p].host /\ ports[p].name = NoName

\* The host has said all it has to say.
Settled ==
    /\ \A p \in PortIds : Known(p)
    /\ dev.todo = <<>> /\ dev.added = MaxPorts
    /\ Untaken => OutTok.k = "PORT_OPEN"

BoardInv ==
    /\ ~dev.busy => dev.todo = <<>> /\ dev.added = MaxPorts
    /\ ~dev.dropped
    /\ Scanning => \E h \in Idx : \E n \in 0 .. VqSize : Window(h, n) /\ \E s \in {Rest(h, n)} : Plan(s)
    /\ Scanned => Settled

(***************************************************************************)
(* Arithmetic of the ring.                                                 *)
(***************************************************************************)

\* Remainders of a divisor that is a variable.
LEMMA Remainder ==
    ASSUME NEW n \in Nat, n > 0, NEW a \in Int, NEW r \in 0 .. n - 1
    PROVE  (n * a + r) % n = r
BY SMT

LEMMA Division ==
    ASSUME NEW n \in Nat, n > 0, NEW x \in Nat
    PROVE  \E a \in Nat : x = n * a + (x % n) /\ x % n \in 0 .. n - 1
<1>1. x = n * (x \div n) + (x % n) /\ x % n \in 0 .. n - 1 /\ x \div n \in Nat
  BY SMT
<1> QED BY <1>1

LEMMA Turns == \E k \in Nat : IdxMod = VqSize * k
<1>1. VqSize \in Nat /\ VqSize > 0 /\ IdxMod \in Nat /\ IdxMod % VqSize = 0
  BY QueueAssumption
<1>2. PICK k \in Nat : IdxMod = VqSize * k + (IdxMod % VqSize)
  BY <1>1, Division
<1> QED BY <1>1, <1>2

\* An index as many steps on stands for the slot as many steps on.
LEMMA PlusSlot ==
    ASSUME NEW h \in Idx, NEW n \in 0 .. VqSize
    PROVE  /\ h % VqSize \in Slots
           /\ Plus(h, n, IdxMod) \in Idx
           /\ Plus(h, n, IdxMod) % VqSize = Plus(h % VqSize, n, VqSize)
<1>1. /\ VqSize \in Nat /\ VqSize > 0 /\ IdxMod \in Nat /\ IdxMod >= 2 * VqSize /\ h \in Nat /\ h < IdxMod
      /\ n \in Nat /\ n <= VqSize
  BY Sizes DEF Idx
<1>g. PICK g : g = h % VqSize
  OBVIOUS
<1>2. PICK k \in Nat : IdxMod = VqSize * k
  BY Turns
<1>3. PICK a \in Nat : h = VqSize * a + g /\ g \in 0 .. VqSize - 1
  BY <1>1, <1>g, Division
<1>4. Plus(h, n, IdxMod) \in Idx
  BY <1>1 DEF Plus, Idx
<1>r. ASSUME NEW b \in Int, NEW r \in 0 .. VqSize - 1, NEW x, x = VqSize * b + r PROVE x % VqSize = r
  BY <1>1, <1>r, Remainder
<1>5. Plus(h, n, IdxMod) % VqSize = Plus(g, n, VqSize)
  <2>1. CASE h + n < IdxMod /\ g + n < VqSize
    <3>1. h + n = VqSize * a + (g + n) /\ g + n \in 0 .. VqSize - 1
      BY <1>1, <1>3, <2>1
    <3> QED BY <3>1, <2>1, <1>r DEF Plus
  <2>2. CASE h + n < IdxMod /\ ~(g + n < VqSize)
    <3>1. h + n = VqSize * (a + 1) + (g + n - VqSize) /\ g + n - VqSize \in 0 .. VqSize - 1
      BY <1>1, <1>3, <2>2
    <3> QED BY <3>1, <2>2, <1>r DEF Plus
  <2>3. CASE ~(h + n < IdxMod) /\ g + n < VqSize
    <3>1. h + n - IdxMod = VqSize * (a - k) + (g + n) /\ g + n \in 0 .. VqSize - 1
      BY <1>1, <1>2, <1>3, <2>3
    <3> QED BY <3>1, <2>3, <1>r DEF Plus
  <2>4. CASE ~(h + n < IdxMod) /\ ~(g + n < VqSize)
    <3>1. h + n - IdxMod = VqSize * (a + 1 - k) + (g + n - VqSize) /\ g + n - VqSize \in 0 .. VqSize - 1
      BY <1>1, <1>2, <1>3, <2>4
    <3> QED BY <3>1, <2>4, <1>r DEF Plus
  <2> QED BY <2>1, <2>2, <2>3, <2>4
<1> QED BY <1>g, <1>1, <1>3, <1>4, <1>5 DEF Slots

LEMMA PlusSteps ==
    ASSUME NEW h \in Idx, NEW n \in 0 .. VqSize
    PROVE  /\ Plus(h, 0, IdxMod) = h
           /\ (h + 1) % IdxMod = Plus(h, 1, IdxMod)
           /\ (Plus(h, n, IdxMod) + 1) % IdxMod = Plus(h, n + 1, IdxMod)
           /\ Plus(Plus(h, 1, IdxMod), n, IdxMod) = Plus(h, n + 1, IdxMod)
           /\ \A m \in 0 .. VqSize : Plus(h, n, IdxMod) = Plus(h, m, IdxMod) => n = m
<1>1. /\ VqSize \in Nat /\ VqSize > 1 /\ IdxMod \in Nat /\ IdxMod >= 2 * VqSize /\ h \in Nat /\ h < IdxMod
      /\ n \in Nat /\ n <= VqSize
  BY Sizes DEF Idx
<1>2. \A x \in Nat : x < IdxMod => (x + 1) % IdxMod = Plus(x, 1, IdxMod)
  <2> SUFFICES ASSUME NEW x \in Nat, x < IdxMod PROVE (x + 1) % IdxMod = Plus(x, 1, IdxMod)
    OBVIOUS
  <2>1. CASE x + 1 < IdxMod
    <3>1. (x + 1) % IdxMod = x + 1
      BY <1>1, <2>1
    <3> QED BY <3>1, <2>1 DEF Plus
  <2>2. CASE x + 1 = IdxMod
    <3>1. (x + 1) % IdxMod = 0
      BY <1>1, <2>2
    <3> QED BY <3>1, <2>2, <1>1 DEF Plus
  <2> QED BY <2>1, <2>2, <1>1
<1>3. Plus(h, n, IdxMod) \in Nat /\ Plus(h, n, IdxMod) < IdxMod
  BY <1>1 DEF Plus
<1>4. Plus(Plus(h, n, IdxMod), 1, IdxMod) = Plus(h, n + 1, IdxMod)
  BY <1>1 DEF Plus
<1>5. /\ Plus(h, 0, IdxMod) = h /\ Plus(Plus(h, 1, IdxMod), n, IdxMod) = Plus(h, n + 1, IdxMod)
      /\ \A m \in 0 .. VqSize : Plus(h, n, IdxMod) = Plus(h, m, IdxMod) => n = m
  BY <1>1 DEF Plus
<1> QED BY <1>1, <1>2, <1>3, <1>4, <1>5

LEMMA SlotSteps ==
    ASSUME NEW h \in Idx
    PROVE  /\ \A i \in 1 .. VqSize : Slot(h, i) \in Slots
           /\ \A i, j \in 1 .. VqSize : Slot(h, i) = Slot(h, j) => i = j
           /\ Slot(h, 1) = h % VqSize
           /\ \A n \in 0 .. VqSize - 1 : Slot(h, n + 1) = Plus(h, n, IdxMod) % VqSize
           /\ \A i \in 1 .. VqSize - 1 : Slot(Plus(h, 1, IdxMod), i) = Slot(h, i + 1)
           /\ Plus(h, VqSize, IdxMod) % VqSize = h % VqSize
<1>g. PICK g : g = h % VqSize
  OBVIOUS
<1>1. VqSize \in Nat /\ VqSize > 1 /\ g \in Nat /\ g < VqSize
  BY <1>g, Sizes, PlusSlot DEF Slots
<1>2. Plus(h, 1, IdxMod) % VqSize = Plus(g, 1, VqSize)
  BY <1>g, <1>1, PlusSlot
<1>3. /\ \A i \in 1 .. VqSize : Plus(g, i - 1, VqSize) \in 0 .. VqSize - 1
      /\ \A i, j \in 1 .. VqSize : Plus(g, i - 1, VqSize) = Plus(g, j - 1, VqSize) => i = j
      /\ Plus(g, 1 - 1, VqSize) = g /\ Plus(g, VqSize, VqSize) = g
      /\ \A i \in 1 .. VqSize - 1 : Plus(Plus(g, 1, VqSize), i - 1, VqSize) = Plus(g, (i + 1) - 1, VqSize)
  BY <1>1 DEF Plus
<1>4. ASSUME NEW n \in 0 .. VqSize - 1 PROVE Slot(h, n + 1) = Plus(h, n, IdxMod) % VqSize
  <2>1. (n + 1) - 1 = n /\ n \in 0 .. VqSize
    BY <1>1
  <2> QED BY <2>1, <1>g, PlusSlot DEF Slot
<1>5. Plus(h, VqSize, IdxMod) % VqSize = g
  <2>1. VqSize \in 0 .. VqSize
    BY <1>1
  <2> QED BY <2>1, <1>g, <1>3, PlusSlot
<1> QED BY <1>g, <1>2, <1>3, <1>4, <1>5 DEF Slot, Slots

(***************************************************************************)
(* Sequences of messages.                                                  *)
(***************************************************************************)

LEMMA SameToken ==
    ASSUME NEW a \in Token, NEW b \in Token, a.k = b.k, a.v = b.v
    PROVE  a = b
BY DEF Token

LEMMA SameSet == ASSUME NEW A, NEW B, \A x : x \in A <=> x \in B PROVE A = B
OBVIOUS

LEMMA KindsOfEmpty == \A p : KindsOf(<<>>, p) = {}
BY DEF KindsOf

LEMMA KindsMember ==
    ASSUME NEW s, NEW p, NEW x
    PROVE  x \in KindsOf(s, p) <=> \E i \in 1 .. Len(s) : s[i].v = p /\ s[i].k = x
BY DEF KindsOf

\* The oldest message is handled.
LEMMA KindsTail ==
    ASSUME NEW s \in Message, s # <<>>, Distinct(s)
    PROVE  /\ Tail(s) \in Message /\ Distinct(Tail(s)) /\ (Ordered(s) => Ordered(Tail(s)))
           /\ \A i \in 1 .. Len(Tail(s)) : i + 1 \in 1 .. Len(s) /\ Tail(s)[i] = s[i + 1]
           /\ s[1] \in Token /\ s[1].k \in KindsOf(s, s[1].v)
           /\ KindsOf(Tail(s), s[1].v) = KindsOf(s, s[1].v) \ {s[1].k}
           /\ \A p : p # s[1].v => KindsOf(Tail(s), p) = KindsOf(s, p)
<1>1. s \in Seq(Token) /\ Len(s) \in Nat /\ Len(s) >= 1
  BY EmptySeq, LenProperties DEF Message
<1>t. PICK t : t = Tail(s)
  OBVIOUS
<1>2. t \in Seq(Token) /\ Len(t) = Len(s) - 1 /\ \A i \in 1 .. Len(t) : t[i] = s[i + 1]
  BY <1>1, <1>t, HeadTailProperties, EmptySeq
<1>3. \A i \in 1 .. Len(s) : s[i] \in Token
  BY <1>1, ElementOfSeq
<1>4. \A i \in 1 .. Len(t) : i + 1 \in 1 .. Len(s)
  BY <1>1, <1>2
<1>5. Distinct(t)
  <2> SUFFICES ASSUME NEW i \in 1 .. Len(t), NEW j \in 1 .. Len(t), t[i] = t[j] PROVE i = j
    BY DEF Distinct
  <2>1. s[i + 1] = s[j + 1] /\ i + 1 \in 1 .. Len(s) /\ j + 1 \in 1 .. Len(s)
    BY <1>2, <1>4
  <2>2. i + 1 = j + 1
    BY <2>1 DEF Distinct
  <2> QED BY <2>2, <1>1, <1>2
<1>6. Ordered(s) => Ordered(t)
  <2> SUFFICES ASSUME Ordered(s), NEW i \in 1 .. Len(t), NEW j \in 1 .. Len(t),
                      t[i].v = t[j].v, t[i].k = "DEVICE_ADD", t[j].k = "DEVICE_REMOVE"
               PROVE  i < j
    BY DEF Ordered
  <2>1. t[i] = s[i + 1] /\ t[j] = s[j + 1] /\ i + 1 \in 1 .. Len(s) /\ j + 1 \in 1 .. Len(s)
    BY <1>2, <1>4
  <2>2. i + 1 < j + 1
    BY <2>1 DEF Ordered
  <2> QED BY <2>2, <1>1, <1>2
<1>7. 1 \in 1 .. Len(s) /\ s[1] \in Token /\ s[1].k \in KindsOf(s, s[1].v)
  <2>1. 1 \in 1 .. Len(s)
    BY <1>1
  <2> QED BY <2>1, <1>3, KindsMember
<1>8. ASSUME NEW p, NEW x PROVE x \in KindsOf(t, p) <=> x \in KindsOf(s, p) /\ ~(p = s[1].v /\ x = s[1].k)
  <2>1. ASSUME x \in KindsOf(t, p) PROVE x \in KindsOf(s, p) /\ ~(p = s[1].v /\ x = s[1].k)
    <3>1. PICK i \in 1 .. Len(t) : t[i].v = p /\ t[i].k = x
      BY <2>1, KindsMember
    <3>2. i + 1 \in 1 .. Len(s) /\ s[i + 1].v = p /\ s[i + 1].k = x /\ i + 1 # 1
      BY <3>1, <1>1, <1>2, <1>4
    <3>3. ~(p = s[1].v /\ x = s[1].k)
      <4> SUFFICES ASSUME p = s[1].v, x = s[1].k PROVE FALSE
        OBVIOUS
      <4>1. s[i + 1] = s[1]
        BY <3>2, <1>3, <1>7, SameToken
      <4> QED BY <4>1, <3>2, <1>7 DEF Distinct
    <3> QED BY <3>2, <3>3, KindsMember
  <2>2. ASSUME x \in KindsOf(s, p), ~(p = s[1].v /\ x = s[1].k) PROVE x \in KindsOf(t, p)
    <3>1. PICK j \in 1 .. Len(s) : s[j].v = p /\ s[j].k = x
      BY <2>2, KindsMember
    <3>2. j # 1
      BY <2>2, <3>1
    <3>3. j - 1 \in 1 .. Len(t) /\ (j - 1) + 1 = j
      BY <3>1, <3>2, <1>1, <1>2
    <3>4. t[j - 1] = s[j]
      BY <3>3, <1>2
    <3> QED BY <3>1, <3>3, <3>4, KindsMember
  <2> QED BY <2>1, <2>2
<1>9. /\ KindsOf(t, s[1].v) = KindsOf(s, s[1].v) \ {s[1].k}
      /\ \A p : p # s[1].v => KindsOf(t, p) = KindsOf(s, p)
  <2>1. \A p, x : x \in KindsOf(t, p) <=> x \in KindsOf(s, p) /\ ~(p = s[1].v /\ x = s[1].k)
    BY <1>8, Zenon
  <2>2. \A x : x \in KindsOf(t, s[1].v) <=> x \in KindsOf(s, s[1].v) \ {s[1].k}
    BY ONLY <2>1, Zenon
  <2>3. ASSUME NEW p, p # s[1].v PROVE KindsOf(t, p) = KindsOf(s, p)
    <3>1. \A x : x \in KindsOf(t, p) <=> x \in KindsOf(s, p)
      BY ONLY <2>1, <2>3, Zenon
    <3> QED BY ONLY <3>1, SameSet
  <2>4. KindsOf(t, s[1].v) = KindsOf(s, s[1].v) \ {s[1].k}
    BY ONLY <2>2, SameSet
  <2> QED BY <2>3, <2>4, Zenon
<1> QED BY <1>t, <1>2, <1>4, <1>5, <1>6, <1>7, <1>9 DEF Message

\* The host has one or two more messages to send.
Adds(u, s, t) == u = Append(s, t)
AddsTwo(u, s, x, y) == u = s \o <<x, y>>

LEMMA KindsAppend ==
    ASSUME NEW s \in Message, NEW t \in Token, NEW u, Adds(u, s, t), Distinct(s), t.k \notin KindsOf(s, t.v)
    PROVE  /\ u \in Message /\ Distinct(u) /\ Len(u) = Len(s) + 1
           /\ Ordered(s) /\ (t.k = "DEVICE_ADD" => KindsOf(s, t.v) = {}) => Ordered(u)
           /\ \A i \in 1 .. Len(u) : u[i] = t \/ (i \in 1 .. Len(s) /\ u[i] = s[i])
           /\ KindsOf(u, t.v) = KindsOf(s, t.v) \cup {t.k}
           /\ \A p : p # t.v => KindsOf(u, p) = KindsOf(s, p)
<1>n. PICK n : n = Len(s)
  OBVIOUS
<1>1. s \in Seq(Token) /\ n \in Nat
  BY <1>n, LenProperties DEF Message
<1>2. /\ u \in Seq(Token) /\ Len(u) = n + 1 /\ u[n + 1] = t /\ \A i \in 1 .. n : u[i] = s[i]
  BY <1>1, <1>n, AppendProperties DEF Adds
<1>3. \A i \in 1 .. Len(u) : i = n + 1 \/ i \in 1 .. n
  BY <1>1, <1>2
<1>4. \A i \in 1 .. n : s[i] # t /\ ~(s[i].v = t.v /\ s[i].k = t.k)
  BY <1>n, KindsMember
<1>5. Distinct(u)
  <2> SUFFICES ASSUME NEW i \in 1 .. Len(u), NEW j \in 1 .. Len(u), u[i] = u[j] PROVE i = j
    BY DEF Distinct
  <2> QED BY <1>1, <1>2, <1>3, <1>4, <1>n DEF Distinct
<1>6. ASSUME Ordered(s), t.k = "DEVICE_ADD" => KindsOf(s, t.v) = {} PROVE Ordered(u)
  <2> SUFFICES ASSUME NEW i \in 1 .. Len(u), NEW j \in 1 .. Len(u),
                      u[i].v = u[j].v, u[i].k = "DEVICE_ADD", u[j].k = "DEVICE_REMOVE"
               PROVE  i < j
    BY DEF Ordered
  <2>1. CASE i \in 1 .. n /\ j \in 1 .. n
    BY <2>1, <1>2, <1>6, <1>n DEF Ordered
  <2>2. CASE i \in 1 .. n /\ j = n + 1
    BY <2>2, <1>1
  <2>3. CASE i = n + 1 /\ j \in 1 .. n
    <3>1. u[i] = t /\ u[j] = s[j]
      BY <2>3, <1>2
    <3>2. s[j].k \in KindsOf(s, t.v)
      BY <3>1, <2>3, <1>n, KindsMember
    <3> QED BY <3>1, <3>2, <1>6
  <2>4. CASE i = n + 1 /\ j = n + 1
    BY <2>4
  <2> QED BY <2>1, <2>2, <2>3, <2>4, <1>3
<1>7. ASSUME NEW p, NEW x PROVE x \in KindsOf(u, p) <=> x \in KindsOf(s, p) \/ (p = t.v /\ x = t.k)
  <2>1. x \in KindsOf(u, p) <=> \E i \in 1 .. Len(u) : u[i].v = p /\ u[i].k = x
    BY DEF KindsOf
  <2>2. x \in KindsOf(s, p) <=> \E i \in 1 .. n : s[i].v = p /\ s[i].k = x
    BY <1>n, KindsMember
  <2>3. n + 1 \in 1 .. Len(u) /\ \A i \in 1 .. n : i \in 1 .. Len(u)
    BY <1>1, <1>2
  <2> QED BY <2>1, <2>2, <2>3, <1>2, <1>3
<1>8. /\ KindsOf(u, t.v) = KindsOf(s, t.v) \cup {t.k}
      /\ \A p : p # t.v => KindsOf(u, p) = KindsOf(s, p)
  <2>1. \A p, x : x \in KindsOf(u, p) <=> x \in KindsOf(s, p) \/ (p = t.v /\ x = t.k)
    BY <1>7, Zenon
  <2>2. \A x : x \in KindsOf(u, t.v) <=> x \in KindsOf(s, t.v) \cup {t.k}
    BY ONLY <2>1, Zenon
  <2>3. ASSUME NEW p, p # t.v PROVE KindsOf(u, p) = KindsOf(s, p)
    <3>1. \A x : x \in KindsOf(u, p) <=> x \in KindsOf(s, p)
      BY ONLY <2>1, <2>3, Zenon
    <3> QED BY ONLY <3>1, SameSet
  <2>4. KindsOf(u, t.v) = KindsOf(s, t.v) \cup {t.k}
    BY ONLY <2>2, SameSet
  <2> QED BY <2>3, <2>4, Zenon
<1> QED BY <1>n, <1>2, <1>3, <1>5, <1>6, <1>8 DEF Message

(***************************************************************************)
(* There is a buffer for every message.                                    *)
(***************************************************************************)

\* A place for a message: an addition and a name of a port, a removal and an opening
\* share one.
First == {"DEVICE_ADD", "PORT_NAME"}
Berth(t) == 2 * t.v + (IF t.k \in First THEN 0 ELSE 1)

LEMMA Pigeons ==
    ASSUME NEW s \in Message, \A i \in 1 .. Len(s) : s[i].v \in PortIds, Distinct(s),
           \A p \in PortIds : /\ KindsOf(s, p) \subseteq Events
                              /\ ~({"DEVICE_ADD", "PORT_NAME"} \subseteq KindsOf(s, p))
                              /\ ~({"DEVICE_REMOVE", "PORT_OPEN"} \subseteq KindsOf(s, p))
    PROVE  Len(s) <= VqSize
<1>n. PICK n : n = Len(s)
  OBVIOUS
<1>1. n \in Nat /\ \A i \in 1 .. n : s[i] \in Token
  BY <1>n, LenProperties, ElementOfSeq DEF Message
<1>2. MaxPorts \in Nat /\ MaxPorts >= 1 /\ VqSize = 2 * MaxPorts
  BY Sizes
<1>3. \A i \in 1 .. n : s[i].v \in 0 .. MaxPorts - 1
  BY <1>n DEF PortIds
<1>4. ASSUME NEW v \in 0 .. MaxPorts - 1, NEW k PROVE 2 * v + (IF k \in First THEN 0 ELSE 1) \in 0 .. VqSize - 1
  BY <1>2
<1>5. \A i \in 1 .. n : Berth(s[i]) \in 0 .. VqSize - 1
  BY <1>3, <1>4 DEF Berth
<1>6. ASSUME NEW v \in 0 .. MaxPorts - 1, NEW w \in 0 .. MaxPorts - 1, NEW k, NEW l,
             2 * v + (IF k \in First THEN 0 ELSE 1) = 2 * w + (IF l \in First THEN 0 ELSE 1)
      PROVE  v = w /\ (k \in First <=> l \in First)
  BY <1>2, <1>6
<1>7. ASSUME NEW i \in 1 .. n, NEW j \in 1 .. n, Berth(s[i]) = Berth(s[j]) PROVE i = j
  <2>1. s[i].v \in 0 .. MaxPorts - 1 /\ s[j].v \in 0 .. MaxPorts - 1
    BY <1>3
  <2>2. s[i].v = s[j].v /\ (s[i].k \in First <=> s[j].k \in First)
    BY ONLY <2>1, <1>6, <1>7 DEF Berth
  <2>p. PICK p \in PortIds : p = s[i].v
    BY <1>n
  <2>3. s[i].k \in KindsOf(s, p) /\ s[j].k \in KindsOf(s, p)
    BY <2>2, <2>p, <1>n, KindsMember
  <2>4. s[i].k = s[j].k
    <3>k. PICK K : K = KindsOf(s, p)
      OBVIOUS
    <3>1. /\ K \subseteq Events /\ ~({"DEVICE_ADD", "PORT_NAME"} \subseteq K)
          /\ ~({"DEVICE_REMOVE", "PORT_OPEN"} \subseteq K)
      BY <3>k
    <3> QED BY <3>k, <3>1, <2>2, <2>3 DEF First, Events
  <2>5. s[i] = s[j]
    BY <1>1, <2>2, <2>4, SameToken
  <2> QED BY <2>5, <1>n DEF Distinct
<1>8. ASSUME n > VqSize PROVE FALSE
  <2> DEFINE f == [i \in 1 .. n |-> Berth(s[i])]
  <2>1. f \in [1 .. n -> 0 .. VqSize - 1]
    BY <1>5
  <2>2. /\ IsFiniteSet(1 .. n) /\ IsFiniteSet(0 .. VqSize - 1)
        /\ Cardinality(0 .. VqSize - 1) < Cardinality(1 .. n)
    <3>1. IsFiniteSet(1 .. n) /\ Cardinality(1 .. n) = n
      BY <1>1, <1>2, <1>8, FS_Interval
    <3>2. IsFiniteSet(0 .. VqSize - 1) /\ Cardinality(0 .. VqSize - 1) = VqSize
      BY <1>2, FS_Interval
    <3> QED BY <3>1, <3>2, <1>1, <1>2, <1>8
  <2>3. PICK i, j \in 1 .. n : i # j /\ f[i] = f[j]
    <3> HIDE DEF f
    <3> QED BY <2>1, <2>2, FS_PigeonHole
  <2>4. Berth(s[i]) = Berth(s[j])
    BY <2>3
  <2> QED BY <1>7, <2>3, <2>4
<1> QED BY <1>n, <1>1, <1>2, <1>8

\* The messages about a port at a stage.
LEMMA StageKinds ==
    ASSUME NEW p, NEW ks, Stage(p, ks)
    PROVE  /\ ks \subseteq Events
           /\ ~({"DEVICE_ADD", "PORT_NAME"} \subseteq ks) /\ ~({"DEVICE_REMOVE", "PORT_OPEN"} \subseteq ks)
BY DEF Stage, Absent, Going, Plugged, Events

LEMMA PlanFits == ASSUME NEW s, Plan(s) PROVE Len(s) <= VqSize
<1>1. /\ s \in Message /\ Distinct(s) /\ \A i \in 1 .. Len(s) : s[i].v \in PortIds
      /\ \A p \in PortIds : Stage(p, KindsOf(s, p))
  BY DEF Plan
<1>2. ASSUME NEW p \in PortIds
      PROVE  /\ KindsOf(s, p) \subseteq Events
             /\ ~({"DEVICE_ADD", "PORT_NAME"} \subseteq KindsOf(s, p))
             /\ ~({"DEVICE_REMOVE", "PORT_OPEN"} \subseteq KindsOf(s, p))
  BY <1>1, StageKinds
<1> QED BY <1>1, <1>2, Pigeons

(***************************************************************************)
(* Steps after which nothing has changed for the control queue.            *)
(***************************************************************************)

LEMMA StageKeeps ==
    ASSUME NEW p, NEW ks, Stage(p, ks),
           host'.kind[p] = host.kind[p], host'.name[p] = host.name[p],
           ports'[p].host = ports[p].host, ports'[p].name = ports[p].name,
           Coming(p)' <=> Coming(p), AnswerDue(p)' <=> AnswerDue(p)
    PROVE  Stage(p, ks)'
BY DEF Stage, Absent, Going, Plugged

SamePorts == \A p \in PortIds : ports'[p].host = ports[p].host /\ ports'[p].name = ports[p].name
SamePlugs == host'.kind = host.kind /\ host'.name = host.name

LEMMA PlanKeeps ==
    ASSUME NEW s, Plan(s), SamePlugs, SamePorts,
           \A p \in PortIds : (Coming(p)' <=> Coming(p)) /\ (AnswerDue(p)' <=> AnswerDue(p))
    PROVE  Plan(s)'
<1>1. ASSUME NEW p \in PortIds PROVE Stage(p, KindsOf(s, p))'
  <2>1. Stage(p, KindsOf(s, p))
    BY DEF Plan
  <2>k. PICK ks : ks = KindsOf(s, p)
    OBVIOUS
  <2>2. Stage(p, ks)'
    BY <2>1, <2>k, StageKeeps DEF SamePlugs, SamePorts
  <2> QED BY <2>2, <2>k
<1> QED BY <1>1 DEF Plan

LEMMA WindowKeeps ==
    ASSUME NEW h, NEW n, Window(h, n), vq'["ctl_in"] = vq["ctl_in"], cur' = cur, pc' = "msg" <=> pc = "msg"
    PROVE  Window(h, n)' /\ Held(h, n)' = Held(h, n)
BY DEF Window, Held

\* The plan of a running scan.
LEMMA TheBoard ==
    ASSUME BoardInv, Scanning
    PROVE  \E h \in Idx, n \in 0 .. VqSize, s \in Message : Window(h, n) /\ s = Rest(h, n) /\ Plan(s)
<1>1. PICK h \in Idx, n \in 0 .. VqSize : Window(h, n) /\ \E s \in {Rest(h, n)} : Plan(s)
  BY DEF BoardInv
<1>2. PICK s \in {Rest(h, n)} : Plan(s)
  BY <1>1
<1>3. s \in Message
  BY <1>2 DEF Plan
<1> QED BY <1>1, <1>2, <1>3

\* The driver goes on to wait, the host has not spoken.
LEMMA ScanKeeps ==
    ASSUME BoardInv, Scanning, Scanning', vq'["ctl_in"] = vq["ctl_in"], cur' = cur, pc' = "msg" <=> pc = "msg",
           dev' = dev, SamePlugs, SamePorts,
           \A p \in PortIds : (Coming(p)' <=> Coming(p)) /\ (AnswerDue(p)' <=> AnswerDue(p))
    PROVE  BoardInv'
<1>1. PICK h \in Idx, n \in 0 .. VqSize, s \in Message : Window(h, n) /\ s = Rest(h, n) /\ Plan(s)
  BY TheBoard
<1>2. Window(h, n)' /\ Held(h, n)' = Held(h, n)
  BY <1>1, WindowKeeps
<1>3. s = Rest(h, n)'
  BY <1>1, <1>2 DEF Rest
<1>4. Plan(s)'
  BY <1>1, PlanKeeps
<1>5. ~Scanned'
  BY DEF Scanning, Scanned
<1> QED BY <1>2, <1>3, <1>4, <1>5 DEF BoardInv

\* All has been said, or nothing yet.
LEMMA LaterKeeps ==
    ASSUME BoardInv, ~Scanning', Scanned' => Scanned, SamePlugs, SamePorts,
           dev'.busy = dev.busy, dev'.todo = dev.todo, dev'.added = dev.added, dev'.dropped = dev.dropped,
           Untaken' => OutTok'.k = "PORT_OPEN" \/ (Untaken /\ OutTok'.k = OutTok.k)
    PROVE  BoardInv'
<1>1. ASSUME Scanned' PROVE Settled'
  <2>1. Settled
    BY <1>1 DEF BoardInv
  <2> QED BY <2>1 DEF Settled, Known, SamePlugs, SamePorts
<1> QED BY <1>1 DEF BoardInv

(***************************************************************************)
(* The steps of the driver.                                                *)
(***************************************************************************)

\* The device does not work while CPU 0 does.
LEMMA DeviceIdle ==
    ASSUME LinkInv, BoardInv, pc # "io"
    PROVE  ~dev.busy /\ ~Untaken /\ dev.todo = <<>> /\ dev.added = MaxPorts /\ \A p \in PortIds : ~(p >= dev.added)
<1>1. ~dev.busy /\ ~Untaken
  BY DEF LinkInv, QueueInv, CtlOutInv, Untaken
<1>2. dev.added = MaxPorts /\ dev.todo = <<>>
  BY <1>1 DEF BoardInv
<1>3. \A p \in PortIds : ~(p >= MaxPorts)
  BY Sizes DEF PortIds
<1> QED BY <1>1, <1>2, <1>3

\* control_setup gives the device all buffers.
LEMMA SetupBoard ==
    ASSUME LinkInv, ControlInv, BoardInv, ControlSetup
    PROVE  BoardInv'
<1>1. /\ pc = "setup" /\ pc' = "scan" /\ UNCHANGED <<io, cur, host>>
      /\ dev' = [dev EXCEPT !.ok = TRUE] /\ ports' = [p \in PortIds |-> NoPort]
  BY DEF ControlSetup
<1>v. PICK v : v = vq["ctl_in"]
  OBVIOUS
<1>2. "ctl_in" \in Vqs /\ IsVq(v) /\ ~v.raw /\ v.used = 0 /\ v.old = 0
  <2>1. Place = "setup"
    BY <1>1, AtPlace DEF Inside, RpmbAt
  <2>2. "ctl_in" \in Vqs /\ ~v.raw
    BY <2>1, <1>v DEF LinkInv, QueueInv, RawInv, Unready, Vqs
  <2> QED BY <2>2, <1>v DEF LinkInv, QueueInv, QueueTypes, LastInv
<1>t. PICK t : t = InVq(v, ControlIn)
  OBVIOUS
<1>3. IsVq(t) /\ t.raw /\ t.old = 0 /\ t.used = 0
  BY <1>t, <1>2, ControlQueues, InitIn
<1> DEFINE ring == [i \in Slots |-> i]
           desc == [i \in Slots |-> [data |-> <<>>, len |-> CmsgMax]]
<1>w. PICK w : w = [t EXCEPT !.ring = ring, !.desc = desc, !.avail = VqSize % IdxMod]
  OBVIOUS
<1>4. vq'["ctl_in"] = w
  <2>1. vq' = [vq EXCEPT !["ctl_out"] = OutVq(vq["ctl_out"], ControlOut), !["ctl_in"] = w]
    BY <1>v, <1>t, <1>w DEF ControlSetup, InVq, OutVq
  <2>2. "ctl_out" \in Vqs /\ "ctl_in" # "ctl_out"
    BY DEF Vqs
  <2> QED BY ONLY <2>1, <2>2, <1>2, LinkInv DEF LinkInv, QueueInv, QueueTypes
<1>5. w.raw /\ w.old = 0 /\ w.used = 0 /\ w.avail = VqSize % IdxMod /\ w.ring = ring
  <2> HIDE DEF ring, desc
  <2> QED BY <1>w, <1>3 DEF IsVq
<1>6. VqSize % IdxMod = VqSize /\ Plus(0, VqSize, IdxMod) = VqSize /\ Plus(0, 0, IdxMod) = 0 /\ 0 \in Idx /\ 0 \in 0 .. VqSize
  <2>1. VqSize \in Nat /\ VqSize < IdxMod /\ IdxMod \in Nat
    BY Sizes
  <2> QED BY ONLY <2>1 DEF Plus, Idx
<1>7. Window(0, 0)'
  <2>1. \A i \in Slots : w.ring[i] = i
    BY <1>5
  <2>2. \A i \in 1 .. 0 : FALSE
    OBVIOUS
  <2> QED BY <1>1, <1>4, <1>5, <1>6, <2>1, <2>2 DEF Window
<1>8. dev'.todo = <<>> /\ dev'.busy = dev.busy /\ dev'.added = dev.added /\ dev'.dropped = dev.dropped
  BY <1>1, DeviceIdle DEF LinkInv, ConsoleTypes, DevTypes
<1>9. Rest(0, 0)' = <<>>
  <2>1. Held(0, 0)' = <<>>
    BY DEF Held
  <2>2. Heads(<<>>) = <<>>
    BY DEF Heads
  <2> QED BY <2>1, <2>2, <1>8 DEF Rest
<1>10. Plan(<<>>)'
  <2>1. ASSUME NEW p \in PortIds PROVE Stage(p, KindsOf(<<>>, p))'
    <3>1. KindsOf(<<>>, p) = {}
      BY KindsOfEmpty
    <3>2. Coming(p)' /\ ~AnswerDue(p)'
      BY <1>1 DEF Coming, AnswerDue, Untaken
    <3>3. ~ports'[p].host /\ ports'[p].name = NoName
      BY <1>1 DEF NoPort
    <3> QED BY <3>1, <3>2, <3>3 DEF Stage, Absent
  <2>2. <<>> \in Message /\ \A i \in 1 .. Len(<<>>) : FALSE
    BY DEF Message
  <2> QED BY <2>1, <2>2 DEF Plan, Distinct, Ordered
<1>11. ~Scanned'
  BY <1>1 DEF Scanned
<1> QED BY <1>6, <1>7, <1>8, <1>9, <1>10, <1>11 DEF BoardInv

\* A message of the driver.
LEMMA SentToken ==
    ASSUME LinkInv, pc # "io", NEW t \in Token, NEW next, Send("ctl_out", <<t>>, next)
    PROVE  /\ pc' = "io" /\ io'.q = "ctl_out" /\ io'.next = next /\ vq'["ctl_in"] = vq["ctl_in"]
           /\ vq'["ctl_out"].used = vq'["ctl_out"].old /\ OutTok' = t
<1>v. PICK v : v = vq["ctl_out"]
  OBVIOUS
<1>d. PICK d : d = v.old % VqSize
  OBVIOUS
<1>m. PICK m : m = <<t>>
  OBVIOUS
<1>1. m \in Message /\ Len(m) = 1 /\ m[1] = t
  BY <1>m DEF Message
<1>w. PICK w : w = PutAvail(SetBuf(v, d, m, 1), d)
  OBVIOUS
<1>2. "ctl_out" \in Vqs /\ "ctl_in" \in Vqs /\ IsVq(v) /\ IdleVq(v)
  BY <1>v DEF Vqs, Out, LinkInv, QueueInv, QueueTypes, OutInv, QueueState
<1>3. w.desc[w.old % VqSize].data = m /\ IdleVq(w)
  BY <1>1, <1>2, <1>d, <1>w, FillVq
<1>4. vq' = [vq EXCEPT !["ctl_out"] = w] /\ pc' = "io" /\ io' = [q |-> "ctl_out", step |-> "publish", next |-> next]
  BY <1>v, <1>d, <1>m, <1>1, <1>w DEF Send, StartIo
<1>5. vq'["ctl_out"] = w /\ vq'["ctl_in"] = vq["ctl_in"]
  BY <1>2, <1>4 DEF LinkInv, QueueInv, QueueTypes
<1> QED BY <1>1, <1>3, <1>4, <1>5 DEF IdleVq, OutTok

\* control_scan says that the driver is ready.
LEMMA ScanBoard ==
    ASSUME LinkInv, BoardInv, Scan
    PROVE  BoardInv'
<1>1. pc = "scan" /\ UNCHANGED <<cur, host, dev, ports>>
  BY DEF Scan, consoleVars
<1>t. PICK t \in Token : t = Tok("DEVICE_READY", 0)
  BY DEF Tok, Token, Kinds
<1>2. t.k = "DEVICE_READY"
  BY <1>t DEF Tok
<1>3. Send("ctl_out", <<t>>, "get")
  BY <1>t DEF Scan
<1>4. /\ pc' = "io" /\ io'.q = "ctl_out" /\ io'.next = "get" /\ vq'["ctl_in"] = vq["ctl_in"]
      /\ vq'["ctl_out"].used = vq'["ctl_out"].old /\ OutTok' = t
  BY <1>1, <1>3, SentToken
<1>5. ~dev.busy /\ ~Untaken
  BY <1>1, DeviceIdle
<1>6. Untaken'
  BY <1>1, <1>4, <1>5 DEF Untaken
<1>7. ASSUME NEW p \in PortIds
      PROVE  (Coming(p)' <=> Coming(p)) /\ (AnswerDue(p)' <=> AnswerDue(p))
  <2>1. Coming(p) /\ ~AnswerDue(p)
    BY <1>1, <1>5 DEF Coming, AnswerDue
  <2>2. Coming(p)' /\ ~AnswerDue(p)'
    BY <1>2, <1>4, <1>6 DEF Coming, AnswerDue
  <2> QED BY <2>1, <2>2
<1>8. Scanning /\ Scanning' /\ SamePlugs /\ SamePorts
  BY <1>1, <1>4 DEF Scanning, SamePlugs, SamePorts
<1> QED BY <1>1, <1>4, <1>7, <1>8, ScanKeeps

\* No message yet.
LEMMA LookBoard ==
    ASSUME LinkInv, BoardInv, pc = "get", pc' = "poll", UNCHANGED <<vq, cur, host, dev, ports>>
    PROVE  BoardInv'
<1>1. ~Untaken /\ ~Untaken'
  BY DeviceIdle DEF Untaken
<1>2. ASSUME NEW p \in PortIds
      PROVE  (Coming(p)' <=> Coming(p)) /\ (AnswerDue(p)' <=> AnswerDue(p))
  BY <1>1 DEF Coming, AnswerDue
<1>3. Scanning /\ Scanning' /\ SamePlugs /\ SamePorts
  BY DEF Scanning, SamePlugs, SamePorts
<1> QED BY <1>2, <1>3, ScanKeeps

\* No message when the queue is looked at again: there will be none.
LEMMA ScannedBoard ==
    ASSUME LinkInv, BoardInv, pc = "poll", pc' = "scanned", ~VqReady(vq["ctl_in"]),
           UNCHANGED <<vq, cur, host, dev, ports>>
    PROVE  BoardInv'
<1>1. /\ ~dev.busy /\ ~Untaken /\ ~Untaken' /\ dev.todo = <<>> /\ dev.added = MaxPorts
      /\ \A p \in PortIds : ~(p >= dev.added)
  BY DeviceIdle DEF Untaken
<1>2. PICK h \in Idx, n \in 0 .. VqSize, s \in Message : Window(h, n) /\ s = Rest(h, n) /\ Plan(s)
  BY TheBoard DEF Scanning
<1>3. n = 0
  <2>1. Plus(h, n, IdxMod) = h
    BY <1>2 DEF Window, VqReady
  <2>2. Plus(h, 0, IdxMod) = h /\ \A m \in 0 .. VqSize : Plus(h, 0, IdxMod) = Plus(h, m, IdxMod) => 0 = m
    BY Sizes, PlusSteps
  <2> QED BY <2>1, <2>2
<1>4. s = <<>>
  <2>1. Held(h, 0) = <<>> /\ Heads(<<>>) = <<>>
    BY DEF Held, Heads
  <2> QED BY <2>1, <1>1, <1>2, <1>3 DEF Rest
<1>5. ASSUME NEW p \in PortIds PROVE Known(p)
  <2>1. Stage(p, {})
    BY <1>2, <1>4, KindsOfEmpty DEF Plan
  <2>2. ~Coming(p) /\ ~AnswerDue(p)
    BY <1>1 DEF Coming, AnswerDue
  <2>3. host.kind[p] \in {"plugged", "gone", "absent"}
    BY DEF LinkInv, ConsoleTypes, Machine
  <2>4. {} # {"DEVICE_ADD"} /\ {} # {"DEVICE_REMOVE"} /\ {} # {"DEVICE_ADD", "DEVICE_REMOVE"}
        /\ {} # {"PORT_NAME"} /\ {} # {"PORT_NAME", "PORT_OPEN"}
    OBVIOUS
  <2>5. CASE host.kind[p] = "absent"
    BY <2>1, <2>2, <2>5 DEF Stage, Absent, Known
  <2>6. CASE host.kind[p] = "gone"
    BY <2>1, <2>2, <2>4, <2>6 DEF Stage, Going, Known
  <2>7. CASE host.kind[p] = "plugged"
    BY <2>1, <2>2, <2>4, <2>7 DEF Stage, Plugged, Known
  <2> QED BY <2>3, <2>5, <2>6, <2>7
<1>6. Settled'
  BY <1>1, <1>5 DEF Settled, Known
<1> QED BY <1>1, <1>6 DEF BoardInv, Scanning

\* get_control_msg takes the oldest message.
LEMMA TakeBoard ==
    ASSUME LinkInv, BoardInv, pc \in {"get", "poll"}, TakeMsg, UNCHANGED <<host, dev, ports>>
    PROVE  BoardInv'
<1>1. ~Untaken /\ pc' = "msg" /\ ~Untaken'
  BY DeviceIdle DEF TakeMsg, Untaken
<1>2. PICK h \in Idx, n \in 0 .. VqSize, s \in Message : Window(h, n) /\ s = Rest(h, n) /\ Plan(s)
  BY TheBoard DEF Scanning
<1>v. PICK v : v = vq["ctl_in"]
  OBVIOUS
<1>w. PICK w : w = VqAdv(v)
  OBVIOUS
<1>3. "ctl_in" \in Vqs /\ IsVq(v)
  BY <1>v DEF Vqs, LinkInv, QueueInv, QueueTypes
<1>4. /\ w.raw = v.raw /\ w.avail = v.avail /\ w.used = v.used /\ w.ring = v.ring /\ w.desc = v.desc
      /\ w.old = (v.old + 1) % IdxMod
  BY <1>3, <1>w, AdvVq
<1>5. vq'["ctl_in"] = w
  BY <1>3, <1>v, <1>w DEF TakeMsg, LinkInv, QueueInv, QueueTypes
<1>6. v.old = h /\ cur' = h % VqSize /\ n > 0
  <2>1. v.old = h /\ v.used = Plus(h, n, IdxMod) /\ v.used # v.old
    BY <1>2, <1>v DEF Window, TakeMsg, VqReady
  <2>2. Plus(h, 0, IdxMod) = h
    BY Sizes, PlusSteps
  <2> QED BY <2>1, <2>2, <1>v DEF TakeMsg
<1>7. w.old = Plus(h, 1, IdxMod)
  BY <1>4, <1>6, Sizes, PlusSteps
<1>8. Window(h, n)' /\ Held(h, n)' = Held(h, n)
  BY <1>1, <1>2, <1>4, <1>5, <1>6, <1>7, <1>v DEF Window, Held
<1>9. s = Rest(h, n)'
  BY <1>2, <1>8 DEF Rest
<1>10. Plan(s)'
  <2>1. ASSUME NEW p \in PortIds PROVE (Coming(p)' <=> Coming(p)) /\ (AnswerDue(p)' <=> AnswerDue(p))
    BY <1>1 DEF Coming, AnswerDue
  <2>2. SamePlugs /\ SamePorts
    BY DEF SamePlugs, SamePorts
  <2> QED BY <1>2, <2>1, <2>2, PlanKeeps
<1> QED BY <1>1, <1>8, <1>9, <1>10 DEF BoardInv, Scanned

\* A message about port p is handled.
LEMMA HandledStage ==
    ASSUME NEW p, NEW ks, NEW e \in Events, e \in ks, Stage(p, ks), ~AnswerDue(p), ~Coming(p), ~Coming(p)',
           e = "DEVICE_REMOVE" => "DEVICE_ADD" \notin ks,
           host' = host, host.kind[p] \in {"plugged", "gone", "absent"},
           e = "DEVICE_ADD" => ports'[p].host /\ ports'[p].name = NoName,
           e = "DEVICE_REMOVE" => ~ports'[p].host /\ ports'[p].name = ports[p].name,
           e = "PORT_NAME" => ports'[p].host = ports[p].host /\ ports'[p].name = host.name[p],
           e = "PORT_OPEN" => ports'[p].host = ports[p].host /\ ports'[p].name = ports[p].name,
           AnswerDue(p)' <=> e = "DEVICE_ADD"
    PROVE  Stage(p, ks \ {e})'
<1>l. PICK l : l = ks \ {e}
  OBVIOUS
<1>1. CASE host.kind[p] = "absent"
  BY <1>1 DEF Stage, Absent
<1>2. CASE host.kind[p] = "gone"
  <2>1. Going(p, ks)
    BY <1>2 DEF Stage
  <2>2. CASE e = "DEVICE_ADD"
    <3>1. ks = {"DEVICE_ADD", "DEVICE_REMOVE"} /\ l = {"DEVICE_REMOVE"}
      BY <1>l, <2>1, <2>2 DEF Going
    <3> QED BY <1>l, <1>2, <2>2, <3>1 DEF Stage, Going
  <2>3. CASE e = "DEVICE_REMOVE"
    <3>1. ks = {"DEVICE_REMOVE"} /\ l = {} /\ ports[p].name = NoName
      BY <1>l, <2>1, <2>3 DEF Going
    <3>2. "DEVICE_REMOVE" # "DEVICE_ADD"
      OBVIOUS
    <3> QED BY <1>l, <1>2, <2>3, <3>1, <3>2 DEF Stage, Going
  <2>4. e = "DEVICE_ADD" \/ e = "DEVICE_REMOVE"
    BY <2>1 DEF Going
  <2> QED BY <2>2, <2>3, <2>4
<1>3. CASE host.kind[p] = "plugged"
  <2>1. Plugged(p, ks)
    BY <1>3 DEF Stage
  <2>2. CASE e = "DEVICE_ADD"
    <3>1. l = {}
      BY <1>l, <2>1, <2>2 DEF Plugged
    <3> QED BY <1>l, <1>3, <2>2, <3>1 DEF Stage, Plugged
  <2>3. CASE e = "PORT_NAME"
    <3>1. ports[p].host /\ l \in {{"PORT_OPEN"}, {}}
      BY <1>l, <2>1, <2>3 DEF Plugged
    <3> QED BY <1>l, <1>3, <2>3, <3>1 DEF Stage, Plugged
  <2>4. CASE e = "PORT_OPEN"
    <3>1. ports[p].host /\ \/ l = {"PORT_NAME"} /\ ports[p].name = NoName
                           \/ l = {} /\ ports[p].name = host.name[p]
      BY <1>l, <2>1, <2>4 DEF Plugged
    <3> QED BY <1>l, <1>3, <2>4, <3>1 DEF Stage, Plugged
  <2>5. e # "DEVICE_REMOVE"
    BY <2>1 DEF Plugged
  <2> QED BY <2>2, <2>3, <2>4, <2>5 DEF Events
<1> QED BY <1>1, <1>2, <1>3

\* The messages the device has sent.
LEMMA HeldSeq ==
    ASSUME LinkInv, NEW h \in Idx, NEW n \in 0 .. VqSize, Window(h, n)
    PROVE  /\ Held(h, n) \in Message /\ Len(Held(h, n)) = n
           /\ \A i \in 1 .. n : Slot(h, i) \in Slots /\ Held(h, n)[i] = vq["ctl_in"].desc[Slot(h, i)].data[1]
<1>v. PICK v : v = vq["ctl_in"]
  OBVIOUS
<1>1. IsVq(v) /\ n \in Nat /\ n <= VqSize /\ VqSize \in Nat
  BY <1>v, Sizes DEF Vqs, LinkInv, QueueInv, QueueTypes
<1>2. ASSUME NEW i \in 1 .. n PROVE Slot(h, i) \in Slots /\ v.desc[Slot(h, i)].data[1] \in Token
  <2>1. i \in 1 .. VqSize
    BY <1>1
  <2>d. PICK d : d = Slot(h, i)
    OBVIOUS
  <2>2. d \in Slots /\ v.desc[d].data # <<>>
    BY <2>1, <2>d, <1>v, SlotSteps DEF Window
  <2>m. PICK m : m = v.desc[d].data
    OBVIOUS
  <2>3. m \in Seq(Token) /\ m # <<>>
    BY <1>1, <2>2, <2>m DEF IsVq, Message
  <2>4. 1 \in 1 .. Len(m)
    BY <2>3, EmptySeq, LenProperties
  <2> QED BY <2>2, <2>3, <2>4, <2>d, <2>m, ElementOfSeq
<1>3. Held(h, n) = [i \in 1 .. n |-> v.desc[Slot(h, i)].data[1]]
  BY <1>v DEF Held
<1>4. Held(h, n) \in Seq(Token) /\ Len(Held(h, n)) = n
  BY <1>1, <1>2, <1>3
<1> QED BY <1>v, <1>2, <1>3, <1>4 DEF Message

\* Without messages of the device's own to come.
LEMMA HeldOnly ==
    ASSUME LinkInv, NEW h \in Idx, NEW n \in 0 .. VqSize, Window(h, n), dev.todo = <<>>
    PROVE  Rest(h, n) = Held(h, n)
<1>1. Held(h, n) \in Message
  BY HeldSeq
<1>2. Heads(<<>>) = <<>>
  BY DEF Heads
<1> QED BY <1>1, <1>2, Joined DEF Rest

\* A message is handled and its buffer given back.
LEMMA HandleBoard ==
    ASSUME LinkInv, LinkInv', BoardInv, NEW e \in Events, HandleMsg(e)
    PROVE  BoardInv'
<1>1. /\ pc = "msg" /\ pc' = (IF e = "DEVICE_ADD" THEN "ready" ELSE "get")
      /\ UNCHANGED <<io, host, dev, cur>> /\ Msg[1].k = e
  BY DEF HandleMsg
<1>2. /\ ~dev.busy /\ ~Untaken /\ ~Untaken' /\ dev.todo = <<>> /\ dev.added = MaxPorts
      /\ \A p \in PortIds : ~(p >= dev.added)
  BY <1>1, DeviceIdle DEF Untaken
<1>3. PICK h \in Idx, n \in 0 .. VqSize, s \in Message : Window(h, n) /\ s = Rest(h, n) /\ Plan(s)
  BY <1>1, TheBoard DEF Scanning
<1>4. n \in 1 .. VqSize /\ cur = h % VqSize /\ cur = Slot(h, 1)
  BY <1>1, <1>3, SlotSteps, Sizes DEF Window
<1>v. PICK v : v = vq["ctl_in"]
  OBVIOUS
<1>w. PICK w : w = MakeAvail(v, cur)
  OBVIOUS
<1>5. "ctl_in" \in Vqs /\ IsVq(v) /\ cur \in Slots
  BY <1>v DEF Vqs, LinkInv, QueueInv, QueueTypes, ConsoleTypes, CurTypes
<1>6. /\ IsVq(w) /\ w.raw = v.raw /\ w.old = v.old /\ w.used = v.used /\ w.desc = v.desc
      /\ w.ring = [v.ring EXCEPT ![v.avail % VqSize] = cur]
      /\ w.avail = (v.avail + 1) % IdxMod
  BY <1>5, <1>w, AvailVq
<1>7. vq'["ctl_in"] = w
  BY <1>5, <1>v, <1>w DEF HandleMsg, Release, LinkInv, QueueInv, QueueTypes
<1>8. s \in Message /\ s = Held(h, n) /\ Len(s) = n /\ \A i \in 1 .. n : Slot(h, i) \in Slots /\ s[i] = v.desc[Slot(h, i)].data[1]
  BY <1>2, <1>3, <1>v, HeldSeq, HeldOnly
<1>9. s # <<>> /\ s[1] = Msg[1] /\ s[1].k = e
  <2>1. s[1] = v.desc[cur].data[1]
    BY <1>4, <1>8
  <2> QED BY <2>1, <1>1, <1>4, <1>8, <1>v DEF Msg
<1>t. PICK t : t = Tail(s)
  OBVIOUS
<1>10. Distinct(s) /\ Ordered(s) /\ \A i \in 1 .. Len(s) : s[i].v \in PortIds
  BY <1>3 DEF Plan
<1>11. /\ t \in Message /\ Distinct(t) /\ Ordered(t)
       /\ \A i \in 1 .. Len(t) : i + 1 \in 1 .. Len(s) /\ t[i] = s[i + 1]
       /\ s[1] \in Token /\ s[1].k \in KindsOf(s, s[1].v)
       /\ KindsOf(t, s[1].v) = KindsOf(s, s[1].v) \ {s[1].k}
       /\ \A p : p # s[1].v => KindsOf(t, p) = KindsOf(s, p)
  BY <1>8, <1>9, <1>10, <1>t, KindsTail
<1>12. Len(t) = n - 1
  <2>1. s \in Seq(Token)
    BY <1>8 DEF Message
  <2> QED BY <2>1, <1>8, <1>9, <1>t, HeadTailProperties
<1>g. PICK g \in Idx : g = Plus(h, 1, IdxMod)
  BY Sizes, PlusSlot
<1>13. n - 1 \in 0 .. VqSize /\ n \in Nat /\ VqSize \in Nat
  BY <1>4, Sizes
<1>14. Window(g, n - 1)'
  <2>1. w.raw /\ w.old = g
    BY <1>1, <1>3, <1>6, <1>g, <1>v DEF Window
  <2>2. w.used = Plus(g, n - 1, IdxMod)
    <3>1. Plus(Plus(h, 1, IdxMod), n - 1, IdxMod) = Plus(h, (n - 1) + 1, IdxMod)
      BY <1>13, PlusSteps
    <3>2. (n - 1) + 1 = n
      BY <1>13
    <3> QED BY <3>1, <3>2, <1>3, <1>6, <1>g, <1>v DEF Window
  <2>3. w.avail = Plus(g, VqSize, IdxMod)
    <3>1. VqSize \in 0 .. VqSize
      BY <1>13
    <3>2. v.avail = Plus(h, VqSize, IdxMod)
      BY <1>3, <1>v DEF Window
    <3> QED BY <3>1, <3>2, <1>6, <1>g, PlusSteps
  <2>4. \A i \in Slots : w.ring[i] = i
    <3>1. v.avail % VqSize = cur
      BY <1>3, <1>4, <1>v, SlotSteps DEF Window
    <3>2. v.ring \in [Slots -> Slots] /\ \A i \in Slots : v.ring[i] = i
      BY <1>3, <1>5, <1>v DEF Window, IsVq
    <3> QED BY <3>1, <3>2, <1>5, <1>6
  <2>5. ASSUME NEW i \in 1 .. n - 1 PROVE w.desc[Slot(g, i)].data # <<>>
    <3>1. i \in 1 .. VqSize - 1 /\ i + 1 \in 1 .. n
      BY <1>13
    <3>2. Slot(g, i) = Slot(h, i + 1)
      BY <3>1, <1>g, SlotSteps
    <3> QED BY <3>1, <3>2, <1>3, <1>6, <1>v DEF Window
  <2>6. pc' # "msg"
    BY <1>1
  <2> QED BY <2>1, <2>2, <2>3, <2>4, <2>5, <2>6, <1>7 DEF Window
<1>15. t = Rest(g, n - 1)'
  <2>1. Held(g, n - 1)' = [i \in 1 .. n - 1 |-> w.desc[Slot(g, i)].data[1]]
    BY <1>7 DEF Held
  <2>2. ASSUME NEW i \in 1 .. n - 1 PROVE w.desc[Slot(g, i)].data[1] = t[i]
    <3>1. i \in 1 .. VqSize - 1 /\ i + 1 \in 1 .. n /\ i \in 1 .. Len(t)
      BY <1>12, <1>13
    <3>2. Slot(g, i) = Slot(h, i + 1)
      BY <3>1, <1>g, SlotSteps
    <3> QED BY <3>1, <3>2, <1>6, <1>8, <1>11
  <2>3. [i \in 1 .. n - 1 |-> w.desc[Slot(g, i)].data[1]] = [i \in 1 .. n - 1 |-> t[i]]
    BY <2>2
  <2>4. [i \in 1 .. n - 1 |-> t[i]] = t
    BY <1>11, <1>12 DEF Message
  <2>5. Heads(dev.todo)' = <<>>
    <3>1. Heads(<<>>) = <<>> /\ dev'.todo = <<>>
      BY <1>1, <1>2 DEF Heads
    <3> QED BY <3>1
  <2> QED BY <2>1, <2>3, <2>4, <2>5, <1>11, Joined DEF Rest
<1>p. PICK p \in PortIds : p = s[1].v
  BY <1>8, <1>10, <1>13, <1>4
<1>16. s[1].k = e /\ e \in KindsOf(s, p) /\ KindsOf(t, p) = KindsOf(s, p) \ {e}
       /\ \A r : r # p => KindsOf(t, r) = KindsOf(s, r)
  BY <1>9, <1>11, <1>p
<1>17. e = "DEVICE_REMOVE" => "DEVICE_ADD" \notin KindsOf(s, p)
  <2> SUFFICES ASSUME e = "DEVICE_REMOVE", "DEVICE_ADD" \in KindsOf(s, p) PROVE FALSE
    OBVIOUS
  <2>1. PICK i \in 1 .. Len(s) : s[i].v = p /\ s[i].k = "DEVICE_ADD"
    BY KindsMember
  <2>2. 1 \in 1 .. Len(s)
    BY <1>4, <1>8, <1>13
  <2>3. i < 1
    BY <2>1, <2>2, <1>10, <1>16, <1>p DEF Ordered
  <2> QED BY <2>1, <2>3
<1>18. Msg' = Msg /\ Msg[1] = s[1]
  BY <1>1, <1>6, <1>7, <1>9, <1>v DEF Msg
<1>19. \A r : (AnswerDue(r)' <=> r = p /\ e = "DEVICE_ADD") /\ ~AnswerDue(r)
  <2>1. Msg'[1].v = p
    BY <1>18, <1>p
  <2> QED BY <2>1, <1>1, <1>2 DEF AnswerDue
<1>20. \A r \in PortIds : ~Coming(r) /\ ~Coming(r)'
  BY <1>1, <1>2 DEF Coming
<1>21. ports' = PortsAfter(e, p) /\ ports = [r \in PortIds |-> [host |-> ports[r].host, guest |-> ports[r].guest, name |-> ports[r].name]]
  BY <1>18, <1>p DEF HandleMsg, LinkInv, ConsoleTypes, PortTypes
<1>22. ASSUME NEW r \in PortIds, r # p PROVE Stage(r, KindsOf(t, r))'
  <2>1. ports'[r].host = ports[r].host /\ ports'[r].name = ports[r].name
    BY <1>21, <1>22 DEF PortsAfter
  <2>2. Stage(r, KindsOf(t, r))
    BY <1>3, <1>16, <1>22 DEF Plan
  <2>k. PICK ks : ks = KindsOf(t, r)
    OBVIOUS
  <2>3. Stage(r, ks)'
    BY <2>1, <2>2, <2>k, <1>1, <1>19, <1>20, <1>22, StageKeeps
  <2> QED BY <2>3, <2>k
<1>23. Stage(p, KindsOf(t, p))'
  <2>1. /\ e = "DEVICE_ADD" => ports'[p].host /\ ports'[p].name = NoName
        /\ e = "DEVICE_REMOVE" => ~ports'[p].host /\ ports'[p].name = ports[p].name
        /\ e = "PORT_OPEN" => ports'[p].host = ports[p].host /\ ports'[p].name = ports[p].name
    <3>x. PICK x : x = ports[p]
      OBVIOUS
    <3>1. x = [host |-> x.host, guest |-> x.guest, name |-> x.name] /\ p \in DOMAIN ports
      BY <3>x, <1>21
    <3>2. ASSUME e = "DEVICE_ADD" PROVE ports'[p].host /\ ports'[p].name = NoName
      <4>1. ports' = [ports EXCEPT ![p].host = TRUE, ![p].name = NoName]
        BY <1>21, <3>2 DEF PortsAfter
      <4>2. ports'[p] = [x EXCEPT !.host = TRUE, !.name = NoName]
        BY <4>1, <3>1, <3>x
      <4> QED BY <4>2, <3>1
    <3>3. ASSUME e = "DEVICE_REMOVE" PROVE ~ports'[p].host /\ ports'[p].name = ports[p].name
      <4>1. ports' = [ports EXCEPT ![p].host = FALSE]
        BY <1>21, <3>3 DEF PortsAfter
      <4>2. ports'[p] = [x EXCEPT !.host = FALSE]
        BY <4>1, <3>1, <3>x
      <4> QED BY <4>2, <3>1, <3>x
    <3>4. ASSUME e = "PORT_OPEN" PROVE ports'[p].host = ports[p].host /\ ports'[p].name = ports[p].name
      BY <1>21, <3>4 DEF PortsAfter
    <3> QED BY <3>2, <3>3, <3>4
  <2>2. e = "PORT_NAME" => ports'[p].host = ports[p].host /\ ports'[p].name = host.name[p]
    <3>1. e = "PORT_NAME" => Msg[2].k = host.name[p]
      <4>1. Good(Msg)
        <5>1. v.desc[cur].data # <<>>
          <6>1. Slot(h, 1) = cur /\ 1 \in 1 .. n
            BY <1>4, <1>13
          <6> QED BY <6>1, <1>3, <1>v DEF Window
        <5> QED BY <5>1, <1>5, <1>v DEF LinkInv, QueueInv, CtlInInv, Msg
      <4> QED BY <4>1, <1>9, <1>18, <1>p DEF Good
    <3> QED BY <3>1, <1>21 DEF PortsAfter
  <2>3. host.kind[p] \in {"plugged", "gone", "absent"}
    BY DEF LinkInv, ConsoleTypes, Machine
  <2>k. PICK ks : ks = KindsOf(s, p)
    OBVIOUS
  <2>4. Stage(p, ks) /\ e \in ks
    BY <1>3, <1>16, <2>k DEF Plan
  <2>5. Stage(p, ks \ {e})'
    <3>1. ~AnswerDue(p) /\ ~Coming(p) /\ ~Coming(p)' /\ (AnswerDue(p)' <=> e = "DEVICE_ADD")
      BY <1>19, <1>20
    <3>2. e = "DEVICE_REMOVE" => "DEVICE_ADD" \notin ks
      BY <1>17, <2>k
    <3> QED BY <2>1, <2>2, <2>3, <2>4, <3>1, <3>2, <1>1, HandledStage
  <2> QED BY <2>5, <2>k, <1>16
<1>24. Plan(t)'
  <2>1. \A i \in 1 .. Len(t) : t[i].v \in PortIds
    BY <1>10, <1>11
  <2>2. \A r \in PortIds : Stage(r, KindsOf(t, r))'
    BY <1>22, <1>23
  <2> QED BY <2>1, <2>2, <1>11 DEF Plan
<1>25. ~Scanned'
  BY <1>1 DEF Scanned
<1> QED BY <1>1, <1>2, <1>13, <1>14, <1>15, <1>24, <1>25 DEF BoardInv

\* port_ready is called for a port that is there.
LEMMA ReadyPort ==
    ASSUME LinkInv, BoardInv, pc = "ready"
    PROVE  Msg[1].v \in PortIds /\ ports[Msg[1].v].host
<1>1. Msg[1].v \in PortIds
  <2>1. cur \in Slots /\ Msg # <<>>
    BY DEF LinkInv, QueueInv, CtlInInv, ConsoleTypes, CurTypes
  <2>2. Good(Msg)
    BY <2>1 DEF LinkInv, QueueInv, CtlInInv, Msg
  <2> QED BY <2>2 DEF Good
<1>p. PICK p \in PortIds : p = Msg[1].v
  BY <1>1
<1>2. PICK h \in Idx, n \in 0 .. VqSize, s \in Message : Window(h, n) /\ s = Rest(h, n) /\ Plan(s)
  BY TheBoard DEF Scanning
<1>k. PICK ks : ks = KindsOf(s, p)
  OBVIOUS
<1>3. Stage(p, ks) /\ AnswerDue(p)
  BY <1>p, <1>2, <1>k DEF Plan, AnswerDue
<1>4. ports[p].host
  BY <1>3 DEF Stage, Absent, Going, Plugged
<1> QED BY <1>1, <1>4, <1>p

LEMMA ReadyBoard ==
    ASSUME LinkInv, BoardInv, PortReady
    PROVE  BoardInv'
<1>1. pc = "ready" /\ UNCHANGED <<cur, host, dev, ports>>
  BY DEF PortReady, consoleVars
<1>p. PICK p \in PortIds : p = Msg[1].v
  BY <1>1, ReadyPort
<1>t. PICK t \in Token : t = Tok("PORT_READY", p)
  <2>1. p \in Nat
    BY Sizes DEF PortIds
  <2> QED BY <2>1 DEF Tok, Token, Kinds
<1>2. t.k = "PORT_READY" /\ t.v = p
  BY <1>t DEF Tok
<1>3. Send("ctl_out", <<t>>, "get")
  BY <1>1, <1>t, <1>p, ReadyPort DEF PortReady
<1>4. /\ pc' = "io" /\ io'.q = "ctl_out" /\ io'.next = "get" /\ vq'["ctl_in"] = vq["ctl_in"]
      /\ vq'["ctl_out"].used = vq'["ctl_out"].old /\ OutTok' = t
  BY <1>1, <1>3, SentToken
<1>5. ~dev.busy /\ ~Untaken
  BY <1>1, DeviceIdle
<1>6. Untaken'
  BY <1>1, <1>4, <1>5 DEF Untaken
<1>7. ASSUME NEW r \in PortIds
      PROVE  (Coming(r)' <=> Coming(r)) /\ (AnswerDue(r)' <=> AnswerDue(r))
  <2>1. Coming(r)' <=> Coming(r)
    BY <1>1, <1>2, <1>4, <1>5 DEF Coming
  <2>2. AnswerDue(r) <=> r = p
    BY <1>1, <1>5, <1>p DEF AnswerDue
  <2>3. AnswerDue(r)' <=> r = p
    BY <1>2, <1>4, <1>6 DEF AnswerDue
  <2> QED BY <2>1, <2>2, <2>3
<1>8. Scanning /\ Scanning' /\ SamePlugs /\ SamePorts
  BY <1>1, <1>4 DEF Scanning, SamePlugs, SamePorts
<1> QED BY <1>1, <1>4, <1>7, <1>8, ScanKeeps

\* While CPU 0 waits for the driver's message to come back, in either stage.
LEMMA WaitKeeps ==
    ASSUME BoardInv, pc = "io", pc' = "io", io'.q = io.q, io'.next = io.next,
           vq'["ctl_in"] = vq["ctl_in"], UNCHANGED <<cur, dev>>, SamePlugs, SamePorts,
           io.q = "ctl_out" => /\ OutTok' = OutTok
                               /\ vq'["ctl_out"].used = vq'["ctl_out"].old <=> vq["ctl_out"].used = vq["ctl_out"].old
    PROVE  BoardInv'
<1>1. (Untaken' <=> Untaken) /\ (Untaken => OutTok' = OutTok)
  BY DEF Untaken
<1>2. CASE Scanning
  <2>1. ASSUME NEW p \in PortIds
        PROVE  (Coming(p)' <=> Coming(p)) /\ (AnswerDue(p)' <=> AnswerDue(p))
    BY <1>1 DEF Coming, AnswerDue
  <2>2. Scanning'
    BY <1>2 DEF Scanning
  <2> QED BY <1>2, <2>1, <2>2, ScanKeeps
<1>3. CASE ~Scanning
  <2>1. ~Scanning' /\ Scanned
    BY <1>3 DEF Scanning, Scanned
  <2> QED BY <1>1, <2>1, LaterKeeps
<1> QED BY <1>2, <1>3

LEMMA PublishBoard ==
    ASSUME LinkInv, ControlInv, BoardInv, PublishIo \/ KickIo, UNCHANGED consoleVars
    PROVE  BoardInv'
<1>1. pc = "io" /\ pc' = "io" /\ io'.q = io.q /\ io'.next = io.next /\ UNCHANGED <<cur, dev>> /\ SamePlugs /\ SamePorts
  <2>1. io = [q |-> io.q, step |-> io.step, next |-> io.next]
    BY DEF ControlInv
  <2> QED BY <2>1 DEF PublishIo, KickIo, consoleVars, SamePlugs, SamePorts
<1>2. /\ vq'["ctl_in"] = vq["ctl_in"]
      /\ vq'["ctl_out"].used = vq["ctl_out"].used /\ vq'["ctl_out"].old = vq["ctl_out"].old
      /\ vq'["ctl_out"].desc = vq["ctl_out"].desc
  <2>1. CASE KickIo
    BY <2>1 DEF KickIo
  <2>2. CASE PublishIo
    <3>q. PICK q : q = io.q
      OBVIOUS
    <3>v. PICK v : v = vq[q]
      OBVIOUS
    <3>w. PICK w : w = IncAvail(v)
      OBVIOUS
    <3>1. q \in Out /\ q \in Vqs /\ q # "ctl_in" /\ IsVq(v) /\ {"ctl_in", "ctl_out"} \subseteq Vqs
      BY <3>q, <3>v, <1>1 DEF LinkInv, QueueInv, QueueTypes, OutInv, Out, Vqs
    <3>2. w.used = v.used /\ w.old = v.old /\ w.desc = v.desc
      BY <3>1, <3>w, IncVq
    <3>3. vq' = [vq EXCEPT ![q] = w] /\ vq = [r \in Vqs |-> vq[r]]
      BY <2>2, <3>q, <3>v, <3>w DEF PublishIo, LinkInv, QueueInv, QueueTypes
    <3>4. \A r \in Vqs : vq'[r] = IF r = q THEN w ELSE vq[r]
      BY <3>1, <3>3
    <3> QED BY <3>1, <3>2, <3>4, <3>v
  <2> QED BY <2>1, <2>2
<1>3. OutTok' = OutTok
  BY <1>2 DEF OutTok
<1> QED BY <1>1, <1>2, <1>3, WaitKeeps

\* The driver's buffer comes back.
LEMMA FinishBoard ==
    ASSUME LinkInv, ControlInv, BoardInv, FinishIo, UNCHANGED consoleVars
    PROVE  BoardInv'
<1>q. PICK q : q = io.q
  OBVIOUS
<1>1. /\ pc = "io" /\ pc' = io.next /\ UNCHANGED <<cur, dev, host, ports>> /\ q \in Out
      /\ io.next \in IoNext /\ vq[q].used # vq[q].old
  BY <1>q DEF FinishIo, consoleVars, VqReady, LinkInv, QueueInv, OutInv, ControlInv
<1>2. pc' # "io" /\ pc' # "msg" /\ pc' # "scan" /\ pc' # "ready" /\ pc' # "poll"
  BY <1>1 DEF IoNext, RpmbAt
<1>3. ~Untaken /\ ~Untaken'
  BY <1>1, <1>2, <1>q DEF Untaken
<1>4. vq'["ctl_in"] = vq["ctl_in"]
  <2>1. q # "ctl_in" /\ "ctl_in" \in Vqs
    BY <1>1 DEF Out, Vqs
  <2>2. \E w : vq' = [vq EXCEPT ![q] = w]
    BY <1>q DEF FinishIo
  <2> QED BY <2>1, <2>2 DEF LinkInv, QueueInv, QueueTypes
<1>5. SamePlugs /\ SamePorts
  BY <1>1 DEF SamePlugs, SamePorts
<1>6. CASE io.next = "get"
  <2>1. ASSUME NEW p \in PortIds
        PROVE  (Coming(p)' <=> Coming(p)) /\ (AnswerDue(p)' <=> AnswerDue(p))
    BY <1>1, <1>2, <1>3 DEF Coming, AnswerDue
  <2>2. Scanning /\ Scanning'
    BY <1>1, <1>6 DEF Scanning
  <2> QED BY <1>1, <1>2, <1>4, <1>5, <2>1, <2>2, ScanKeeps
<1>7. CASE io.next # "get"
  <2>1. ~Scanning' /\ Scanned
    BY <1>1, <1>2, <1>7 DEF Scanning, Scanned
  <2> QED BY <1>1, <1>3, <1>5, <2>1, LaterKeeps
<1> QED BY <1>6, <1>7

(***************************************************************************)
(* The steps of the device.                                                *)
(***************************************************************************)

\* The device takes the message the driver waits for.
LEMMA TakenToken ==
    ASSUME LinkInv, BoardInv, ControlTake
    PROVE  /\ Untaken /\ OutTok.v \in PortIds /\ ~Untaken' /\ dev.todo = <<>> /\ dev.added = MaxPorts
           /\ dev'.busy = TRUE /\ dev'.todo = Answers(OutTok) /\ dev'.dropped = dev.dropped
           /\ dev'.added = IF OutTok.k = "DEVICE_READY" THEN 0 ELSE MaxPorts
           /\ UNCHANGED <<pc, vq, io, cur, host, ports>>
<1>1. /\ HasBuf(ControlOut) /\ attached[ControlOut] # "none" /\ ~dev.busy
      /\ UNCHANGED <<pc, vq, io, cur, host, ports>>
  BY DEF ControlTake, Notified, HasBuf, queueVars
<1>q. PICK q : q = attached[ControlOut]
  OBVIOUS
<1>2. q = "ctl_out" /\ q \in Out /\ ControlOut \in QueueIds /\ QueueInv
  BY <1>1, <1>q, ControlOutQueue, ControlQueues DEF LinkInv
<1>3. /\ vq[q].raw /\ pc = "io" /\ io.q = q /\ io.step # "publish" /\ vq[q].used = vq[q].old
      /\ NextDesc(ControlOut) = vq[q].old % VqSize
  BY ONLY <1>1, <1>2, <1>q, OutBuf
<1>4. NextBuf(ControlOut).data[1] = OutTok
  BY <1>2, <1>3, <1>q DEF NextBuf, OutTok
<1>5. Untaken /\ OutTok.v \in PortIds
  BY <1>1, <1>2, <1>3 DEF Untaken, OutTok, QueueInv, CtlOutInv
<1>6. dev.todo = <<>> /\ dev.added = MaxPorts
  BY <1>1 DEF BoardInv
<1>m. PICK m : m = OutTok
  OBVIOUS
<1>7. dev' = [dev EXCEPT !.busy = TRUE, !.todo = Answers(m),
                         !.added = IF m.k = "DEVICE_READY" THEN 0 ELSE @,
                         !.open = IF m.k = "PORT_OPEN" THEN @ \cup {m.v} ELSE @]
  BY <1>4, <1>m DEF ControlTake
<1>8. dev = [features |-> dev.features, ok |-> dev.ok, busy |-> dev.busy, added |-> dev.added,
             todo |-> dev.todo, open |-> dev.open, dropped |-> dev.dropped]
  BY DEF LinkInv, ConsoleTypes, DevTypes
<1>9. /\ dev'.busy = TRUE /\ dev'.todo = Answers(m) /\ dev'.dropped = dev.dropped
      /\ dev'.added = IF m.k = "DEVICE_READY" THEN 0 ELSE MaxPorts
  BY <1>6, <1>7, <1>8
<1> QED BY <1>1, <1>5, <1>6, <1>9, <1>m DEF Untaken

\* What it says next is the rest of the plan.
LEMMA TakeFinds ==
    ASSUME LinkInv, BoardInv, ControlTake, Scanned
    PROVE  BoardInv'
<1>1. /\ Untaken /\ ~Untaken' /\ dev'.busy = TRUE /\ dev'.todo = Answers(OutTok) /\ dev'.dropped = dev.dropped
      /\ dev'.added = IF OutTok.k = "DEVICE_READY" THEN 0 ELSE MaxPorts
      /\ UNCHANGED <<pc, vq, io, cur, host, ports>>
  BY TakenToken
<1>2. Settled /\ OutTok.k = "PORT_OPEN"
  BY <1>1 DEF BoardInv, Settled
<1>3. dev'.todo = <<>> /\ dev'.added = MaxPorts
  BY <1>1, <1>2 DEF Answers
<1>4. Settled'
  BY <1>1, <1>2, <1>3 DEF Settled, Known
<1>5. ~Scanning'
  BY <1>1 DEF Scanning, Scanned
<1> QED BY <1>1, <1>4, <1>5 DEF BoardInv

LEMMA TakeStage ==
    ASSUME LinkInv, BoardInv, ControlTake, NEW p \in PortIds, NEW ks, Stage(p, ks)
    PROVE  IF OutTok.k = "PORT_READY" /\ OutTok.v = p /\ host.kind[p] = "plugged"
           THEN ks = {} /\ Stage(p, {"PORT_NAME", "PORT_OPEN"})'
           ELSE Stage(p, ks)'
<1>1. /\ Untaken /\ ~Untaken' /\ dev.added = MaxPorts
      /\ dev'.added = IF OutTok.k = "DEVICE_READY" THEN 0 ELSE MaxPorts
      /\ UNCHANGED <<pc, vq, io, cur, host, ports>> /\ pc = "io"
  BY TakenToken DEF Untaken
<1>2. MaxPorts \in Nat /\ p >= 0 /\ ~(p >= MaxPorts)
  BY Sizes DEF PortIds
<1>3. Coming(p)' <=> Coming(p)
  BY <1>1, <1>2 DEF Coming
<1>4. ~AnswerDue(p)' /\ (AnswerDue(p) <=> OutTok.k = "PORT_READY" /\ OutTok.v = p)
  BY <1>1 DEF AnswerDue
<1>5. CASE ~AnswerDue(p)
  <2>1. Stage(p, ks)'
    BY <1>1, <1>3, <1>4, <1>5, StageKeeps
  <2> QED BY <1>4, <1>5, <2>1
<1>6. CASE AnswerDue(p)
  <2>1. ~Coming(p)
    BY <1>1, <1>2, <1>4, <1>6 DEF Coming
  <2>2. host.kind[p] \in {"plugged", "gone", "absent"}
    BY DEF LinkInv, ConsoleTypes, Machine
  <2>3. CASE host.kind[p] = "absent"
    BY <1>6, <2>1, <2>3 DEF Stage, Absent
  <2>4. CASE host.kind[p] = "gone"
    <3>1. ks = {"DEVICE_REMOVE"} /\ ports[p].host /\ ports[p].name = NoName
      BY <1>6, <2>1, <2>4 DEF Stage, Going
    <3> QED BY <1>1, <1>3, <1>4, <2>1, <2>4, <3>1 DEF Stage, Going
  <2>5. CASE host.kind[p] = "plugged"
    <3>1. ks = {} /\ ports[p].host /\ ports[p].name = NoName
      BY <1>6, <2>1, <2>5 DEF Stage, Plugged
    <3>l. PICK l : l = {"PORT_NAME", "PORT_OPEN"}
      OBVIOUS
    <3>2. Stage(p, l)'
      BY <1>1, <1>3, <1>4, <2>1, <2>5, <3>1, <3>l DEF Stage, Plugged
    <3> QED BY <3>1, <3>2, <3>l, <1>4, <1>6, <2>5
  <2> QED BY <2>2, <2>3, <2>4, <2>5
<1> QED BY <1>5, <1>6

Orderly(s) ==
    s \in Message /\ (\A i \in 1 .. Len(s) : s[i].v \in PortIds) /\ Distinct(s) /\ Ordered(s)

\* One or two messages more about a port that had none.
LEMMA GrowOne ==
    ASSUME NEW s, Orderly(s), NEW x \in Token, x.v \in PortIds, KindsOf(s, x.v) = {},
           NEW u, Adds(u, s, x)
    PROVE  /\ Orderly(u) /\ KindsOf(u, x.v) = {x.k}
           /\ \A p : p # x.v => KindsOf(u, p) = KindsOf(s, p)
<1>1. s \in Message /\ Distinct(s) /\ Ordered(s) /\ \A i \in 1 .. Len(s) : s[i].v \in PortIds
  BY DEF Orderly
<1>2. /\ u \in Message /\ Distinct(u) /\ Len(u) = Len(s) + 1
      /\ Ordered(s) /\ (x.k = "DEVICE_ADD" => KindsOf(s, x.v) = {}) => Ordered(u)
      /\ \A i \in 1 .. Len(u) : u[i] = x \/ (i \in 1 .. Len(s) /\ u[i] = s[i])
      /\ KindsOf(u, x.v) = KindsOf(s, x.v) \cup {x.k}
      /\ \A p : p # x.v => KindsOf(u, p) = KindsOf(s, p)
  BY SMTT(30), <1>1, KindsAppend
<1>3. KindsOf(u, x.v) = {x.k}
  BY <1>2
<1>4. \A i \in 1 .. Len(u) : u[i].v \in PortIds
  BY <1>1, <1>2
<1> QED BY <1>1, <1>2, <1>3, <1>4 DEF Orderly

LEMMA GrowTwo ==
    ASSUME NEW s, Orderly(s), NEW x \in Token, NEW y \in Token, x.v \in PortIds, y.v = x.v,
           KindsOf(s, x.v) = {}, x.k # y.k, y.k # "DEVICE_ADD",
           NEW u, AddsTwo(u, s, x, y)
    PROVE  /\ Orderly(u) /\ KindsOf(u, x.v) = {x.k, y.k}
           /\ \A p : p # x.v => KindsOf(u, p) = KindsOf(s, p)
<1>r. PICK r : Adds(r, s, x)
  BY DEF Adds
<1>1. /\ Orderly(r) /\ KindsOf(r, x.v) = {x.k}
      /\ \A p : p # x.v => KindsOf(r, p) = KindsOf(s, p)
  BY <1>r, GrowOne
<1>2. r \in Message /\ Distinct(r) /\ Ordered(r) /\ \A i \in 1 .. Len(r) : r[i].v \in PortIds
  BY <1>1 DEF Orderly
<1>3. Adds(u, r, y)
  <2>1. s \in Seq(Token) /\ r \in Seq(Token) /\ <<x>> \in Seq(Token) /\ <<y>> \in Seq(Token)
    BY <1>2 DEF Orderly, Message
  <2>2. r = s \o <<x>> /\ Append(r, y) = r \o <<y>>
    BY <1>r, <2>1, AppendIsConcat DEF Adds
  <2>3. (s \o <<x>>) \o <<y>> = s \o (<<x>> \o <<y>>)
    BY <2>1, ConcatAssociative
  <2>4. <<x>> \o <<y>> = <<x, y>>
    <3>a. PICK a \in Seq(Token) : a = <<x>>
      BY <2>1
    <3>b. PICK b \in Seq(Token) : b = <<y>>
      BY <2>1
    <3>1. Len(a) = 1 /\ Len(b) = 1 /\ a[1] = x /\ b[1] = y
      BY <3>a, <3>b
    <3>c. PICK c : c = a \o b
      OBVIOUS
    <3>2. c \in Seq(Token) /\ Len(c) = 2 /\ c[1] = x /\ c[2] = y
      BY SMTT(30), <3>1, <3>c, ConcatProperties
    <3>3. c = <<x, y>>
      BY <3>2
    <3> QED BY <3>a, <3>b, <3>c, <3>3
  <2> QED BY <2>2, <2>3, <2>4 DEF Adds, AddsTwo
<1>4. y.k \notin KindsOf(r, y.v)
  BY <1>1
<1>5. /\ u \in Message /\ Distinct(u) /\ Len(u) = Len(r) + 1
      /\ Ordered(r) /\ (y.k = "DEVICE_ADD" => KindsOf(r, y.v) = {}) => Ordered(u)
      /\ \A i \in 1 .. Len(u) : u[i] = y \/ (i \in 1 .. Len(r) /\ u[i] = r[i])
      /\ KindsOf(u, y.v) = KindsOf(r, y.v) \cup {y.k}
      /\ \A p : p # y.v => KindsOf(u, p) = KindsOf(r, p)
  <2>1. y \in Token
    OBVIOUS
  <2> QED BY ONLY <1>2, <1>3, <1>4, <2>1, KindsAppend
<1>6. KindsOf(u, x.v) = {x.k, y.k}
  BY <1>1, <1>5
<1>7. \A i \in 1 .. Len(u) : u[i].v \in PortIds
  BY <1>2, <1>5
<1> QED BY <1>1, <1>2, <1>5, <1>6, <1>7 DEF Orderly

LEMMA PlanOrderly == ASSUME NEW s, Plan(s) PROVE Orderly(s)
BY DEF Plan, Orderly

\* The device turns to the driver's message.
LEMMA AnswerBoard ==
    ASSUME LinkInv, BoardInv, ControlTake, Scanning
    PROVE  BoardInv'
<1>1. /\ Untaken /\ OutTok.v \in PortIds /\ dev.todo = <<>> /\ dev'.busy = TRUE
      /\ dev'.todo = Answers(OutTok) /\ dev'.dropped = dev.dropped
      /\ UNCHANGED <<pc, vq, io, cur, host, ports>> /\ pc = "io"
  BY TakenToken DEF Untaken
<1>2. PICK h \in Idx, n \in 0 .. VqSize, s \in Message : Window(h, n) /\ s = Rest(h, n) /\ Plan(s)
  BY TheBoard
<1>3. Window(h, n)' /\ Held(h, n)' = Held(h, n)
  BY <1>1, <1>2, WindowKeeps
<1>4. s = Held(h, n) /\ Orderly(s) /\ s \in Message
  BY <1>1, <1>2, HeldOnly, PlanOrderly DEF Plan
<1>p. PICK p \in PortIds : p = OutTok.v
  BY <1>1
<1>a. PICK a : a = Answers(OutTok)
  OBVIOUS
<1>u. PICK u : u = s \o Heads(a)
  OBVIOUS
<1>5. u = Rest(h, n)'
  <2>1. Heads(dev.todo)' = Heads(a)
    BY <1>1, <1>a
  <2> QED BY <2>1, <1>3, <1>4, <1>u DEF Rest
<1>6. \A r \in PortIds : Stage(r, KindsOf(s, r))
  BY <1>2 DEF Plan
<1>7. Plan(u)'
  <2>1. CASE OutTok.k = "PORT_READY" /\ host.kind[p] = "plugged"
    <3>1. KindsOf(s, p) = {} /\ Stage(p, {"PORT_NAME", "PORT_OPEN"})'
      BY <2>1, <1>6, <1>p, TakeStage
    <3>x. PICK x \in Token, y \in Token : x = Tok("PORT_NAME", p) /\ y = Tok("PORT_OPEN", p)
      <4>1. p \in Nat
        BY Sizes DEF PortIds
      <4> QED BY <4>1 DEF Tok, Token, Kinds
    <3>2. x.k = "PORT_NAME" /\ y.k = "PORT_OPEN" /\ x.v = p /\ y.v = p
      BY <3>x DEF Tok
    <3>3. Heads(a) = <<x, y>>
      <4>1. a = <<<<x, Tok(host.name[p], 0)>>, <<y>>>>
        BY <2>1, <1>a, <1>p, <3>x DEF Answers
      <4> QED BY <4>1 DEF Heads
    <3>4. /\ Orderly(u) /\ KindsOf(u, p) = {"PORT_NAME", "PORT_OPEN"}
          /\ \A r : r # p => KindsOf(u, r) = KindsOf(s, r)
      <4>1. AddsTwo(u, s, x, y)
        BY <1>u, <3>3 DEF AddsTwo
      <4>2. /\ Orderly(u) /\ KindsOf(u, x.v) = {x.k, y.k}
            /\ \A r : r # x.v => KindsOf(u, r) = KindsOf(s, r)
        <5>1. x.v \in PortIds /\ y.v = x.v /\ KindsOf(s, x.v) = {} /\ x.k # y.k /\ y.k # "DEVICE_ADD"
          BY <3>1, <3>2
        <5> QED BY ONLY <5>1, <4>1, <1>4, <3>x, GrowTwo
      <4> QED BY <4>2, <3>2
    <3>5. ASSUME NEW r \in PortIds, r # p PROVE Stage(r, KindsOf(u, r))'
      <4>k. PICK ks : ks = KindsOf(u, r)
        OBVIOUS
      <4>1. Stage(r, ks)
        BY <1>6, <3>4, <3>5, <4>k
      <4>2. Stage(r, ks)'
        BY <4>1, <3>5, <1>p, TakeStage
      <4> QED BY <4>2, <4>k
    <3>6. Stage(p, KindsOf(u, p))'
      <4>l. PICK l : l = {"PORT_NAME", "PORT_OPEN"}
        OBVIOUS
      <4>1. Stage(p, l)' /\ l = KindsOf(u, p)
        BY <3>1, <3>4, <4>l
      <4> QED BY <4>1
    <3> QED BY <3>4, <3>5, <3>6 DEF Plan, Orderly
  <2>2. CASE ~(OutTok.k = "PORT_READY" /\ host.kind[p] = "plugged")
    <3>1. a = <<>> /\ Heads(a) = <<>>
      <4>1. a = <<>>
        BY <2>2, <1>a, <1>p DEF Answers
      <4> QED BY <4>1 DEF Heads
    <3>2. u = s
      BY <1>4, <1>u, <3>1, Joined
    <3>3. ASSUME NEW r \in PortIds PROVE Stage(r, KindsOf(s, r))'
      <4>k. PICK ks : ks = KindsOf(s, r)
        OBVIOUS
      <4>1. Stage(r, ks)
        BY <1>6, <4>k
      <4>2. Stage(r, ks)'
        BY <4>1, <2>2, <1>p, TakeStage
      <4> QED BY <4>2, <4>k
    <3> QED BY <3>2, <3>3, <1>2 DEF Plan
  <2> QED BY <2>1, <2>2
<1>8. ~Scanned'
  BY <1>1 DEF Scanning, Scanned
<1> QED BY <1>1, <1>3, <1>5, <1>7, <1>8 DEF BoardInv

\* After the scan the driver only says that it has opened a port.
LEMMA OpenedBoard ==
    ASSUME LinkInv, BoardInv, ControlTake, ~Scanning
    PROVE  BoardInv'
<1>1. /\ Untaken /\ ~Untaken' /\ dev'.busy = TRUE /\ dev'.todo = Answers(OutTok) /\ dev'.dropped = dev.dropped
      /\ dev'.added = (IF OutTok.k = "DEVICE_READY" THEN 0 ELSE MaxPorts)
      /\ UNCHANGED <<pc, io, host, ports>>
  BY TakenToken
<1>2. Scanned /\ ~Scanning'
  BY <1>1 DEF Untaken, Scanning, Scanned
<1>3. OutTok.k = "PORT_OPEN"
  BY <1>1, <1>2 DEF BoardInv, Settled
<1>4. Answers(OutTok) = <<>>
  BY <1>3 DEF Answers
<1>5. Settled'
  BY <1>1, <1>2, <1>3, <1>4 DEF BoardInv, Settled, Known
<1> QED BY <1>1, <1>2, <1>5 DEF BoardInv

\* While the device is busy with the driver's message.
LEMMA BusyWait ==
    ASSUME LinkInv, dev.busy
    PROVE  pc = "io" /\ io.q = "ctl_out" /\ ~Untaken /\ (Scanning \/ Scanned)
<1>1. pc = "io" /\ io.q = "ctl_out" /\ ~Untaken
  BY DEF LinkInv, QueueInv, CtlOutInv, Untaken
<1> QED BY <1>1 DEF Scanning, Scanned

\* The next port is announced.
LEMMA AddBoard ==
    ASSUME LinkInv, BoardInv, ControlAdd
    PROVE  BoardInv'
<1>1. dev.todo = <<>> /\ dev.added < MaxPorts /\ UNCHANGED <<pc, vq, io, cur, host, ports>>
  BY DEF ControlAdd, queueVars
<1>2. dev.busy
  BY <1>1, Sizes DEF BoardInv
<1>3. pc = "io" /\ ~Untaken /\ Scanning
  <2>1. pc = "io" /\ ~Untaken /\ (Scanning \/ Scanned)
    BY <1>2, BusyWait
  <2>2. Scanned => dev.added = MaxPorts
    BY DEF BoardInv, Settled
  <2> QED BY <2>1, <2>2, <1>1, Sizes
<1>p. PICK p \in PortIds : p = dev.added
  BY <1>1, Sizes DEF LinkInv, ConsoleTypes, DevTypes, PortIds
<1>4. /\ dev'.busy = dev.busy /\ dev'.todo = Announce(p) /\ dev'.added = p + 1 /\ dev'.dropped = dev.dropped
  <2>1. dev = [features |-> dev.features, ok |-> dev.ok, busy |-> dev.busy, added |-> dev.added,
               todo |-> dev.todo, open |-> dev.open, dropped |-> dev.dropped]
    BY DEF LinkInv, ConsoleTypes, DevTypes
  <2> QED BY <2>1, <1>p DEF ControlAdd
<1>5. PICK h \in Idx, n \in 0 .. VqSize, s \in Message : Window(h, n) /\ s = Rest(h, n) /\ Plan(s)
  BY <1>3, TheBoard
<1>6. Window(h, n)' /\ Held(h, n)' = Held(h, n)
  BY <1>1, <1>5, WindowKeeps
<1>7. s = Held(h, n) /\ Orderly(s) /\ s \in Message
  BY <1>1, <1>5, HeldOnly, PlanOrderly DEF Plan
<1>a. PICK a : a = Announce(p)
  OBVIOUS
<1>u. PICK u : u = s \o Heads(a)
  OBVIOUS
<1>8. u = Rest(h, n)'
  <2>1. Heads(dev.todo)' = Heads(a)
    BY <1>4, <1>a
  <2> QED BY <2>1, <1>6, <1>7, <1>u DEF Rest
<1>9. \A r \in PortIds : Stage(r, KindsOf(s, r))
  BY <1>5 DEF Plan
<1>10. ~Untaken' /\ pc' = "io"
  BY <1>1, <1>2, <1>3, <1>4 DEF Untaken
<1>11. \A r : ~AnswerDue(r) /\ ~AnswerDue(r)'
  BY <1>3, <1>10 DEF AnswerDue
<1>12. /\ Coming(p) /\ ~Coming(p)'
       /\ \A r \in PortIds : r # p => (Coming(r)' <=> Coming(r))
  <2>1. MaxPorts \in Nat /\ p \in Nat /\ \A r \in PortIds : r \in Nat
    BY Sizes DEF PortIds
  <2>2. \A r : Coming(r) <=> r >= p
    BY <1>3, <1>p DEF Coming
  <2>3. \A r : Coming(r)' <=> r >= p + 1
    BY <1>4, <1>10 DEF Coming
  <2> QED BY <2>1, <2>2, <2>3
<1>13. KindsOf(s, p) = {} /\ ~ports[p].host /\ ports[p].name = NoName
  BY <1>9, <1>12 DEF Stage, Absent
<1>14. ASSUME NEW r \in PortIds, r # p, KindsOf(u, r) = KindsOf(s, r) PROVE Stage(r, KindsOf(u, r))'
  <2>k. PICK ks : ks = KindsOf(s, r)
    OBVIOUS
  <2>1. Stage(r, ks)
    BY <1>9, <2>k
  <2>2. Stage(r, ks)'
    BY <2>1, <1>1, <1>11, <1>12, <1>14, StageKeeps
  <2> QED BY <2>2, <2>k, <1>14
<1>15. ASSUME Orderly(u), Stage(p, KindsOf(u, p))', \A r : r # p => KindsOf(u, r) = KindsOf(s, r)
       PROVE  Plan(u)'
  <2>1. \A r \in PortIds : Stage(r, KindsOf(u, r))'
    BY <1>14, <1>15
  <2> QED BY <2>1, <1>15 DEF Plan, Orderly
<1>16. Plan(u)'
  <2>n. p \in Nat
    BY Sizes DEF PortIds
  <2>x. PICK x \in Token, y \in Token : x = Tok("DEVICE_ADD", p) /\ y = Tok("DEVICE_REMOVE", p)
    BY <2>n DEF Tok, Token, Kinds
  <2>1. x.k = "DEVICE_ADD" /\ y.k = "DEVICE_REMOVE" /\ x.v = p /\ y.v = p
    BY <2>x DEF Tok
  <2>2. x.v \in PortIds /\ y.v = x.v /\ KindsOf(s, x.v) = {} /\ x.k # y.k /\ y.k # "DEVICE_ADD"
    BY <2>1, <1>13
  <2>l. PICK l : l = KindsOf(u, p)
    OBVIOUS
  <2>3. CASE host.kind[p] = "plugged"
    <3>1. Heads(a) = <<x>>
      <4>1. a = <<<<x>>>>
        BY <2>3, <2>x, <1>a DEF Announce
      <4> QED BY <4>1 DEF Heads
    <3>2. Adds(u, s, x)
      <4>1. s \in Seq(Token)
        BY <1>7 DEF Message
      <4> QED BY <3>1, <4>1, <1>u, AppendIsConcat DEF Adds
    <3>3. /\ Orderly(u) /\ KindsOf(u, x.v) = {x.k}
          /\ \A r : r # x.v => KindsOf(u, r) = KindsOf(s, r)
      BY ONLY <2>x, <2>2, <3>2, <1>7, GrowOne
    <3>4. l = {"DEVICE_ADD"}
      BY <3>3, <2>1, <2>l
    <3>5. Stage(p, l)'
      BY <3>4, <2>3, <1>1, <1>11, <1>12, <1>13 DEF Stage, Plugged
    <3> QED BY <3>3, <3>5, <2>l, <2>1, <1>15
  <2>4. CASE host.kind[p] = "gone"
    <3>1. Heads(a) = <<x, y>>
      <4>1. a = <<<<x>>, <<y>>>>
        BY <2>4, <2>x, <1>a DEF Announce
      <4> QED BY <4>1 DEF Heads
    <3>2. AddsTwo(u, s, x, y)
      BY <3>1, <1>u DEF AddsTwo
    <3>3. /\ Orderly(u) /\ KindsOf(u, x.v) = {x.k, y.k}
          /\ \A r : r # x.v => KindsOf(u, r) = KindsOf(s, r)
      BY ONLY <2>x, <2>2, <3>2, <1>7, GrowTwo
    <3>4. l = {"DEVICE_ADD", "DEVICE_REMOVE"}
      BY <3>3, <2>1, <2>l
    <3>5. Stage(p, l)'
      BY <3>4, <2>4, <1>1, <1>11, <1>12, <1>13 DEF Stage, Going
    <3> QED BY <3>3, <3>5, <2>l, <2>1, <1>15
  <2>5. CASE host.kind[p] \notin {"plugged", "gone"}
    <3>0. host.kind[p] = "absent"
      BY <2>5 DEF LinkInv, ConsoleTypes, Machine
    <3>1. Heads(a) = <<>>
      <4>1. a = <<>>
        BY <2>5, <1>a DEF Announce
      <4> QED BY <4>1 DEF Heads
    <3>2. u = s
      BY <3>1, <1>7, <1>u, Joined
    <3>3. l = {}
      BY <3>2, <1>13, <2>l
    <3>4. Stage(p, l)'
      BY <3>0, <3>3, <1>1, <1>11, <1>13 DEF Stage, Absent
    <3> QED BY <3>2, <3>4, <2>l, <1>7, <1>15
  <2> QED BY <2>3, <2>4, <2>5
<1>17. ~Scanned'
  BY <1>1, <1>3 DEF Scanning, Scanned
<1> QED BY <1>2, <1>4, <1>6, <1>8, <1>16, <1>17 DEF BoardInv

LEMMA HeadsSeq ==
    ASSUME NEW todo \in Seq(Message), \A i \in 1 .. Len(todo) : todo[i] # <<>>
    PROVE  Heads(todo) \in Message /\ Len(Heads(todo)) = Len(todo) /\ \A i \in 1 .. Len(todo) : Heads(todo)[i] = todo[i][1]
<1>n. PICK n : n = Len(todo)
  OBVIOUS
<1>1. n \in Nat
  BY <1>n, LenProperties
<1>2. ASSUME NEW i \in 1 .. n PROVE todo[i][1] \in Token
  <2>m. PICK m : m = todo[i]
    OBVIOUS
  <2>1. m \in Seq(Token) /\ m # <<>>
    <3>1. todo[i] \in Message /\ todo[i] # <<>>
      BY <1>n, ElementOfSeq
    <3> QED BY <3>1, <2>m DEF Message
  <2>2. 1 \in 1 .. Len(m)
    BY <2>1, EmptySeq, LenProperties
  <2> QED BY <2>1, <2>2, <2>m, ElementOfSeq
<1>3. Heads(todo) = [i \in 1 .. n |-> todo[i][1]]
  BY <1>n DEF Heads
<1>4. Heads(todo) \in Seq(Token) /\ Len(Heads(todo)) = n
  BY <1>1, <1>2, <1>3
<1> QED BY <1>n, <1>3, <1>4 DEF Message

LEMMA HeadsTail ==
    ASSUME NEW todo \in Seq(Message), \A i \in 1 .. Len(todo) : todo[i] # <<>>, todo # <<>>,
           NEW rest, rest = Tail(todo), NEW x, x = todo[1][1]
    PROVE  /\ x \in Token /\ Heads(rest) \in Message
           /\ Heads(todo) = <<x>> \o Heads(rest)
<1>1. /\ rest \in Seq(Message) /\ Len(todo) \in Nat /\ Len(todo) >= 1 /\ Len(rest) = Len(todo) - 1
      /\ \A i \in 1 .. Len(rest) : rest[i] = todo[i + 1]
  BY HeadTailProperties, EmptySeq
<1>2. \A i \in 1 .. Len(rest) : rest[i] # <<>>
  BY <1>1
<1>a. PICK a : a = Heads(todo)
  OBVIOUS
<1>b. PICK b : b = Heads(rest)
  OBVIOUS
<1>3. a \in Seq(Token) /\ Len(a) = Len(todo) /\ \A i \in 1 .. Len(todo) : a[i] = todo[i][1]
  BY SMTT(30), <1>a, HeadsSeq DEF Message
<1>4. b \in Seq(Token) /\ Len(b) = Len(rest) /\ \A i \in 1 .. Len(rest) : b[i] = rest[i][1]
  BY <1>1, <1>2, <1>b, HeadsSeq DEF Message
<1>5. x \in Token
  <2>1. 1 \in 1 .. Len(a) /\ a[1] = x
    BY <1>1, <1>3
  <2> QED BY <2>1, <1>3, ElementOfSeq
<1>o. PICK o \in Seq(Token) : o = <<x>>
  <2>1. <<x>> \in Seq(Token)
    BY ONLY <1>5
  <2> QED BY ONLY <2>1
<1>6. Len(o) = 1 /\ o[1] = x
  BY <1>o
<1>c. PICK c : c = o \o b
  OBVIOUS
<1>7. c \in Seq(Token) /\ Len(c) = 1 + Len(b) /\ c[1] = x /\ \A i \in 1 .. Len(b) : c[i + 1] = b[i]
  <2>1. /\ c \in Seq(Token) /\ Len(c) = Len(o) + Len(b)
        /\ \A i \in 1 .. Len(o) + Len(b) : c[i] = IF i <= Len(o) THEN o[i] ELSE b[i - Len(o)]
    BY ONLY <1>c, <1>o, <1>4, ConcatProperties
  <2>2. Len(b) \in Nat
    BY ONLY <1>4, LenProperties
  <2>3. c[1] = o[1]
    BY ONLY <2>1, <2>2, <1>6
  <2>4. \A i \in 1 .. Len(b) : c[i + 1] = b[i]
    <3> SUFFICES ASSUME NEW i \in 1 .. Len(b) PROVE c[i + 1] = b[i]
      OBVIOUS
    <3>1. i + 1 \in 1 .. Len(o) + Len(b) /\ ~(i + 1 <= Len(o)) /\ (i + 1) - Len(o) = i
      BY ONLY <2>2, <1>6
    <3> QED BY ONLY <2>1, <3>1
  <2> QED BY ONLY <2>1, <2>3, <2>4, <1>6
<1>8. a = c
  <2>1. Len(a) = Len(c)
    BY <1>1, <1>3, <1>4, <1>7
  <2>2. ASSUME NEW i \in 1 .. Len(a) PROVE a[i] = c[i]
    <3>1. CASE i = 1
      BY <3>1, <1>1, <1>3, <1>7
    <3>2. CASE i # 1
      <4>1. i - 1 \in 1 .. Len(rest) /\ i - 1 \in 1 .. Len(b) /\ (i - 1) + 1 = i /\ i \in 1 .. Len(todo)
        BY <3>2, <1>1, <1>3, <1>4
      <4>2. a[i] = todo[i][1] /\ b[i - 1] = rest[i - 1][1] /\ rest[i - 1] = todo[i] /\ c[i] = b[i - 1]
        BY <4>1, <1>1, <1>3, <1>4, <1>7
      <4> QED BY <4>2
    <3> QED BY <3>1, <3>2
  <2> QED BY <2>1, <2>2, <1>3, <1>7, SeqEqual
<1> QED BY <1>5, <1>4, <1>8, <1>a, <1>b, <1>c, <1>o DEF Message

\* There is room for what the device still has to say.
LEMMA RoomLeft ==
    ASSUME LinkInv, NEW h \in Idx, NEW n \in 0 .. VqSize, Window(h, n), Plan(Rest(h, n)), dev.todo # <<>>
    PROVE  /\ n \in 0 .. VqSize - 1 /\ attached[ControlIn] = "ctl_in" /\ HasBuf(ControlIn)
           /\ lastAvail[ControlIn] = Plus(h, n, IdxMod) /\ NextDesc(ControlIn) = Slot(h, n + 1)
<1>v. PICK v : v = vq["ctl_in"]
  OBVIOUS
<1>1. /\ v.raw /\ v.avail = Plus(h, VqSize, IdxMod) /\ v.used = Plus(h, n, IdxMod)
      /\ \A i \in Slots : v.ring[i] = i
  BY <1>v DEF Window
<1>2. n < VqSize /\ n \in Nat /\ VqSize \in Nat
  <2>1. dev.todo \in Seq(Message) /\ \A i \in 1 .. Len(dev.todo) : dev.todo[i] # <<>>
    BY DEF LinkInv, ConsoleTypes, DevTypes, Good
  <2>a. PICK a \in Seq(Token) : a = Held(h, n) /\ Len(a) = n
    BY HeldSeq DEF Message
  <2>b. PICK b \in Seq(Token) : b = Heads(dev.todo) /\ Len(b) = Len(dev.todo)
    BY <2>1, HeadsSeq DEF Message
  <2>2. Len(dev.todo) \in Nat /\ Len(dev.todo) >= 1
    BY <2>1, EmptySeq, LenProperties
  <2>3. Len(Rest(h, n)) = n + Len(dev.todo)
    BY <2>a, <2>b, ConcatProperties DEF Rest
  <2>4. Len(Rest(h, n)) <= VqSize
    BY PlanFits
  <2> QED BY <2>2, <2>3, <2>4, Sizes
<1>3. v.qid = ControlIn /\ attached[ControlIn] = "ctl_in" /\ lastAvail[ControlIn] = v.used
  BY <1>1, <1>v DEF LinkInv, QueueInv, Wiring, LastInv, Vqs
<1>4. v.avail # v.used
  <2>1. VqSize \in 0 .. VqSize
    BY <1>2
  <2> QED BY <2>1, <1>1, <1>2, PlusSteps
<1>5. Plus(h, n, IdxMod) % VqSize = Slot(h, n + 1) /\ Slot(h, n + 1) \in Slots
  <2>1. n \in 0 .. VqSize - 1 /\ n + 1 \in 1 .. VqSize
    BY <1>2
  <2> QED BY <2>1, SlotSteps
<1>6. HasBuf(ControlIn) /\ NextDesc(ControlIn) = Slot(h, n + 1)
  BY <1>1, <1>3, <1>4, <1>5, <1>v DEF HasBuf, NextDesc
<1> QED BY <1>1, <1>2, <1>3, <1>6

LEMMA OneToken == ASSUME NEW x \in Token PROVE \E o \in Seq(Token) : o = <<x>> /\ Len(o) = 1 /\ o[1] = x
<1>1. <<x>> \in Seq(Token) /\ Len(<<x>>) = 1 /\ <<x>>[1] = x
  OBVIOUS
<1> QED BY <1>1, Zenon

\* The device's next message: the rest of the plan is the same.
LEMMA SendBoard ==
    ASSUME LinkInv, BoardInv, ControlSend
    PROVE  BoardInv'
<1>1. dev.todo # <<>> /\ UNCHANGED <<pc, io, cur, host, ports>>
  BY DEF ControlSend
<1>2. dev.busy
  BY <1>1 DEF BoardInv
<1>3. pc = "io" /\ io.q = "ctl_out" /\ ~Untaken /\ Scanning /\ ~Scanned
  <2>1. pc = "io" /\ io.q = "ctl_out" /\ ~Untaken /\ (Scanning \/ Scanned)
    BY <1>2, BusyWait
  <2>2. ~Scanned
    BY <1>1 DEF BoardInv, Settled
  <2> QED BY <2>1, <2>2
<1>4. PICK h \in Idx, n \in 0 .. VqSize, s \in Message : Window(h, n) /\ s = Rest(h, n) /\ Plan(s)
  BY <1>3, TheBoard
<1>5. /\ n \in 0 .. VqSize - 1 /\ attached[ControlIn] = "ctl_in" /\ HasBuf(ControlIn)
      /\ lastAvail[ControlIn] = Plus(h, n, IdxMod) /\ NextDesc(ControlIn) = Slot(h, n + 1)
  BY <1>1, <1>4, RoomLeft
<1>6. /\ dev = [features |-> dev.features, ok |-> dev.ok, busy |-> dev.busy, added |-> dev.added,
               todo |-> dev.todo, open |-> dev.open, dropped |-> dev.dropped]
      /\ dev.todo \in Seq(Message) /\ \A i \in 1 .. Len(dev.todo) : Good(dev.todo[i])
  BY DEF LinkInv, ConsoleTypes, DevTypes
<1>m. PICK m : m = Head(dev.todo)
  OBVIOUS
<1>7. m = dev.todo[1] /\ m \in Message /\ m # <<>> /\ Len(m) \in Nat /\ Len(m) >= 1
  <2>1. m = dev.todo[1] /\ 1 \in 1 .. Len(dev.todo)
    BY <1>1, <1>6, <1>m, EmptySeq, HeadTailProperties
  <2>2. Good(m)
    BY <2>1, <1>6
  <2>3. m \in Seq(Token) /\ m # <<>>
    BY <2>2 DEF Good, Message
  <2> QED BY <2>1, <2>3, EmptySeq, LenProperties DEF Message
<1>v. PICK v : v = vq["ctl_in"]
  OBVIOUS
<1>d. PICK d : d = Slot(h, n + 1)
  OBVIOUS
<1>w. PICK w : w = UsedVq(v, d, m, Len(m))
  OBVIOUS
<1>8. VqSize \in Nat /\ n \in Nat /\ n + 1 \in 1 .. VqSize /\ n \in 0 .. VqSize /\ n + 1 \in 0 .. VqSize
  BY <1>5, Sizes
<1>9. "ctl_in" \in Vqs /\ IsVq(v) /\ d \in Slots
  BY <1>v, <1>d, <1>8, SlotSteps DEF Vqs, LinkInv, QueueInv, QueueTypes
<1>10. vq'["ctl_in"] = w /\ vq'["ctl_out"] = vq["ctl_out"]
  <2>1. UseBuf(ControlIn, m, Len(m))
    BY <1>5, <1>m DEF ControlSend
  <2>2. vq' = [vq EXCEPT !["ctl_in"] = w]
    BY <2>1, <1>5, <1>v, <1>d, <1>w DEF UseBuf, UsedVq
  <2> QED BY <2>2, <1>9 DEF LinkInv, QueueInv, QueueTypes, Vqs
<1>11. dev'.busy = dev.busy /\ dev'.added = dev.added /\ dev'.dropped = dev.dropped /\ dev'.todo = Tail(dev.todo)
  <2>1. dev' = [dev EXCEPT !.todo = Tail(@)]
    BY <1>5 DEF ControlSend
  <2> QED BY <2>1, <1>6
<1>o. PICK old : old = v.desc[d].data
  OBVIOUS
<1>e. PICK new : new = m \o SubSeq(old, Len(m) + 1, Len(old))
  OBVIOUS
<1>12. /\ w.raw = v.raw /\ w.old = v.old /\ w.avail = v.avail /\ w.ring = v.ring
       /\ w.used = (v.used + 1) % IdxMod
       /\ \A i \in Slots \ {d} : w.desc[i] = v.desc[i]
       /\ w.desc[d].data = new
  <2>1. v.write
    BY <1>4, <1>v DEF Window, LinkInv, QueueInv, CtlInInv
  <2>2. /\ w.raw = v.raw /\ w.write = v.write /\ w.qid = v.qid /\ w.old = v.old
        /\ w.avail = v.avail /\ w.ring = v.ring /\ w.used = (v.used + 1) % IdxMod
        /\ \A i \in Slots \ {d} : w.desc[i] = v.desc[i]
        /\ w.desc[d].data = IF v.write THEN m \o SubSeq(v.desc[d].data, Len(m) + 1, Len(v.desc[d].data))
                                       ELSE v.desc[d].data
    <3>1. IsVq(v) /\ d \in Slots /\ m \in Message /\ Len(m) \in Nat
      BY <1>7, <1>9
    <3>2. LET u == UsedVq(v, d, m, Len(m))
          IN  /\ u.raw = v.raw /\ u.write = v.write /\ u.qid = v.qid /\ u.old = v.old
              /\ u.avail = v.avail /\ u.ring = v.ring /\ u.used = (v.used + 1) % IdxMod
              /\ \A i \in Slots \ {d} : u.desc[i] = v.desc[i]
              /\ u.desc[d].data = IF v.write THEN m \o SubSeq(v.desc[d].data, Len(m) + 1, Len(v.desc[d].data))
                                             ELSE v.desc[d].data
      BY ONLY <3>1, UseVq
    <3> QED BY ONLY <3>2, <1>w
  <2> QED BY <2>1, <2>2, <1>o, <1>e
<1>13. new # <<>> /\ new[1] = m[1]
  <2>1. old \in Message
    BY <1>9, <1>o DEF IsVq
  <2>2. new \in Message /\ Len(new) >= Len(m) /\ \A i \in 1 .. Len(m) : new[i] = m[i]
    <3>1. LET z == m \o SubSeq(old, Len(m) + 1, Len(old))
          IN  z \in Message /\ Len(z) >= Len(m) /\ \A i \in 1 .. Len(m) : z[i] = m[i]
      BY <2>1, <1>7, Overwrite
    <3> QED BY ONLY <3>1, <1>e, Zenon
  <2>3. 1 \in 1 .. Len(m)
    BY <1>7
  <2>4. Len(new) \in Nat /\ Len(new) >= 1
    BY <2>2, <1>7 DEF Message
  <2> QED BY <2>2, <2>3, <2>4
<1>14. ASSUME NEW i \in 1 .. n PROVE Slot(h, i) \in Slots \ {d} /\ w.desc[Slot(h, i)] = v.desc[Slot(h, i)]
  <2>1. i \in 1 .. VqSize /\ i # n + 1
    BY <1>8
  <2>2. Slot(h, i) \in Slots /\ Slot(h, i) # Slot(h, n + 1)
    BY <2>1, <1>8, SlotSteps
  <2> QED BY <2>2, <1>12, <1>d
<1>15. Window(h, n + 1)'
  <2>1. w.used = Plus(h, n + 1, IdxMod)
    BY <1>4, <1>8, <1>12, <1>v, PlusSteps DEF Window
  <2>2. ASSUME NEW i \in 1 .. n + 1 PROVE w.desc[Slot(h, i)].data # <<>>
    <3>1. CASE i = n + 1
      BY <3>1, <1>12, <1>13, <1>d
    <3>2. CASE i # n + 1
      <4>1. i \in 1 .. n
        BY <3>2, <1>8
      <4> QED BY <4>1, <1>4, <1>14, <1>v DEF Window
    <3> QED BY <3>1, <3>2
  <2> QED BY <2>1, <2>2, <1>1, <1>3, <1>4, <1>10, <1>12, <1>v DEF Window
<1>x. PICK x : x = dev.todo[1][1]
  OBVIOUS
<1>a. PICK a \in Seq(Token) : /\ a = Held(h, n) /\ Len(a) = n
                               /\ \A i \in 1 .. n : a[i] = v.desc[Slot(h, i)].data[1]
  BY <1>4, <1>8, <1>v, HeldSeq DEF Message
<1>16. /\ x \in Token /\ Heads(Tail(dev.todo)) \in Seq(Token)
       /\ Heads(dev.todo) = <<x>> \o Heads(Tail(dev.todo))
  <2>1. \A i \in 1 .. Len(dev.todo) : dev.todo[i] # <<>>
    BY <1>6 DEF Good
  <2>r. PICK rest : rest = Tail(dev.todo)
    OBVIOUS
  <2>t. PICK t : t = dev.todo
    OBVIOUS
  <2>2. t \in Seq(Message) /\ (\A i \in 1 .. Len(t) : t[i] # <<>>) /\ t # <<>> /\ rest = Tail(t) /\ x = t[1][1]
    BY <2>1, <2>r, <2>t, <1>1, <1>6, <1>x
  <2>3. x \in Token /\ Heads(rest) \in Message /\ Heads(t) = <<x>> \o Heads(rest)
    BY ONLY <2>2, HeadsTail
  <2> QED BY <2>3, <2>r, <2>t DEF Message
<1>b. PICK b : b = Held(h, n + 1)'
  OBVIOUS
<1>17. b = a \o <<x>>
  <2>1. b = [i \in 1 .. n + 1 |-> w.desc[Slot(h, i)].data[1]]
    BY <1>10, <1>b DEF Held
  <2>2. ASSUME NEW i \in 1 .. n + 1 PROVE w.desc[Slot(h, i)].data[1] = IF i <= n THEN a[i] ELSE x
    <3>1. CASE i = n + 1
      <4>1. w.desc[Slot(h, i)].data[1] = m[1]
        BY <3>1, <1>12, <1>13, <1>d
      <4> QED BY <4>1, <3>1, <1>7, <1>8, <1>x
    <3>2. CASE i # n + 1
      <4>1. i \in 1 .. n /\ i <= n
        BY <3>2, <1>8
      <4> QED BY <4>1, <1>14, <1>a
    <3> QED BY <3>1, <3>2
  <2>3. b = [i \in 1 .. n + 1 |-> IF i <= n THEN a[i] ELSE x]
    BY <2>1, <2>2
  <2>o. PICK o \in Seq(Token) : o = <<x>> /\ Len(o) = 1 /\ o[1] = x
    <3>1. x \in Token
      BY <1>16
    <3> QED BY ONLY <3>1, OneToken, Zenon
  <2>4. Len(o) = 1 /\ o[1] = x
    BY ONLY <2>o
  <2>5. /\ a \o o \in Seq(Token) /\ Len(a \o o) = n + 1
        /\ \A i \in 1 .. n + 1 : (a \o o)[i] = IF i <= n THEN a[i] ELSE o[i - n]
    BY ONLY <1>a, <2>4, <2>o, ConcatProperties
  <2>6. \A i \in 1 .. n + 1 : (a \o o)[i] = b[i]
    <3> SUFFICES ASSUME NEW i \in 1 .. n + 1 PROVE (a \o o)[i] = b[i]
      OBVIOUS
    <3>1. ~(i <= n) => i - n = 1
      BY <1>8
    <3> QED BY <3>1, <2>3, <2>4, <2>5
  <2>7. b \in Seq(Token) /\ Len(b) = n + 1
    <3>1. \A i \in 1 .. n + 1 : (IF i <= n THEN a[i] ELSE x) \in Token
      <4> SUFFICES ASSUME NEW i \in 1 .. n + 1 PROVE (IF i <= n THEN a[i] ELSE x) \in Token
        OBVIOUS
      <4>1. i <= n => i \in 1 .. Len(a)
        BY <1>8, <1>a
      <4> QED BY <4>1, <1>16, <1>a, ElementOfSeq
    <3> QED BY <3>1, <2>3, <1>8
  <2>8. b = a \o o
    BY <2>5, <2>6, <2>7, SeqEqual
  <2> QED BY <2>8, <2>o
<1>18. s = Rest(h, n + 1)'
  <2>t. PICK t \in Seq(Token) : t = Heads(Tail(dev.todo))
    BY <1>16
  <2>o. PICK o \in Seq(Token) : o = <<x>> /\ Len(o) = 1 /\ o[1] = x
    <3>1. x \in Token
      BY <1>16
    <3> QED BY ONLY <3>1, OneToken, Zenon
  <2>1. s = a \o (o \o t)
    BY <1>4, <1>16, <1>a, <2>t, <2>o DEF Rest
  <2>2. Rest(h, n + 1)' = (a \o o) \o t
    <3>1. Heads(dev.todo)' = t
      BY <1>11, <2>t
    <3> QED BY <3>1, <1>17, <1>b, <2>o DEF Rest
  <2>3. a \in Seq(Token) /\ o \in Seq(Token) /\ t \in Seq(Token)
    BY <1>a, <2>t, <2>o, Zenon
  <2>4. (a \o o) \o t = a \o (o \o t)
    BY ONLY SMTT(30), <2>3, ConcatAssociative
  <2> QED BY ONLY <2>1, <2>2, <2>4, Zenon
<1>19. Plan(s)'
  <2>1. ~Untaken'
    BY <1>2, <1>11 DEF Untaken
  <2>2. ASSUME NEW p \in PortIds PROVE (Coming(p)' <=> Coming(p)) /\ (AnswerDue(p)' <=> AnswerDue(p))
    BY <1>1, <1>3, <1>11, <2>1 DEF Coming, AnswerDue
  <2>3. SamePlugs /\ SamePorts
    BY <1>1 DEF SamePlugs, SamePorts
  <2> QED BY <1>4, <2>2, <2>3, PlanKeeps
<1>20. ~Scanned'
  BY <1>1, <1>3 DEF Scanned
<1> QED BY <1>2, <1>8, <1>11, <1>15, <1>18, <1>19, <1>20 DEF BoardInv

\* The driver's message is given back.
LEMMA DoneBoard ==
    ASSUME LinkInv, BoardInv, ControlDone
    PROVE  BoardInv'
<1>1. /\ dev.busy /\ dev.todo = <<>> /\ dev.added = MaxPorts /\ UNCHANGED <<pc, io, cur, host, ports>>
  BY DEF ControlDone
<1>2. pc = "io" /\ io.q = "ctl_out" /\ ~Untaken /\ (Scanning \/ Scanned)
  BY <1>1, BusyWait
<1>3. dev'.busy = FALSE /\ dev'.todo = <<>> /\ dev'.added = MaxPorts /\ dev'.dropped = dev.dropped
  <2>1. dev = [features |-> dev.features, ok |-> dev.ok, busy |-> dev.busy, added |-> dev.added,
               todo |-> dev.todo, open |-> dev.open, dropped |-> dev.dropped]
    BY DEF LinkInv, ConsoleTypes, DevTypes
  <2> QED BY <2>1, <1>1 DEF ControlDone
<1>v. PICK v : v = vq["ctl_out"]
  OBVIOUS
<1>4. /\ v.raw /\ v.used = v.old /\ "ctl_out" \in Vqs /\ IsVq(v)
      /\ attached[ControlOut] = "ctl_out" /\ lastAvail[ControlOut] = v.used
  <2>1. v.raw /\ v.used = v.old /\ "ctl_out" \in Vqs /\ IsVq(v)
    BY <1>1, <1>v DEF LinkInv, QueueInv, CtlOutInv, QueueTypes, Vqs
  <2> QED BY <2>1, <1>v DEF LinkInv, QueueInv, Wiring, LastInv
<1>d. PICK d : d = NextDesc(ControlOut)
  OBVIOUS
<1>w. PICK w : w = UsedVq(v, d, <<>>, 0)
  OBVIOUS
<1>5. d \in Slots
  <2>1. v.used % VqSize \in Slots /\ v.ring \in [Slots -> Slots]
    BY <1>4, IdxSlot DEF IsVq
  <2> QED BY <2>1, <1>4, <1>d, <1>v DEF NextDesc
<1>6. w.old = v.old /\ w.used = (v.used + 1) % IdxMod
  <2>1. IsVq(v) /\ d \in Slots /\ <<>> \in Message /\ 0 \in Nat
    BY <1>4, <1>5 DEF Message
  <2> QED BY ONLY <2>1, <1>w, UseVq
<1>7. vq'["ctl_out"] = w /\ vq'["ctl_in"] = vq["ctl_in"]
  <2>1. vq' = [vq EXCEPT !["ctl_out"] = w]
    BY <1>4, <1>v, <1>d, <1>w DEF ControlDone, UseBuf, UsedVq
  <2> QED BY <2>1, <1>4 DEF LinkInv, QueueInv, QueueTypes, Vqs
<1>8. ~Untaken'
  <2>1. (v.old + 1) % IdxMod # v.old
    BY <1>4, IdxSlot DEF IsVq
  <2> QED BY <2>1, <1>4, <1>6, <1>7 DEF Untaken
<1>9. SamePlugs /\ SamePorts
  BY <1>1 DEF SamePlugs, SamePorts
<1>10. CASE Scanning
  <2>1. PICK h \in Idx, n \in 0 .. VqSize, s \in Message : Window(h, n) /\ s = Rest(h, n) /\ Plan(s)
    BY <1>10, TheBoard
  <2>2. Window(h, n)' /\ Held(h, n)' = Held(h, n)
    BY <2>1, <1>1, <1>7, WindowKeeps
  <2>3. s = Rest(h, n)'
    <3>1. Heads(dev.todo)' = Heads(dev.todo)
      BY <1>1, <1>3
    <3> QED BY <2>1, <2>2, <3>1 DEF Rest
  <2>4. ASSUME NEW p \in PortIds PROVE (Coming(p)' <=> Coming(p)) /\ (AnswerDue(p)' <=> AnswerDue(p))
    BY <1>1, <1>2, <1>3, <1>8 DEF Coming, AnswerDue
  <2>5. Plan(s)'
    BY <2>1, <2>4, <1>9, PlanKeeps
  <2>6. ~Scanned'
    BY <1>1, <1>2, <1>10 DEF Scanned, Scanning
  <2> QED BY <1>3, <2>2, <2>3, <2>5, <2>6 DEF BoardInv
<1>11. CASE Scanned
  <2>1. Settled'
    BY <1>1, <1>3, <1>8, <1>11 DEF BoardInv, Settled, Known
  <2>2. ~Scanning'
    BY <1>1, <1>2, <1>11 DEF Scanned, Scanning
  <2> QED BY <1>3, <2>1, <2>2 DEF BoardInv
<1> QED BY <1>2, <1>10, <1>11

\* A packet of a port; the control queues are not concerned.
LEMMA PortBoard ==
    ASSUME LinkInv, ControlInv, BoardInv, NEW p \in PortIds, PortOut(p) \/ PortIn(p)
    PROVE  BoardInv'
<1>1. PICK d \in {0, 1} : /\ HasBuf(PortQ(p) + d) /\ attached[PortQ(p) + d] # "none"
                          /\ \E data, n : UseBuf(PortQ(p) + d, data, n)
  <2>1. CASE PortOut(p)
    BY <2>1 DEF PortOut, Notified, HasBuf
  <2>2. CASE PortIn(p)
    <3>1. PortQ(p) + 0 = PortQ(p)
      BY PortQueues DEF QueueIds
    <3>2. HasBuf(PortQ(p)) /\ attached[PortQ(p)] # "none"
      BY <2>2 DEF PortIn, Notified, HasBuf
    <3>3. \E data, n : UseBuf(PortQ(p), data, n)
      BY <2>2 DEF PortIn
    <3> QED BY <3>1, <3>2, <3>3
  <2> QED BY <2>1, <2>2
<1>i. PICK id : id = PortQ(p) + d
  OBVIOUS
<1>q. PICK q : q = attached[id]
  OBVIOUS
<1>2. id \in QueueIds /\ q \in Out \ {"ctl_out"}
  BY <1>1, <1>i, <1>q, PortQueue DEF LinkInv
<1>3. pc = "io" /\ io.q = q
  BY <1>1, <1>2, <1>i, <1>q, OutBuf DEF LinkInv
<1>4. vq'["ctl_in"] = vq["ctl_in"]
  <2>1. \E w : vq' = [vq EXCEPT ![q] = w]
    BY <1>1, <1>i, <1>q DEF UseBuf
  <2>2. "ctl_in" \in Vqs /\ "ctl_in" # q
    BY <1>2 DEF Vqs, Out
  <2> QED BY <2>1, <2>2 DEF LinkInv, QueueInv, QueueTypes
<1>5. UNCHANGED <<pc, io, cur, dev, ports>> /\ SamePlugs
  <2>1. CASE PortOut(p)
    BY <2>1 DEF PortOut, SamePlugs
  <2>2. CASE PortIn(p)
    <3>1. UNCHANGED host \/ \E x : host' = [host EXCEPT !.line = x]
      BY <2>2 DEF PortIn
    <3>2. SamePlugs
      BY <3>1 DEF ControlInv, SamePlugs
    <3> QED BY <2>2, <3>2 DEF PortIn
  <2> QED BY <2>1, <2>2
<1>6. SamePorts
  BY <1>5 DEF SamePorts
<1> QED BY <1>2, <1>3, <1>4, <1>5, <1>6, WaitKeeps

(***************************************************************************)
(* The steps that have nothing to do with the control queues.              *)
(***************************************************************************)

LEMMA SameBoard ==
    ASSUME BoardInv, UNCHANGED <<pc, vq, io, cur, dev, host, ports>>
    PROVE  BoardInv'
<1>1. SamePlugs /\ SamePorts /\ (Untaken' <=> Untaken) /\ OutTok' = OutTok
  BY DEF SamePlugs, SamePorts, Untaken, OutTok
<1>2. CASE Scanning
  <2>1. ASSUME NEW p \in PortIds
        PROVE  (Coming(p)' <=> Coming(p)) /\ (AnswerDue(p)' <=> AnswerDue(p))
    BY <1>1 DEF Coming, AnswerDue, Msg
  <2>2. Scanning'
    BY <1>2 DEF Scanning
  <2> QED BY <1>1, <1>2, <2>1, <2>2, ScanKeeps
<1>3. CASE ~Scanning
  <2>1. ~Scanning' /\ (Scanned' => Scanned)
    BY <1>3 DEF Scanning, Scanned
  <2> QED BY <1>1, <2>1, LaterKeeps
<1> QED BY <1>2, <1>3

\* CPU 0 is not in control_scan, and not in a transfer on the control queue.
Away ==
    /\ pc \notin {"scan", "get", "poll", "msg", "ready"}
    /\ pc = "io" => io.q # "ctl_out" /\ io.next # "get"

LEMMA AwayBoard ==
    ASSUME BoardInv, Away', Scanned' => Scanned, SamePlugs, SamePorts,
           dev'.busy = dev.busy, dev'.todo = dev.todo, dev'.added = dev.added, dev'.dropped = dev.dropped
    PROVE  BoardInv'
<1>1. ~Scanning' /\ ~Untaken'
  BY DEF Away, Scanning, Untaken
<1> QED BY <1>1, LaterKeeps

\* boot() goes on after the scan.
LEMMA GoBoard ==
    ASSUME BoardInv, Scanned, UNCHANGED <<host, dev>>, SamePorts,
           pc' \notin {"scan", "get", "poll", "msg", "ready", "io"}
    PROVE  BoardInv'
<1>1. Away' /\ SamePlugs
  BY DEF Away, SamePlugs
<1> QED BY <1>1, AwayBoard

\* A transfer on the queue of a port starts.
LEMMA IoBoard ==
    ASSUME BoardInv, Scanned, UNCHANGED <<host, dev>>, SamePorts,
           NEW q, q # "ctl_out", NEW data, NEW n, NEW next \in IoNext \ {"get"}, StartIo(q, data, n, next)
    PROVE  BoardInv'
<1>1. (pc' = next) \/ (pc' = "io" /\ io'.q = q /\ io'.next = next)
  BY DEF StartIo
<1>2. next \notin {"scan", "get", "poll", "msg", "ready", "io"}
  BY DEF IoNext, RpmbAt
<1>3. Away' /\ SamePlugs
  BY <1>1, <1>2 DEF Away, SamePlugs
<1> QED BY <1>3, AwayBoard

\* port_open.
LEMMA OpenBoard ==
    ASSUME LinkInv, BoardInv, NEW at, NEW next, OpenPort(at, next),
           at \in {"log_open", "rpmb_open"}, next \in {"log_opened", "rpmb_opened"}
    PROVE  BoardInv'
<1>c. PICK c : c = cur
  OBVIOUS
<1>1. /\ pc = at /\ Send("ctl_out", <<Tok("PORT_OPEN", c)>>, next)
      /\ UNCHANGED <<host, dev, ports>>
  BY <1>c DEF OpenPort, consoleVars
<1>2. c \in Nat
  <2>1. c \in PortIds
    BY <1>1, <1>c DEF LinkInv, ConsoleTypes, CurTypes
  <2> QED BY <2>1, Sizes DEF PortIds
<1>t. PICK t \in Token : t = Tok("PORT_OPEN", c)
  BY <1>2 DEF Tok, Token, Kinds
<1>3. t.k = "PORT_OPEN"
  BY <1>t DEF Tok
<1>4. pc' = "io" /\ io'.next = next /\ OutTok' = t
  <2>1. Send("ctl_out", <<t>>, next) /\ pc # "io"
    BY <1>1, <1>t
  <2> QED BY <2>1, SentToken
<1>5. ~Scanning' /\ Scanned /\ SamePlugs /\ SamePorts
  BY <1>1, <1>4 DEF Scanning, Scanned, SamePlugs, SamePorts
<1> QED BY <1>1, <1>3, <1>4, <1>5, LaterKeeps

LEMMA BoardInit ==
    ASSUME Init
    PROVE  BoardInv
<1>1. /\ pc = "start"
      /\ dev = [features |-> {}, ok |-> FALSE, busy |-> FALSE, added |-> MaxPorts,
                todo |-> <<>>, open |-> {}, dropped |-> FALSE]
  BY DEF Init
<1>2. ~Scanning /\ ~Scanned
  BY <1>1 DEF Scanning, Scanned
<1> QED BY <1>1, <1>2 DEF BoardInv

\* init_virtio_console up to control_setup.
LEMMA ProbeBoard ==
    ASSUME LinkInv, BoardInv, Probe \/ Negotiate \/ BootArm64
    PROVE  BoardInv'
<1>1. /\ pc' \in {"probe", "negotiate", "setup", "assert", "error", "hung"} /\ UNCHANGED <<host, ports>>
      /\ UNCHANGED dev \/ dev' = [dev EXCEPT !.features = SetFeatures(Desired)]
  BY DEF Probe, Negotiate, BootArm64, LogNowhere, Go, consoleVars
<1>2. Away' /\ ~Scanned' /\ SamePlugs /\ SamePorts
  BY <1>1 DEF Away, Scanned, SamePlugs, SamePorts
<1>3. dev'.busy = dev.busy /\ dev'.todo = dev.todo /\ dev'.added = dev.added /\ dev'.dropped = dev.dropped
  BY <1>1 DEF LinkInv, ConsoleTypes, DevTypes
<1> QED BY <1>2, <1>3, AwayBoard

LEMMA ConsoleInitBoard ==
    ASSUME LinkInv, LinkInv', ControlInv, BoardInv, ConsoleInit
    PROVE  BoardInv'
<1>1. CASE Probe \/ Negotiate
  BY <1>1, ProbeBoard
<1>2. CASE ControlSetup \/ Scan \/ PortReady
  BY <1>2, SetupBoard, ScanBoard, ReadyBoard
<1>3. CASE (GetMsg \/ PollMsg) /\ TakeMsg
  <2>1. pc \in {"get", "poll"} /\ UNCHANGED <<host, dev, ports>>
    BY <1>3 DEF GetMsg, PollMsg
  <2> QED BY <2>1, <1>3, TakeBoard
<1>4. CASE (GetMsg \/ PollMsg) /\ ~TakeMsg
  <2>1. \/ pc = "get" /\ pc' = "poll" /\ UNCHANGED <<vq, cur, host, dev, ports>>
        \/ pc = "poll" /\ pc' = "scanned" /\ ~VqReady(vq["ctl_in"]) /\ UNCHANGED <<vq, cur, host, dev, ports>>
    BY <1>4 DEF GetMsg, PollMsg
  <2> QED BY <2>1, LookBoard, ScannedBoard
<1>5. ASSUME NEW e \in Events, HandleMsg(e) PROVE BoardInv'
  BY <1>5, HandleBoard
<1> QED BY <1>1, <1>2, <1>3, <1>4, <1>5 DEF ConsoleInit

LEMMA HostBoard ==
    ASSUME LinkInv, ControlInv, BoardInv, HostStep
    PROVE  BoardInv'
<1>1. CASE ControlTake
  BY <1>1, AnswerBoard, OpenedBoard
<1>2. CASE ControlAdd
  BY <1>2, AddBoard
<1>3. CASE ControlSend \/ ControlDone
  BY <1>3, SendBoard, DoneBoard
<1>4. CASE RpmbExecute
  BY <1>4, SameBoard DEF RpmbExecute, queueVars
<1>5. ASSUME NEW p \in PortIds, PortOut(p) \/ PortIn(p) PROVE BoardInv'
  BY <1>5, PortBoard
<1> QED BY <1>1, <1>2, <1>3, <1>4, <1>5 DEF HostStep

\* The log, the RPMB port and the ports' connections.
LEMMA CallBoard ==
    ASSUME LinkInv, ControlInv, BoardInv,
           LogChunk \/ RpmbStep \/ RpmbEnd \/ StorageRequest \/ LogOpened \/ RpmbOpened
    PROVE  BoardInv'
<1>1. CASE LogChunk
  <2>1. /\ pc = "log" /\ log.next \in LogNext /\ UNCHANGED <<host, dev, ports>>
        /\ \/ pc' = log.next
           \/ \E data : Send("log_out", data, "log")
    BY <1>1 DEF LogChunk, ControlInv, Inner
  <2>2. Scanned /\ SamePorts /\ "log" \in IoNext \ {"get"}
    BY <2>1 DEF Scanned, SamePorts, IoNext
  <2>3. CASE pc' = log.next
    <3>1. pc' \notin {"scan", "get", "poll", "msg", "ready", "io"}
      BY <2>1, <2>3 DEF LogNext
    <3> QED BY <3>1, <2>1, <2>2, GoBoard
  <2>4. ASSUME NEW data, Send("log_out", data, "log") PROVE BoardInv'
    <3>1. StartIo("log_out", data, Len(data), "log")
      BY <2>4 DEF Send
    <3> QED BY <3>1, <2>1, <2>2, IoBoard
  <2> QED BY <2>1, <2>3, <2>4
<1>2. CASE RpmbStep \/ StorageRequest
  <2>1. /\ pc \in {"rpmb_count", "rpmb_rel", "rpmb_write", "rpmb_read"} \cup Polling
        /\ UNCHANGED <<host, dev, ports>>
        /\ \/ \E data : \E next \in RpmbAt : Send("rpmb_out", data, next)
           \/ \E n : \E next \in RpmbAt : Recv("rpmb_in", n, next)
    <3>1. {"rpmb_count", "rpmb_rel", "rpmb_write", "rpmb_read", "rpmb_end"} \subseteq RpmbAt
      BY DEF RpmbAt
    <3>2. CASE RpmbStep
      BY <3>1, <3>2 DEF RpmbStep, consoleVars
    <3>3. CASE StorageRequest
      <4>1. PICK c \in Cmds : RpmbSend(c, pc) /\ pc \in Polling
        BY <3>3 DEF StorageRequest
      <4>d. PICK data : data = <<Tok("u16", c.read)>>
        OBVIOUS
      <4>2. Send("rpmb_out", data, "rpmb_count") /\ UNCHANGED <<host, dev, ports>>
        BY <4>1, <4>d DEF RpmbSend
      <4> QED BY <4>1, <4>2, <3>1
    <3> QED BY <1>2, <3>2, <3>3
  <2>2. Scanned /\ SamePorts /\ RpmbAt \subseteq IoNext \ {"get"}
    BY <2>1 DEF Scanned, SamePorts, IoNext, RpmbAt, Polling
  <2>3. ASSUME NEW data, NEW next \in RpmbAt, Send("rpmb_out", data, next) PROVE BoardInv'
    BY <2>1, <2>2, <2>3, IoBoard DEF Send
  <2>4. ASSUME NEW n, NEW next \in RpmbAt, Recv("rpmb_in", n, next) PROVE BoardInv'
    BY <2>1, <2>2, <2>4, IoBoard DEF Recv
  <2> QED BY <2>1, <2>3, <2>4
<1>3. CASE RpmbEnd
  <2>1. pc = "rpmb_end" /\ pc' \in {rpmb.next, "assert"} /\ UNCHANGED <<host, dev, ports>>
    BY <1>3 DEF RpmbEnd
  <2>2. rpmb.next \in Polling
    BY <2>1 DEF ControlInv, Inner, RpmbAt
  <2>3. Scanned /\ SamePorts /\ pc' \notin {"scan", "get", "poll", "msg", "ready", "io"}
    BY <2>1, <2>2 DEF Scanned, SamePorts, Polling
  <2> QED BY <2>1, <2>3, GoBoard
<1>4. CASE LogOpened \/ RpmbOpened
  <2>1. /\ pc \in {"log_opened", "rpmb_opened"} /\ PortOpened /\ UNCHANGED <<host, dev>>
        /\ pc' = "proxy" \/ \E n : StartIo("log_in", <<>>, n, "cmdline")
    BY <1>4 DEF LogOpened, RpmbOpened, Recv
  <2>2. SamePorts
    <3>1. ports = [p \in PortIds |-> [host |-> ports[p].host, guest |-> ports[p].guest, name |-> ports[p].name]]
      BY DEF LinkInv, ConsoleTypes, PortTypes
    <3>2. ports' = [ports EXCEPT ![cur].guest = TRUE]
      BY <2>1 DEF PortOpened
    <3> QED BY <3>1, <3>2 DEF SamePorts
  <2>3. Scanned /\ "cmdline" \in IoNext \ {"get"}
    BY <2>1 DEF Scanned, IoNext
  <2>4. CASE pc' = "proxy"
    BY <2>1, <2>2, <2>3, <2>4, GoBoard
  <2>5. ASSUME NEW n, StartIo("log_in", <<>>, n, "cmdline") PROVE BoardInv'
    BY <2>1, <2>2, <2>3, <2>5, IoBoard
  <2> QED BY <2>1, <2>4, <2>5
<1> QED BY <1>1, <1>2, <1>3, <1>4

\* Steps of boot() between the calls.
LEMMA MovesBoard ==
    ASSUME BoardInv, pc \in Between \ {"start"}, Moves(Goals) \/ Abort
    PROVE  BoardInv'
<1>1. Scanned
  BY DEF Between, Scanned
<1>2. ASSUME NEW next \in Goals, Go(next) PROVE BoardInv'
  <2>1. pc' \notin {"scan", "get", "poll", "msg", "ready", "io"} /\ UNCHANGED <<host, dev>> /\ SamePorts
    BY <1>2 DEF Goals, Go, consoleVars, SamePorts
  <2> QED BY <1>1, <2>1, GoBoard
<1>3. ASSUME NEW text, NEW next, LogBuf(text, next) PROVE BoardInv'
  <2>1. pc' = "log" /\ UNCHANGED <<host, dev>> /\ SamePorts
    BY <1>3 DEF LogBuf, SamePorts
  <2> QED BY <1>1, <2>1, GoBoard
<1>4. CASE Abort
  <2>1. UNCHANGED <<host, dev>> /\ SamePorts /\ \E data : Send("log_out", data, "astray")
    BY <1>4 DEF Abort, HostExit, SamePorts
  <2>2. "astray" \in IoNext \ {"get"}
    BY DEF IoNext
  <2> QED BY <1>1, <2>1, <2>2, IoBoard DEF Send
<1>5. CASE \E name \in Texts : \E next \in LogNext : LogMsg(name, next)
  BY <1>5, <1>3 DEF LogMsg
<1> QED BY <1>2, <1>4, <1>5 DEF Moves

LEMMA BoardSteps ==
    ASSUME LinkInv, LinkInv', RunInv, BoardInv, [Next]_vars
    PROVE  BoardInv'
<1>1. ControlInv
  BY DEF RunInv
<1>2. CASE ConsoleInit
  BY <1>1, <1>2, ConsoleInitBoard
<1>3. CASE UNCHANGED vars \/ Secondary
  <2>1. UNCHANGED <<pc, vq, io, cur, dev, host, ports>>
    <3>1. CASE UNCHANGED vars
      BY <3>1 DEF vars, queueVars, consoleVars
    <3>2. CASE Secondary
      BY <3>2 DEF Secondary, SecondaryStart, queueVars, consoleVars
    <3> QED BY <1>3, <3>1, <3>2
  <2> QED BY <2>1, SameBoard
<1>4. CASE DriverIo /\ UNCHANGED <<consoleVars, bootVars>>
  BY <1>1, <1>4, PublishBoard, FinishBoard DEF DriverIo
<1>5. CASE LogChunk \/ RpmbStep \/ RpmbEnd \/ StorageRequest \/ LogOpened \/ RpmbOpened
  BY <1>1, <1>5, CallBoard
<1>6. CASE OpenPort("log_open", "log_opened") \/ OpenPort("rpmb_open", "rpmb_opened")
  BY <1>6, OpenBoard
<1>7. CASE Host
  BY <1>1, <1>7, HostBoard DEF Host
<1>8. CASE InitLog \/ InitRpmb
  <2>1. /\ pc \in {"scanned", "rpmb_scan"} /\ UNCHANGED <<host, dev, ports>>
        /\ pc' \in {"error", "assert", "log", "log_open", "rpmb_open"}
    BY <1>8 DEF InitLog, InitRpmb, ConnectPort, Go, LogMsg, LogBuf, consoleVars
  <2>2. Scanned /\ SamePorts
    BY <2>1 DEF Scanned, SamePorts
  <2> QED BY <2>1, <2>2, GoBoard
<1>9. CASE Astray
  <2>1. pc' \in {"error", "hung"} /\ UNCHANGED <<host, dev, ports>>
    BY <1>9 DEF Astray, LogNowhere, consoleVars
  <2>2. CASE pc = "astray"
    <3>1. Scanned /\ SamePorts
      BY <2>1, <2>2 DEF Scanned, SamePorts
    <3> QED BY <2>1, <3>1, GoBoard
  <2>3. CASE pc = "assert"
    <3>1. Away' /\ ~Scanned' /\ SamePlugs /\ SamePorts
      BY <2>1 DEF Away, Scanned, SamePlugs, SamePorts
    <3>2. dev'.busy = dev.busy /\ dev'.todo = dev.todo /\ dev'.added = dev.added /\ dev'.dropped = dev.dropped
      BY <2>1
    <3> QED BY <3>1, <3>2, AwayBoard
  <2> QED BY <1>9, <2>2, <2>3 DEF Astray
<1>10. CASE ReportStatus
  <2>1. pc = "exit" /\ UNCHANGED <<host, dev, ports>> /\ \E data : Send("log_out", data, "error")
    BY <1>10 DEF ReportStatus, HostExit
  <2>2. Scanned /\ SamePorts /\ "error" \in IoNext \ {"get"}
    BY <2>1 DEF Scanned, SamePorts, IoNext
  <2> QED BY <2>1, <2>2, IoBoard DEF Send
<1>11. CASE RecvResultByte \/ WaitForClose
  <2>1. /\ pc \in {"recv", "close"} /\ UNCHANGED <<host, dev, ports>>
        /\ pc' \in {"log", "close", "error", "exit"}
    BY <1>11 DEF RecvResultByte, WaitForClose, ExitAfter, LogMsg, LogBuf, Go, consoleVars
  <2>2. Scanned /\ SamePorts
    BY <2>1 DEF Scanned, SamePorts
  <2> QED BY <2>1, <2>2, GoBoard
<1>12. CASE BootArm64
  BY <1>12, ProbeBoard
<1>13. CASE \/ GetCmdline \/ BootNext \/ CpuOn \/ CpuWait \/ CpuLook \/ WfeReturns
            \/ Libtipc /\ ~RecvResultByte /\ ~WaitForClose
  <2>1. pc \in Between /\ (Moves(Goals \ {"close", "exit"}) \/ Abort)
    BY <1>13, PlainMoves
  <2>2. Moves(Goals) \/ Abort
    BY <2>1 DEF Moves
  <2>3. CASE pc = "start"
    <3>1. BootArm64
      BY <1>13, <2>3
         DEF GetCmdline, BootNext, CpuOn, CpuWait, CpuLook, WfeReturns, Libtipc, DevInit, DevCreate, Call,
             SetBootParams, GetDiceArtifacts, CheckSize, NsDeprivilege, Shutdown
    <3> QED BY <3>1, ProbeBoard
  <2>4. CASE pc # "start"
    BY <2>1, <2>2, <2>4, MovesBoard
  <2> QED BY <2>3, <2>4
<1> QED BY <1>2, <1>3, <1>4, <1>5, <1>6, <1>7, <1>8, <1>9, <1>10, <1>11, <1>12, <1>13 DEF Next, Boot, Console

(***************************************************************************)
(* The theorems.                                                           *)
(***************************************************************************)

\* What the driver has heard of every port, what is on the way to it and what the
\* host has yet to say fit together in every reachable state of control_scan, and
\* after it nothing is left to say.
THEOREM BoardInvariance == Spec => []BoardInv
<1>1. Init => BoardInv
  BY BoardInit
<1>2. BoardInv /\ LinkInv /\ LinkInv' /\ RunInv /\ [Next]_vars => BoardInv'
  BY BoardSteps
<1> QED BY <1>1, <1>2, RunInvariance, LinkInvariance, PTL DEF Spec

\* The 2 * MAX_PORTS buffers control_setup gives to the device are enough for all
\* the host has to say: no announcement of a port, no name and no answer to
\* port_ready is dropped, on any machine and however late the driver takes a
\* message out of its buffer.
THEOREM NothingDropped == Spec => []NoneDropped
<1>1. BoardInv => NoneDropped
  BY DEF BoardInv, NoneDropped
<1> QED BY <1>1, BoardInvariance, PTL

\* When control_scan has looked at the queue twice and found no message, console.ports
\* has the ports that are plugged in, with their names, and no port that was removed
\* or never there.
THEOREM PortsFound == Spec => []PortsKnown
<1>1. BoardInv => PortsKnown
  BY DEF BoardInv, Settled, Known, PortsKnown
<1> QED BY <1>1, BoardInvariance, PTL

(***************************************************************************)
(* The RPMB port.  A command goes to the device in four parts; those of    *)
(* commands that read nothing may pile up in front of the device.          *)
(***************************************************************************)

\* rpmb_storage_send is running.
Storing == Inner \in RpmbAt

FrameLen(c) == 2 + c.rel + c.write
RelBlocks(c) == [i \in 1 .. c.rel |-> Tok("rel", i)]
WriteBlocks(c) == [i \in 1 .. c.write |-> Tok("write", i)]

\* The parts of the command that send_vq has not been called for.
Unsent ==
    LET c == rpmb.cmd
    IN  IF Inner = "rpmb_count" THEN <<Tok("u16", CmdCount(c))>> \o (RelBlocks(c) \o WriteBlocks(c))
        ELSE IF Inner = "rpmb_rel" THEN RelBlocks(c) \o WriteBlocks(c)
        ELSE IF Inner = "rpmb_write" THEN WriteBlocks(c) ELSE <<>>

\* The part the device has not taken from the queue yet.
Packet ==
    LET v == vq["rpmb_out"]
    IN  IF pc = "io" /\ io.q = "rpmb_out" /\ v.used = v.old THEN v.desc[v.old % VqSize].data ELSE <<>>

\* The commands that were issued and not executed, and all that is left of them.
Queued == SubSeq(rpmb.issued, Len(rpmb.executed) + 1, Len(rpmb.issued))
Pending == (rpmb.stream \o Packet) \o Unsent

\* all is the frames of the commands, the k-th of them up to cut[k].
Framed(all, cmds, cut) ==
    /\ cut \in [0 .. Len(cmds) -> Nat] /\ cut[0] = 0 /\ cut[Len(cmds)] = Len(all)
    /\ \A j, k \in 0 .. Len(cmds) : j <= k => cut[j] <= cut[k]
    /\ \A k \in 1 .. Len(cmds) :
          /\ cut[k] = cut[k - 1] + FrameLen(cmds[k])
          /\ \A i \in 1 .. FrameLen(cmds[k]) : all[cut[k - 1] + i] = Frame(cmds[k])[i]

\* The device has used the buffer for the answer.
Answered ==
    \/ pc = "rpmb_end"
    \/ pc = "io" /\ io.q = "rpmb_in" /\ vq["rpmb_in"].used # vq["rpmb_in"].old

Executed == Len(rpmb.executed)
Issued == Len(rpmb.issued)

StreamInv ==
    /\ rpmb.issued \in Seq(Cmds) /\ Executed <= Issued
    /\ \E cut : Framed(Pending, Queued, cut)

\* Only the running call may wait for an answer.
CallInv ==
    /\ pc = "io" => /\ io.q = "rpmb_in" <=> io.next = "rpmb_end"
                    /\ io.q = "rpmb_out" <=> io.next \in RpmbAt \ {"rpmb_end"}
    /\ IF Storing THEN Issued > 0 /\ rpmb.cmd = rpmb.issued[Issued] ELSE rpmb.cmd = NoCmd
    /\ \A k \in Executed + 1 .. Issued : rpmb.issued[k].read > 0 => k = Issued /\ Storing

\* The answer is on its way to the running call, whole, in one place.
AnswerInv ==
    LET v == vq["rpmb_in"]
        b == v.desc[v.old % VqSize]
        whole == Blocks(rpmb.cmd, Executed)
    IN  /\ v.raw => v.write
        /\ rpmb.reply # <<>> => Storing /\ ~Answered /\ Executed = Issued /\ rpmb.reply = whole
        /\ Answered /\ rpmb.cmd.read > 0 => Executed = Issued
        /\ pc = "io" /\ io.q = "rpmb_in" =>
              /\ rpmb.cmd.read > 0 /\ b.len = rpmb.cmd.read
              /\ IF Answered THEN b.data = whole /\ UsedLen(v) = rpmb.cmd.read ELSE b.data = <<>>
        /\ pc = "rpmb_end" /\ rpmb.cmd.read > 0 => got = whole

RpmbInv == StreamInv /\ CallInv /\ AnswerInv

(***************************************************************************)
(* Frames.                                                                 *)
(***************************************************************************)

LEMMA Command ==
    ASSUME NEW c \in Cmds \cup {NoCmd}
    PROVE  c.rel \in Nat /\ c.write \in Nat /\ c.read \in Nat /\ FrameLen(c) \in Nat /\ FrameLen(c) >= 2
<1>1. c.rel \in Nat /\ c.write \in Nat /\ c.read \in Nat
  BY CmdNumbers
<1> QED BY <1>1 DEF FrameLen

LEMMA BlocksSeq ==
    ASSUME NEW c \in Cmds \cup {NoCmd}, NEW n \in Nat
    PROVE  /\ Blocks(c, n) \in Message /\ Len(Blocks(c, n)) = c.read
           /\ SubSeq(Blocks(c, n), 1, c.read) = Blocks(c, n) /\ (Blocks(c, n) = <<>> <=> c.read = 0)
<1>1. c.read \in Nat /\ Tok("block", n) \in Token
  BY Command DEF Tok, Token, Kinds
<1>2. Blocks(c, n) \in Seq(Token) /\ Len(Blocks(c, n)) = c.read
  BY <1>1 DEF Blocks
<1>3. SubSeq(Blocks(c, n), 1, Len(Blocks(c, n))) = Blocks(c, n)
  BY <1>2, SubSeqFull
<1>4. Blocks(c, n) = <<>> <=> c.read = 0
  BY <1>1, <1>2, EmptySeq
<1> QED BY <1>2, <1>3, <1>4 DEF Message

LEMMA PartsSeq ==
    ASSUME NEW c \in Cmds \cup {NoCmd}
    PROVE  /\ RelBlocks(c) \in Message /\ Len(RelBlocks(c)) = c.rel
           /\ WriteBlocks(c) \in Message /\ Len(WriteBlocks(c)) = c.write
           /\ Tok("u16", c.read) \in Token /\ Tok("u16", CmdCount(c)) \in Token
           /\ <<Tok("u16", c.read)>> \in Message /\ <<Tok("u16", CmdCount(c))>> \in Message
<1>1. c.rel \in Nat /\ c.write \in Nat /\ c.read \in Nat /\ {"u16", "rel", "write"} \subseteq Kinds
  BY Command DEF Kinds
<1>2. \A i \in 1 .. c.rel : Tok("rel", i) \in Token
  BY <1>1 DEF Tok, Token
<1>3. \A i \in 1 .. c.write : Tok("write", i) \in Token
  BY <1>1 DEF Tok, Token
<1>4. RelBlocks(c) \in Seq(Token) /\ Len(RelBlocks(c)) = c.rel
  BY <1>1, <1>2 DEF RelBlocks
<1>5. WriteBlocks(c) \in Seq(Token) /\ Len(WriteBlocks(c)) = c.write
  BY <1>1, <1>3 DEF WriteBlocks
<1>6. Tok("u16", c.read) \in Token /\ Tok("u16", CmdCount(c)) \in Token
  BY <1>1 DEF Tok, Token, CmdCount
<1>7. \A t \in Token : <<t>> \in Seq(Token)
  OBVIOUS
<1> QED BY <1>4, <1>5, <1>6, <1>7 DEF Message

LEMMA TwoTokens ==
    ASSUME NEW a \in Token, NEW b \in Token
    PROVE  /\ <<a>> \in Seq(Token) /\ <<b>> \in Seq(Token) /\ <<a, b>> \in Seq(Token) /\ <<a>> \o <<b>> = <<a, b>>
           /\ Len(<<a, b>>) = 2 /\ <<a, b>>[1] = a /\ <<a, b>>[2] = b
<1>1. <<a>> \in Seq(Token) /\ <<b>> \in Seq(Token) /\ <<a, b>> \in Seq(Token)
  OBVIOUS
<1>2. Len(<<a, b>>) = 2 /\ <<a, b>>[1] = a /\ <<a, b>>[2] = b
  OBVIOUS
<1>p. PICK p \in Seq(Token) : p = <<a, b>> /\ Len(p) = 2 /\ p[1] = a /\ p[2] = b
  BY <1>1, <1>2
<1>x. PICK x \in Seq(Token) : x = <<a>> /\ Len(x) = 1 /\ x[1] = a
  BY OneToken
<1>y. PICK y \in Seq(Token) : y = <<b>> /\ Len(y) = 1 /\ y[1] = b
  BY OneToken
<1>3. x \o y \in Seq(Token) /\ Len(x \o y) = 2 /\ (x \o y)[1] = a /\ (x \o y)[2] = b
  <2>1. /\ x \o y \in Seq(Token) /\ Len(x \o y) = Len(x) + Len(y)
        /\ \A i \in 1 .. Len(x) + Len(y) : (x \o y)[i] = IF i <= Len(x) THEN x[i] ELSE y[i - Len(x)]
    BY ONLY x \in Seq(Token), y \in Seq(Token), ConcatProperties
  <2>2. Len(x) = 1 /\ x[1] = a /\ Len(y) = 1 /\ y[1] = b
    BY <1>x, <1>y
  <2> QED BY ONLY <2>1, <2>2
<1>4. \A i \in 1 .. Len(p) : (x \o y)[i] = p[i]
  <2>1. \A i \in 1 .. 2 : i = 1 \/ i = 2
    OBVIOUS
  <2> QED BY <2>1, <1>3, <1>p
<1>5. x \o y = p
  <2>1. Len(p) = Len(x \o y) /\ \A i \in 1 .. Len(x \o y) : (x \o y)[i] = p[i]
    BY <1>3, <1>4, <1>p
  <2> QED BY ONLY <2>1, <1>3, p \in Seq(Token), SeqEqual
<1> QED BY <1>1, <1>2, <1>5, <1>p, <1>x, <1>y

\* The four parts are the frame.
LEMMA FrameParts ==
    ASSUME NEW c \in Cmds \cup {NoCmd}
    PROVE  /\ Frame(c) \in Message /\ Len(Frame(c)) = FrameLen(c)
           /\ Frame(c)[1] = Tok("u16", c.read) /\ Frame(c)[2] = Tok("u16", CmdCount(c))
           /\ Frame(c) = <<Tok("u16", c.read)>>
                         \o (<<Tok("u16", CmdCount(c))>> \o (RelBlocks(c) \o WriteBlocks(c)))
<1> DEFINE a == Tok("u16", c.read)
           b == Tok("u16", CmdCount(c))
           r == RelBlocks(c)
           w == WriteBlocks(c)
<1>1. /\ a \in Token /\ b \in Token /\ r \in Seq(Token) /\ w \in Seq(Token)
      /\ Len(r) = c.rel /\ Len(w) = c.write /\ c.rel \in Nat /\ c.write \in Nat
  BY PartsSeq, Command DEF Message
<1>2. Frame(c) = (<<a, b>> \o r) \o w
  BY DEF Frame, RelBlocks, WriteBlocks, CmdCount
<1> HIDE DEF a, b, r, w
<1>3. <<a>> \in Seq(Token) /\ <<b>> \in Seq(Token) /\ <<a>> \o <<b>> = <<a, b>> /\ <<a, b>> \in Seq(Token)
  BY <1>1, TwoTokens
<1>4. r \o w \in Seq(Token) /\ <<a, b>> \o r \in Seq(Token)
  BY <1>1, <1>3, ConcatProperties
<1>5. (<<a, b>> \o r) \o w = <<a, b>> \o (r \o w)
  BY <1>1, <1>3, ConcatAssociative
<1>6. (<<a>> \o <<b>>) \o (r \o w) = <<a>> \o (<<b>> \o (r \o w))
  BY <1>3, <1>4, ConcatAssociative
<1>7. /\ Frame(c) \in Seq(Token) /\ Len(Frame(c)) = 2 + c.rel + c.write
      /\ Frame(c)[1] = a /\ Frame(c)[2] = b
  <2>p. PICK p : p = <<a, b>>
    OBVIOUS
  <2>1. p \in Seq(Token) /\ Len(p) = 2 /\ p[1] = a /\ p[2] = b
    BY <1>1, <2>p, TwoTokens
  <2>q. PICK q : q = r \o w
    OBVIOUS
  <2>2. q \in Seq(Token) /\ Len(q) = c.rel + c.write
    BY <1>1, <2>q, ConcatProperties
  <2>3. Frame(c) = p \o q
    BY <1>2, <1>5, <2>p, <2>q
  <2>4. /\ p \o q \in Seq(Token) /\ Len(p \o q) = Len(p) + Len(q)
        /\ \A i \in 1 .. Len(p) + Len(q) : (p \o q)[i] = IF i <= Len(p) THEN p[i] ELSE q[i - Len(p)]
    BY ONLY <2>1, <2>2, ConcatProperties
  <2>5. Len(p \o q) = 2 + c.rel + c.write /\ (p \o q)[1] = a /\ (p \o q)[2] = b
    BY ONLY <2>1, <2>2, <2>4, <1>1
  <2> QED BY ONLY <2>3, <2>4, <2>5
<1>8. Frame(c) = <<a>> \o (<<b>> \o (r \o w))
  BY <1>2, <1>3, <1>5, <1>6
<1> QED BY <1>7, <1>8 DEF a, b, r, w, FrameLen, Message

\* One more command is on the way.
LEMMA FramedAdd ==
    ASSUME NEW all \in Message, NEW cmds \in Seq(Cmds), NEW cut, Framed(all, cmds, cut), NEW c \in Cmds
    PROVE  \E cut2 : Framed(all \o Frame(c), Append(cmds, c), cut2)
<1>n. PICK n \in Nat : n = Len(cmds)
  BY LenProperties
<1>l. PICK l \in Nat : l = Len(all)
  BY LenProperties DEF Message
<1>m. PICK m \in Nat : m = FrameLen(c)
  BY Command
<1>f. PICK f \in Seq(Token) : f = Frame(c) /\ Len(f) = m
  BY <1>m, FrameParts DEF Message
<1>a. PICK al \in Seq(Token) : al = all /\ Len(al) = l
  BY <1>l DEF Message
<1>x. PICK x : x = al \o f
  OBVIOUS
<1>y. PICK y : y = Append(cmds, c)
  OBVIOUS
<1>1. /\ Len(x) = l + m /\ \A i \in 1 .. l : x[i] = al[i]
      /\ \A i \in 1 .. m : x[l + i] = f[i]
  <2>1. Len(al \o f) = Len(al) + Len(f) /\ \A i \in 1 .. Len(al) + Len(f) : (al \o f)[i] = IF i <= Len(al) THEN al[i] ELSE f[i - Len(al)]
    BY ONLY al \in Seq(Token), f \in Seq(Token), ConcatProperties
  <2>2. Len(x) = l + m /\ \A i \in 1 .. l + m : x[i] = IF i <= l THEN al[i] ELSE f[i - l]
    BY ONLY <2>1, <1>x, <1>a, <1>f
  <2>3. ASSUME NEW i \in 1 .. l PROVE x[i] = al[i]
    <3>1. i \in 1 .. l + m /\ i <= l
      OBVIOUS
    <3> QED BY <3>1, <2>2
  <2>4. ASSUME NEW i \in 1 .. m PROVE x[l + i] = f[i]
    <3>1. l + i \in 1 .. l + m /\ ~(l + i <= l) /\ (l + i) - l = i
      OBVIOUS
    <3> QED BY <3>1, <2>2
  <2> QED BY <2>2, <2>3, <2>4
<1>2. Len(y) = n + 1 /\ y[n + 1] = c /\ \A k \in 1 .. n : y[k] = cmds[k]
  BY <1>n, <1>y
<1>3. /\ cut \in [0 .. n -> Nat] /\ cut[0] = 0 /\ cut[n] = l
      /\ \A j, k \in 0 .. n : j <= k => cut[j] <= cut[k]
      /\ \A k \in 1 .. n : /\ cut[k] = cut[k - 1] + FrameLen(cmds[k])
                           /\ \A i \in 1 .. FrameLen(cmds[k]) : al[cut[k - 1] + i] = Frame(cmds[k])[i]
  BY <1>n, <1>l, <1>a DEF Framed
<1> DEFINE cut2 == [k \in 0 .. n + 1 |-> IF k <= n THEN cut[k] ELSE l + m]
<1>4. /\ cut2 \in [0 .. n + 1 -> Nat] /\ cut2[n + 1] = l + m /\ \A k \in 0 .. n : cut2[k] = cut[k]
      /\ \A k \in 0 .. n : cut[k] \in Nat /\ cut[k] <= l
  BY <1>3
<1> HIDE DEF cut2
<1>5. ASSUME NEW j \in 0 .. n + 1, NEW k \in 0 .. n + 1, j <= k PROVE cut2[j] <= cut2[k]
  <2>1. CASE k \in 0 .. n
    BY SMTT(30), <2>1, <1>3, <1>4, <1>5
  <2>2. CASE k = n + 1
    <3>1. j = n + 1 \/ j \in 0 .. n
      OBVIOUS
    <3>2. cut2[k] = l + m /\ l <= l + m
      BY <2>2, <1>4
    <3>3. CASE j \in 0 .. n
      <4>1. cut2[j] \in Nat /\ cut2[j] <= l
        BY <3>3, <1>4
      <4> QED BY ONLY <3>2, <4>1, l \in Nat, m \in Nat
    <3>4. CASE j = n + 1
      BY <3>2, <3>4, <2>2
    <3> QED BY <3>1, <3>3, <3>4
  <2> QED BY <2>1, <2>2
<1>6. ASSUME NEW k \in 1 .. n + 1
      PROVE  /\ cut2[k] = cut2[k - 1] + FrameLen(y[k])
             /\ \A i \in 1 .. FrameLen(y[k]) : x[cut2[k - 1] + i] = Frame(y[k])[i]
  <2>1. CASE k \in 1 .. n
    <3>d. PICK d \in Cmds : d = cmds[k] /\ d = y[k]
      BY <2>1, <1>2, <1>n, ElementOfSeq
    <3>1. FrameLen(d) \in Nat
      BY Command
    <3>2. k \in 0 .. n /\ k - 1 \in 0 .. n
      BY <2>1
    <3>3. cut[k] = cut[k - 1] + FrameLen(d) /\ \A i \in 1 .. FrameLen(d) : al[cut[k - 1] + i] = Frame(d)[i]
      BY <2>1, <3>d, <1>3
    <3>4. ASSUME NEW i \in 1 .. FrameLen(d) PROVE x[cut[k - 1] + i] = Frame(d)[i]
      <4>0. cut[k - 1] \in Nat /\ cut[k] \in Nat /\ cut[k] <= l
        BY <3>2, <1>4
      <4>1. cut[k - 1] + i \in 1 .. l
        <5>1. PICK a \in Nat, b \in Nat : a = cut[k - 1] /\ b = FrameLen(d)
          BY <4>0, <3>1
        <5>2. a + b <= l /\ i \in 1 .. b
          BY <3>3, <4>0, <5>1
        <5>3. a + i \in 1 .. l
          BY ONLY <5>2, a \in Nat, b \in Nat, l \in Nat
        <5> QED BY <5>1, <5>3
      <4> QED BY <4>1, <3>3, <1>1
    <3> QED BY <3>2, <3>3, <3>4, <3>d, <1>4
  <2>2. CASE k = n + 1
    <3>1. y[k] = c /\ cut2[k] = l + m /\ cut2[k - 1] = l /\ FrameLen(y[k]) = m /\ Frame(y[k]) = f
      BY <2>2, <1>2, <1>3, <1>4, <1>m, <1>f
    <3> QED BY <3>1, <1>1
  <2> QED BY <2>1, <2>2
<1>7. Framed(x, y, cut2)
  BY <1>1, <1>2, <1>3, <1>4, <1>5, <1>6 DEF Framed
<1> QED BY <1>7, <1>x, <1>y, <1>a, <1>f

\* The device reads as many blocks as the second word says: they are the oldest command.
LEMMA FramedTake ==
    ASSUME NEW s \in Message, NEW t \in Message, NEW cmds \in Seq(Cmds), NEW cut, Framed(s \o t, cmds, cut),
           Len(s) >= 2, Len(s) >= 2 + s[2].v
    PROVE  /\ cmds # <<>> /\ Len(cmds) >= 1 /\ cmds[1] \in Cmds /\ s[1].v = cmds[1].read
           /\ SubSeq(s, 1, 2 + s[2].v) = Frame(cmds[1])
           /\ SubSeq(s, 3 + s[2].v, Len(s)) \in Message
           /\ \E cut2 : Framed(SubSeq(s, 3 + s[2].v, Len(s)) \o t, Tail(cmds), cut2)
<1>n. PICK n \in Nat : n = Len(cmds)
  BY LenProperties
<1>l. PICK l \in Nat : l = Len(s)
  BY LenProperties DEF Message
<1>k. PICK e \in Nat : e = Len(t)
  BY LenProperties DEF Message
<1>x. PICK x : x = s \o t
  OBVIOUS
<1>1. /\ Len(x) = l + e /\ \A i \in 1 .. l : x[i] = s[i]
      /\ \A i \in 1 .. e : x[l + i] = t[i]
  <2>0. s \in Seq(Token) /\ t \in Seq(Token)
    BY DEF Message
  <2>1. Len(s \o t) = Len(s) + Len(t) /\ \A i \in 1 .. Len(s) + Len(t) : (s \o t)[i] = IF i <= Len(s) THEN s[i] ELSE t[i - Len(s)]
    BY ONLY <2>0, ConcatProperties
  <2>2. Len(x) = l + e /\ \A i \in 1 .. l + e : x[i] = IF i <= l THEN s[i] ELSE t[i - l]
    BY ONLY <2>1, <1>x, <1>l, <1>k
  <2> QED BY ONLY <2>2, l \in Nat, e \in Nat
<1>2. /\ cut \in [0 .. n -> Nat] /\ cut[0] = 0 /\ cut[n] = l + e
      /\ \A j, k \in 0 .. n : j <= k => cut[j] <= cut[k]
      /\ \A k \in 1 .. n : /\ cut[k] = cut[k - 1] + FrameLen(cmds[k])
                           /\ \A i \in 1 .. FrameLen(cmds[k]) : x[cut[k - 1] + i] = Frame(cmds[k])[i]
  BY <1>n, <1>x, <1>1 DEF Framed
<1>3. n >= 1
  BY <1>2, <1>l, <1>k
<1>c. PICK c \in Cmds : c = cmds[1]
  BY <1>n, <1>3, ElementOfSeq
<1>m. PICK m \in Nat : m = FrameLen(c) /\ m >= 2 /\ c.rel \in Nat /\ c.write \in Nat
  BY Command
<1>f. PICK f \in Seq(Token) : f = Frame(c) /\ Len(f) = m /\ f[1] = Tok("u16", c.read) /\ f[2] = Tok("u16", CmdCount(c))
  BY <1>m, FrameParts DEF Message
<1>4. cut[1] = m /\ \A i \in 1 .. m : x[i] = f[i]
  <2>1. 1 \in 1 .. n /\ 1 - 1 = 0
    BY <1>3
  <2>2. cut[1] = cut[0] + m /\ \A i \in 1 .. m : x[cut[0] + i] = f[i]
    BY <2>1, <1>2, <1>c, <1>m, <1>f
  <2> QED BY <2>2, <1>2
<1>5. s[1] = f[1] /\ s[2] = f[2]
  <2>1. 1 \in 1 .. l /\ 2 \in 1 .. l /\ 1 \in 1 .. m /\ 2 \in 1 .. m
    BY <1>l, <1>m
  <2>2. x[1] = s[1] /\ x[2] = s[2] /\ x[1] = f[1] /\ x[2] = f[2]
    BY ONLY <2>1, <1>1, <1>4
  <2> QED BY <2>2
<1>6. s[1].v = c.read /\ 2 + s[2].v = m /\ 3 + s[2].v = m + 1 /\ m <= l
  <2>1. s[1].v = c.read /\ s[2].v = c.rel + c.write
    BY <1>5, <1>f DEF Tok, CmdCount
  <2>c. m = 2 + c.rel + c.write /\ c.rel \in Nat /\ c.write \in Nat
    BY <1>m DEF FrameLen
  <2>2. 2 + s[2].v = m /\ 3 + s[2].v = m + 1
    <3>1. PICK a \in Nat, b \in Nat : a = c.rel /\ b = c.write
      BY <2>c
    <3>2. s[2].v = a + b /\ m = 2 + a + b
      BY <2>1, <2>c, <3>1
    <3>3. 2 + (a + b) = 2 + a + b /\ 3 + (a + b) = (2 + a + b) + 1
      OBVIOUS
    <3> QED BY <3>2, <3>3
  <2> QED BY <2>1, <2>2, <1>l
<1>7. SubSeq(s, 1, m) = f
  <2>1. \A i \in 1 .. m : s[i] \in Token
    BY <1>1, <1>4, <1>6, <1>f, ElementOfSeq
  <2>2. /\ SubSeq(s, 1, m) \in Seq(Token) /\ Len(SubSeq(s, 1, m)) = m
        /\ \A i \in 1 .. m : SubSeq(s, 1, m)[i] = s[i]
    <3>1. /\ SubSeq(s, 1, m) \in Seq(Token) /\ Len(SubSeq(s, 1, m)) = (IF 1 <= m THEN m - 1 + 1 ELSE 0)
          /\ \A i \in 1 .. m - 1 + 1 : SubSeq(s, 1, m)[i] = s[1 + i - 1]
      BY ONLY <2>1, m \in Nat, SubSeqProperties
    <3> QED BY <3>1, <1>m
  <2>3. Len(SubSeq(s, 1, m)) = Len(f) /\ \A i \in 1 .. Len(SubSeq(s, 1, m)) : SubSeq(s, 1, m)[i] = f[i]
    BY <2>2, <1>1, <1>4, <1>6, <1>f
  <2> QED BY ONLY <2>2, <2>3, f \in Seq(Token), SeqEqual
<1>r. PICK r : r = SubSeq(s, m + 1, l)
  OBVIOUS
<1>8. r \in Seq(Token) /\ Len(r) = l - m /\ \A i \in 1 .. l - m : r[i] = s[m + i]
  <2>1. \A i \in m + 1 .. l : s[i] \in Token
    <3> TAKE i \in m + 1 .. l
    <3>1. i \in 1 .. Len(s) /\ s \in Seq(Token)
      BY <1>l, <1>m DEF Message
    <3> QED BY <3>1, ElementOfSeq
  <2>2. /\ SubSeq(s, m + 1, l) \in Seq(Token)
        /\ Len(SubSeq(s, m + 1, l)) = (IF m + 1 <= l THEN l - (m + 1) + 1 ELSE 0)
        /\ \A i \in 1 .. l - (m + 1) + 1 : SubSeq(s, m + 1, l)[i] = s[(m + 1) + i - 1]
    BY ONLY SMTT(30), <2>1, m \in Nat, l \in Nat, SubSeqProperties
  <2>3. Len(r) = l - m /\ \A i \in 1 .. l - m : r[i] = s[(m + 1) + i - 1]
    BY ONLY <2>2, <1>r, <1>6, m \in Nat, l \in Nat
  <2>4. \A i \in 1 .. l - m : (m + 1) + i - 1 = m + i
    OBVIOUS
  <2> QED BY <2>2, <2>3, <2>4, <1>r
<1>z. PICK z : z = r \o t
  OBVIOUS
<1>9. Len(z) = (l + e) - m /\ \A i \in 1 .. (l + e) - m : z[i] = x[m + i]
  <2>0. t \in Seq(Token)
    BY DEF Message
  <2>1. Len(r \o t) = Len(r) + Len(t) /\ \A i \in 1 .. Len(r) + Len(t) : (r \o t)[i] = IF i <= Len(r) THEN r[i] ELSE t[i - Len(r)]
    BY ONLY <2>0, <1>8, ConcatProperties
  <2>2. Len(z) = (l + e) - m /\ \A i \in 1 .. (l + e) - m : z[i] = IF i <= l - m THEN r[i] ELSE t[i - (l - m)]
    BY ONLY SMTT(30), <2>1, <1>z, <1>k, <1>8, <1>6, m \in Nat, l \in Nat, e \in Nat
  <2>3. ASSUME NEW i \in 1 .. (l + e) - m PROVE z[i] = x[m + i]
    <3>1. CASE i <= l - m
      <4>1. i \in 1 .. l - m /\ m + i \in 1 .. l
        BY <3>1
      <4> QED BY <4>1, <3>1, <2>2, <1>8, <1>1
    <3>2. CASE ~(i <= l - m)
      <4>1. i - (l - m) \in 1 .. e /\ l + (i - (l - m)) = m + i
        BY <3>2
      <4> QED BY <4>1, <3>2, <2>2, <1>1
    <3> QED BY <3>1, <3>2
  <2> QED BY <2>2, <2>3
<1>y. PICK y : y = Tail(cmds)
  OBVIOUS
<1>10. Len(y) = n - 1 /\ \A k \in 1 .. n - 1 : y[k] = cmds[k + 1] /\ y[k] \in Cmds
  <2>1. cmds # <<>>
    BY <1>n, <1>3
  <2>2. Len(Tail(cmds)) = Len(cmds) - 1 /\ \A k \in 1 .. Len(Tail(cmds)) : Tail(cmds)[k] = cmds[k + 1]
    BY ONLY <2>1, cmds \in Seq(Cmds), HeadTailProperties
  <2>3. \A k \in 1 .. n - 1 : cmds[k + 1] \in Cmds
    <3> TAKE k \in 1 .. n - 1
    <3>1. k + 1 \in 1 .. Len(cmds)
      BY <1>n
    <3> QED BY <3>1, ElementOfSeq
  <2> QED BY <2>2, <2>3, <1>y, <1>n
<1> DEFINE cut2 == [k \in 0 .. n - 1 |-> cut[k + 1] - m]
<1>11. /\ cut2 \in [0 .. n - 1 -> Nat] /\ cut2[0] = 0 /\ cut2[n - 1] = (l + e) - m
       /\ \A k \in 0 .. n - 1 : cut2[k] = cut[k + 1] - m /\ cut[k + 1] \in Nat
  <2>1. \A k \in 0 .. n - 1 : k + 1 \in 0 .. n /\ 1 \in 0 .. n /\ 1 <= k + 1
    BY <1>3
  <2>2. \A k \in 0 .. n - 1 : cut[k + 1] \in Nat /\ cut[k + 1] >= m
    BY <2>1, <1>2, <1>4
  <2>3. \A k \in 0 .. n - 1 : cut[k + 1] - m \in Nat
    BY <2>2
  <2>6. cut2 \in [0 .. n - 1 -> Nat] /\ \A k \in 0 .. n - 1 : cut2[k] = cut[k + 1] - m
    BY <2>3
  <2>4. 0 \in 0 .. n - 1 /\ n - 1 \in 0 .. n - 1 /\ 0 + 1 = 1 /\ (n - 1) + 1 = n
    BY <1>3
  <2>5. cut2[0] = cut[1] - m /\ cut2[n - 1] = cut[n] - m
    BY <2>4
  <2>7. cut[1] - m = 0 /\ cut[n] - m = (l + e) - m
    BY <1>2, <1>4
  <2> HIDE DEF cut2
  <2> QED BY <2>2, <2>5, <2>6, <2>7
<1> HIDE DEF cut2
<1>12. ASSUME NEW j \in 0 .. n - 1, NEW k \in 0 .. n - 1, j <= k PROVE cut2[j] <= cut2[k]
  <2>1. j + 1 \in 0 .. n /\ k + 1 \in 0 .. n /\ j + 1 <= k + 1
    BY <1>12
  <2>2. cut[j + 1] <= cut[k + 1]
    BY <2>1, <1>2
  <2>3. cut2[j] = cut[j + 1] - m /\ cut2[k] = cut[k + 1] - m /\ cut[j + 1] \in Nat /\ cut[k + 1] \in Nat
    BY <1>11
  <2>4. PICK a \in Nat, b \in Nat : a = cut[j + 1] /\ b = cut[k + 1]
    BY <2>3
  <2>5. a <= b /\ cut2[j] = a - m /\ cut2[k] = b - m
    BY <2>2, <2>3, <2>4
  <2>6. a - m <= b - m
    BY <2>5
  <2> QED BY <2>5, <2>6
<1>13. ASSUME NEW k \in 1 .. n - 1
       PROVE  /\ cut2[k] = cut2[k - 1] + FrameLen(y[k])
              /\ \A i \in 1 .. FrameLen(y[k]) : z[cut2[k - 1] + i] = Frame(y[k])[i]
  <2>d. PICK d \in Cmds : d = cmds[k + 1] /\ d = y[k]
    BY <1>10
  <2>1. FrameLen(d) \in Nat
    BY Command
  <2>2. k \in 0 .. n - 1 /\ k - 1 \in 0 .. n - 1 /\ k + 1 \in 1 .. n /\ (k + 1) - 1 = k /\ (k - 1) + 1 = k
        /\ k + 1 \in 0 .. n /\ n \in 0 .. n /\ k + 1 <= n
    OBVIOUS
  <2>3. cut[k + 1] = cut[k] + FrameLen(d) /\ \A i \in 1 .. FrameLen(d) : x[cut[k] + i] = Frame(d)[i]
    BY <2>2, <2>d, <1>2
  <2>4. cut2[k] = cut[k + 1] - m /\ cut2[k - 1] = cut[k] - m /\ cut[k + 1] <= l + e /\ cut[k] \in Nat /\ cut[k] >= m
    <3>1. cut2[k] = cut[k + 1] - m /\ cut2[k - 1] = cut[k] - m /\ cut[k] \in Nat
      BY <2>2, <1>11
    <3>2. cut[k + 1] <= cut[n]
      BY <2>2, <1>2
    <3>3. cut2[k - 1] \in Nat
      BY <2>2, <1>11
    <3>4. cut[k] - m \in Nat
      BY <3>1, <3>3
    <3>5. cut[k] >= m
      BY ONLY <3>1, <3>4, m \in Nat
    <3> QED BY <3>1, <3>2, <3>5, <1>2
  <2>5. cut2[k] = cut2[k - 1] + FrameLen(d)
    BY <2>1, <2>3, <2>4
  <2>6. ASSUME NEW i \in 1 .. FrameLen(d) PROVE z[cut2[k - 1] + i] = Frame(d)[i]
    <3>1. cut2[k - 1] + i \in 1 .. (l + e) - m /\ m + (cut2[k - 1] + i) = cut[k] + i
      <4>1. PICK a \in Nat, b \in Nat : a = cut[k] /\ b = FrameLen(d)
        BY <2>1, <2>4
      <4>2. a + b <= l + e /\ cut2[k - 1] = a - m /\ a >= m /\ i \in 1 .. b
        BY <2>3, <2>4, <4>1
      <4>3. (a - m) + i \in 1 .. (l + e) - m /\ m + ((a - m) + i) = a + i
        BY ONLY <4>2, a \in Nat, b \in Nat, m \in Nat, l \in Nat, e \in Nat
      <4> QED BY <4>1, <4>2, <4>3
    <3>2. z[cut2[k - 1] + i] = x[cut[k] + i]
      BY <3>1, <1>9
    <3> QED BY <3>2, <2>3
  <2> QED BY <2>5, <2>6, <2>d
<1>14. Framed(z, y, cut2)
  BY <1>9, <1>10, <1>11, <1>12, <1>13 DEF Framed
<1>15. cmds # <<>> /\ Len(cmds) >= 1
  BY <1>n, <1>3
<1>16. /\ SubSeq(s, 1, 2 + s[2].v) = Frame(cmds[1]) /\ SubSeq(s, 3 + s[2].v, Len(s)) = r
       /\ s[1].v = cmds[1].read /\ cmds[1] \in Cmds
  BY <1>6, <1>7, <1>c, <1>f, <1>r, <1>l
<1>17. SubSeq(s, 3 + s[2].v, Len(s)) \in Message /\ SubSeq(s, 3 + s[2].v, Len(s)) \o t = z
  BY <1>16, <1>8, <1>z DEF Message
<1> QED BY <1>14, <1>15, <1>16, <1>17, <1>y

(***************************************************************************)
(* The steps outside rpmb_storage_send.                                    *)
(***************************************************************************)

\* What the RPMB port has to do with a queue; avail and ring are the device's concern.
SameView(q) ==
    /\ vq'[q].raw = vq[q].raw /\ vq'[q].write = vq[q].write /\ vq'[q].old = vq[q].old
    /\ vq'[q].used = vq[q].used /\ vq'[q].desc = vq[q].desc /\ vq'[q].len = vq[q].len

\* Not in rpmb_storage_send, before and after.
LEMMA RpmbAway ==
    ASSUME RpmbInv, ~Storing, ~Storing', UNCHANGED rpmb,
           pc' = "io" => io'.q \notin {"rpmb_in", "rpmb_out"},
           vq'["rpmb_in"].raw => vq'["rpmb_in"].write
    PROVE  RpmbInv'
<1>1. pc = "io" => io.q \notin {"rpmb_in", "rpmb_out"}
  BY DEF RpmbInv, CallInv, Storing, Inner, RpmbAt
<1>2. Packet = <<>> /\ Packet' = <<>>
  BY <1>1 DEF Packet
<1>3. Unsent = <<>> /\ Unsent' = <<>>
  BY DEF Unsent, Storing, RpmbAt
<1>4. ~Answered' /\ pc' # "rpmb_end" /\ ~(pc' = "io" /\ io'.q = "rpmb_in")
  BY DEF Answered, Storing, Inner, RpmbAt
<1>5. StreamInv'
  BY <1>2, <1>3 DEF RpmbInv, StreamInv, Pending, Queued, Executed, Issued
<1>6. CallInv'
  <2>1. pc' = "io" => io'.next \notin RpmbAt
    BY DEF Storing, Inner
  <2>2. pc' = "io" => /\ io'.q = "rpmb_in" <=> io'.next = "rpmb_end"
                      /\ io'.q = "rpmb_out" <=> io'.next \in RpmbAt \ {"rpmb_end"}
    BY <2>1 DEF RpmbAt
  <2> QED BY <2>2 DEF RpmbInv, CallInv, Executed, Issued
<1>7. AnswerInv'
  BY <1>4 DEF RpmbInv, AnswerInv
<1> QED BY <1>5, <1>6, <1>7 DEF RpmbInv

\* The RPMB port does not see the step.
LEMMA RpmbWait ==
    ASSUME RpmbInv, UNCHANGED <<pc, rpmb, got>>, io'.q = io.q, io'.next = io.next,
           SameView("rpmb_in"), SameView("rpmb_out")
    PROVE  RpmbInv'
<1>1. Inner' = Inner /\ (Storing' <=> Storing) /\ Unsent' = Unsent
  BY DEF Inner, Storing, Unsent
<1>2. Packet' = Packet
  BY DEF Packet, SameView
<1>3. Answered' <=> Answered
  BY DEF Answered, SameView
<1>4. StreamInv'
  BY <1>1, <1>2 DEF RpmbInv, StreamInv, Pending, Queued, Executed, Issued
<1>5. CallInv'
  BY <1>1 DEF RpmbInv, CallInv, Executed, Issued
<1>6. AnswerInv'
  BY <1>1, <1>3 DEF RpmbInv, AnswerInv, SameView, Executed, Issued, UsedLen
<1> QED BY <1>4, <1>5, <1>6 DEF RpmbInv

LEMMA RpmbGo ==
    ASSUME RpmbInv, ~Storing, pc' \notin RpmbAt \cup {"io"}, UNCHANGED rpmb, vq'["rpmb_in"] = vq["rpmb_in"]
    PROVE  RpmbInv'
<1>1. ~Storing' /\ pc' # "io"
  BY DEF Storing, Inner
<1>2. vq'["rpmb_in"].raw => vq'["rpmb_in"].write
  BY DEF RpmbInv, AnswerInv
<1> QED BY <1>1, <1>2, RpmbAway

\* A transfer on another queue starts.
LEMMA RpmbIo ==
    ASSUME LinkInv, RpmbInv, ~Storing, NEW q \in Vqs \ {"rpmb_in", "rpmb_out"}, NEW data, NEW n,
           NEW next \in IoNext \ RpmbAt, StartIo(q, data, n, next), UNCHANGED rpmb
    PROVE  RpmbInv'
<1>1. next # "io"
  BY DEF IoNext, RpmbAt
<1>2. (pc' = next) \/ (pc' = "io" /\ io'.q = q /\ io'.next = next)
  BY DEF StartIo
<1>3. ~Storing' /\ (pc' = "io" => io'.q \notin {"rpmb_in", "rpmb_out"})
  BY <1>1, <1>2 DEF Storing, Inner
<1>4. vq'["rpmb_in"] = vq["rpmb_in"]
  <2>1. vq' = vq \/ \E w : vq' = [vq EXCEPT ![q] = w]
    BY DEF StartIo
  <2>2. "rpmb_in" \in Vqs
    BY DEF Vqs
  <2> QED BY <2>1, <2>2 DEF LinkInv, QueueInv, QueueTypes
<1>5. vq'["rpmb_in"].raw => vq'["rpmb_in"].write
  BY <1>4 DEF RpmbInv, AnswerInv
<1> QED BY <1>3, <1>5, RpmbAway

(***************************************************************************)
(* Sending a command.                                                      *)
(***************************************************************************)

LEMMA PacketSent ==
    ASSUME LinkInv, pc # "io", NEW data \in Message, NEW next \in RpmbAt \ {"rpmb_end"},
           Send("rpmb_out", data, next)
    PROVE  /\ Packet = <<>> /\ Packet' = data /\ Inner' = next /\ vq'["rpmb_in"] = vq["rpmb_in"]
           /\ pc' # "rpmb_end"
           /\ pc' = "io" => io'.q = "rpmb_out" /\ io'.next = next
<1>n. PICK n \in Nat : n = Len(data)
  BY LenProperties DEF Message
<1>v. PICK v : v = vq["rpmb_out"]
  OBVIOUS
<1>d. PICK d : d = v.old % VqSize
  OBVIOUS
<1>w. PICK w : w = PutAvail(SetBuf(v, d, data, n), d)
  OBVIOUS
<1>1. "rpmb_out" \in Vqs /\ "rpmb_in" \in Vqs /\ IsVq(v) /\ IdleVq(v)
  BY <1>v DEF Vqs, Out, LinkInv, QueueInv, QueueTypes, OutInv, QueueState
<1>2. w.desc[w.old % VqSize].data = data /\ IdleVq(w)
  BY <1>1, <1>d, <1>w, FillVq
<1>3. Packet = <<>> /\ next # "io"
  BY DEF Packet, RpmbAt
<1>4. CASE n = 0
  <2>1. pc' = next /\ UNCHANGED <<vq, io>>
    BY <1>4, <1>n DEF Send, StartIo
  <2>2. data = <<>>
    BY <1>4, <1>n, EmptySeq DEF Message
  <2> QED BY <2>1, <2>2, <1>3 DEF Packet, Inner
<1>5. CASE n # 0
  <2>1. /\ vq' = [vq EXCEPT !["rpmb_out"] = w] /\ pc' = "io"
        /\ io' = [q |-> "rpmb_out", step |-> "publish", next |-> next]
    BY <1>5, <1>n, <1>v, <1>d, <1>w DEF Send, StartIo
  <2>2. vq'["rpmb_out"] = w /\ vq'["rpmb_in"] = vq["rpmb_in"]
    BY <1>1, <2>1 DEF LinkInv, QueueInv, QueueTypes
  <2>3. Packet' = data
    BY <2>1, <2>2, <1>2 DEF Packet, IdleVq
  <2> QED BY <2>1, <2>2, <2>3, <1>3 DEF Inner
<1> QED BY <1>4, <1>5

LEMMA LastAdded ==
    ASSUME NEW S, NEW s \in Seq(S), NEW c \in S, NEW e \in Nat, e <= Len(s)
    PROVE  SubSeq(Append(s, c), e + 1, Len(s) + 1) = Append(SubSeq(s, e + 1, Len(s)), c)
<1>n. PICK n \in Nat : n = Len(s)
  BY LenProperties
<1>x. PICK x \in Seq(S) : x = Append(s, c) /\ Len(x) = n + 1 /\ x[n + 1] = c /\ \A i \in 1 .. n : x[i] = s[i]
  <2>1. /\ Append(s, c) \in Seq(S) /\ Len(Append(s, c)) = Len(s) + 1 /\ Append(s, c)[Len(s) + 1] = c
        /\ \A i \in 1 .. Len(s) : Append(s, c)[i] = s[i]
    BY ONLY s \in Seq(S), c \in S, AppendProperties
  <2> QED BY ONLY <2>1, <1>n
<1>1. /\ SubSeq(x, e + 1, n + 1) \in Seq(S) /\ Len(SubSeq(x, e + 1, n + 1)) = n + 1 - e
      /\ \A i \in 1 .. n + 1 - e : SubSeq(x, e + 1, n + 1)[i] = x[e + i]
  BY <1>n, <1>x
<1>2. /\ SubSeq(s, e + 1, n) \in Seq(S) /\ Len(SubSeq(s, e + 1, n)) = n - e
      /\ \A i \in 1 .. n - e : SubSeq(s, e + 1, n)[i] = s[e + i]
  BY <1>n
<1>y. PICK y \in Seq(S) : y = Append(SubSeq(s, e + 1, n), c)
  BY <1>2, AppendProperties
<1>3. Len(y) = n + 1 - e /\ \A i \in 1 .. n + 1 - e : y[i] = x[e + i]
  <2>1. Len(y) = n - e + 1 /\ y[n - e + 1] = c /\ \A i \in 1 .. n - e : y[i] = s[e + i]
    BY <1>2, <1>y, AppendProperties
  <2>2. ASSUME NEW i \in 1 .. n + 1 - e PROVE y[i] = x[e + i]
    <3>1. CASE i = n - e + 1
      <4>1. e + i = n + 1
        BY <3>1, <1>n
      <4> QED BY <4>1, <3>1, <2>1, <1>x
    <3>2. CASE i # n - e + 1
      <4>1. i \in 1 .. n - e /\ e + i \in 1 .. n
        BY <3>2, <1>n
      <4> QED BY <4>1, <2>1, <1>x
    <3> QED BY <3>1, <3>2
  <2> QED BY <2>1, <2>2, <1>n
<1>z. PICK z \in Seq(S) : z = SubSeq(x, e + 1, n + 1) /\ Len(z) = n + 1 - e /\ \A i \in 1 .. n + 1 - e : z[i] = x[e + i]
  BY <1>1
<1>4. Len(z) = Len(y) /\ \A i \in 1 .. Len(z) : z[i] = y[i]
  BY <1>3, <1>z
<1>5. z = y
  BY ONLY <1>4, z \in Seq(S), y \in Seq(S), SeqEqual
<1> QED BY <1>5, <1>n, <1>x, <1>y, <1>z

\* The storage proxy issues a command.
LEMMA RequestRpmb ==
    ASSUME LinkInv, ControlInv, RpmbInv, StorageRequest
    PROVE  RpmbInv'
<1>c. PICK c \in Cmds : RpmbSend(c, pc) /\ pc \in Polling
  BY DEF StorageRequest
<1>p. PICK p \in Message : p = <<Tok("u16", c.read)>>
  BY PartsSeq
<1>q. PICK q \in Message : q = <<Tok("u16", CmdCount(c))>> \o (RelBlocks(c) \o WriteBlocks(c))
  BY PartsSeq, Joined
<1>1. pc # "io" /\ ~Storing /\ pc # "rpmb_end"
  BY <1>c DEF Polling, Storing, Inner, RpmbAt
<1>2. Send("rpmb_out", p, "rpmb_count")
  BY <1>c, <1>p DEF RpmbSend
<1>3. /\ Packet = <<>> /\ Packet' = p /\ Inner' = "rpmb_count" /\ vq'["rpmb_in"] = vq["rpmb_in"]
      /\ pc' # "rpmb_end"
      /\ pc' = "io" => io'.q = "rpmb_out" /\ io'.next = "rpmb_count"
  <2>1. "rpmb_count" \in RpmbAt \ {"rpmb_end"}
    BY DEF RpmbAt
  <2> QED BY <2>1, <1>1, <1>2, PacketSent
<1>i. PICK s \in Seq(Cmds), n \in Nat, e \in Nat : s = rpmb.issued /\ n = Len(s) /\ e = Executed /\ e <= n
  BY LenProperties DEF RpmbInv, StreamInv, Executed, Issued, LinkInv, ConsoleTypes, RpmbTypes
<1>4. /\ rpmb'.cmd = c /\ rpmb'.issued = Append(s, c) /\ rpmb'.executed = rpmb.executed
      /\ rpmb'.stream = rpmb.stream /\ rpmb'.reply = rpmb.reply
  BY <1>c, <1>i DEF RpmbSend, ControlInv
<1>5. Issued = n /\ Executed' = e /\ Issued' = n + 1 /\ rpmb'.issued \in Seq(Cmds) /\ rpmb'.issued[n + 1] = c
      /\ \A k \in 1 .. n : rpmb'.issued[k] = s[k]
  BY <1>4, <1>i DEF Executed, Issued
<1>6. StreamInv'
  <2>s. PICK st \in Message : st = rpmb.stream
    BY DEF LinkInv, ConsoleTypes, RpmbTypes
  <2>1. Pending = st
    <3>1. Unsent = <<>>
      BY <1>1 DEF Unsent, Storing, RpmbAt
    <3> QED BY <3>1, <1>3, <2>s, Joined DEF Pending
  <2>2. Unsent' = q
    BY <1>3, <1>4, <1>q DEF Unsent
  <2>3. Pending' = st \o Frame(c)
    <3>1. Frame(c) = p \o q
      BY <1>p, <1>q, FrameParts
    <3>2. Pending' = (st \o p) \o q
      BY <1>3, <1>4, <2>2, <2>s DEF Pending
    <3> QED BY <3>1, <3>2, Regrouped
  <2>4. Queued' = Append(Queued, c) /\ Queued \in Seq(Cmds)
    <3>1. Queued = SubSeq(s, e + 1, n) /\ Queued' = SubSeq(Append(s, c), e + 1, n + 1)
      BY <1>4, <1>5, <1>i DEF Queued, Executed, Issued
    <3>2. SubSeq(s, e + 1, n) \in Seq(Cmds)
      BY <1>i
    <3> QED BY ZenonT(30), <3>1, <3>2, <1>i, LastAdded
  <2>5. PICK cut : Framed(st, Queued, cut)
    BY <2>1 DEF RpmbInv, StreamInv
  <2>6. \E cut2 : Framed(st \o Frame(c), Append(Queued, c), cut2)
    BY <2>4, <2>5, FramedAdd
  <2> QED BY <2>3, <2>4, <2>6, <1>5, <1>i DEF StreamInv
<1>7. Storing'
  BY <1>3 DEF Storing, RpmbAt
<1>8. CallInv'
  <2>1. pc' = "io" => /\ io'.q = "rpmb_in" <=> io'.next = "rpmb_end"
                      /\ io'.q = "rpmb_out" <=> io'.next \in RpmbAt \ {"rpmb_end"}
    BY <1>3 DEF RpmbAt
  <2>2. ASSUME NEW k \in e + 1 .. n + 1, rpmb'.issued[k].read > 0 PROVE k = n + 1
    <3>1. CASE k \in e + 1 .. n
      <4>1. s[k].read > 0
        BY <2>2, <3>1, <1>5
      <4> QED BY <4>1, <3>1, <1>1, <1>i DEF RpmbInv, CallInv, Executed, Issued
    <3> QED BY <3>1
  <2>3. \A k \in Executed' + 1 .. Issued' : rpmb'.issued[k].read > 0 => k = Issued' /\ Storing'
    BY <2>2, <1>5, <1>7
  <2>4. Issued' > 0 /\ rpmb'.cmd = rpmb'.issued[Issued']
    BY <1>4, <1>5
  <2> QED BY <2>1, <2>3, <2>4, <1>7 DEF CallInv
<1>9. AnswerInv'
  <2>1. ~Answered' /\ ~(pc' = "io" /\ io'.q = "rpmb_in")
    BY <1>3 DEF Answered
  <2>2. rpmb'.reply = <<>>
    BY <1>1, <1>4 DEF RpmbInv, AnswerInv
  <2>3. vq'["rpmb_in"].raw => vq'["rpmb_in"].write
    BY <1>3 DEF RpmbInv, AnswerInv
  <2> QED BY <2>1, <2>2, <2>3, <1>3 DEF AnswerInv
<1> QED BY <1>6, <1>8, <1>9 DEF RpmbInv

\* The next part of it.
LEMMA PartRpmb ==
    ASSUME LinkInv, RpmbInv, NEW data \in Message, NEW at \in RpmbAt, NEW next \in RpmbAt \ {"rpmb_end"},
           pc = at, at # "rpmb_end", Send("rpmb_out", data, next), UNCHANGED rpmb,
           Unsent \in Message, Unsent' \in Message, Unsent = data \o Unsent'
    PROVE  RpmbInv'
<1>1. pc # "io" /\ Storing
  BY DEF RpmbAt, Storing, Inner
<1>2. /\ Packet = <<>> /\ Packet' = data /\ Inner' = next /\ vq'["rpmb_in"] = vq["rpmb_in"]
      /\ pc' # "rpmb_end"
      /\ pc' = "io" => io'.q = "rpmb_out" /\ io'.next = next
  BY <1>1, PacketSent
<1>3. Storing'
  BY <1>2 DEF Storing
<1>4. Pending' = Pending
  <2>s. PICK st \in Message : st = rpmb.stream /\ st = rpmb'.stream
    BY DEF LinkInv, ConsoleTypes, RpmbTypes
  <2>u. PICK u \in Message : u = Unsent'
    OBVIOUS
  <2>1. Pending = st \o (data \o u)
    BY <1>2, <2>s, <2>u, Joined DEF Pending
  <2>2. Pending' = (st \o data) \o u
    BY <1>2, <2>s, <2>u DEF Pending
  <2> QED BY ZenonT(30), <2>1, <2>2, Regrouped
<1>5. StreamInv'
  BY <1>4 DEF RpmbInv, StreamInv, Queued, Executed, Issued
<1>6. CallInv'
  <2>1. pc' = "io" => /\ io'.q = "rpmb_in" <=> io'.next = "rpmb_end"
                      /\ io'.q = "rpmb_out" <=> io'.next \in RpmbAt \ {"rpmb_end"}
    BY <1>2
  <2> QED BY <2>1, <1>1, <1>3 DEF RpmbInv, CallInv, Executed, Issued
<1>7. AnswerInv'
  <2>1. ~Answered' /\ ~(pc' = "io" /\ io'.q = "rpmb_in")
    BY <1>2 DEF Answered
  <2>2. Executed' = Executed /\ Issued' = Issued
    BY DEF Executed, Issued
  <2> QED BY <2>1, <2>2, <1>2, <1>3 DEF RpmbInv, AnswerInv
<1> QED BY <1>5, <1>6, <1>7 DEF RpmbInv

\* Reading the answer starts, or the call is over when there is nothing to read.
LEMMA ReadRpmb ==
    ASSUME LinkInv, RpmbInv, pc = "rpmb_read", NEW c, c = rpmb.cmd, Recv("rpmb_in", c.read, "rpmb_end"),
           UNCHANGED <<got, rpmb>>
    PROVE  RpmbInv'
<1>n. PICK n \in Nat : n = c.read
  BY Command DEF LinkInv, ConsoleTypes, RpmbTypes
<1>v. PICK v : v = vq["rpmb_in"]
  OBVIOUS
<1>d. PICK d : d = v.old % VqSize
  OBVIOUS
<1>0. <<>> \in Message
  BY DEF Message
<1>m. PICK m \in Message : m = <<>>
  BY <1>0
<1>w. PICK w : w = PutAvail(SetBuf(v, d, m, n), d)
  OBVIOUS
<1>1. Storing /\ Inner = "rpmb_read" /\ ~Answered /\ Packet = <<>> /\ Unsent = <<>>
  BY DEF Storing, Inner, RpmbAt, Answered, Packet, Unsent
<1>2. /\ Inner' = "rpmb_end"
      /\ \/ n = 0 /\ pc' = "rpmb_end" /\ UNCHANGED <<vq, io>>
         \/ /\ n # 0 /\ vq' = [vq EXCEPT !["rpmb_in"] = w] /\ pc' = "io"
            /\ io' = [q |-> "rpmb_in", step |-> "publish", next |-> "rpmb_end"]
  BY <1>n, <1>v, <1>d, <1>w, <1>m DEF Recv, StartIo, Inner
<1>3. Storing' /\ Unsent' = <<>> /\ Packet' = <<>> /\ (pc' = "io" => io'.q = "rpmb_in" /\ io'.next = "rpmb_end")
  BY <1>2 DEF Storing, RpmbAt, Unsent, Packet
<1>4. StreamInv'
  BY <1>1, <1>3 DEF RpmbInv, StreamInv, Pending, Queued, Executed, Issued
<1>5. CallInv'
  <2>1. "rpmb_end" \in RpmbAt
    BY DEF RpmbAt
  <2> QED BY <2>1, <1>1, <1>3 DEF RpmbInv, CallInv, Executed, Issued
<1>e. Executed' = Executed /\ Issued' = Issued /\ rpmb'.cmd = c /\ rpmb'.reply = rpmb.reply
  BY DEF Executed, Issued
<1>6. ASSUME n = 0 PROVE AnswerInv'
  <2>1. pc' = "rpmb_end" /\ vq'["rpmb_in"] = v
    BY <1>2, <1>6, <1>v
  <2>2. rpmb.reply = <<>>
    <3>1. rpmb.reply # <<>> => rpmb.reply = Blocks(c, Executed)
      BY DEF RpmbInv, AnswerInv
    <3>2. Executed \in Nat /\ c \in Cmds \cup {NoCmd}
      BY LenProperties DEF Executed, LinkInv, ConsoleTypes, RpmbTypes
    <3>3. Blocks(c, Executed) = <<>>
      BY <3>2, <1>6, <1>n, BlocksSeq
    <3> QED BY <3>1, <3>3
  <2>3. ~(c.read > 0) /\ (v.raw => v.write)
    BY <1>6, <1>n, <1>v DEF RpmbInv, AnswerInv
  <2> QED BY <2>1, <2>2, <2>3, <1>e DEF AnswerInv
<1>7. ASSUME n # 0 PROVE AnswerInv'
  <2>1. "rpmb_in" \in Vqs /\ IsVq(v) /\ IdleVq(v)
    BY <1>v DEF Vqs, Out, LinkInv, QueueInv, QueueTypes, OutInv, QueueState
  <2>2. /\ w.raw = v.raw /\ w.write = v.write /\ w.used = w.old
        /\ w.desc[w.old % VqSize].data = m /\ w.desc[w.old % VqSize].len = n
    <3>1. /\ w.raw = v.raw /\ w.write = v.write /\ IdleVq(w)
          /\ w.desc[w.old % VqSize].data = m /\ w.desc[w.old % VqSize].len = n
      BY ONLY <2>1, <1>d, <1>w, m \in Message, n \in Nat, FillVq
    <3> QED BY <3>1 DEF IdleVq
  <2>3. vq'["rpmb_in"] = w /\ pc' = "io" /\ io'.q = "rpmb_in"
    BY <2>1, <1>2, <1>7 DEF LinkInv, QueueInv, QueueTypes
  <2>4. ~Answered'
    BY <2>2, <2>3 DEF Answered
  <2>5. c.read > 0
    BY <1>7, <1>n
  <2>6. v.raw => v.write
    BY <1>v DEF RpmbInv, AnswerInv
  <2>7. rpmb.reply # <<>> => Executed = Issued /\ rpmb.reply = Blocks(c, Executed)
    BY DEF RpmbInv, AnswerInv
  <2> QED BY <2>2, <2>3, <2>4, <2>5, <2>6, <2>7, <1>3, <1>e, <1>m, <1>n DEF AnswerInv
<1> QED BY <1>4, <1>5, <1>6, <1>7 DEF RpmbInv

LEMMA StepRpmb ==
    ASSUME LinkInv, RpmbInv, RpmbStep
    PROVE  RpmbInv'
<1>c. PICK c \in Cmds \cup {NoCmd} : c = rpmb.cmd
  BY DEF LinkInv, ConsoleTypes, RpmbTypes
<1>1. UNCHANGED <<got, rpmb>> /\ rpmb'.cmd = c
  BY <1>c DEF RpmbStep, consoleVars
<1>a. PICK a \in Message : a = <<Tok("u16", CmdCount(c))>>
  BY PartsSeq
<1>r. PICK r \in Message : r = RelBlocks(c)
  BY PartsSeq
<1>w. PICK w \in Message : w = WriteBlocks(c)
  BY PartsSeq
<1>n. <<>> \in Message /\ w \o <<>> = w /\ r \o w \in Message /\ a \o (r \o w) \in Message
  BY Joined DEF Message
<1>2. ASSUME NEW at \in RpmbAt, NEW next \in RpmbAt \ {"rpmb_end"}, NEW data \in Message,
             pc = at, at # "rpmb_end", Send("rpmb_out", data, next),
             NEW u \in Message, Unsent = data \o u, Inner' = next => Unsent' = u
      PROVE  RpmbInv'
  <2>1. pc # "io"
    BY <1>2 DEF RpmbAt
  <2>2. Inner' = next
    BY <2>1, <1>2, PacketSent
  <2>3. Unsent' = u
    BY <2>2, <1>2
  <2>4. Unsent \in Message
    BY <1>2, Joined
  <2> QED BY <2>3, <2>4, <1>1, <1>2, PartRpmb
<1>u. /\ Inner = "rpmb_count" => Unsent = a \o (r \o w)
      /\ Inner = "rpmb_rel" => Unsent = r \o w
      /\ Inner = "rpmb_write" => Unsent = w
      /\ Inner' = "rpmb_rel" => Unsent' = r \o w
      /\ Inner' = "rpmb_write" => Unsent' = w
      /\ Inner' = "rpmb_read" => Unsent' = <<>>
  BY <1>c, <1>1, <1>a, <1>r, <1>w DEF Unsent
<1>3. CASE pc = "rpmb_count" /\ Send("rpmb_out", a, "rpmb_rel")
  <2>1. Inner = "rpmb_count" /\ "rpmb_count" \in RpmbAt /\ "rpmb_rel" \in RpmbAt \ {"rpmb_end"}
    BY <1>3 DEF Inner, RpmbAt
  <2> QED BY <2>1, <1>2, <1>3, <1>n, <1>u
<1>4. CASE pc = "rpmb_rel" /\ Send("rpmb_out", r, "rpmb_write")
  <2>1. Inner = "rpmb_rel" /\ "rpmb_rel" \in RpmbAt /\ "rpmb_write" \in RpmbAt \ {"rpmb_end"}
    BY <1>4 DEF Inner, RpmbAt
  <2> QED BY <2>1, <1>2, <1>4, <1>u
<1>5. CASE pc = "rpmb_write" /\ Send("rpmb_out", w, "rpmb_read")
  <2>1. Inner = "rpmb_write" /\ "rpmb_write" \in RpmbAt /\ "rpmb_read" \in RpmbAt \ {"rpmb_end"}
    BY <1>5 DEF Inner, RpmbAt
  <2>2. Unsent = w \o <<>>
    BY <2>1, <1>u, <1>n
  <2> QED BY <2>1, <2>2, <1>2, <1>5, <1>u, <1>n
<1>6. CASE pc = "rpmb_read" /\ Recv("rpmb_in", c.read, "rpmb_end")
  BY <1>6, <1>c, <1>1, ReadRpmb
<1> QED BY <1>3, <1>4, <1>5, <1>6, <1>c, <1>a, <1>r, <1>w DEF RpmbStep, RelBlocks, WriteBlocks

\* The call returns.
LEMMA EndRpmb ==
    ASSUME LinkInv, ControlInv, RpmbInv, RpmbEnd
    PROVE  RpmbInv'
<1>1. pc = "rpmb_end" /\ Storing /\ Answered /\ rpmb.next \in Polling
  BY DEF RpmbEnd, Storing, Inner, RpmbAt, Answered, ControlInv
<1>2. pc' \in {rpmb.next, "assert"} /\ UNCHANGED <<vq, io>>
  BY DEF RpmbEnd, queueVars
<1>3. pc' \notin RpmbAt \cup {"io"}
  BY <1>1, <1>2 DEF Polling, RpmbAt
<1>4. ~Storing' /\ Packet = <<>> /\ Packet' = <<>> /\ Unsent = <<>> /\ Unsent' = <<>>
  BY <1>1, <1>3 DEF Storing, Inner, Packet, Unsent, RpmbAt
<1>5. /\ rpmb'.cmd = NoCmd /\ rpmb'.issued = rpmb.issued /\ rpmb'.executed = rpmb.executed
      /\ rpmb'.stream = rpmb.stream /\ rpmb'.reply = rpmb.reply
  BY DEF RpmbEnd, ControlInv
<1>6. StreamInv'
  BY <1>4, <1>5 DEF RpmbInv, StreamInv, Pending, Queued, Executed, Issued
<1>7. CallInv'
  <2>1. pc' # "io"
    BY <1>3
  <2>2. ASSUME NEW k \in Executed + 1 .. Issued PROVE ~(rpmb.issued[k].read > 0)
    <3>1. SUFFICES ASSUME rpmb.issued[k].read > 0 PROVE FALSE
      OBVIOUS
    <3>2. k = Issued /\ rpmb.cmd = rpmb.issued[k]
      BY <2>2, <3>1, <1>1 DEF RpmbInv, CallInv
    <3>3. Executed = Issued
      BY <3>1, <3>2, <1>1 DEF RpmbInv, AnswerInv
    <3>4. Executed \in Nat /\ Issued \in Nat
      BY LenProperties DEF Executed, Issued, RpmbInv, StreamInv, LinkInv, ConsoleTypes, RpmbTypes
    <3> QED BY <3>3, <3>4
  <2> QED BY <2>1, <2>2, <1>4, <1>5 DEF CallInv, Executed, Issued
<1>8. AnswerInv'
  <2>1. rpmb'.reply = <<>> /\ ~(NoCmd.read > 0)
    BY <1>1, <1>5 DEF RpmbInv, AnswerInv, NoCmd
  <2>2. vq'["rpmb_in"].raw => vq'["rpmb_in"].write
    BY <1>2 DEF RpmbInv, AnswerInv
  <2> QED BY <2>1, <2>2, <1>3, <1>5 DEF AnswerInv, RpmbAt
<1> QED BY <1>6, <1>7, <1>8 DEF RpmbInv

\* A transfer is over.
LEMMA FinishRpmb ==
    ASSUME LinkInv, ControlInv, RpmbInv, FinishIo, UNCHANGED consoleVars
    PROVE  RpmbInv'
<1>q. PICK q \in Vqs : q = io.q
  BY DEF LinkInv, QueueInv, QueueTypes
<1>v. PICK v : v = vq[q]
  OBVIOUS
<1>d. PICK d : d = v.old % VqSize
  OBVIOUS
<1>w. PICK w : w = VqAdv(SetBuf(v, d, <<>>, 0))
  OBVIOUS
<1>1. /\ pc = "io" /\ v.used # v.old /\ vq' = [vq EXCEPT ![q] = w]
      /\ got' = (IF v.write THEN SubSeq(v.desc[d].data, 1, UsedLen(v)) ELSE got)
      /\ pc' = io.next /\ io.next \in IoNext /\ UNCHANGED rpmb
  BY <1>q, <1>v, <1>d, <1>w DEF FinishIo, VqReady, ControlInv, consoleVars
<1>2. \A r \in Vqs \ {q} : vq'[r] = vq[r]
  BY <1>1 DEF LinkInv, QueueInv, QueueTypes
<1>3. IsVq(w) /\ w.raw = v.raw /\ w.write = v.write
  <2>1. IsVq(v) /\ d \in Slots
    BY <1>v, <1>d, IdxSlot DEF LinkInv, QueueInv, QueueTypes, IsVq
  <2>u. PICK u : u = SetBuf(v, d, <<>>, 0)
    OBVIOUS
  <2>2. IsVq(u) /\ u.raw = v.raw /\ u.write = v.write
    BY <2>1, <2>u, ClearVq
  <2>3. w = VqAdv(u)
    BY <1>w, <2>u
  <2> QED BY <2>2, <2>3, AdvVq
<1>4. vq'[q] = w
  BY <1>1 DEF LinkInv, QueueInv, QueueTypes
<1>5. pc' # "io" /\ Inner' = Inner /\ Inner = io.next
  BY <1>1 DEF Inner, IoNext, RpmbAt
<1>6. (Storing' <=> Storing) /\ Unsent' = Unsent /\ Packet' = <<>> /\ Packet = <<>>
  <2>1. Packet = <<>>
    BY <1>q, <1>v, <1>1 DEF Packet
  <2> QED BY <2>1, <1>1, <1>5 DEF Storing, Unsent, Packet
<1>7. "rpmb_in" \in Vqs /\ "rpmb_out" \in Vqs /\ "rpmb_in" # "rpmb_out"
  BY DEF Vqs
<1>8. vq'["rpmb_in"].raw => vq'["rpmb_in"].write
  <2>1. vq["rpmb_in"].raw => vq["rpmb_in"].write
    BY DEF RpmbInv, AnswerInv
  <2> QED BY <2>1, <1>2, <1>3, <1>4, <1>7, <1>v
<1>9. StreamInv'
  BY <1>1, <1>6 DEF RpmbInv, StreamInv, Pending, Queued, Executed, Issued
<1>10. CallInv'
  BY <1>1, <1>5, <1>6 DEF RpmbInv, CallInv, Executed, Issued
<1>e. Executed' = Executed /\ Issued' = Issued
  BY <1>1 DEF Executed, Issued
<1>11. CASE q = "rpmb_in"
  <2>1. io.next = "rpmb_end" /\ pc' = "rpmb_end" /\ Storing /\ Answered
    BY SMTT(30), <1>1, <1>q, <1>v, <1>5, <1>11 DEF RpmbInv, CallInv, Storing, RpmbAt, Answered
  <2>2. /\ rpmb.cmd.read > 0 /\ v.desc[d].data = Blocks(rpmb.cmd, Executed) /\ UsedLen(v) = rpmb.cmd.read
        /\ rpmb.reply = <<>> /\ Executed = Issued
    BY <2>1, <1>1, <1>q, <1>v, <1>d, <1>11 DEF RpmbInv, AnswerInv
  <2>3. v.write
    <3>1. v.raw
      BY <1>1, <1>q, <1>v DEF LinkInv, QueueInv, LastInv
    <3> QED BY <3>1, <1>v, <1>11 DEF RpmbInv, AnswerInv
  <2>4. got' = Blocks(rpmb.cmd, Executed)
    <3>1. Executed \in Nat /\ rpmb.cmd \in Cmds \cup {NoCmd}
      BY LenProperties DEF Executed, LinkInv, ConsoleTypes, RpmbTypes
    <3>2. SubSeq(Blocks(rpmb.cmd, Executed), 1, rpmb.cmd.read) = Blocks(rpmb.cmd, Executed)
      BY <3>1, BlocksSeq
    <3>3. got' = SubSeq(v.desc[d].data, 1, UsedLen(v))
      BY <1>1, <2>3
    <3> QED BY <3>2, <3>3, <2>2
  <2>5. AnswerInv'
    BY <2>1, <2>2, <2>4, <1>1, <1>5, <1>8, <1>e DEF AnswerInv
  <2> QED BY <2>5, <1>9, <1>10 DEF RpmbInv
<1>12. CASE q # "rpmb_in"
  <2>1. pc' # "rpmb_end" /\ ~Answered /\ ~Answered'
    BY <1>1, <1>q, <1>5, <1>12 DEF RpmbInv, CallInv, Answered
  <2>2. AnswerInv'
    BY <2>1, <1>1, <1>5, <1>6, <1>8, <1>e DEF RpmbInv, AnswerInv
  <2> QED BY <2>2, <1>9, <1>10 DEF RpmbInv
<1> QED BY <1>11, <1>12

(***************************************************************************)
(* The host.                                                               *)
(***************************************************************************)

\* The device works on a queue of another port.
LEMMA OtherRpmb ==
    ASSUME LinkInv, RpmbInv, UNCHANGED <<pc, io, rpmb, got>>,
           UNCHANGED vq \/ \E q \in Vqs \ {"rpmb_in", "rpmb_out"} : \E w : vq' = [vq EXCEPT ![q] = w]
    PROVE  RpmbInv'
<1>1. vq'["rpmb_in"] = vq["rpmb_in"] /\ vq'["rpmb_out"] = vq["rpmb_out"]
  <2>1. "rpmb_in" \in Vqs /\ "rpmb_out" \in Vqs
    BY DEF Vqs
  <2> QED BY <2>1 DEF LinkInv, QueueInv, QueueTypes
<1>2. SameView("rpmb_in") /\ SameView("rpmb_out")
  BY <1>1 DEF SameView
<1> QED BY <1>2, RpmbWait

LEMMA ControlRpmb ==
    ASSUME LinkInv, RpmbInv, ControlTake \/ ControlAdd \/ ControlSend \/ ControlDone
    PROVE  RpmbInv'
<1>1. UNCHANGED <<pc, io, rpmb, got>>
  BY DEF ControlTake, ControlAdd, ControlSend, ControlDone, queueVars
<1>2. ASSUME NEW id \in {ControlIn, ControlOut}, attached[id] # "none", NEW data, NEW n, UseBuf(id, data, n) PROVE RpmbInv'
  <2>1. id \in QueueIds
    BY ControlQueues
  <2>q. PICK q \in Vqs : q = attached[id] /\ vq[q].raw /\ vq[q].qid = id
    <3>1. attached[id] \in Vqs
      BY <2>1, <1>2 DEF LinkInv, QueueInv, QueueTypes
    <3>2. vq[attached[id]].raw /\ vq[attached[id]].qid = id
      BY <2>1, <1>2 DEF LinkInv, QueueInv, Wiring
    <3> QED BY <3>1, <3>2
  <2>2. q \notin {"rpmb_in", "rpmb_out"}
    <3>1. ASSUME NEW e \in {0, 1}, NEW p \in PortIds, id = ConsoleQ(p) + e PROVE FALSE
      BY <3>1, <1>2, ControlsApart
    <3>2. ASSUME q = "rpmb_in" PROVE FALSE
      <4>1. \E p \in PortIds : vq[q].qid = ConsoleQ(p) + 0
        BY <2>q, <3>2 DEF LinkInv, QueueInv, Wiring, Wired
      <4> QED BY <4>1, <3>1, <2>q
    <3>3. ASSUME q = "rpmb_out" PROVE FALSE
      <4>1. \E p \in PortIds : vq[q].qid = ConsoleQ(p) + 1
        BY <2>q, <3>3 DEF LinkInv, QueueInv, Wiring, Wired
      <4> QED BY <4>1, <3>1, <2>q
    <3> QED BY <3>2, <3>3
  <2>3. \E w : vq' = [vq EXCEPT ![q] = w]
    BY <1>2, <2>q DEF UseBuf
  <2> QED BY <2>2, <2>3, <1>1, OtherRpmb
<1>3. CASE ControlTake \/ ControlAdd
  <2>1. UNCHANGED vq
    BY <1>3 DEF ControlTake, ControlAdd, queueVars
  <2> QED BY <2>1, <1>1, OtherRpmb
<1>4. CASE ControlSend
  <2>1. UNCHANGED vq \/ (attached[ControlIn] # "none" /\ \E data, n : UseBuf(ControlIn, data, n))
    BY <1>4 DEF ControlSend, HasBuf
  <2> QED BY <2>1, <1>1, <1>2, OtherRpmb
<1>5. CASE ControlDone
  <2>1. attached[ControlOut] = "ctl_out" /\ "ctl_out" # "none"
    <3>1. dev.busy /\ "ctl_out" \in Vqs
      BY <1>5 DEF ControlDone, Vqs
    <3> QED BY <3>1 DEF LinkInv, QueueInv, CtlOutInv, Wiring
  <2>2. \E data, n : UseBuf(ControlOut, data, n)
    BY <1>5 DEF ControlDone
  <2> QED BY <2>1, <2>2, <1>2
<1> QED BY <1>3, <1>4, <1>5

\* The device reads a part of a command.
LEMMA OutRpmb ==
    ASSUME LinkInv, ControlInv, RpmbInv, NEW p \in PortIds, PortOut(p)
    PROVE  RpmbInv'
<1>i. PICK id : id = PortQ(p) + 1
  OBVIOUS
<1>1. /\ HasBuf(id) /\ attached[id] # "none" /\ UseBuf(id, <<>>, 0) /\ UNCHANGED <<pc, io, got>>
      /\ rpmb' = IF host.name[p] = "rpmb0" THEN [rpmb EXCEPT !.stream = @ \o NextBuf(id).data] ELSE rpmb
  BY <1>i DEF PortOut, Notified, HasBuf
<1>q. PICK q : q = attached[id]
  OBVIOUS
<1>2. id \in QueueIds /\ q \in Out \ {"ctl_out"} /\ (q = "rpmb_out" <=> host.name[p] = "rpmb0") /\ q # "rpmb_in"
  <2>1. 1 \in {0, 1} /\ 1 # 0
    OBVIOUS
  <2> QED BY <2>1, <1>1, <1>i, <1>q, PortQueue DEF LinkInv
<1>v. PICK v : v = vq[q]
  OBVIOUS
<1>d. PICK d : d = NextDesc(id)
  OBVIOUS
<1>w. PICK w : w = UsedVq(v, d, <<>>, 0)
  OBVIOUS
<1>3. vq' = [vq EXCEPT ![q] = w]
  BY <1>1, <1>q, <1>v, <1>d, <1>w DEF UseBuf, UsedVq
<1>4. CASE q # "rpmb_out"
  <2>1. q \in Vqs \ {"rpmb_in", "rpmb_out"}
    BY <1>2, <1>4 DEF Out
  <2> QED BY <2>1, <1>1, <1>2, <1>3, <1>4, OtherRpmb
<1>5. CASE q = "rpmb_out"
  <2>1. v.raw /\ pc = "io" /\ io.q = q /\ v.used = v.old /\ d = v.old % VqSize
    BY <1>1, <1>2, <1>q, <1>v, <1>d, OutBuf DEF LinkInv
  <2>2. "rpmb_out" \in Vqs /\ "rpmb_in" \in Vqs /\ IsVq(v) /\ d \in Slots
    BY <2>1, <1>5, <1>v, IdxSlot DEF Vqs, LinkInv, QueueInv, QueueTypes, IsVq
  <2>3. w.old = v.old /\ w.used = (v.used + 1) % IdxMod
    <3>1. IsVq(v) /\ d \in Slots /\ <<>> \in Message /\ 0 \in Nat
      BY <2>2 DEF Message
    <3> QED BY ONLY <3>1, <1>w, UseVq
  <2>4. w.used # w.old
    BY <2>1, <2>2, <2>3, IdxSlot DEF IsVq
  <2>5. vq'["rpmb_out"] = w /\ vq'["rpmb_in"] = vq["rpmb_in"]
    BY <2>2, <1>3, <1>5 DEF LinkInv, QueueInv, QueueTypes
  <2>p. PICK pk \in Message : pk = Packet /\ pk = NextBuf(id).data
    <3>1. NextBuf(id).data = v.desc[d].data
      BY <1>q, <1>v, <1>d DEF NextBuf
    <3>2. v.desc[d].data \in Message
      BY <2>2 DEF IsVq
    <3>3. Packet = v.desc[d].data
      BY <2>1, <1>5, <1>v DEF Packet
    <3> QED BY <3>1, <3>2, <3>3
  <2>6. Packet' = <<>>
    BY <2>4, <2>5 DEF Packet
  <2>s. PICK s \in Message : s = rpmb.stream
    BY DEF LinkInv, ConsoleTypes, RpmbTypes
  <2>7. /\ rpmb'.stream = s \o pk /\ rpmb'.cmd = rpmb.cmd /\ rpmb'.issued = rpmb.issued
        /\ rpmb'.executed = rpmb.executed /\ rpmb'.reply = rpmb.reply
    BY <2>p, <2>s, <1>1, <1>2, <1>5 DEF ControlInv
  <2>8. Inner' = Inner /\ (Storing' <=> Storing) /\ Unsent' = Unsent
    BY <2>7, <1>1 DEF Inner, Storing, Unsent
  <2>9. Pending' = Pending
    <3>1. (s \o pk) \o <<>> = s \o pk
      BY Joined
    <3> QED BY <3>1, <2>p, <2>s, <2>6, <2>7, <2>8 DEF Pending
  <2>10. StreamInv'
    BY <2>7, <2>9 DEF RpmbInv, StreamInv, Queued, Executed, Issued
  <2>11. CallInv'
    BY <2>7, <2>8, <1>1 DEF RpmbInv, CallInv, Executed, Issued
  <2>12. Answered' <=> Answered
    BY <2>5, <1>1 DEF Answered
  <2>13. AnswerInv'
    BY <2>5, <2>7, <2>8, <2>12, <1>1 DEF RpmbInv, AnswerInv, Executed, Issued, UsedLen
  <2> QED BY <2>10, <2>11, <2>13 DEF RpmbInv
<1> QED BY <1>4, <1>5

\* The device answers.
LEMMA InRpmb ==
    ASSUME LinkInv, ControlInv, RpmbInv, NEW p \in PortIds, PortIn(p)
    PROVE  RpmbInv'
<1>i. PICK id : id = PortQ(p)
  OBVIOUS
<1>g. PICK g : g = ToGuest(p)
  OBVIOUS
<1>n. PICK n : n = Min({Len(g), NextBuf(id).len})
  OBVIOUS
<1>m. PICK m : m = SubSeq(g, 1, n)
  OBVIOUS
<1>r. PICK r : r = SubSeq(g, n + 1, Len(g))
  OBVIOUS
<1>1. /\ HasBuf(id) /\ attached[id] # "none" /\ UseBuf(id, m, n) /\ UNCHANGED <<pc, io, got>>
      /\ g # <<>> /\ host.name[p] # "other"
      /\ IF host.name[p] = "testrunner0" THEN UNCHANGED rpmb
         ELSE g = rpmb.reply /\ rpmb' = [rpmb EXCEPT !.reply = r]
  BY <1>i, <1>g, <1>n, <1>m, <1>r DEF PortIn, Notified, HasBuf, ToGuest
<1>q. PICK q : q = attached[id]
  OBVIOUS
<1>2. id \in QueueIds /\ q \in Out \ {"ctl_out"} /\ (q = "rpmb_in" <=> host.name[p] = "rpmb0") /\ q # "rpmb_out"
  <2>1. 0 \in {0, 1} /\ 1 # 0 /\ PortQ(p) + 0 = PortQ(p)
    BY PortQueues DEF QueueIds
  <2> QED BY <2>1, <1>1, <1>i, <1>q, PortQueue DEF LinkInv
<1>3. host.name[p] \in Names
  BY DEF LinkInv, ConsoleTypes, Machine
<1>v. PICK v : v = vq[q]
  OBVIOUS
<1>d. PICK d : d = NextDesc(id)
  OBVIOUS
<1>w. PICK w : w = UsedVq(v, d, m, n)
  OBVIOUS
<1>4. vq' = [vq EXCEPT ![q] = w]
  BY <1>1, <1>q, <1>v, <1>d, <1>w DEF UseBuf, UsedVq
<1>5. CASE q # "rpmb_in"
  <2>1. q \in Vqs \ {"rpmb_in", "rpmb_out"} /\ host.name[p] = "testrunner0"
    BY <1>1, <1>2, <1>3, <1>5 DEF Out, Names
  <2> QED BY <2>1, <1>1, <1>4, OtherRpmb
<1>6. CASE q = "rpmb_in"
  <2>1. g = rpmb.reply /\ rpmb' = [rpmb EXCEPT !.reply = r]
    BY <1>1, <1>2, <1>6
  <2>2. v.raw /\ pc = "io" /\ io.q = "rpmb_in" /\ v.used = v.old /\ d = v.old % VqSize
    BY <1>1, <1>2, <1>6, <1>q, <1>v, <1>d, OutBuf DEF LinkInv
  <2>3. "rpmb_out" \in Vqs /\ "rpmb_in" \in Vqs /\ IsVq(v) /\ d \in Slots /\ v.old \in Idx
    BY <2>2, <1>6, <1>v, IdxSlot DEF Vqs, LinkInv, QueueInv, QueueTypes, IsVq
  <2>c. PICK c \in Cmds \cup {NoCmd} : c = rpmb.cmd
    BY DEF LinkInv, ConsoleTypes, RpmbTypes
  <2>e. PICK e \in Nat : e = Executed
    BY LenProperties DEF Executed, LinkInv, ConsoleTypes, RpmbTypes
  <2>4. /\ ~Answered /\ Storing /\ e = Issued /\ g = Blocks(c, e)
        /\ v.write /\ v.desc[d].len = c.read /\ v.desc[d].data = <<>> /\ c.read > 0
    <3>1. Storing /\ ~Answered /\ Executed = Issued /\ rpmb.reply = Blocks(c, Executed)
      BY <2>1, <2>c, <1>1 DEF RpmbInv, AnswerInv
    <3>2. v.write /\ v.desc[d].len = c.read /\ v.desc[d].data = <<>> /\ c.read > 0
      BY <3>1, <2>2, <2>c, <1>6, <1>v DEF RpmbInv, AnswerInv
    <3> QED BY <3>1, <3>2, <2>1, <2>e
  <2>5. g \in Message /\ Len(g) = c.read /\ SubSeq(g, 1, c.read) = g /\ c.read \in Nat
    BY <2>4, BlocksSeq, Command
  <2>6. n = c.read
    <3>1. NextBuf(id).len = c.read
      BY <2>4, <1>q, <1>v, <1>d DEF NextBuf
    <3>2. n = Min({c.read}) /\ {c.read} \in SUBSET Nat /\ {c.read} # {}
      BY <3>1, <2>5, <1>n
    <3>3. Min({c.read}) \in {c.read}
      BY <3>2, NatMin
    <3> QED BY <3>2, <3>3
  <2>7. m = g /\ r = <<>>
    <3>1. g \in Seq(Token) /\ SubSeq(g, Len(g) + 1, Len(g)) = <<>>
      BY <2>5 DEF Message
    <3> QED BY <3>1, <2>5, <2>6, <1>m, <1>r
  <2>8. /\ w.raw /\ w.write /\ w.old = v.old /\ w.used = (v.used + 1) % IdxMod
        /\ w.desc[d].data = g \o SubSeq(v.desc[d].data, Len(g) + 1, Len(v.desc[d].data))
        /\ w.desc[d].len = v.desc[d].len /\ w.len[v.used % VqSize] = c.read
    <3>1. IsVq(v) /\ d \in Slots /\ g \in Message /\ c.read \in Nat /\ w = UsedVq(v, d, g, c.read)
      BY <2>3, <2>5, <2>6, <2>7, <1>w
    <3>u. PICK u : u = UsedVq(v, d, g, c.read)
      OBVIOUS
    <3>2. /\ u.raw = v.raw /\ u.write = v.write /\ u.old = v.old /\ u.used = (v.used + 1) % IdxMod
          /\ u.desc[d].data = IF v.write THEN g \o SubSeq(v.desc[d].data, Len(g) + 1, Len(v.desc[d].data))
                                         ELSE v.desc[d].data
          /\ u.desc[d].len = v.desc[d].len /\ u.len[v.used % VqSize] = c.read
      BY ONLY <3>1, <3>u, UseVq
    <3>3. u = w
      BY <3>1, <3>u
    <3>4. u.raw /\ u.write
      BY <3>2, <2>2, <2>4
    <3>5. u.desc[d].data = g \o SubSeq(v.desc[d].data, Len(g) + 1, Len(v.desc[d].data))
      BY ONLY <3>2, <2>4
    <3> QED BY ONLY <3>2, <3>3, <3>4, <3>5
  <2>9. w.desc[w.old % VqSize].data = g /\ w.desc[w.old % VqSize].len = c.read /\ UsedLen(w) = c.read /\ w.used # w.old
    <3>1. SubSeq(v.desc[d].data, Len(g) + 1, Len(v.desc[d].data)) = <<>>
      <4>o. PICK o : o = v.desc[d].data
        OBVIOUS
      <4>1. o \in Seq(Token) /\ Len(o) = 0 /\ Len(g) \in Nat
        BY <2>4, <2>5, <4>o
      <4>2. SubSeq(o, Len(g) + 1, Len(o)) = <<>>
        BY ONLY <4>1
      <4> QED BY <4>2, <4>o
    <3>2. g \o <<>> = g
      BY <2>5, Joined
    <3>a. v.used = v.old /\ d = v.old % VqSize /\ w.old = v.old /\ w.used = (v.used + 1) % IdxMod
      BY ONLY Zenon, <2>2, <2>8
    <3>o. PICK o \in Idx : o = v.old /\ o = v.used /\ o = w.old /\ d = o % VqSize /\ w.used = (o + 1) % IdxMod
      BY ONLY <2>3, <3>a
    <3>4. w.old % VqSize = d /\ v.used % VqSize = d
      BY ONLY <3>o
    <3>5. w.desc[d].data = g
      BY <2>8, <3>1, <3>2
    <3>6. w.len[w.old % VqSize] = c.read /\ w.desc[w.old % VqSize].len = c.read
      BY <2>4, <2>8, <3>4
    <3>7. w.used # w.old
      <4>1. (o + 1) % IdxMod # o
        BY IdxSlot
      <4> QED BY <4>1, <3>o
    <3> QED BY <3>4, <3>5, <3>6, <3>7 DEF UsedLen
  <2>10. vq'["rpmb_in"] = w /\ vq'["rpmb_out"] = vq["rpmb_out"]
    BY <2>3, <1>4, <1>6 DEF LinkInv, QueueInv, QueueTypes
  <2>11. /\ rpmb'.stream = rpmb.stream /\ rpmb'.cmd = c /\ rpmb'.issued = rpmb.issued
         /\ rpmb'.executed = rpmb.executed /\ rpmb'.reply = <<>>
    BY <2>1, <2>7, <2>c DEF ControlInv
  <2>12. Inner' = Inner /\ (Storing' <=> Storing) /\ Unsent' = Unsent /\ Packet' = Packet /\ Answered'
    BY <2>2, <2>9, <2>10, <2>11, <2>c, <1>1 DEF Inner, Storing, Unsent, Packet, Answered
  <2>13. StreamInv'
    BY <2>11, <2>12 DEF RpmbInv, StreamInv, Pending, Queued, Executed, Issued
  <2>14. CallInv'
    BY <2>11, <2>12, <2>c, <1>1 DEF RpmbInv, CallInv, Executed, Issued
  <2>15. AnswerInv'
    <3>1. Executed' = e /\ Issued' = e
      BY <2>4, <2>11, <2>e DEF Executed, Issued
    <3>2. pc' # "rpmb_end"
      BY <2>2, <1>1
    <3> QED BY <3>1, <3>2, <2>4, <2>8, <2>9, <2>10, <2>11, <2>12 DEF AnswerInv
  <2> QED BY <2>13, <2>14, <2>15 DEF RpmbInv
<1> QED BY <1>5, <1>6

LEMMA FirstTaken ==
    ASSUME NEW S, NEW s \in Seq(S), NEW e \in Nat, e < Len(s)
    PROVE  /\ SubSeq(s, e + 1, Len(s)) \in Seq(S) /\ SubSeq(s, e + 1, Len(s)) # <<>>
           /\ SubSeq(s, e + 1, Len(s))[1] = s[e + 1] /\ s[e + 1] \in S
           /\ Tail(SubSeq(s, e + 1, Len(s))) = SubSeq(s, e + 2, Len(s))
<1>n. PICK n \in Nat : n = Len(s)
  BY LenProperties
<1>1. e + 1 \in 1 .. n
  BY <1>n
<1>2. s[e + 1] \in S
  BY <1>1, <1>n, ElementOfSeq
<1>3. /\ SubSeq(s, e + 1, n) \in Seq(S) /\ Len(SubSeq(s, e + 1, n)) = n - e
      /\ \A i \in 1 .. n - e : SubSeq(s, e + 1, n)[i] = s[e + i]
  BY <1>n
<1>x. PICK x \in Seq(S) : x = SubSeq(s, e + 1, n) /\ Len(x) = n - e /\ \A i \in 1 .. n - e : x[i] = s[e + i]
  BY <1>3
<1>4. x # <<>> /\ x[1] = s[e + 1]
  <2>1. Len(x) # 0 /\ 1 \in 1 .. n - e
    BY <1>1, <1>x
  <2> QED BY <2>1, <1>x, EmptySeq
<1>t. PICK t \in Seq(S) : t = Tail(x) /\ Len(t) = n - e - 1 /\ \A i \in 1 .. n - e - 1 : t[i] = s[e + i + 1]
  <2>1. /\ Tail(x) \in Seq(S) /\ Len(Tail(x)) = Len(x) - 1
        /\ \A i \in 1 .. Len(Tail(x)) : Tail(x)[i] = x[i + 1]
    BY ONLY <1>4, x \in Seq(S), HeadTailProperties
  <2>2. ASSUME NEW i \in 1 .. n - e - 1 PROVE Tail(x)[i] = s[e + i + 1]
    <3>1. i \in 1 .. Len(Tail(x)) /\ i + 1 \in 1 .. n - e /\ e + (i + 1) = e + i + 1
      BY <2>1, <1>x
    <3> QED BY <3>1, <2>1, <1>x
  <2> QED BY <2>1, <2>2, <1>x
<1>y. PICK y \in Seq(S) : y = SubSeq(s, e + 2, n) /\ Len(y) = n - e - 1 /\ \A i \in 1 .. n - e - 1 : y[i] = s[e + i + 1]
  <2>1. \A i \in e + 2 .. n : s[i] \in S
    <3> TAKE i \in e + 2 .. n
    <3>1. i \in 1 .. Len(s)
      BY <1>n
    <3> QED BY <3>1, ElementOfSeq
  <2>2. e + 2 \in Nat
    OBVIOUS
  <2>3. /\ SubSeq(s, e + 2, n) \in Seq(S) /\ Len(SubSeq(s, e + 2, n)) = (IF e + 2 <= n THEN n - (e + 2) + 1 ELSE 0)
        /\ \A i \in 1 .. n - (e + 2) + 1 : SubSeq(s, e + 2, n)[i] = s[(e + 2) + i - 1]
    BY ONLY <2>1, <2>2, n \in Nat, SubSeqProperties
  <2>4. n - (e + 2) + 1 = n - e - 1 /\ (e + 2 <= n \/ n - e - 1 = 0)
    BY <1>n
  <2>5. \A i \in 1 .. n - e - 1 : (e + 2) + i - 1 = e + i + 1
    OBVIOUS
  <2>6. Len(SubSeq(s, e + 2, n)) = n - e - 1
    BY ONLY <2>3, <2>4
  <2>7. \A i \in 1 .. n - e - 1 : SubSeq(s, e + 2, n)[i] = s[e + i + 1]
    BY ONLY <2>3, <2>4, <2>5
  <2> QED BY ONLY <2>3, <2>6, <2>7
<1>5. t = y
  <2>1. Len(t) = Len(y) /\ \A i \in 1 .. Len(t) : t[i] = y[i]
    BY <1>t, <1>y
  <2> QED BY ONLY <2>1, t \in Seq(S), y \in Seq(S), SeqEqual
<1> QED BY <1>2, <1>3, <1>4, <1>5, <1>n, <1>t, <1>x, <1>y

\* What the device executes is the oldest command of those it has not executed.
LEMMA NextCommand ==
    ASSUME LinkInv, ControlInv, RpmbInv, RpmbExecute, Packet \in Message, Unsent \in Message
    PROVE  \E c \in Cmds :
              /\ Executed < Issued /\ c = rpmb.issued[Executed + 1] /\ Queued # <<>> /\ c = Queued[1]
              /\ Queued' = Tail(Queued) /\ Queued \in Seq(Cmds)
              /\ rpmb'.cmd = rpmb.cmd /\ rpmb'.issued = rpmb.issued /\ rpmb'.answer = rpmb.answer
              /\ rpmb'.executed = Append(rpmb.executed, Frame(c))
              /\ rpmb'.reply = Blocks(c, Executed + 1) /\ rpmb.reply = <<>>
              /\ rpmb'.stream \in Message /\ UNCHANGED <<pc, vq, io, got>>
              /\ \E cut : Framed((rpmb'.stream \o Packet) \o Unsent, Tail(Queued), cut)
<1>s. PICK s \in Message : s = rpmb.stream
  BY DEF LinkInv, ConsoleTypes, RpmbTypes
<1>x. PICK x \in Seq(Message) : x = rpmb.executed
  BY DEF LinkInv, ConsoleTypes, RpmbTypes
<1>t. PICK t \in Message : t = Packet \o Unsent
  BY Joined
<1>1. /\ Len(s) >= 2 /\ Len(s) >= 2 + s[2].v /\ rpmb.reply = <<>> /\ UNCHANGED <<pc, vq, io, got>>
      /\ rpmb' = [rpmb EXCEPT
            !.stream = SubSeq(s, 3 + s[2].v, Len(s)),
            !.executed = Append(x, SubSeq(s, 1, 2 + s[2].v)),
            !.reply = [i \in 1 .. s[1].v |-> Tok("block", Len(x) + 1)]]
  BY <1>s, <1>x DEF RpmbExecute, queueVars
<1>2. /\ rpmb'.cmd = rpmb.cmd /\ rpmb'.issued = rpmb.issued /\ rpmb'.answer = rpmb.answer
      /\ rpmb'.stream = SubSeq(s, 3 + s[2].v, Len(s))
      /\ rpmb'.executed = Append(x, SubSeq(s, 1, 2 + s[2].v))
      /\ rpmb'.reply = [i \in 1 .. s[1].v |-> Tok("block", Len(x) + 1)]
  BY <1>1 DEF ControlInv
<1>3. Pending = s \o t
  BY ZenonT(30), <1>s, <1>t, Regrouped DEF Pending
<1>q. PICK q \in Seq(Cmds), n \in Nat, e \in Nat : q = rpmb.issued /\ n = Len(q) /\ e = Len(x) /\ e <= n
  BY <1>x, LenProperties DEF RpmbInv, StreamInv, Executed, Issued
<1>4. Queued = SubSeq(q, e + 1, n) /\ Queued \in Seq(Cmds)
  BY <1>q, <1>x DEF Queued
<1>5. PICK cut : Framed(s \o t, Queued, cut)
  BY <1>3 DEF RpmbInv, StreamInv
<1>6. /\ Queued # <<>> /\ Len(Queued) >= 1 /\ Queued[1] \in Cmds /\ s[1].v = Queued[1].read
      /\ SubSeq(s, 1, 2 + s[2].v) = Frame(Queued[1])
      /\ SubSeq(s, 3 + s[2].v, Len(s)) \in Message
      /\ \E cut2 : Framed(SubSeq(s, 3 + s[2].v, Len(s)) \o t, Tail(Queued), cut2)
  BY ZenonT(30), <1>1, <1>4, <1>5, FramedTake
<1>7. e < n
  <2>1. Len(SubSeq(q, e + 1, n)) = n - e
    BY <1>q
  <2>2. n - e >= 1
    BY ONLY <2>1, <1>4, <1>6
  <2> QED BY <2>2, <1>q
<1>8. Queued[1] = q[e + 1] /\ Tail(Queued) = SubSeq(q, e + 2, n)
  BY <1>4, <1>7, <1>q, FirstTaken
<1>9. Queued' = Tail(Queued)
  <2>1. Len(rpmb'.executed) = e + 1
    <3>1. SubSeq(s, 1, 2 + s[2].v) \in Message
      BY <1>6, FrameParts
    <3> QED BY <3>1, <1>2, <1>q, AppendProperties
  <2>2. (e + 1) + 1 = e + 2
    OBVIOUS
  <2> QED BY <2>1, <2>2, <1>2, <1>8, <1>q DEF Queued
<1>10. (rpmb'.stream \o Packet) \o Unsent = rpmb'.stream \o t /\ rpmb'.stream \in Message
  <2>r. PICK r \in Message : r = rpmb'.stream
    BY <1>2, <1>6
  <2>1. (r \o Packet) \o Unsent = r \o (Packet \o Unsent)
    BY ONLY ZenonT(30), r \in Message, Packet \in Message, Unsent \in Message, Regrouped
  <2> QED BY <2>r, <2>1, <1>t
<1>c. PICK c \in Cmds : c = Queued[1]
  BY <1>6
<1>11. rpmb'.reply = Blocks(c, e + 1) /\ rpmb'.executed = Append(x, Frame(c))
  BY <1>2, <1>6, <1>c, <1>q DEF Blocks
<1>12. \E cut2 : Framed((rpmb'.stream \o Packet) \o Unsent, Tail(Queued), cut2)
  BY <1>2, <1>6, <1>10
<1>13. Executed = e /\ Issued = n
  BY <1>q, <1>x DEF Executed, Issued
<1>14. Executed < Issued /\ c = rpmb.issued[Executed + 1]
  BY <1>7, <1>8, <1>13, <1>c, <1>q
<1>15. rpmb'.executed = Append(rpmb.executed, Frame(c)) /\ rpmb'.reply = Blocks(c, Executed + 1)
  BY <1>11, <1>13, <1>x
<1>16. rpmb'.stream \in Message /\ Queued # <<>> /\ Queued \in Seq(Cmds)
  BY <1>4, <1>6, <1>10
<1> QED BY ONLY Zenon, <1>1, <1>2, <1>9, <1>12, <1>14, <1>15, <1>16, <1>c

LEMMA PartMessages ==
    ASSUME LinkInv
    PROVE  Packet \in Message /\ Unsent \in Message
<1>1. Packet \in Message
  <2>1. "rpmb_out" \in Vqs /\ <<>> \in Message
    BY DEF Vqs, Message
  <2>v. PICK v : v = vq["rpmb_out"]
    OBVIOUS
  <2>2. v.desc[v.old % VqSize].data \in Message
    BY <2>1, <2>v, IdxSlot DEF LinkInv, QueueInv, QueueTypes, IsVq
  <2> QED BY <2>1, <2>2, <2>v DEF Packet
<1>c. PICK c \in Cmds \cup {NoCmd} : c = rpmb.cmd
  BY DEF LinkInv, ConsoleTypes, RpmbTypes
<1>2. /\ <<>> \in Message /\ WriteBlocks(c) \in Message /\ RelBlocks(c) \o WriteBlocks(c) \in Message
      /\ <<Tok("u16", CmdCount(c))>> \o (RelBlocks(c) \o WriteBlocks(c)) \in Message
  BY PartsSeq, Joined DEF Message
<1>3. Unsent \in Message
  BY <1>2, <1>c DEF Unsent
<1> QED BY <1>1, <1>3

\* The device executes a command.
LEMMA ExecuteRpmb ==
    ASSUME LinkInv, ControlInv, RpmbInv, RpmbExecute
    PROVE  RpmbInv'
<1>0. Packet \in Message /\ Unsent \in Message
  BY PartMessages
<1>c. PICK c \in Cmds :
              /\ Executed < Issued /\ c = rpmb.issued[Executed + 1]
              /\ Queued' = Tail(Queued)
              /\ rpmb'.cmd = rpmb.cmd /\ rpmb'.issued = rpmb.issued
              /\ rpmb'.executed = Append(rpmb.executed, Frame(c))
              /\ rpmb'.reply = Blocks(c, Executed + 1) /\ rpmb.reply = <<>>
              /\ UNCHANGED <<pc, vq, io, got>>
              /\ \E cut : Framed((rpmb'.stream \o Packet) \o Unsent, Tail(Queued), cut)
  BY <1>0, NextCommand
<1>e. PICK e \in Nat, n \in Nat : e = Executed /\ n = Issued /\ e < n
  BY <1>c, LenProperties DEF Executed, Issued, RpmbInv, StreamInv, LinkInv, ConsoleTypes, RpmbTypes
<1>1. Executed' = e + 1 /\ Issued' = n
  <2>1. Frame(c) \in Message /\ rpmb.executed \in Seq(Message)
    BY FrameParts DEF LinkInv, ConsoleTypes, RpmbTypes
  <2>2. Len(Append(rpmb.executed, Frame(c))) = Len(rpmb.executed) + 1
    BY ONLY <2>1, AppendProperties
  <2> QED BY <2>2, <1>c, <1>e DEF Executed, Issued
<1>2. Inner' = Inner /\ (Storing' <=> Storing) /\ Unsent' = Unsent /\ Packet' = Packet /\ (Answered' <=> Answered)
  BY <1>c DEF Inner, Storing, Unsent, Packet, Answered
<1>3. StreamInv'
  <2>1. Executed' <= Issued' /\ rpmb'.issued \in Seq(Cmds)
    BY <1>1, <1>c, <1>e DEF RpmbInv, StreamInv
  <2>2. \E cut : Framed(Pending', Queued', cut)
    BY <1>2, <1>c DEF Pending
  <2> QED BY <2>1, <2>2 DEF StreamInv
<1>4. \A k \in e + 1 .. n : rpmb.issued[k].read > 0 => k = n /\ Storing
  BY <1>e DEF RpmbInv, CallInv
<1>5. CallInv'
  <2>1. \A k \in e + 2 .. n : rpmb'.issued[k].read > 0 => k = n /\ Storing'
    BY <1>2, <1>4, <1>c
  <2>2. Executed' + 1 = e + 2
    BY <1>1
  <2> QED BY <2>1, <2>2, <1>1, <1>2, <1>c, <1>e DEF RpmbInv, CallInv
<1>6. ~(Answered /\ rpmb.cmd.read > 0)
  BY <1>e DEF RpmbInv, AnswerInv
<1>7. rpmb'.reply # <<>> =>
        Storing /\ ~Answered /\ e + 1 = n /\ rpmb'.reply = Blocks(rpmb.cmd, e + 1)
  <2>1. SUFFICES ASSUME rpmb'.reply # <<>>
                 PROVE  Storing /\ ~Answered /\ e + 1 = n /\ rpmb'.reply = Blocks(rpmb.cmd, e + 1)
    OBVIOUS
  <2>2. c.read > 0
    <3>1. Blocks(c, e + 1) # <<>> /\ e + 1 \in Nat
      BY <2>1, <1>c, <1>e
    <3>2. c.read # 0 /\ c.read \in Nat
      BY <3>1, BlocksSeq, Command
    <3> QED BY <3>2
  <2>3. e + 1 = n /\ Storing
    <3>1. e + 1 \in e + 1 .. n /\ rpmb.issued[e + 1].read > 0
      BY <2>2, <1>c, <1>e
    <3> QED BY <3>1, <1>4
  <2>4. rpmb.cmd = c
    BY <2>3, <1>c, <1>e DEF RpmbInv, CallInv
  <2> QED BY <2>2, <2>3, <2>4, <1>6, <1>c, <1>e
<1>8. pc = "rpmb_end" => ~(rpmb.cmd.read > 0)
  BY <1>6 DEF Answered
<1>9. AnswerInv'
  BY <1>1, <1>2, <1>6, <1>7, <1>8, <1>c DEF RpmbInv, AnswerInv
<1> QED BY <1>3, <1>5, <1>9 DEF RpmbInv

LEMMA HostRpmb ==
    ASSUME LinkInv, ControlInv, RpmbInv, HostStep
    PROVE  RpmbInv'
BY ControlRpmb, ExecuteRpmb, OutRpmb, InRpmb DEF HostStep

(***************************************************************************)
(* CPU 0 and the invariant.                                                *)
(***************************************************************************)

\* publish and kick.
LEMMA PublishRpmb ==
    ASSUME LinkInv, ControlInv, RpmbInv, PublishIo \/ KickIo, UNCHANGED consoleVars
    PROVE  RpmbInv'
<1>1. UNCHANGED <<pc, got, rpmb>> /\ io'.q = io.q /\ io'.next = io.next
  BY DEF PublishIo, KickIo, ControlInv, consoleVars
<1>2. \A r \in Vqs : SameView(r)
  <2>1. CASE PublishIo
    <3>q. PICK q \in Vqs : q = io.q
      BY DEF LinkInv, QueueInv, QueueTypes
    <3>w. PICK w : w = IncAvail(vq[q])
      OBVIOUS
    <3>1. vq' = [vq EXCEPT ![q] = w]
      BY <2>1, <3>q, <3>w DEF PublishIo
    <3>2. vq'[q] = w /\ \A r \in Vqs \ {q} : vq'[r] = vq[r]
      BY <3>1 DEF LinkInv, QueueInv, QueueTypes
    <3>3. SameView(q)
      <4>v. PICK v : v = vq[q]
        OBVIOUS
      <4>1. IsVq(v)
        BY <4>v DEF LinkInv, QueueInv, QueueTypes
      <4>2. w = [v EXCEPT !.avail = (v.avail + 1) % IdxMod]
        BY <3>w, <4>v DEF IncAvail
      <4>3. w.raw = v.raw /\ w.write = v.write /\ w.old = v.old /\ w.used = v.used /\ w.desc = v.desc /\ w.len = v.len
        BY <4>1, <4>2 DEF IsVq
      <4> QED BY <4>3, <4>v, <3>2 DEF SameView
    <3>4. \A r \in Vqs \ {q} : SameView(r)
      BY <3>2 DEF SameView
    <3> QED BY <3>3, <3>4
  <2>2. CASE KickIo
    BY <2>2 DEF KickIo, SameView
  <2> QED BY <2>1, <2>2
<1>3. SameView("rpmb_in") /\ SameView("rpmb_out")
  BY <1>2 DEF Vqs
<1> QED BY <1>1, <1>3, RpmbWait

\* Nothing of the RPMB port is used while the console starts.
LEMMA ConsoleRpmb ==
    ASSUME LinkInv, RpmbInv, ConsoleInit
    PROVE  RpmbInv'
<1>1. UNCHANGED rpmb
  BY DEF ConsoleInit, Probe, Negotiate, ControlSetup, Scan, GetMsg, PollMsg, PortReady, HandleMsg, consoleVars
<1>2. ~Storing
  BY DEF ConsoleInit, Probe, Negotiate, ControlSetup, Scan, GetMsg, PollMsg, PortReady, HandleMsg, Storing, Inner, RpmbAt
<1>3. "ctl_out" \in Vqs \ {"rpmb_in", "rpmb_out"} /\ "get" \in IoNext \ RpmbAt
  BY DEF Vqs, IoNext, RpmbAt
<1>4. CASE Scan
  <2>m. PICK m : m = <<Tok("DEVICE_READY", 0)>>
    OBVIOUS
  <2>1. StartIo("ctl_out", m, Len(m), "get")
    BY <1>4, <2>m DEF Scan, Send
  <2> QED BY <2>1, <1>1, <1>2, <1>3, RpmbIo
<1>5. CASE PortReady
  <2>m. PICK m : m = <<Tok("PORT_READY", Msg[1].v)>>
    OBVIOUS
  <2>1. StartIo("ctl_out", m, Len(m), "get") \/ (pc' = "assert" /\ UNCHANGED vq)
    BY <1>5, <2>m DEF PortReady, Send
  <2>2. "assert" \notin RpmbAt \cup {"io"}
    BY DEF RpmbAt
  <2> QED BY <2>1, <2>2, <1>1, <1>2, <1>3, RpmbIo, RpmbGo
<1>6. CASE Probe \/ Negotiate \/ ControlSetup \/ GetMsg \/ PollMsg \/ \E e \in Events : HandleMsg(e)
  <2>1. pc' \in {"negotiate", "setup", "assert", "error", "hung", "scan", "msg", "poll", "scanned", "ready", "get"}
    BY <1>6 DEF Probe, Negotiate, ControlSetup, GetMsg, PollMsg, HandleMsg, LogNowhere, TakeMsg
  <2>2. pc' \notin RpmbAt \cup {"io"}
    BY <2>1 DEF RpmbAt
  <2>3. vq'["rpmb_in"] = vq["rpmb_in"]
    <3>1. "rpmb_in" \in Vqs
      BY DEF Vqs
    <3>2. \/ UNCHANGED vq \/ \E w : vq' = [vq EXCEPT !["ctl_in"] = w]
          \/ \E w, x : vq' = [vq EXCEPT !["ctl_out"] = x, !["ctl_in"] = w]
      BY <1>6 DEF Probe, Negotiate, ControlSetup, GetMsg, PollMsg, HandleMsg, TakeMsg, Release, queueVars
    <3> QED BY <3>1, <3>2 DEF LinkInv, QueueInv, QueueTypes
  <2> QED BY <2>2, <2>3, <1>1, <1>2, RpmbGo
<1> QED BY <1>4, <1>5, <1>6 DEF ConsoleInit

\* A port is connected, the queues of the RPMB port one way each.
LEMMA ConnectRpmb ==
    ASSUME LinkInv, RpmbInv, ~Storing, NEW n, NEW in, NEW out, NEW next,
           \/ in = "log_in" /\ out = "log_out" /\ next = "log_open"
           \/ in = "rpmb_in" /\ out = "rpmb_out" /\ next = "rpmb_open",
           NamedPorts(n) # {}, ConnectPort(n, in, out, next)
    PROVE  RpmbInv'
<1>id. PICK id : id = ConsoleQ(PortOf(n))
  OBVIOUS
<1>w. PICK w : w = InVq(vq[in], id)
  OBVIOUS
<1>x. PICK x : x = OutVq(vq[out], id + 1)
  OBVIOUS
<1>1. vq' = [vq EXCEPT ![in] = w, ![out] = x] /\ pc' = next /\ UNCHANGED rpmb
  BY <1>id, <1>w, <1>x DEF ConnectPort, InVq, OutVq
<1>2. in \in Vqs /\ out \in Vqs /\ in # out /\ "rpmb_in" \in Vqs /\ out # "rpmb_in"
  BY DEF Vqs
<1>3. id \in QueueIds
  <2>1. NamedPorts(n) \in SUBSET Nat
    BY Sizes DEF NamedPorts, PortIds
  <2>2. PortOf(n) \in NamedPorts(n)
    BY <2>1, NatMin DEF PortOf
  <2>3. PortOf(n) \in PortIds
    BY <2>2 DEF NamedPorts
  <2> QED BY <2>3, <1>id, PortQueues
<1>4. w.write
  <2>1. IsVq(vq[in])
    BY <1>2 DEF LinkInv, QueueInv, QueueTypes
  <2> QED BY <2>1, <1>3, <1>w, InitIn
<1>5. vq'["rpmb_in"].raw => vq'["rpmb_in"].write
  <2>1. vq'[in] = w /\ (in # "rpmb_in" => vq'["rpmb_in"] = vq["rpmb_in"])
    BY <1>1, <1>2 DEF LinkInv, QueueInv, QueueTypes
  <2> QED BY <2>1, <1>4 DEF RpmbInv, AnswerInv
<1>6. ~Storing' /\ pc' # "io"
  BY <1>1 DEF Storing, Inner, RpmbAt
<1> QED BY <1>1, <1>5, <1>6, RpmbAway

LEMMA RpmbInit ==
    ASSUME Init
    PROVE  RpmbInv
<1>1. /\ pc = "start" /\ \A q \in Vqs : vq[q] = NewVq
      /\ rpmb = [cmd |-> NoCmd, next |-> "none", issued |-> <<>>, answer |-> <<>>,
                 stream |-> <<>>, executed |-> <<>>, reply |-> <<>>]
  BY DEF Init
<1>2. ~Storing /\ ~Answered /\ Packet = <<>> /\ Unsent = <<>>
  BY <1>1 DEF Storing, Inner, Answered, Packet, Unsent, RpmbAt
<1>3. ~vq["rpmb_in"].raw
  BY <1>1 DEF Vqs, NewVq
<1>4. /\ rpmb.issued = <<>> /\ rpmb.executed = <<>> /\ rpmb.stream = <<>> /\ rpmb.reply = <<>>
      /\ rpmb.cmd = NoCmd /\ Executed = 0 /\ Issued = 0
  BY <1>1 DEF Executed, Issued
<1>5. StreamInv
  <2>1. Queued = <<>> /\ Pending = <<>>
    BY <1>2, <1>4 DEF Queued, Pending, Executed, Issued
  <2>c. PICK cut : cut = [k \in 0 .. 0 |-> 0]
    OBVIOUS
  <2>2. Framed(<<>>, <<>>, cut)
    <3>1. cut \in [0 .. 0 -> Nat] /\ cut[0] = 0 /\ Len(<<>>) = 0 /\ \A k \in 0 .. 0 : k = 0
      BY <2>c
    <3> QED BY <3>1 DEF Framed
  <2>3. <<>> \in Seq(Cmds)
    OBVIOUS
  <2> QED BY <2>1, <2>2, <2>3, <1>4 DEF StreamInv
<1>6. CallInv
  BY <1>1, <1>2, <1>4 DEF CallInv
<1>7. AnswerInv
  BY <1>1, <1>2, <1>3, <1>4 DEF AnswerInv
<1> QED BY <1>5, <1>6, <1>7 DEF RpmbInv

\* The log and the ports' connections.
LEMMA CallRpmb ==
    ASSUME LinkInv, ControlInv, RpmbInv,
           \/ LogChunk \/ LogOpened \/ RpmbOpened \/ InitLog \/ InitRpmb
           \/ OpenPort("log_open", "log_opened") \/ OpenPort("rpmb_open", "rpmb_opened")
    PROVE  RpmbInv'
<1>0. /\ {"log_out", "log_in", "ctl_out"} \subseteq Vqs \ {"rpmb_in", "rpmb_out"}
      /\ {"log", "cmdline", "log_opened", "rpmb_opened"} \subseteq IoNext \ RpmbAt
  BY DEF Vqs, IoNext, RpmbAt
<1>1. CASE LogChunk
  <2>1. /\ pc = "log" /\ log.next \in LogNext /\ UNCHANGED rpmb
        /\ \/ pc' = log.next /\ UNCHANGED vq
           \/ \E data : Send("log_out", data, "log")
    BY <1>1 DEF LogChunk, ControlInv, Inner
  <2>2. ~Storing
    BY <2>1 DEF Storing, Inner, RpmbAt
  <2>3. CASE pc' = log.next /\ UNCHANGED vq
    <3>1. pc' \notin RpmbAt \cup {"io"}
      BY <2>1, <2>3 DEF LogNext, RpmbAt
    <3> QED BY <3>1, <2>1, <2>2, <2>3, RpmbGo
  <2>4. ASSUME NEW data, Send("log_out", data, "log") PROVE RpmbInv'
    <3>1. StartIo("log_out", data, Len(data), "log")
      BY <2>4 DEF Send
    <3> QED BY <3>1, <2>1, <2>2, <1>0, RpmbIo
  <2> QED BY <2>1, <2>3, <2>4
<1>2. CASE LogOpened \/ RpmbOpened
  <2>1. /\ pc \in {"log_opened", "rpmb_opened"} /\ UNCHANGED rpmb
        /\ \/ pc' = "proxy" /\ UNCHANGED vq
           \/ \E n : StartIo("log_in", <<>>, n, "cmdline")
    BY <1>2 DEF LogOpened, RpmbOpened, Recv, queueVars
  <2>2. ~Storing /\ "proxy" \notin RpmbAt \cup {"io"}
    BY <2>1 DEF Storing, Inner, RpmbAt
  <2>3. CASE pc' = "proxy" /\ UNCHANGED vq
    BY <2>1, <2>2, <2>3, RpmbGo
  <2>4. ASSUME NEW n, StartIo("log_in", <<>>, n, "cmdline") PROVE RpmbInv'
    BY <2>1, <2>2, <2>4, <1>0, RpmbIo
  <2> QED BY <2>1, <2>3, <2>4
<1>3. CASE OpenPort("log_open", "log_opened") \/ OpenPort("rpmb_open", "rpmb_opened")
  <2>m. PICK m : m = <<Tok("PORT_OPEN", cur)>>
    OBVIOUS
  <2>1. /\ pc \in {"log_open", "rpmb_open"} /\ UNCHANGED rpmb
        /\ \E next \in {"log_opened", "rpmb_opened"} : StartIo("ctl_out", m, Len(m), next)
    BY <1>3, <2>m DEF OpenPort, Send, consoleVars
  <2>2. ~Storing
    BY <2>1 DEF Storing, Inner, RpmbAt
  <2> QED BY <2>1, <2>2, <1>0, RpmbIo
<1>4. CASE InitLog \/ InitRpmb
  <2>1. pc \in {"scanned", "rpmb_scan"}
    BY <1>4 DEF InitLog, InitRpmb
  <2>2. ~Storing
    BY <2>1 DEF Storing, Inner, RpmbAt
  <2>3. \/ NamedPorts("testrunner0") # {} /\ ConnectPort("testrunner0", "log_in", "log_out", "log_open")
        \/ NamedPorts("rpmb0") # {} /\ ConnectPort("rpmb0", "rpmb_in", "rpmb_out", "rpmb_open")
        \/ pc' \in {"error", "assert", "log"} /\ UNCHANGED <<vq, rpmb>>
    BY <1>4 DEF InitLog, InitRpmb, Go, LogMsg, LogBuf, consoleVars, queueVars
  <2>4. \A next \in {"error", "assert", "log"} : next \notin RpmbAt \cup {"io"}
    BY DEF RpmbAt
  <2>5. CASE pc' \in {"error", "assert", "log"} /\ UNCHANGED <<vq, rpmb>>
    BY <2>2, <2>4, <2>5, RpmbGo
  <2> QED BY <2>2, <2>3, <2>5, ConnectRpmb
<1> QED BY <1>1, <1>2, <1>3, <1>4

\* Steps of boot() between the calls.
LEMMA MovesRpmb ==
    ASSUME LinkInv, RpmbInv, pc \in Between, Moves(Goals) \/ Abort
    PROVE  RpmbInv'
<1>1. ~Storing
  BY DEF Between, Storing, Inner, RpmbAt
<1>2. ASSUME NEW next \in Goals, Go(next) PROVE RpmbInv'
  <2>1. pc' \notin RpmbAt \cup {"io"} /\ UNCHANGED <<vq, rpmb>>
    BY <1>2 DEF Goals, Go, consoleVars, queueVars, RpmbAt
  <2> QED BY <1>1, <2>1, RpmbGo
<1>3. ASSUME NEW text, NEW next, LogBuf(text, next) PROVE RpmbInv'
  <2>1. pc' \notin RpmbAt \cup {"io"} /\ UNCHANGED <<vq, rpmb>>
    BY <1>3 DEF LogBuf, queueVars, RpmbAt
  <2> QED BY <1>1, <2>1, RpmbGo
<1>4. CASE Abort
  <2>m. PICK m : m = <<Tok("exit", 2)>>
    OBVIOUS
  <2>1. StartIo("log_out", m, Len(m), "astray") /\ UNCHANGED rpmb
    BY <1>4, <2>m DEF Abort, HostExit, Send
  <2>2. "astray" \in IoNext \ RpmbAt /\ "log_out" \in Vqs \ {"rpmb_in", "rpmb_out"}
    BY DEF IoNext, RpmbAt, Vqs
  <2> QED BY <1>1, <2>1, <2>2, RpmbIo
<1>5. CASE \E name \in Texts : \E next \in LogNext : LogMsg(name, next)
  BY <1>5, <1>3 DEF LogMsg
<1> QED BY <1>2, <1>4, <1>5 DEF Moves

LEMMA RpmbSteps ==
    ASSUME LinkInv, RunInv, RpmbInv, [Next]_vars
    PROVE  RpmbInv'
<1>1. ControlInv
  BY DEF RunInv
<1>2. CASE ConsoleInit
  BY <1>2, ConsoleRpmb
<1>3. CASE UNCHANGED vars \/ Secondary
  <2>1. UNCHANGED <<pc, io, rpmb, got, vq>>
    <3>1. CASE UNCHANGED vars
      BY <3>1 DEF vars, queueVars, consoleVars
    <3>2. CASE Secondary
      BY <3>2 DEF Secondary, SecondaryStart, queueVars, consoleVars
    <3> QED BY <1>3, <3>1, <3>2
  <2> QED BY <2>1, OtherRpmb
<1>4. CASE DriverIo /\ UNCHANGED <<consoleVars, bootVars>>
  BY <1>1, <1>4, PublishRpmb, FinishRpmb DEF DriverIo
<1>5. CASE RpmbStep \/ RpmbEnd \/ StorageRequest
  BY <1>1, <1>5, StepRpmb, EndRpmb, RequestRpmb
<1>6. CASE \/ LogChunk \/ LogOpened \/ RpmbOpened \/ InitLog \/ InitRpmb
           \/ OpenPort("log_open", "log_opened") \/ OpenPort("rpmb_open", "rpmb_opened")
  BY <1>1, <1>6, CallRpmb
<1>7. CASE Host
  BY <1>1, <1>7, HostRpmb DEF Host
<1>8. CASE Astray \/ BootArm64 \/ RecvResultByte \/ WaitForClose
  <2>1. /\ pc \in {"astray", "assert", "start", "recv", "close"} /\ UNCHANGED <<vq, rpmb>>
        /\ pc' \in {"error", "hung", "probe", "log", "close", "exit"}
    <3>1. CASE Astray \/ BootArm64
      BY <3>1 DEF Astray, LogNowhere, BootArm64, Go, consoleVars, queueVars
    <3>2. CASE RecvResultByte \/ WaitForClose
      BY <3>2 DEF RecvResultByte, WaitForClose, ExitAfter, LogMsg, LogBuf, Go, consoleVars, queueVars
    <3> QED BY <1>8, <3>1, <3>2
  <2>2. ~Storing /\ pc' \notin RpmbAt \cup {"io"}
    BY <2>1 DEF Storing, Inner, RpmbAt
  <2> QED BY <2>1, <2>2, RpmbGo
<1>9. CASE ReportStatus
  <2>1. /\ pc = "exit" /\ UNCHANGED rpmb
        /\ \E m : StartIo("log_out", m, Len(m), "error")
    BY <1>9 DEF ReportStatus, HostExit, Send
  <2>2. ~Storing /\ "error" \in IoNext \ RpmbAt /\ "log_out" \in Vqs \ {"rpmb_in", "rpmb_out"}
    BY <2>1 DEF Storing, Inner, IoNext, RpmbAt, Vqs
  <2> QED BY <2>1, <2>2, RpmbIo
<1>10. CASE \/ GetCmdline \/ BootNext \/ CpuOn \/ CpuWait \/ CpuLook \/ WfeReturns
            \/ Libtipc /\ ~RecvResultByte /\ ~WaitForClose
  <2>1. pc \in Between /\ (Moves(Goals \ {"close", "exit"}) \/ Abort)
    BY <1>10, PlainMoves
  <2>2. Moves(Goals) \/ Abort
    BY <2>1 DEF Moves
  <2> QED BY <2>1, <2>2, MovesRpmb
<1> QED BY <1>2, <1>3, <1>4, <1>5, <1>6, <1>7, <1>8, <1>9, <1>10 DEF Next, Boot, Console

\* In every reachable state what is under way to the RPMB device is the frames of
\* the commands rpmb_storage_send was called with and the device has not executed,
\* whole and in order, the last of them less the parts that are not sent yet; only
\* the running call waits for an answer, and the answer is that of its own command.
THEOREM RpmbInvariance == Spec => []RpmbInv
<1>1. Init => RpmbInv
  BY RpmbInit
<1>2. RpmbInv /\ LinkInv /\ RunInv /\ [Next]_vars => RpmbInv'
  BY RpmbSteps
<1> QED BY <1>1, <1>2, RunInvariance, LinkInvariance, PTL DEF Spec

(***************************************************************************)
(* The assertions.                                                         *)
(***************************************************************************)

\* rpmb_scan connects a port that is there.
LEMMA ScanAsserts ==
    ASSUME BoardInv, InitRpmb
    PROVE  pc' # "assert"
<1>1. Scanned
  BY DEF InitRpmb, Scanned
<1>2. CASE NamedPorts("rpmb0") = {}
  BY <1>2 DEF InitRpmb, LogMsg, LogBuf
<1>3. CASE NamedPorts("rpmb0") # {}
  <2>p. PICK p : p = PortOf("rpmb0")
    OBVIOUS
  <2>1. p \in PortIds /\ ports[p].name = "rpmb0"
    <3>1. NamedPorts("rpmb0") \in SUBSET Nat
      BY Sizes DEF NamedPorts, PortIds
    <3>2. p \in NamedPorts("rpmb0")
      BY <3>1, <1>3, <2>p, NatMin DEF PortOf
    <3> QED BY <3>2 DEF NamedPorts
  <2>2. Known(p)
    BY <1>1, <2>1 DEF BoardInv, Settled
  <2>3. "rpmb0" # NoName
    BY Unnamed DEF Names
  <2>4. ports[p].host
    BY <2>1, <2>2, <2>3 DEF Known
  <2> QED BY <1>3, <2>4, <2>p DEF InitRpmb, ConnectPort
<1> QED BY <1>2, <1>3

\* rpmb_storage_send returns with all the blocks it was asked for.
LEMMA EndAsserts ==
    ASSUME LinkInv, ControlInv, RpmbInv, RpmbEnd
    PROVE  pc' # "assert"
<1>1. pc = "rpmb_end" /\ rpmb.next \in Polling
  BY DEF RpmbEnd, ControlInv, Inner, RpmbAt
<1>c. PICK c \in Cmds \cup {NoCmd} : c = rpmb.cmd
  BY DEF LinkInv, ConsoleTypes, RpmbTypes
<1>n. PICK n \in Nat : n = c.read
  BY Command
<1>2. n > 0 => Len(got) = n
  <2>1. Executed \in Nat
    BY LenProperties DEF Executed, LinkInv, ConsoleTypes, RpmbTypes
  <2>2. Len(Blocks(c, Executed)) = n
    BY <2>1, <1>n, BlocksSeq
  <2>3. n > 0 => got = Blocks(c, Executed)
    BY <1>1, <1>c, <1>n DEF RpmbInv, AnswerInv
  <2> QED BY <2>2, <2>3
<1>3. c.read \in {0, Len(got)}
  BY <1>n, <1>2
<1>4. pc' = rpmb.next
  BY <1>3, <1>c DEF RpmbEnd
<1> QED BY <1>1, <1>4 DEF Polling

LEMMA AssertsSteps ==
    ASSUME LinkInv, RunInv, BoardInv, RpmbInv, AssertsHold, [Next]_vars
    PROVE  AssertsHold'
<1>1. ControlInv
  BY DEF RunInv
<1>n. CASE Negotiate
  BY <1>n DEF Negotiate, Usable, AssertsHold
<1>h. CASE UNCHANGED vars \/ Secondary \/ Host
  <2>1. CASE UNCHANGED vars \/ Secondary
    BY <2>1 DEF vars, consoleVars, Secondary, SecondaryStart, Usable, AssertsHold
  <2>2. CASE Host
    <3>1. UNCHANGED pc /\ (UNCHANGED host \/ \E rest : host' = [host EXCEPT !.line = rest])
      BY <2>2 DEF Host, HostStep, ControlTake, ControlAdd, ControlSend, ControlDone, RpmbExecute, PortOut, PortIn
    <3>2. host'.offered = host.offered /\ host'.accepts = host.accepts
      BY <1>1, <3>1 DEF ControlInv
    <3> QED BY <3>1, <3>2 DEF Usable, AssertsHold
  <2> QED BY <1>h, <2>1, <2>2
<1> SUFFICES ASSUME pc' = "assert", ~Negotiate, ~(UNCHANGED vars \/ Secondary \/ Host) PROVE FALSE
  BY <1>n, <1>h DEF AssertsHold
<1>a. "assert" \notin IoNext \cup LogNext \cup Goals \cup RpmbAt \cup {"io"}
  BY DEF IoNext, LogNext, Goals, RpmbAt
<1>0. ASSUME NEW q, NEW data, NEW n, NEW next, next # "assert", StartIo(q, data, n, next) PROVE pc' # "assert"
  BY <1>0 DEF StartIo
<1>2. CASE ConsoleInit
  <2>1. CASE PortReady
    <3>1. PortReady /\ pc = "ready" /\ ports[Msg[1].v].host
      BY <2>1, ReadyPort DEF PortReady
    <3>2. \E data : Send("ctl_out", data, "get")
      BY <3>1 DEF PortReady
    <3> QED BY <3>2, <1>0 DEF Send
  <2>2. CASE Scan
    <3>1. \E data : Send("ctl_out", data, "get")
      BY <2>2 DEF Scan
    <3> QED BY <3>1, <1>0 DEF Send
  <2>3. CASE Probe \/ ControlSetup \/ GetMsg \/ PollMsg \/ \E e \in Events : HandleMsg(e)
    BY <2>3 DEF Probe, ControlSetup, GetMsg, PollMsg, HandleMsg, LogNowhere, TakeMsg
  <2> QED BY <1>2, <2>1, <2>2, <2>3 DEF ConsoleInit
<1>4. CASE DriverIo /\ UNCHANGED <<consoleVars, bootVars>>
  <2>1. CASE PublishIo \/ KickIo
    BY <2>1, <1>1 DEF PublishIo, KickIo
  <2>2. CASE FinishIo
    BY <2>2, <1>1, <1>a DEF FinishIo, ControlInv
  <2> QED BY <1>4, <2>1, <2>2 DEF DriverIo
<1>5. CASE RpmbStep \/ StorageRequest
  <2>1. \/ \E data : \E next \in RpmbAt : Send("rpmb_out", data, next)
        \/ \E n : \E next \in RpmbAt : Recv("rpmb_in", n, next)
    <3>1. {"rpmb_count", "rpmb_rel", "rpmb_write", "rpmb_read", "rpmb_end"} \subseteq RpmbAt
      BY DEF RpmbAt
    <3>2. CASE RpmbStep
      BY <3>1, <3>2 DEF RpmbStep
    <3>3. CASE StorageRequest
      BY <3>1, <3>3 DEF StorageRequest, RpmbSend
    <3> QED BY <1>5, <3>2, <3>3
  <2> QED BY <2>1, <1>0, <1>a DEF Send, Recv
<1>6. CASE LogChunk
  <2>1. log.next \in LogNext /\ (pc' = log.next \/ \E data : Send("log_out", data, "log"))
    BY <1>1, <1>6 DEF LogChunk, ControlInv, Inner
  <2> QED BY <2>1, <1>0, <1>a DEF Send
<1>7. CASE LogOpened \/ RpmbOpened
  BY <1>7, <1>0 DEF LogOpened, RpmbOpened, Recv
<1>8. CASE OpenPort("log_open", "log_opened") \/ OpenPort("rpmb_open", "rpmb_opened")
  <2>1. \E data : Send("ctl_out", data, "log_opened") \/ Send("ctl_out", data, "rpmb_opened")
    BY <1>8 DEF OpenPort
  <2> QED BY <2>1, <1>0 DEF Send
<1>9. CASE InitLog
  BY <1>9 DEF InitLog, ConnectPort, Go
<1>10. CASE Astray \/ BootArm64 \/ RecvResultByte \/ WaitForClose
  BY <1>10 DEF Astray, LogNowhere, BootArm64, RecvResultByte, WaitForClose, ExitAfter, LogMsg, LogBuf, Go
<1>11. CASE ReportStatus
  <2>1. \E data : Send("log_out", data, "error")
    BY <1>11 DEF ReportStatus, HostExit
  <2> QED BY <2>1, <1>0 DEF Send
<1>12. CASE \/ GetCmdline \/ BootNext \/ CpuOn \/ CpuWait \/ CpuLook \/ WfeReturns
            \/ Libtipc /\ ~RecvResultByte /\ ~WaitForClose
  <2>1. Moves(Goals \ {"close", "exit"}) \/ Abort
    BY <1>12, PlainMoves
  <2>2. CASE Abort
    <3>1. \E data : Send("log_out", data, "astray")
      BY <2>2 DEF Abort, HostExit
    <3> QED BY <3>1, <1>0 DEF Send
  <2>3. ASSUME NEW next \in Goals, Go(next) PROVE pc' # "assert"
    BY <2>3, <1>a DEF Go
  <2>4. CASE \E name \in Texts : \E next \in LogNext : LogMsg(name, next)
    BY <2>4 DEF LogMsg, LogBuf
  <2> QED BY <2>1, <2>2, <2>3, <2>4 DEF Moves
<1> QED BY <1>1, <1>2, <1>4, <1>5, <1>6, <1>7, <1>8, <1>9, <1>10, <1>11, <1>12, ScanAsserts, EndAsserts
        DEF Next, Boot, Console

\* Ports are connected when port_ready and rpmb_scan use them, and
\* rpmb_storage_send gets every block of its answer: the assertions of port_ready,
\* rpmb_scan and on the answer never fail, on any machine and with any commands, and
\* the two of init_virtio_console only where the console lacks the features or does
\* not accept them.
THEOREM AssertionsHold == Spec => []AssertsHold
<1>1. Init => AssertsHold
  BY DEF Init, AssertsHold
<1>2. AssertsHold /\ LinkInv /\ RunInv /\ BoardInv /\ RpmbInv /\ [Next]_vars => AssertsHold'
  BY AssertsSteps
<1> QED BY <1>1, <1>2, RunInvariance, LinkInvariance, BoardInvariance, RpmbInvariance, PTL DEF Spec

(***************************************************************************)
(* rpmb_storage_send implements RpmbTransport.                             *)
(***************************************************************************)

LEMMA FifoStutters ==
    ASSUME rpmb'.cmd = rpmb.cmd, rpmb'.issued = rpmb.issued, rpmb'.executed = rpmb.executed,
           rpmb'.answer = rpmb.answer
    PROVE  UNCHANGED Transport!tvars
BY DEF Transport!tvars

LEMMA FifoCall ==
    ASSUME LinkInv, ControlInv, RpmbInv, StorageRequest
    PROVE  \E c \in Cmds : Transport!Call(c)
<1>c. PICK c \in Cmds : RpmbSend(c, pc) /\ pc \in Polling
  BY DEF StorageRequest
<1>1. rpmb.cmd = NoCmd
  <2>1. ~Storing
    BY <1>c DEF Polling, Storing, Inner, RpmbAt
  <2> QED BY <2>1 DEF RpmbInv, CallInv
<1>i. PICK s \in Seq(Cmds), n \in Nat, e \in Nat : s = rpmb.issued /\ n = Len(s) /\ e = Len(rpmb.executed) /\ e <= n
  BY LenProperties DEF RpmbInv, StreamInv, Executed, Issued, LinkInv, ConsoleTypes, RpmbTypes
<1>2. /\ rpmb'.cmd = c /\ rpmb'.issued = Append(s, c) /\ rpmb'.executed = rpmb.executed
      /\ rpmb'.answer = rpmb.answer
  BY <1>c, <1>i DEF RpmbSend, ControlInv
<1>3. SubSeq(Append(s, c), e + 1, Len(Append(s, c))) = Append(SubSeq(s, e + 1, Len(s)), c)
  <2>1. Len(Append(s, c)) = Len(s) + 1
    BY AppendProperties
  <2> QED BY <2>1, <1>i, LastAdded
<1>4. SubSeq(rpmb'.issued, Len(rpmb'.executed) + 1, Len(rpmb'.issued))
         = Append(SubSeq(rpmb.issued, Len(rpmb.executed) + 1, Len(rpmb.issued)), c)
  BY <1>2, <1>3, <1>i
<1> QED BY <1>1, <1>2, <1>4 DEF Transport!Call

LEMMA FifoExecute ==
    ASSUME LinkInv, ControlInv, RpmbInv, RpmbExecute
    PROVE  Transport!Execute
<1>c. PICK c \in Cmds :
         /\ Queued # <<>> /\ c = Queued[1] /\ Queued' = Tail(Queued) /\ Queued \in Seq(Cmds)
         /\ rpmb'.cmd = rpmb.cmd /\ rpmb'.answer = rpmb.answer
         /\ rpmb'.executed = Append(rpmb.executed, Frame(c))
  BY PartMessages, NextCommand
<1>1. Head(Queued) = c
  BY <1>c, HeadTailProperties
<1> QED BY <1>c, <1>1 DEF Transport!Execute, Queued, Executed, Issued

LEMMA FifoReturn ==
    ASSUME LinkInv, ControlInv, RpmbInv, RpmbEnd
    PROVE  Transport!Return
<1>c. PICK c \in Cmds : c = rpmb.cmd /\ c.read \in Nat
  <2>1. Storing
    BY DEF RpmbEnd, Storing, Inner, RpmbAt
  <2>2. rpmb.issued \in Seq(Cmds) /\ Issued > 0 /\ rpmb.cmd = rpmb.issued[Issued]
    BY <2>1 DEF RpmbInv, StreamInv, CallInv
  <2>3. rpmb.cmd \in Cmds
    BY <2>2, ElementOfSeq, LenProperties DEF Issued
  <2> QED BY <2>3, Command
<1>1. c # NoCmd
  BY RunnerAssumption
<1>2. /\ rpmb'.cmd = NoCmd /\ rpmb'.issued = rpmb.issued /\ rpmb'.executed = rpmb.executed
      /\ rpmb'.answer = IF c.read = 0 THEN <<>> ELSE got
  BY <1>c DEF RpmbEnd, ControlInv
<1>3. CASE c.read = 0
  BY <1>1, <1>2, <1>3, <1>c DEF Transport!Return
<1>4. CASE c.read > 0
  <2>1. Len(rpmb.executed) = Len(rpmb.issued) /\ got = Blocks(c, Len(rpmb.executed))
    BY <1>c, <1>4 DEF RpmbInv, AnswerInv, Answered, RpmbEnd, Executed, Issued
  <2>2. SubSeq(rpmb.issued, Len(rpmb.executed) + 1, Len(rpmb.issued)) = <<>>
    <3>i. PICK s \in Seq(Cmds), n \in Nat : s = rpmb.issued /\ n = Len(s)
      BY LenProperties DEF RpmbInv, StreamInv
    <3>1. SubSeq(s, n + 1, n) = <<>>
      BY <3>i
    <3> QED BY <3>1, <3>i, <2>1
  <2>3. rpmb'.answer = Blocks(c, Len(rpmb.executed))
    BY <1>2, <1>4, <2>1
  <2> QED BY <1>1, <1>2, <1>4, <1>c, <2>2, <2>3 DEF Transport!Return
<1> QED BY <1>3, <1>4, <1>c

LEMMA FifoSteps ==
    ASSUME LinkInv, RunInv, RpmbInv, [Next]_vars
    PROVE  [Transport!TNext]_(Transport!tvars)
<1>1. ControlInv
  BY DEF RunInv
<1>2. CASE StorageRequest
  BY <1>1, <1>2, FifoCall DEF Transport!TNext
<1>3. CASE Host
  <2>1. CASE RpmbExecute
    BY <1>1, <2>1, FifoExecute DEF Transport!TNext
  <2>2. CASE ControlTake \/ ControlAdd \/ ControlSend \/ ControlDone
    <3>1. UNCHANGED rpmb
      BY <2>2 DEF ControlTake, ControlAdd, ControlSend, ControlDone
    <3> QED BY <3>1, FifoStutters
  <2>3. ASSUME NEW p \in PortIds, PortOut(p) \/ PortIn(p) PROVE UNCHANGED Transport!tvars
    <3>1. UNCHANGED rpmb \/ (\E x : rpmb' = [rpmb EXCEPT !.stream = x]) \/ (\E x : rpmb' = [rpmb EXCEPT !.reply = x])
      BY <2>3 DEF PortOut, PortIn
    <3> QED BY <1>1, <3>1, FifoStutters DEF ControlInv
  <2> QED BY <1>3, <2>1, <2>2, <2>3 DEF Host, HostStep
<1>4. CASE RpmbEnd
  BY <1>1, <1>4, FifoReturn DEF Transport!TNext
<1>5. CASE UNCHANGED vars \/ Secondary \/ ConsoleInit \/ (DriverIo /\ UNCHANGED <<consoleVars, bootVars>>) \/ RpmbStep
  <2>1. UNCHANGED rpmb
    <3>1. CASE UNCHANGED vars
      BY <3>1 DEF vars, consoleVars
    <3>2. CASE Secondary
      BY <3>2 DEF Secondary, SecondaryStart, consoleVars
    <3>3. CASE ConsoleInit
      BY <3>3 DEF ConsoleInit, Probe, Negotiate, ControlSetup, Scan, GetMsg, PollMsg, PortReady, HandleMsg, consoleVars
    <3>4. CASE (DriverIo /\ UNCHANGED <<consoleVars, bootVars>>) \/ RpmbStep
      BY <3>4 DEF RpmbStep, consoleVars
    <3> QED BY <1>5, <3>1, <3>2, <3>3, <3>4
  <2> QED BY <2>1, FifoStutters
<1>6. CASE \/ LogChunk \/ LogOpened \/ RpmbOpened \/ InitLog \/ InitRpmb
           \/ OpenPort("log_open", "log_opened") \/ OpenPort("rpmb_open", "rpmb_opened")
  <2>1. UNCHANGED rpmb
    BY <1>6 DEF LogChunk, LogOpened, RpmbOpened, InitLog, InitRpmb, OpenPort, ConnectPort, Go, LogMsg, LogBuf, consoleVars
  <2> QED BY <2>1, FifoStutters
<1>7. CASE Astray \/ BootArm64 \/ RecvResultByte \/ WaitForClose \/ ReportStatus
  <2>1. UNCHANGED rpmb
    BY <1>7 DEF Astray, BootArm64, RecvResultByte, WaitForClose, ReportStatus, HostExit, LogMsg, LogBuf, Go, consoleVars
  <2> QED BY <2>1, FifoStutters
<1>8. CASE \/ GetCmdline \/ BootNext \/ CpuOn \/ CpuWait \/ CpuLook \/ WfeReturns
           \/ Libtipc /\ ~RecvResultByte /\ ~WaitForClose
  <2>1. Moves(Goals \ {"close", "exit"}) \/ Abort
    BY <1>8, PlainMoves
  <2>2. UNCHANGED rpmb
    BY <2>1 DEF Moves, Abort, HostExit, LogMsg, LogBuf, Go, consoleVars
  <2> QED BY <2>2, FifoStutters
<1> QED BY <1>2, <1>3, <1>4, <1>5, <1>6, <1>7, <1>8 DEF Next, Boot, Console

\* rpmb_storage_send, cut into five transfers on two queues, and the device that
\* runs beside it implement RpmbTransport: commands reach the device whole, in
\* order and once each, and a call that reads returns the blocks of its own
\* command, however many commands were issued before it.
THEOREM StorageInOrder == Spec => RpmbFifo
<1>1. Init => Transport!TInit
  <2>1. SubSeq(<<>>, 1, 0) = <<>>
    OBVIOUS
  <2> QED BY <2>1 DEF Init, Transport!TInit
<1>2. LinkInv /\ RunInv /\ RpmbInv /\ [Next]_vars => [Transport!TNext]_(Transport!tvars)
  BY FifoSteps
<1> QED BY <1>1, <1>2, RunInvariance, LinkInvariance, RpmbInvariance, PTL DEF Spec, RpmbFifo, Transport!TSpec
=============================================================================
