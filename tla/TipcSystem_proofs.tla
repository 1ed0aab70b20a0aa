------------------------- MODULE TipcSystem_proofs -------------------------
(***************************************************************************)
(* Proofs about TipcSystem, for any number of clients, handles, commands,  *)
(* storage requests and failures.  The inductive invariant TipcInv ties    *)
(* where the library is (ControlInv, ProxyInv) to what every connection    *)
(* holds (SecureInv), says which call a new connection belongs to, so that *)
(* a late READY cannot end another wait (ReadyInv), that the proxy has one *)
(* connection (ProxyAlone), and what is under way on a client's connection *)
(* (AnswerInv) and on the proxy's (StorageFlow).                           *)
(***************************************************************************)
EXTENDS TipcSystem, TLAPS, SequenceTheorems

StorageMsgs == [id : Ids, body : StorageReqs]

\* pc while the library waits, and while the proxy serves a request.
Waiting == {"poll", "has_event", "wfi"}
Serving == {"px_recv", "px_send", "px_close"}

\* Where a call is fits what it is for.
ControlInv ==
    /\ pc = "user" <=> kind = "none"
    /\ pc \in {"version", "conn_close"} => kind = "connect"
    /\ pc \in {"send_err", "recv"} => kind \in {"version", "call"}
    /\ pc = "version" \/ kind \in {"version", "call"} => cur \in Clients
    /\ kind \in {"connect", "version", "call"} => handle[cur] # NoHandle
    /\ kind \in {"connect", "version", "call"} /\ pc \in Waiting \cup Serving => complete[cur] = 0
    /\ kind \in {"version", "call"} /\ pc # "send_err" => Len(req) = 1

\* The proxy's callbacks run once its init has installed them.
ProxyInv ==
    /\ \A c \in Clients : ops[c] = "sync"
    /\ kind = "drain" => cur = Proxy /\ ops[Proxy] = "proxy"
    /\ kind = "connect" /\ cur = Proxy => ops[Proxy] = "sync"
    /\ pc \in Serving => ops[Proxy] = "proxy"
    /\ Len(pxMsg) = IF pc = "px_send" THEN 1 ELSE 0

\* What a connection holds fits its state.
SecureInv ==
    \A h \in Handles :
        /\ st[h] # "open" => tx[h] = <<>> /\ work[h] = <<>>
        /\ st[h] \in {"free", "connecting"} => rx[h] = <<>> /\ edge[h] = {}
        /\ st[h] = "free" => cookie[h] = Proxy
        /\ cookie[h] = Proxy => work[h] = <<>> /\ rx[h] \in Seq(StorageMsgs)

\* A connection that is being made, or was and has not said so yet, is the one
\* a call is waiting for.
ReadyInv ==
    \A h \in Handles :
        (st[h] = "connecting" \/ "READY" \in edge[h]) /\ ~Shadowed(cookie[h]) =>
            /\ kind = "connect" /\ cur = cookie[h]
            /\ pc \in Waiting \cup Serving \cup {"conn_close"}

\* A client's connection carries nothing but the request its call waits for,
\* once: as a request, as work or as the answer.
OnlyRequest(h, q) ==
    q # <<>> => /\ kind \in {"version", "call"} /\ cur = cookie[h] /\ pc # "send_err"
                /\ Head(q) = Head(req)

AnswerInv ==
    \A h \in Handles : h \notin left /\ cookie[h] \in Clients /\ ~abandoned[cookie[h]] =>
        /\ Len(tx[h]) + Len(work[h]) + Len(rx[h]) <= 1
        /\ OnlyRequest(h, tx[h]) /\ OnlyRequest(h, work[h]) /\ OnlyRequest(h, rx[h])

\* A connection that was left is never closed.
LeftInv == \A h \in left : st[h] # "free"

\* The proxy has one connection; its callbacks are installed once it was
\* accepted, and a storage request is outstanding only while it is open.
ProxyAlone ==
    /\ \A g, h \in Handles : cookie[g] = Proxy /\ cookie[h] = Proxy
                             /\ st[g] # "free" /\ st[h] # "free" => g = h
    /\ \A h \in Handles : cookie[h] = Proxy /\ st[h] = "connecting" => ops[Proxy] = "sync"
    /\ sop # 0 => \E p \in Handles : ProxyOpen(p)

\* StorageExact, queue by queue.
StorageFlow ==
    \A p \in Handles : ProxyOpen(p) =>
        /\ Len(rx[p]) + Len(tx[p]) + Len(pxMsg) <= 1
        /\ rx[p] # <<>> => Head(rx[p]).id = sop
        /\ tx[p] # <<>> => Head(tx[p]).id = sop
        /\ pxMsg # <<>> => Head(pxMsg).id = sop
        /\ sop # 0 /\ pc # "px_close" /\ p \notin left =>
              rx[p] # <<>> \/ pxMsg # <<>> \/ tx[p] # <<>>

TipcInv ==
    /\ TypeOK /\ ControlInv /\ ProxyInv /\ SecureInv /\ ReadyInv
    /\ ConnectionsAgree /\ WaitedRecvHasMessage /\ LeftInv
    /\ AnswerInv /\ AnswerMatches /\ StorageFlow /\ ProxyAlone

\* Sequences of messages.
LEMMA MsgSeqs ==
  /\ \A s \in Seq(Msgs), m \in Msgs :
        /\ Append(s, m) \in Seq(Msgs) /\ Append(s, m) # <<>>
        /\ Len(Append(s, m)) = Len(s) + 1
        /\ s = <<>> => Head(Append(s, m)) = m
        /\ <<m>> \in Seq(Msgs) /\ Len(<<m>>) = 1 /\ Head(<<m>>) = m /\ <<m>> # <<>>
  /\ \A s \in Seq(Msgs) :
        /\ Len(s) \in Nat /\ (Len(s) = 0 <=> s = <<>>)
        /\ s # <<>> => /\ Head(s) \in Msgs /\ Tail(s) \in Seq(Msgs)
                       /\ Len(Tail(s)) = Len(s) - 1
  /\ <<>> \in Seq(Msgs) /\ Len(<<>>) = 0
  OBVIOUS

\* Nothing is connected at first, so the invariant holds.
LEMMA TipcInit == Init => TipcInv
<1> SUFFICES ASSUME Init PROVE TipcInv
  OBVIOUS
<1> USE ConstantsAssumption, TipcAssumption DEF Init, SecInit, LibInit, Chans
<1>1. TypeOK
  BY DEF TypeOK, SecTypeOK, LibTypeOK
<1>2. ControlInv /\ ProxyInv
  BY DEF ControlInv, ProxyInv, Waiting, Serving
<1>3. SecureInv /\ ReadyInv
  BY DEF SecureInv, ReadyInv, Shadowed
<1>4. ConnectionsAgree /\ WaitedRecvHasMessage
  BY DEF ConnectionsAgree, WaitedRecvHasMessage, Shadowed
<1>5. AnswerInv /\ AnswerMatches /\ StorageFlow /\ LeftInv /\ ProxyAlone
  BY DEF AnswerInv, AnswerMatches, StorageFlow, ProxyOpen, LeftInv, ProxyAlone
<1> QED
  BY <1>1, <1>2, <1>3, <1>4, <1>5 DEF TipcInv

\* The proxy has one live connection, the one its channel names if it names any.
LEMMA ProxyUnique ==
  ASSUME TipcInv, NEW p \in Handles, ProxyOpen(p), NEW h \in Handles,
         cookie[h] = Proxy, st[h] # "free"
  PROVE  h = p
  BY DEF TipcInv, ProxyAlone, ProxyOpen

\* StorageFlow after a step that leaves the proxy's connection alone.
LEMMA StorageFrame ==
  ASSUME StorageFlow, UNCHANGED <<st, cookie, sop, pxMsg>>, left \subseteq left',
         pc = "px_close" => pc' = "px_close",
         \A q \in Handles : cookie[q] = Proxy => rx'[q] = rx[q] /\ tx'[q] = tx[q]
  PROVE  StorageFlow'
  BY DEF StorageFlow, ProxyOpen

\* Without an outstanding storage request no service waits for one.
LEMMA StorageIdle ==
  ASSUME TipcInv, NEW p \in Handles, ProxyOpen(p), sop = 0
  PROVE  rx[p] = <<>> /\ tx[p] = <<>> /\ pxMsg = <<>>
<1>1. \A m \in Msgs : m.id # 0
  BY ConstantsAssumption DEF Msgs, Ids
<1> QED
  BY <1>1, MsgSeqs DEF TipcInv, StorageFlow, TypeOK, SecTypeOK, LibTypeOK

\* AnswerInv is about the clients' connections only.
LEMMA AnswerFrame ==
  ASSUME AnswerInv, UNCHANGED <<cookie, libVars>>,
         \A g \in Handles : cookie[g] \in Clients =>
             tx'[g] = tx[g] /\ work'[g] = work[g] /\ rx'[g] = rx[g]
  PROVE  AnswerInv'
<1>1. UNCHANGED <<cookie, abandoned, left, kind, cur, pc, req>>
  BY DEF libVars
<1>2. SUFFICES ASSUME NEW g \in Handles, g \notin left,
                      cookie[g] \in Clients, ~abandoned[cookie[g]]
               PROVE  AnswerInv!(g)'
  BY <1>1 DEF AnswerInv
<1>3. tx'[g] = tx[g] /\ work'[g] = work[g] /\ rx'[g] = rx[g]
  BY <1>2
<1>4. AnswerInv!(g)
  BY DEF AnswerInv
<1> QED
  BY <1>1, <1>2, <1>3, <1>4 DEF OnlyRequest

\* ConnectionsAgree and WaitedRecvHasMessage survive a message that arrives.
LEMMA ArrivalFrame ==
  ASSUME ConnectionsAgree, WaitedRecvHasMessage, UNCHANGED <<st, cookie, libVars>>,
         \A g \in Handles : rx'[g] = <<>> => rx[g] = <<>>,
         \A g \in Handles : st[g] = "hup" => rx'[g] = rx[g]
  PROVE  ConnectionsAgree' /\ WaitedRecvHasMessage'
  BY DEF ConnectionsAgree, WaitedRecvHasMessage, Shadowed, libVars

\* AnswerInv holds when no request is anywhere.
LEMMA AnswerEmpty ==
  ASSUME \A g \in Handles : g \notin left' /\ cookie'[g] \in Clients /\ ~abandoned'[cookie'[g]] =>
             tx'[g] = <<>> /\ work'[g] = <<>> /\ rx'[g] = <<>>
  PROVE  AnswerInv'
<1>1. Len(<<>>) + Len(<<>>) + Len(<<>>) <= 1
  OBVIOUS
<1> QED
  BY <1>1 DEF AnswerInv, OnlyRequest

\* A service that accepts a connection keeps the invariant.
LEMMA AcceptKeeps ==
  ASSUME TipcInv, NEW h \in Handles, Accept(h), UNCHANGED libVars
  PROVE  TipcInv'
<1> USE ConstantsAssumption, TipcAssumption
    DEF TipcInv, TypeOK, SecTypeOK, LibTypeOK, Chans, libVars, Accept
<1>1. TypeOK'
  OBVIOUS
<1>2. ControlInv' /\ ProxyInv'
  BY DEF ControlInv, ProxyInv, Waiting, Serving
<1>3. SecureInv' /\ ReadyInv'
  BY SMTT(30) DEF SecureInv, ReadyInv, Shadowed
<1>4. ConnectionsAgree' /\ WaitedRecvHasMessage'
  BY SMTT(30) DEF ConnectionsAgree, WaitedRecvHasMessage, Shadowed
<1>5. AnswerInv' /\ AnswerMatches'
  BY DEF AnswerInv, OnlyRequest, AnswerMatches
<1>6. StorageFlow'
  <2> SUFFICES ASSUME NEW q \in Handles, ProxyOpen(q)'
               PROVE  StorageFlow!(q)'
    BY DEF StorageFlow
  <2>1. CASE q = h
    <3>1. rx[h] = <<>> /\ tx[h] = <<>>
      BY DEF SecureInv
    <3>2. pxMsg = <<>>
      BY <2>1, MsgSeqs DEF ProxyAlone, ProxyInv, ProxyOpen, Serving
    <3>3. sop = 0
      BY <2>1 DEF ProxyAlone, ProxyOpen
    <3> QED
      BY <2>1, <3>1, <3>2, <3>3, MsgSeqs
  <2>2. CASE q # h
    BY <2>2 DEF StorageFlow, ProxyOpen
  <2> QED
    BY <2>1, <2>2
<1>7. LeftInv' /\ ProxyAlone'
  BY SMTT(30) DEF LeftInv, ProxyAlone, ProxyOpen
<1> QED
  BY <1>1, <1>2, <1>3, <1>4, <1>5, <1>6, <1>7

\* A service that drops a connection keeps the invariant.
LEMMA HupKeeps ==
  ASSUME TipcInv, NEW h \in Handles, Hup(h), UNCHANGED libVars
  PROVE  TipcInv'
<1> USE ConstantsAssumption, TipcAssumption
    DEF TipcInv, TypeOK, SecTypeOK, LibTypeOK, Chans, libVars, Hup
<1>1. TypeOK'
  BY MsgSeqs DEF StorageLost
<1>2. ControlInv' /\ ProxyInv'
  BY DEF ControlInv, ProxyInv, Waiting, Serving
<1>3. SecureInv' /\ ReadyInv'
  BY DEF SecureInv, ReadyInv, Shadowed
<1>4. ConnectionsAgree' /\ WaitedRecvHasMessage'
  BY SMTT(30) DEF ConnectionsAgree, WaitedRecvHasMessage, Shadowed
<1>5. AnswerInv' /\ AnswerMatches'
  BY MsgSeqs DEF AnswerInv, OnlyRequest, AnswerMatches
<1>6. StorageFlow'
  <2> SUFFICES ASSUME NEW q \in Handles, ProxyOpen(q)'
               PROVE  StorageFlow!(q)'
    BY DEF StorageFlow
  <2>1. q # h /\ ProxyOpen(q)
    BY DEF ProxyOpen
  <2>2. cookie[h] # Proxy
    BY <2>1, ProxyUnique DEF ProxyOpen
  <2> QED
    BY <2>1, <2>2 DEF StorageFlow, StorageLost
<1>7. LeftInv' /\ ProxyAlone'
  BY SMTT(30) DEF LeftInv, ProxyAlone, ProxyOpen, StorageLost
<1> QED
  BY <1>1, <1>2, <1>3, <1>4, <1>5, <1>6, <1>7

\* A service that takes a request keeps the invariant.
LEMMA SvcTakeKeeps ==
  ASSUME TipcInv, NEW h \in Handles, SvcTake(h), UNCHANGED libVars
  PROVE  TipcInv'
<1> USE ConstantsAssumption, TipcAssumption
    DEF TipcInv, TypeOK, SecTypeOK, LibTypeOK, Chans, libVars, SvcTake
<1>1. TypeOK'
  <2>1. work' \in [Handles -> Seq(Msgs)] /\ tx' \in [Handles -> Seq(Msgs)]
    BY MsgSeqs
  <2>2. edge' \in [Handles -> SUBSET {"READY", "SEND_UNBLOCKED"}]
    <3>1. PICK e \in SUBSET {"SEND_UNBLOCKED"} : edge' = [edge EXCEPT ![h] = @ \cup e]
      OBVIOUS
    <3> QED
      BY <3>1
  <2> QED
    BY <2>1, <2>2
<1>2. ControlInv' /\ ProxyInv'
  BY DEF ControlInv, ProxyInv, Waiting, Serving
<1>3. SecureInv' /\ ReadyInv'
  BY SMTT(30) DEF SecureInv, ReadyInv, Shadowed
<1>4. ConnectionsAgree' /\ WaitedRecvHasMessage'
  BY DEF ConnectionsAgree, WaitedRecvHasMessage, Shadowed
<1>5. AnswerInv' /\ AnswerMatches'
  BY SMTT(30), MsgSeqs DEF AnswerInv, OnlyRequest, AnswerMatches
<1>6. StorageFlow'
  BY DEF StorageFlow, ProxyOpen
<1>7. LeftInv' /\ ProxyAlone'
  BY SMTT(30) DEF LeftInv, ProxyAlone, ProxyOpen
<1> QED
  BY <1>1, <1>2, <1>3, <1>4, <1>5, <1>6, <1>7

\* A service that answers its request keeps the invariant.
LEMMA SvcReplyKeeps ==
  ASSUME TipcInv, NEW h \in Handles, SvcReply(h), UNCHANGED libVars
  PROVE  TipcInv'
<1> USE ConstantsAssumption, TipcAssumption
    DEF TipcInv, TypeOK, SecTypeOK, LibTypeOK, Chans, libVars, SvcReply
<1>0. Head(work[h]) \in Msgs /\ cookie[h] # Proxy /\ st[h] = "open"
  BY MsgSeqs DEF SecureInv
<1>1. TypeOK'
  BY SMTT(30), MsgSeqs, <1>0
<1>2. ControlInv' /\ ProxyInv'
  BY DEF ControlInv, ProxyInv, Waiting, Serving
<1>3. SecureInv' /\ ReadyInv'
  BY ZenonT(30), <1>0 DEF SecureInv, ReadyInv, Shadowed
<1>4. ConnectionsAgree' /\ WaitedRecvHasMessage'
  <2>1. \A g \in Handles : rx'[g] = <<>> => rx[g] = <<>>
    BY SMTT(30), <1>0, MsgSeqs
  <2>2. \A g \in Handles : st[g] = "hup" => rx'[g] = rx[g]
    BY <1>0
  <2> QED
    BY <2>1, <2>2, ArrivalFrame
<1>5. AnswerInv' /\ AnswerMatches'
  BY SMTT(30), <1>0, MsgSeqs DEF AnswerInv, OnlyRequest, AnswerMatches
<1>6. StorageFlow'
  BY <1>0 DEF StorageFlow, ProxyOpen
<1>7. LeftInv' /\ ProxyAlone'
  BY SMTT(30) DEF LeftInv, ProxyAlone, ProxyOpen
<1> QED
  BY <1>1, <1>2, <1>3, <1>4, <1>5, <1>6, <1>7

\* The storage service that gets the proxy's response keeps the invariant.
LEMMA StorageDoneKeeps ==
  ASSUME TipcInv, NEW h \in Handles, StorageDone(h), UNCHANGED libVars
  PROVE  TipcInv'
<1> USE ConstantsAssumption, TipcAssumption
    DEF TipcInv, TypeOK, SecTypeOK, LibTypeOK, Chans, libVars, StorageDone
<1>1. TypeOK'
  <2>1. tx' \in [Handles -> Seq(Msgs)]
    BY MsgSeqs
  <2>2. phase' \in [Handles -> {"new", "storage", "done"}]
    OBVIOUS
  <2>3. sop' \in 0 .. MaxReq
    BY SMTT(30)
  <2> QED
    BY <2>1, <2>2, <2>3
<1>2. ControlInv' /\ ProxyInv'
  BY DEF ControlInv, ProxyInv, Waiting, Serving
<1>3. SecureInv' /\ ReadyInv'
  BY ZenonT(30) DEF SecureInv, ReadyInv, Shadowed, ProxyOpen
<1>4. ConnectionsAgree' /\ WaitedRecvHasMessage'
  BY DEF ConnectionsAgree, WaitedRecvHasMessage, Shadowed
<1>5. AnswerInv' /\ AnswerMatches'
  <2>1. \A g \in Handles : cookie[g] \in Clients => tx'[g] = tx[g]
    BY DEF ProxyOpen
  <2> QED
    BY <2>1, AnswerFrame DEF AnswerMatches
<1>6. StorageFlow'
  <2> SUFFICES ASSUME NEW q \in Handles, ProxyOpen(q)'
               PROVE  StorageFlow!(q)'
    BY DEF StorageFlow
  <2>1. q = h
    BY ProxyUnique DEF ProxyOpen
  <2>2. rx[h] = <<>> /\ Tail(tx[h]) = <<>> /\ pxMsg = <<>> /\ sop' = 0
    BY SMTT(30), MsgSeqs DEF StorageFlow
  <2>3. tx'[h] = <<>> /\ rx'[h] = <<>> /\ pxMsg' = <<>> /\ sop' = 0
    BY <2>2
  <2> QED
    BY ONLY <2>1, <2>3, MsgSeqs
<1>7. LeftInv' /\ ProxyAlone'
  BY SMTT(30) DEF LeftInv, ProxyAlone, ProxyOpen
<1> QED
  BY <1>1, <1>2, <1>3, <1>4, <1>5, <1>6, <1>7

\* A service that uses the storage service keeps the invariant.
LEMMA SvcStorageKeeps ==
  ASSUME TipcInv, NEW h \in Handles, NEW p \in Handles, NEW r \in StorageReqs,
         SvcStorage(h, p, r), UNCHANGED libVars
  PROVE  TipcInv'
<1> USE ConstantsAssumption, TipcAssumption
    DEF TipcInv, TypeOK, SecTypeOK, LibTypeOK, Chans, libVars, SvcStorage
<1> DEFINE m == [id |-> Head(work[h]).id, body |-> r]
<1>0. m \in Msgs /\ m \in StorageMsgs /\ m.id \in Ids
  BY MsgSeqs DEF Msgs, StorageMsgs
<1>1. TypeOK'
  <2>1. sop' \in 0 .. MaxReq
    BY SMTT(30), <1>0 DEF Ids
  <2>2. rx' \in [Handles -> Seq(Msgs)]
    BY <1>0, MsgSeqs
  <2> QED
    BY <2>1, <2>2
<1>2. ControlInv' /\ ProxyInv'
  BY DEF ControlInv, ProxyInv, Waiting, Serving
<1>3. SecureInv' /\ ReadyInv'
  <2>1. Append(rx[p], m) \in Seq(StorageMsgs)
    BY <1>0 DEF SecureInv, ProxyOpen
  <2> QED
    BY ZenonT(30), <2>1 DEF SecureInv, ReadyInv, Shadowed, ProxyOpen
<1>4. ConnectionsAgree' /\ WaitedRecvHasMessage'
  <2>1. \A g \in Handles : rx'[g] = <<>> => rx[g] = <<>>
    BY ZenonT(30), <1>0, MsgSeqs
  <2>2. \A g \in Handles : st[g] = "hup" => rx'[g] = rx[g]
    BY DEF ProxyOpen
  <2> QED
    BY <2>1, <2>2, ArrivalFrame
<1>5. AnswerInv' /\ AnswerMatches'
  <2>1. \A g \in Handles : cookie[g] \in Clients => rx'[g] = rx[g]
    BY DEF ProxyOpen
  <2> QED
    BY <2>1, AnswerFrame DEF AnswerMatches
<1>6. StorageFlow'
  <2> SUFFICES ASSUME NEW q \in Handles, ProxyOpen(q)'
               PROVE  StorageFlow!(q)'
    BY DEF StorageFlow
  <2>1. q = p
    BY ProxyUnique DEF ProxyOpen
  <2>2. rx[p] = <<>> /\ tx[p] = <<>> /\ pxMsg = <<>>
    BY StorageIdle
  <2>3. Len(rx'[p]) = 1 /\ Head(rx'[p]) = m /\ rx'[p] # <<>>
    BY <1>0, <2>2, MsgSeqs
  <2> QED
    BY <2>1, <2>2, <2>3, MsgSeqs
<1>7. LeftInv' /\ ProxyAlone'
  BY SMTT(30) DEF LeftInv, ProxyAlone, ProxyOpen
<1> QED
  BY <1>1, <1>2, <1>3, <1>4, <1>5, <1>6, <1>7

\* A storage request of its own keeps the invariant.
LEMMA StorageSelfKeeps ==
  ASSUME TipcInv, NEW p \in Handles, NEW r \in StorageReqs,
         StorageSelf(p, r), UNCHANGED libVars
  PROVE  TipcInv'
<1> USE ConstantsAssumption, TipcAssumption
    DEF TipcInv, TypeOK, SecTypeOK, LibTypeOK, Chans, libVars, StorageSelf
<1> DEFINE m == [id |-> nextId, body |-> r]
<1>0. m \in Msgs /\ m \in StorageMsgs /\ m.id \in Ids
  BY MsgSeqs DEF Msgs, StorageMsgs
<1>1. TypeOK'
  <2>1. sop' \in 0 .. MaxReq /\ nextId' \in 1 .. (MaxReq + 1)
    BY <1>0 DEF Ids
  <2>2. rx' \in [Handles -> Seq(Msgs)]
    BY <1>0, MsgSeqs
  <2> QED
    BY <2>1, <2>2
<1>2. ControlInv' /\ ProxyInv'
  BY DEF ControlInv, ProxyInv, Waiting, Serving
<1>3. SecureInv' /\ ReadyInv'
  <2>1. Append(rx[p], m) \in Seq(StorageMsgs)
    BY <1>0 DEF SecureInv, ProxyOpen
  <2> QED
    BY <2>1 DEF SecureInv, ReadyInv, Shadowed, ProxyOpen
<1>4. ConnectionsAgree' /\ WaitedRecvHasMessage'
  <2>1. \A g \in Handles : rx'[g] = <<>> => rx[g] = <<>>
    BY ZenonT(30), <1>0, MsgSeqs
  <2>2. \A g \in Handles : st[g] = "hup" => rx'[g] = rx[g]
    BY DEF ProxyOpen
  <2> QED
    BY <2>1, <2>2, ArrivalFrame
<1>5. AnswerInv' /\ AnswerMatches'
  <2>1. \A g \in Handles : cookie[g] \in Clients => rx'[g] = rx[g]
    BY DEF ProxyOpen
  <2> QED
    BY <2>1, AnswerFrame DEF AnswerMatches
<1>6. StorageFlow'
  <2> SUFFICES ASSUME NEW q \in Handles, ProxyOpen(q)'
               PROVE  StorageFlow!(q)'
    BY DEF StorageFlow
  <2>1. q = p
    BY ProxyUnique DEF ProxyOpen
  <2>2. rx[p] = <<>> /\ tx[p] = <<>> /\ pxMsg = <<>>
    BY StorageIdle
  <2>3. Len(rx'[p]) = 1 /\ Head(rx'[p]) = m /\ rx'[p] # <<>>
    BY <1>0, <2>2, MsgSeqs
  <2> QED
    BY <2>1, <2>2, <2>3, MsgSeqs
<1>7. LeftInv' /\ ProxyAlone'
  BY SMTT(30) DEF LeftInv, ProxyAlone, ProxyOpen
<1> QED
  BY <1>1, <1>2, <1>3, <1>4, <1>5, <1>6, <1>7

\* A poll that neither fails nor wakes the caller leaves it in its loop, or
\* ends the proxy's drain loop.
LEMMA QuietPoll ==
  ASSUME TipcInv, pc \in {"poll", "px_send"},
         \E none \in BOOLEAN, ph \in Handles \cup {NoHandle} : AfterPoll(none, complete[cur], ph)
  PROVE  /\ UNCHANGED <<ops, abandoned>> /\ inited' \in [Chans -> BOOLEAN]
         /\ \/ /\ pc' \in {"poll", "has_event"} /\ UNCHANGED <<kind, req>>
            \/ kind = "drain" /\ pc' = "user" /\ kind' = "none" /\ req' = <<>>
<1> USE ConstantsAssumption DEF TipcInv, TypeOK, LibTypeOK, Chans, AfterPoll, DrainStep, Return
<1>1. CASE kind = "drain"
  BY <1>1
<1>2. CASE kind # "drain"
  <2>1. complete[cur] = 0
    BY <1>2 DEF ControlInv, Waiting, Serving
  <2> QED
    BY <1>2, <2>1
<1> QED
  BY <1>1, <1>2

\* The invariant after such a step, when neither the secure side nor the
\* proxy's message changes.
LEMMA QuietKeeps ==
  ASSUME TipcInv, pc \in Waiting, UNCHANGED <<secVars, handle, cur, pxMsg, last>>,
         UNCHANGED <<ops, abandoned, complete, left>>, inited' \in [Chans -> BOOLEAN],
         pxLen' = pxLen, faults' \in 0 .. MaxFaults,
         \/ pc' \in Waiting /\ UNCHANGED <<kind, req>>
         \/ kind = "drain" /\ pc' = "user" /\ kind' = "none" /\ req' = <<>>
  PROVE  TipcInv'
<1> USE ConstantsAssumption DEF TipcInv, secVars, Waiting
<1>1. TypeOK'
  BY MsgSeqs DEF TypeOK, SecTypeOK, LibTypeOK
<1>2. ControlInv' /\ ProxyInv'
  BY DEF ControlInv, ProxyInv, Serving, TypeOK, LibTypeOK
<1>3. SecureInv' /\ ReadyInv'
  BY DEF SecureInv, ReadyInv, Shadowed
<1>4. ConnectionsAgree' /\ WaitedRecvHasMessage'
  BY DEF ConnectionsAgree, WaitedRecvHasMessage, Shadowed
<1>5. AnswerInv' /\ AnswerMatches'
  BY DEF AnswerInv, OnlyRequest, AnswerMatches
<1>6. StorageFlow'
  BY DEF StorageFlow, ProxyOpen
<1>7. LeftInv' /\ ProxyAlone'
  BY SMTT(30) DEF LeftInv, ProxyAlone, ProxyOpen
<1> QED
  BY <1>1, <1>2, <1>3, <1>4, <1>5, <1>6, <1>7

\* A poll that finds no event keeps the invariant.
LEMMA PollNoneKeeps ==
  ASSUME TipcInv, PollNone
  PROVE  TipcInv'
<1>1. /\ pc = "poll" /\ UNCHANGED <<secVars, handle, complete, cur, pxMsg, pxLen, last, left, faults>>
      /\ AfterPoll(TRUE, complete[cur], handle[Proxy])
  BY DEF PollNone
<1>a. handle[Proxy] \in Handles \cup {NoHandle}
  BY DEF TipcInv, TypeOK, LibTypeOK, Chans
<1>2. /\ UNCHANGED <<ops, abandoned>> /\ inited' \in [Chans -> BOOLEAN]
      /\ \/ pc' \in {"poll", "has_event"} /\ UNCHANGED <<kind, req>>
         \/ kind = "drain" /\ pc' = "user" /\ kind' = "none" /\ req' = <<>>
  BY <1>1, <1>a, QuietPoll
<1>3. faults \in 0 .. MaxFaults
  BY DEF TipcInv, TypeOK, LibTypeOK
<1> QED
  BY <1>1, <1>2, <1>3, QuietKeeps DEF Waiting

\* The two steps between polls, asking for an event and idling, keep it.
LEMMA HasEventKeeps ==
  ASSUME TipcInv, HasEvent \/ Wake
  PROVE  TipcInv'
<1>1. faults' \in 0 .. MaxFaults
  BY TipcAssumption DEF HasEvent, Wake, Fault, TipcInv, TypeOK, LibTypeOK
<1> QED
  BY <1>1, QuietKeeps DEF HasEvent, Wake, TipcInv, TypeOK, LibTypeOK, Waiting

\* A failing poll keeps the invariant: the request is marked abandoned.
LEMMA PollFailsKeeps ==
  ASSUME TipcInv, PollFails
  PROVE  TipcInv'
<1> USE ConstantsAssumption, TipcAssumption
    DEF TipcInv, secVars, PollFails, PollError, Return, Fault, Abandon
<1>1. TypeOK'
  <2>1. abandoned' \in [Chans -> BOOLEAN]
    BY DEF TypeOK, LibTypeOK
  <2>2. faults' \in 0 .. MaxFaults
    BY DEF TypeOK, LibTypeOK
  <2>3. req' \in Seq(Msgs)
    BY MsgSeqs DEF TypeOK, LibTypeOK
  <2> QED
    BY <2>1, <2>2, <2>3 DEF TypeOK, SecTypeOK, LibTypeOK
<1>2. ControlInv' /\ ProxyInv'
  BY DEF ControlInv, ProxyInv, Serving, Waiting, TypeOK, LibTypeOK
<1>3. SecureInv' /\ ReadyInv'
  BY DEF SecureInv, ReadyInv, Shadowed, Waiting, Serving
<1>4. ConnectionsAgree' /\ WaitedRecvHasMessage'
  BY DEF ConnectionsAgree, WaitedRecvHasMessage, Shadowed
<1>5. AnswerInv' /\ AnswerMatches'
  <2>1. CASE kind = "connect"
    BY <2>1 DEF AnswerInv, OnlyRequest, AnswerMatches
  <2>2. CASE kind # "connect"
    <3>1. \A c \in Clients : ~abandoned'[c] => ~abandoned[c] /\ (c # cur \/ kind = "drain")
      BY <2>2 DEF TypeOK, LibTypeOK, Chans
    <3>2. \A g \in Handles : g \notin left /\ cookie[g] \in Clients /\ ~abandoned'[cookie[g]] =>
             tx[g] = <<>> /\ work[g] = <<>> /\ rx[g] = <<>>
      BY <3>1 DEF AnswerInv, OnlyRequest
    <3> QED
      BY <2>2, <3>2, AnswerEmpty DEF AnswerMatches
  <2> QED
    BY <2>1, <2>2
<1>6. StorageFlow'
  BY ZenonT(30) DEF StorageFlow, ProxyOpen
<1>7. LeftInv' /\ ProxyAlone'
  BY SMTT(30) DEF LeftInv, ProxyAlone, ProxyOpen
<1> QED
  BY <1>1, <1>2, <1>3, <1>4, <1>5, <1>6, <1>7

\* The events of a connection are those of a channel that is connected or was.
LEMMA EventLive ==
  ASSUME TipcInv, NEW h \in Handles, Events(h) # {}
  PROVE  /\ st[h] \in {"open", "hup"}
         /\ "READY" \in Events(h) <=> "READY" \in edge[h]
         /\ "MSG" \in Events(h) <=> rx[h] # <<>>
         /\ "HUP" \in Events(h) <=> st[h] = "hup"
  BY ZenonT(30) DEF TipcInv, SecureInv, TypeOK, SecTypeOK, Events

\* What a sync callback stores; a wait that it does not end goes on.
LEMMA SyncOutcome ==
  ASSUME TipcInv, NEW h \in Handles, SyncEvent(h)
  PROVE  /\ complete' \in [Chans -> {0, 1, CHANNEL_CLOSED}]
         /\ kind # "drain" /\ complete'[cur] # 0 =>
               /\ cookie[h] = cur
               /\ complete'[cur] = 1 => "READY" \in edge[h] \/ rx[h] # <<>>
               /\ complete'[cur] # 1 => complete'[cur] < 0 /\ rx[h] = <<>> /\ st[h] = "hup"
<1> USE DEF TipcInv, TypeOK, SecTypeOK, LibTypeOK, CHANNEL_CLOSED
<1>1. Events(h) # {} /\ complete' = [complete EXCEPT ![cookie[h]] = SyncComplete(cookie[h], Events(h))]
  BY DEF SyncEvent, GetEvent
<1>2. complete' \in [Chans -> {0, 1, CHANNEL_CLOSED}]
  BY <1>1 DEF SyncComplete
<1>3. ASSUME kind # "drain", complete'[cur] # 0
      PROVE  cookie[h] = cur /\ complete'[cur] = SyncComplete(cur, Events(h))
  <2>1. complete[cur] = 0
    BY <1>3 DEF ControlInv, SyncEvent, GetEvent, Waiting
  <2> QED
    BY <1>1, <1>3, <2>1
<1>4. complete[cur] = 0 \/ kind = "drain"
  BY DEF ControlInv, SyncEvent, GetEvent, Waiting
<1> QED
  BY <1>1, <1>2, <1>3, <1>4, EventLive DEF SyncComplete

\* An event delivered to the sync callbacks keeps the invariant.
LEMMA SyncEventKeeps ==
  ASSUME TipcInv, NEW h \in Handles, SyncEvent(h)
  PROVE  TipcInv'
<1> USE ConstantsAssumption, TipcAssumption DEF TipcInv
<1>0. /\ pc = "poll" /\ Events(h) # {}
      /\ edge' = [edge EXCEPT ![h] = {}]
      /\ UNCHANGED <<st, cookie, rx, tx, work, phase, sop, nextId,
                     handle, cur, pxMsg, pxLen, last, left, faults>>
      /\ AfterPoll(FALSE, complete'[cur], handle[Proxy])
  BY DEF SyncEvent, GetEvent
<1>1. SecureInv' /\ ConnectionsAgree' /\ AnswerMatches' /\ StorageFlow' /\ LeftInv'
  BY <1>0 DEF SecureInv, ConnectionsAgree, AnswerMatches, StorageFlow, ProxyOpen, LeftInv,
              TypeOK, SecTypeOK
<1>2. \A g \in Handles :
         (st'[g] = "connecting" \/ "READY" \in edge'[g]) /\ ~Shadowed(cookie[g]) =>
         /\ kind = "connect" /\ cur = cookie[g] /\ g # h
         /\ st[g] = "connecting" \/ "READY" \in edge[g]
  BY <1>0, EventLive DEF ReadyInv, TypeOK, SecTypeOK
<1>a. \A c : Shadowed(c)' <=> Shadowed(c)
  BY <1>0 DEF Shadowed
<1>3. complete' \in [Chans -> {0, 1, CHANNEL_CLOSED}] /\ edge' \in [Handles -> SUBSET {"READY", "SEND_UNBLOCKED"}]
  BY <1>0, SyncOutcome DEF TypeOK, SecTypeOK
<1>4. AnswerInv
  OBVIOUS
<1>5. CASE kind = "drain"
  <2>1. /\ UNCHANGED <<ops, abandoned>> /\ inited' \in [Chans -> BOOLEAN]
        /\ \/ pc' = "poll" /\ UNCHANGED <<kind, req>>
           \/ pc' = "user" /\ kind' = "none" /\ req' = <<>>
    BY <1>0, <1>5 DEF AfterPoll, DrainStep, Return, TypeOK, LibTypeOK
  <2>2. TypeOK'
    BY <1>0, <1>3, <2>1, MsgSeqs DEF TypeOK, SecTypeOK, LibTypeOK
  <2>3. ControlInv' /\ ProxyInv'
    BY <1>0, <1>5, <2>1 DEF ControlInv, ProxyInv, Serving, Waiting
  <2>4. ReadyInv' /\ WaitedRecvHasMessage'
    BY <1>0, <1>2, <1>5, <1>a, <2>1 DEF ReadyInv, WaitedRecvHasMessage
  <2>5. AnswerInv'
    BY <1>0, <1>5, <2>1 DEF AnswerInv, OnlyRequest
  <2>6. ProxyAlone'
    BY <1>0, <2>1 DEF ProxyAlone, ProxyOpen
  <2> QED
    BY <1>1, <2>2, <2>3, <2>4, <2>5, <2>6
<1>6. CASE kind # "drain" /\ complete'[cur] = 0
  <2>1. pc' = "poll" /\ UNCHANGED <<kind, req, ops, inited, abandoned>>
    BY <1>0, <1>6 DEF AfterPoll
  <2>2. TypeOK'
    BY <1>0, <1>3, <2>1, MsgSeqs DEF TypeOK, SecTypeOK, LibTypeOK
  <2>3. ControlInv' /\ ProxyInv'
    BY <1>0, <1>6, <2>1 DEF ControlInv, ProxyInv, Serving, Waiting
  <2>4. ReadyInv' /\ WaitedRecvHasMessage'
    BY <1>0, <1>2, <1>a, <2>1 DEF ReadyInv, WaitedRecvHasMessage, Waiting
  <2>5. AnswerInv'
    BY <1>0, <2>1 DEF AnswerInv, OnlyRequest
  <2>6. ProxyAlone'
    BY <1>0, <2>1 DEF ProxyAlone, ProxyOpen
  <2> QED
    BY <1>1, <2>2, <2>3, <2>4, <2>5, <2>6
<1>7. CASE kind # "drain" /\ complete'[cur] # 0
  <2>1. /\ cookie[h] = cur
        /\ complete'[cur] = 1 => "READY" \in edge[h] \/ rx[h] # <<>>
        /\ complete'[cur] # 1 => complete'[cur] < 0 /\ rx[h] = <<>> /\ st[h] = "hup"
        /\ WaitDone(complete'[cur])
    BY <1>0, <1>7, SyncOutcome DEF AfterPoll
  <2>2. /\ kind \in {"connect", "version", "call"} /\ handle[cur] # NoHandle /\ cur \in Chans
        /\ \A g \in Handles \ left : cookie[g] = cur /\ st[g] # "free" => handle[cur] = g
    <3>1. kind \in {"connect", "version", "call"} /\ handle[cur] # NoHandle
      BY <1>0, <1>7 DEF ControlInv, TypeOK, LibTypeOK
    <3> QED
      BY <3>1 DEF ConnectionsAgree, TypeOK, LibTypeOK
  <2>a. ~Shadowed(cur) => h \notin left /\ handle[cur] = h
    BY <1>0, <2>1, <2>2, EventLive DEF Shadowed
  <2>3. CASE kind = "connect"
    <3>1. ~ \E g \in Handles : /\ st'[g] = "connecting" \/ "READY" \in edge'[g]
                              /\ ~Shadowed(cookie[g])
      <4> SUFFICES ASSUME NEW g \in Handles, ~Shadowed(cookie[g]),
                          st'[g] = "connecting" \/ "READY" \in edge'[g]
                   PROVE  FALSE
        OBVIOUS
      <4>1. /\ cur = cookie[g] /\ g # h
            /\ st[g] = "connecting" \/ "READY" \in edge[g]
        BY <1>2
      <4>2. g \notin left /\ st[g] # "free"
        BY <4>1 DEF Shadowed, SecureInv
      <4> QED
        BY <2>2, <2>a, <4>1, <4>2
    <3>2. \A g \in Handles : g \notin left /\ cookie[g] \in Clients /\ ~abandoned[cookie[g]] =>
             tx[g] = <<>> /\ work[g] = <<>> /\ rx[g] = <<>>
      BY <2>3 DEF AnswerInv, OnlyRequest
    <3>3. /\ inited' \in [Chans -> BOOLEAN] /\ ops' \in [Chans -> {"sync", "proxy"}]
          /\ UNCHANGED abandoned
          /\ \/ /\ cur = Proxy /\ pc' = "poll" /\ kind' = "drain" /\ req' = req
                /\ ops' = [ops EXCEPT ![Proxy] = "proxy"]
             \/ /\ ops' = ops
                /\ \/ pc' = "version" /\ cur \in Clients /\ kind' = "connect" /\ req' = req
                   \/ pc' = "conn_close" /\ kind' = "connect" /\ req' = req
                   \/ pc' = "user" /\ kind' = "none" /\ req' = <<>>
      <4>1. CASE pc' = "conn_close" /\ UNCHANGED <<kind, req, ops, inited, abandoned>>
        BY <2>3, <4>1 DEF TypeOK, LibTypeOK
      <4>2. CASE ConnectDone
        <5>1. inited' \in [Chans -> BOOLEAN]
          BY <4>2 DEF ConnectDone, TypeOK, LibTypeOK
        <5> QED
          BY ZenonT(30), <2>3, <4>2, <5>1 DEF ConnectDone, StartWait, Return, TypeOK, LibTypeOK, Chans
      <4> QED
        BY <2>1, <2>3, <4>1, <4>2 DEF WaitDone
    <3>4. TypeOK'
      BY ZenonT(30), <1>0, <1>3, <3>3, MsgSeqs DEF TypeOK, SecTypeOK, LibTypeOK
    <3>5. ControlInv' /\ ProxyInv'
      BY <1>0, <2>2, <2>3, <3>3 DEF ControlInv, ProxyInv, Serving, Waiting, TypeOK, LibTypeOK, Chans
    <3>6. ReadyInv' /\ WaitedRecvHasMessage'
      BY <1>0, <1>a, <3>1, <3>3 DEF ReadyInv, WaitedRecvHasMessage
    <3>7. AnswerInv'
      BY <1>0, <3>2, <3>3, AnswerEmpty
    <3>8. ProxyAlone'
      <4>1. cur = Proxy => \A g \in Handles : cookie[g] = Proxy => st[g] # "connecting"
        BY <1>0, <2>1, EventLive DEF ProxyAlone
      <4> QED
        BY <1>0, <3>3, <4>1 DEF ProxyAlone, ProxyOpen
    <3> QED
      BY <1>1, <3>4, <3>5, <3>6, <3>7, <3>8
  <2>4. CASE kind \in {"version", "call"}
    <3>1. /\ UNCHANGED <<ops, inited>>
          /\ \/ complete'[cur] = 1 /\ pc' = "recv" /\ UNCHANGED <<kind, req, abandoned>>
             \/ /\ complete'[cur] # 1 /\ pc' = "user" /\ kind' = "none" /\ req' = <<>>
                /\ abandoned' = [abandoned EXCEPT ![cur] = TRUE]
      <4>1. complete'[cur] = 1 => complete'[cur] > 0 /\ ~(complete'[cur] < 0)
        OBVIOUS
      <4>2. complete'[cur] # 1 => complete'[cur] < 0 /\ ~(complete'[cur] > 0)
        <5>1. cur \in Chans
          BY DEF TypeOK, LibTypeOK
        <5>2. complete'[cur] \in {0, 1, -8}
          BY <1>3, <5>1 DEF CHANNEL_CLOSED
        <5>3. \A n \in {0, 1, -8} : n < 0 => ~(n > 0)
          OBVIOUS
        <5> QED
          BY <2>1, <5>2, <5>3
      <4> QED
        BY <2>1, <2>4, <4>1, <4>2, Zenon DEF WaitDone, Return, Abandon
    <3>2. TypeOK'
      BY <1>0, <1>3, <3>1, MsgSeqs DEF TypeOK, SecTypeOK, LibTypeOK
    <3>3. ControlInv' /\ ProxyInv'
      BY <1>0, <2>4, <3>1 DEF ControlInv, ProxyInv, Serving, Waiting
    <3>4. ReadyInv' /\ WaitedRecvHasMessage'
      <4>1. ReadyInv'
        BY <1>0, <1>2, <1>a, <2>4 DEF ReadyInv
      <4>2. WaitedRecvHasMessage'
        <5> SUFFICES ASSUME pc' = "recv", ~Shadowed(cur)
                     PROVE  handle[cur] \in Handles /\ rx[handle[cur]] # <<>>
          BY <1>0, <1>a DEF WaitedRecvHasMessage
        <5>1. "READY" \in edge[h] \/ rx[h] # <<>>
          BY <2>1, <3>1
        <5>2. "READY" \notin edge[h]
          BY <2>1, <2>4 DEF ReadyInv
        <5> QED
          BY <2>a, <5>1, <5>2
      <4> QED
        BY <4>1, <4>2
    <3>5. ASSUME complete'[cur] = 1 PROVE AnswerInv'
      BY <1>0, <3>1, <3>5 DEF AnswerInv, OnlyRequest
    <3>6. ASSUME complete'[cur] # 1 PROVE AnswerInv'
      <4>1. \A g \in Handles : g \notin left /\ cookie[g] \in Clients /\ ~abandoned'[cookie[g]] =>
               tx[g] = <<>> /\ work[g] = <<>> /\ rx[g] = <<>>
        <5> SUFFICES ASSUME NEW g \in Handles, g \notin left, cookie[g] \in Clients, ~abandoned'[cookie[g]]
                     PROVE  tx[g] = <<>> /\ work[g] = <<>> /\ rx[g] = <<>>
          OBVIOUS
        <5>1. cookie[g] # cur /\ ~abandoned[cookie[g]]
          BY <3>1, <3>6 DEF TypeOK, LibTypeOK, Chans
        <5> QED
          BY <5>1 DEF AnswerInv, OnlyRequest
      <4> QED
        BY <1>0, <3>1, <4>1, AnswerEmpty
    <3>7. ProxyAlone'
      BY <1>0, <3>1 DEF ProxyAlone, ProxyOpen
    <3> QED
      BY <1>1, <3>2, <3>3, <3>4, <3>5, <3>6, <3>7
  <2> QED
    BY <2>2, <2>3, <2>4
<1> QED
  BY <1>5, <1>6, <1>7

\* What closing channel c leaves of the other connections.
LEMMA CloseEffect ==
  ASSUME TipcInv, NEW c \in Chans, Close(c), UNCHANGED <<pxMsg, ops>>,
         pc = "px_close" => c = Proxy
  PROVE  /\ SecTypeOK' /\ handle' \in [Chans -> Handles \cup {NoHandle}]
         /\ left' \in SUBSET Handles /\ faults' \in 0 .. MaxFaults
         /\ SecureInv' /\ ConnectionsAgree' /\ StorageFlow' /\ LeftInv' /\ ProxyAlone'
         /\ \A d \in Chans : d # c => handle'[d] = handle[d]
         /\ \A g \in Handles :
               (st'[g] = "connecting" \/ "READY" \in edge'[g]) /\ ~Shadowed(cookie[g])' =>
               /\ st[g] = "connecting" \/ "READY" \in edge[g]
               /\ cookie'[g] = cookie[g] /\ cookie[g] # c /\ ~Shadowed(cookie[g])
         /\ \A g \in Handles : g \notin left' /\ cookie'[g] \in Clients =>
               /\ cookie'[g] = cookie[g] /\ cookie[g] # c /\ g \notin left
               /\ tx'[g] = tx[g] /\ work'[g] = work[g] /\ rx'[g] = rx[g]
<1> USE ConstantsAssumption, TipcAssumption DEF TipcInv
<1>0. /\ handle \in [Chans -> Handles \cup {NoHandle}]
      /\ handle' = [handle EXCEPT ![c] = NoHandle]
      /\ left \in SUBSET Handles /\ faults \in 0 .. MaxFaults
      /\ SecTypeOK
  BY DEF TypeOK, LibTypeOK, Close
<1>a. /\ handle' \in [Chans -> Handles \cup {NoHandle}]
      /\ \A d \in Chans : handle'[d] = IF d = c THEN NoHandle ELSE handle[d]
  BY <1>0
<1>1. \A g \in Handles \ left : cookie[g] = c /\ st[g] # "free" =>
         handle[c] = g \/ (c = Proxy /\ st[g] = "hup" /\ handle[c] = NoHandle /\ rx[g] = <<>>)
  BY DEF ConnectionsAgree
<1>2. CASE UNCHANGED secVars
  <2>1. UNCHANGED <<st, cookie, edge, rx, tx, work, phase, sop, nextId>>
    BY <1>2 DEF secVars
  <2>2. \/ handle[c] = NoHandle /\ left' = left /\ faults' = faults
        \/ /\ handle[c] \in Handles /\ left' = left \cup {handle[c]}
           /\ faults < MaxFaults /\ faults' = faults + 1
    <3>1. CASE SecClose(handle[c]) /\ UNCHANGED <<left, faults>>
      <4>1. handle[c] \in Handles => st[handle[c]] = "free"
        BY <2>1, <3>1 DEF SecClose, SecTypeOK, TypeOK
      <4> QED
        BY <1>0, <3>1, <4>1 DEF ConnectionsAgree
    <3>2. CASE handle[c] # NoHandle /\ Fault /\ left' = left \cup {handle[c]}
      BY <1>0, <3>2 DEF Fault
    <3> QED
      BY <3>1, <3>2 DEF Close
  <2>3. SecTypeOK' /\ SecureInv' /\ ProxyAlone'
    BY <1>0, <2>1 DEF SecTypeOK, SecureInv, ProxyAlone, ProxyOpen
  <2>4. left' \in SUBSET Handles /\ left \subseteq left' /\ faults' \in 0 .. MaxFaults
    BY <1>0, <2>2
  <2>5. LeftInv'
    BY <1>0, <2>1, <2>2 DEF LeftInv, ConnectionsAgree
  <2>6. ConnectionsAgree'
    <3>1. \A d \in Chans : handle'[d] # NoHandle =>
             st'[handle'[d]] # "free" /\ cookie'[handle'[d]] = d /\ handle'[d] \notin left'
      BY <1>a, <2>1, <2>2 DEF ConnectionsAgree
    <3>2. \A g \in Handles \ left' : st'[g] # "free" =>
             \/ handle'[cookie'[g]] = g
             \/ cookie'[g] = Proxy /\ handle'[Proxy] = NoHandle /\ st'[g] = "hup" /\ rx'[g] = <<>>
      <4> SUFFICES ASSUME NEW g \in Handles \ left', st[g] # "free"
                   PROVE  \/ handle'[cookie[g]] = g
                          \/ /\ cookie[g] = Proxy /\ handle'[Proxy] = NoHandle
                             /\ st[g] = "hup" /\ rx[g] = <<>>
        BY <2>1
      <4>1. cookie[g] \in Chans /\ g \notin left /\ (handle[c] # NoHandle => g # handle[c])
        BY <1>0, <2>2 DEF SecTypeOK
      <4>2. Proxy \in Chans /\ (handle[Proxy] = NoHandle => handle'[Proxy] = NoHandle)
        BY <1>a DEF Chans
      <4> QED
        BY <1>a, <4>1, <4>2 DEF ConnectionsAgree
    <3> QED
      BY <3>1, <3>2 DEF ConnectionsAgree
  <2>7. StorageFlow'
    <3>1. ASSUME pc = "px_close", NEW q \in Handles, ProxyOpen(q)
          PROVE  q \in left'
      BY <1>1, <2>2, <3>1 DEF ProxyOpen
    <3> QED
      BY <2>1, <2>4, <3>1 DEF StorageFlow, ProxyOpen
  <2>8. \A d : Shadowed(d) => Shadowed(d)'
    BY <2>1, <2>4 DEF Shadowed
  <2>9. \A g \in Handles :
            (st[g] = "connecting" \/ "READY" \in edge[g]) /\ ~Shadowed(cookie[g])' => cookie[g] # c
    <3> SUFFICES ASSUME NEW g \in Handles, st[g] = "connecting" \/ "READY" \in edge[g],
                        ~Shadowed(cookie[g])', cookie[g] = c
                 PROVE  FALSE
      OBVIOUS
    <3>1. ~Shadowed(c) /\ ~Shadowed(c)'
      BY <2>1, <2>8
    <3>2. kind = "connect" /\ cur = c
      BY <3>1 DEF ReadyInv
    <3>3. handle[c] \in Handles /\ left' = left \cup {handle[c]} /\ cookie'[handle[c]] = c
      BY <2>1, <2>2, <3>2 DEF ControlInv, ConnectionsAgree
    <3> QED
      BY <3>1, <3>3 DEF Shadowed
  <2>10. \A g \in Handles : g \notin left' /\ cookie[g] \in Clients => cookie[g] # c /\ g \notin left
    BY <1>1, <2>2, <2>4 DEF SecureInv
  <2>11. \A g \in Handles : ~Shadowed(cookie[g])' => ~Shadowed(cookie[g])
    BY <2>1, <2>8
  <2> QED
    BY <1>a, <2>1, <2>3, <2>4, <2>5, <2>6, <2>7, <2>9, <2>10, <2>11
<1>3. CASE handle[c] \in Handles /\ SecClose(handle[c]) /\ UNCHANGED <<left, faults>>
  <2> DEFINE h == handle[c]
  <2>1. h \in Handles /\ cookie[h] = c /\ st[h] # "free" /\ h \notin left
    BY <1>0, <1>3 DEF ConnectionsAgree
  <2>2. /\ st' = [st EXCEPT ![h] = "free"] /\ cookie' = [cookie EXCEPT ![h] = Proxy]
        /\ edge' = [edge EXCEPT ![h] = {}] /\ rx' = [rx EXCEPT ![h] = <<>>]
        /\ tx' = [tx EXCEPT ![h] = <<>>] /\ work' = [work EXCEPT ![h] = <<>>]
        /\ StorageLost(h) /\ nextId' = nextId /\ left' = left /\ faults' = faults
    BY <1>3 DEF SecClose
  <2>a. \A g \in Handles \ left : g # h /\ st[g] # "free" => cookie[g] # c
    BY <1>1, <1>3
  <2> HIDE DEF h
  <2>3. SecTypeOK'
    <3>1. sop' \in 0 .. MaxReq /\ phase' \in [Handles -> {"new", "storage", "done"}]
      BY <1>0, <2>2 DEF SecTypeOK, StorageLost
    <3> QED
      BY <1>0, <2>1, <2>2, <3>1, MsgSeqs DEF SecTypeOK, Chans
  <2>4. SecureInv'
    <3>1. <<>> \in Seq(StorageMsgs)
      OBVIOUS
    <3> QED
      BY <1>0, <2>1, <2>2, <3>1 DEF SecureInv, SecTypeOK
  <2>b. /\ \A g \in Handles : g # h =>
             st'[g] = st[g] /\ cookie'[g] = cookie[g] /\ rx'[g] = rx[g]
        /\ st'[h] = "free"
    BY <1>0, <2>1, <2>2 DEF SecTypeOK
  <2>5. ConnectionsAgree'
    <3>1. \A d \in Chans : d # c => handle[d] # h
      BY <2>1 DEF ConnectionsAgree
    <3>5. \A d \in Chans : handle'[d] # NoHandle =>
             st'[handle'[d]] # "free" /\ cookie'[handle'[d]] = d /\ handle'[d] \notin left'
      BY <1>0, <1>a, <2>2, <3>1, <2>b DEF ConnectionsAgree
    <3>6. \A g \in Handles \ left' : st'[g] # "free" =>
             \/ handle'[cookie'[g]] = g
             \/ cookie'[g] = Proxy /\ handle'[Proxy] = NoHandle /\ st'[g] = "hup" /\ rx'[g] = <<>>
      <4> SUFFICES ASSUME NEW g \in Handles \ left', st'[g] # "free"
                   PROVE  \/ handle'[cookie'[g]] = g
                          \/ /\ cookie'[g] = Proxy /\ handle'[Proxy] = NoHandle
                             /\ st'[g] = "hup" /\ rx'[g] = <<>>
        OBVIOUS
      <4>1. /\ st'[g] = st[g] /\ cookie'[g] = cookie[g] /\ rx'[g] = rx[g] /\ g \notin left
            /\ cookie[g] # c /\ cookie[g] \in Chans
        BY <1>0, <2>2, <2>a, <2>b DEF SecTypeOK
      <4>2. handle'[cookie[g]] = handle[cookie[g]]
        BY <1>a, <4>1
      <4> QED
        BY <1>0, <4>1, <4>2 DEF ConnectionsAgree
    <3> QED
      BY <3>5, <3>6 DEF ConnectionsAgree
  <2>6. StorageFlow'
    <3> SUFFICES ASSUME NEW q \in Handles, ProxyOpen(q)'
                 PROVE  StorageFlow!(q)'
      BY DEF StorageFlow
    <3>1. q # h /\ ProxyOpen(q)
      BY <2>b DEF ProxyOpen
    <3>2. c # Proxy
      BY <2>1, <3>1, ProxyUnique DEF ProxyOpen
    <3>3. rx'[q] = rx[q] /\ tx'[q] = tx[q] /\ sop' = sop
      BY <1>0, <2>1, <2>2, <3>1, <3>2 DEF SecTypeOK, StorageLost
    <3> QED
      BY <2>2, <3>1, <3>2, <3>3 DEF StorageFlow
  <2>7. LeftInv' /\ ProxyAlone'
    <3>1. LeftInv'
      BY <1>0, <2>1, <2>2, <2>b DEF LeftInv
    <3>2. \A g \in Handles : g # h => (ProxyOpen(g)' <=> ProxyOpen(g))
      BY <2>b DEF ProxyOpen
    <3>3. sop' # 0 => \E q \in Handles : ProxyOpen(q)'
      <4> SUFFICES ASSUME sop' # 0 PROVE \E q \in Handles : ProxyOpen(q)'
        OBVIOUS
      <4>1. cookie[h] # Proxy /\ sop # 0
        BY <2>2 DEF StorageLost
      <4>2. PICK q \in Handles : ProxyOpen(q)
        BY <4>1 DEF ProxyAlone
      <4> QED
        BY <3>2, <4>1, <4>2 DEF ProxyOpen
    <3> QED
      BY <2>b, <3>1, <3>3 DEF ProxyAlone
  <2>8. \A d : Shadowed(d)' <=> Shadowed(d)
    BY <1>0, <2>1, <2>2, <2>b DEF Shadowed
  <2>9. \A g \in Handles :
           (st'[g] = "connecting" \/ "READY" \in edge'[g]) /\ ~Shadowed(cookie[g])' =>
           /\ st[g] = "connecting" \/ "READY" \in edge[g]
           /\ cookie'[g] = cookie[g] /\ cookie[g] # c /\ ~Shadowed(cookie[g])
    <3> SUFFICES ASSUME NEW g \in Handles, st'[g] = "connecting" \/ "READY" \in edge'[g],
                        ~Shadowed(cookie[g])'
                 PROVE  /\ st[g] = "connecting" \/ "READY" \in edge[g]
                        /\ cookie'[g] = cookie[g] /\ cookie[g] # c /\ ~Shadowed(cookie[g])
      OBVIOUS
    <3>1. g # h /\ edge'[g] = edge[g]
      BY <1>0, <2>1, <2>2 DEF SecTypeOK
    <3>2. st[g] # "free" /\ cookie'[g] = cookie[g] /\ st'[g] = st[g]
      BY <2>b, <3>1 DEF SecureInv
    <3>3. ~Shadowed(cookie[g])
      BY <2>8, <3>2
    <3>4. g \notin left
      BY <3>3 DEF Shadowed
    <3> QED
      BY <2>a, <3>1, <3>2, <3>3, <3>4
  <2>10. \A g \in Handles : g \notin left' /\ cookie'[g] \in Clients =>
           /\ cookie'[g] = cookie[g] /\ cookie[g] # c /\ g \notin left
           /\ tx'[g] = tx[g] /\ work'[g] = work[g] /\ rx'[g] = rx[g]
    BY <1>0, <2>1, <2>2, <2>a DEF SecTypeOK, SecureInv
  <2> QED
    BY <1>0, <1>a, <2>2, <2>3, <2>4, <2>5, <2>6, <2>7, <2>9, <2>10
<1> QED
  BY <1>0, <1>2, <1>3 DEF Close, SecClose

\* The invariant after a close that leaves the library, unless it is in PxClose.
LEMMA CloseKeeps ==
  ASSUME TipcInv, NEW c \in Chans, Close(c),
         UNCHANGED <<complete, ops, cur, pxMsg, pxLen, last>>,
         inited' \in [Chans -> BOOLEAN], abandoned' \in [Chans -> BOOLEAN],
         \A d \in Clients : d # c /\ abandoned[d] => abandoned'[d],
         pc' = "user" /\ kind' = "none" /\ req' \in Seq(Msgs),
         pc = "user" \/ (pc = "conn_close" /\ c = cur)
  PROVE  TipcInv'
<1> USE ConstantsAssumption DEF TipcInv
<1>1. /\ SecTypeOK' /\ handle' \in [Chans -> Handles \cup {NoHandle}]
      /\ left' \in SUBSET Handles /\ faults' \in 0 .. MaxFaults
      /\ SecureInv' /\ ConnectionsAgree' /\ StorageFlow' /\ LeftInv' /\ ProxyAlone'
  BY CloseEffect
<1>2. TypeOK'
  BY <1>1, MsgSeqs DEF TypeOK, LibTypeOK
<1>3. ControlInv' /\ ProxyInv' /\ WaitedRecvHasMessage'
  BY DEF ControlInv, ProxyInv, Serving, WaitedRecvHasMessage
<1>4. ReadyInv'
  <2>1. ~ \E g \in Handles : /\ st'[g] = "connecting" \/ "READY" \in edge'[g]
                            /\ ~Shadowed(cookie[g])'
    BY CloseEffect DEF ReadyInv, ControlInv
  <2> QED
    BY <2>1 DEF ReadyInv
<1>5. AnswerInv'
  <2>1. \A g \in Handles : g \notin left' /\ cookie'[g] \in Clients /\ ~abandoned'[cookie'[g]] =>
           tx'[g] = <<>> /\ work'[g] = <<>> /\ rx'[g] = <<>>
    <3> SUFFICES ASSUME NEW g \in Handles, g \notin left', cookie'[g] \in Clients,
                        ~abandoned'[cookie'[g]]
                 PROVE  tx'[g] = <<>> /\ work'[g] = <<>> /\ rx'[g] = <<>>
      OBVIOUS
    <3>1. /\ cookie'[g] = cookie[g] /\ cookie[g] # c /\ g \notin left
          /\ tx'[g] = tx[g] /\ work'[g] = work[g] /\ rx'[g] = rx[g]
      BY CloseEffect
    <3>2. ~abandoned[cookie[g]]
      BY <3>1
    <3>3. kind \notin {"version", "call"}
      BY DEF ControlInv
    <3> QED
      BY <3>1, <3>2, <3>3 DEF AnswerInv, OnlyRequest
  <2> QED
    BY <2>1, AnswerEmpty
<1>6. AnswerMatches'
  BY DEF AnswerMatches
<1> QED
  BY <1>1, <1>2, <1>3, <1>4, <1>5, <1>6

\* The closes of trusty_ipc_connect and of the shutdown calls keep it.
LEMMA CallersCloseKeeps ==
  ASSUME TipcInv, ConnClose \/ ProxyShutdown \/ \E c \in Clients : ClientShutdown(c)
  PROVE  TipcInv'
<1> USE DEF Chans
<1>0. TypeOK /\ ControlInv
  BY DEF TipcInv
<1>1. CASE ConnClose
  BY <1>0, <1>1, CloseKeeps, MsgSeqs DEF ConnClose, Return, TypeOK, LibTypeOK
<1>2. CASE ProxyShutdown
  <2>1. inited' \in [Chans -> BOOLEAN] /\ kind' = "none" /\ req' \in Seq(Msgs)
    BY <1>0, <1>2 DEF ProxyShutdown, TypeOK, LibTypeOK, ControlInv
  <2> QED
    BY <1>0, <1>2, <2>1, CloseKeeps DEF ProxyShutdown, TypeOK, LibTypeOK
<1>3. ASSUME NEW c \in Clients, ClientShutdown(c)
      PROVE  TipcInv'
  <2>1. inited' \in [Chans -> BOOLEAN] /\ kind' = "none" /\ req' \in Seq(Msgs)
    BY <1>0, <1>3 DEF ClientShutdown, TypeOK, LibTypeOK, ControlInv
  <2>2. /\ abandoned' \in [Chans -> BOOLEAN]
        /\ \A d \in Clients : d # c /\ abandoned[d] => abandoned'[d]
    BY <1>0, <1>3 DEF ClientShutdown, TypeOK, LibTypeOK
  <2> QED
    BY <1>0, <1>3, <2>1, <2>2, CloseKeeps DEF ClientShutdown
<1> QED
  BY <1>1, <1>2, <1>3

\* The proxy that closes its channel inside a poll keeps the invariant.
LEMMA PxCloseKeeps ==
  ASSUME TipcInv, PxClose
  PROVE  TipcInv'
<1> USE ConstantsAssumption, TipcAssumption DEF TipcInv
<1>0. /\ pc = "px_close" /\ Close(Proxy) /\ PollError
      /\ UNCHANGED <<complete, cur, pxMsg, pxLen, last, ops, inited>>
  BY DEF PxClose, PollError
<1>1. /\ SecTypeOK' /\ handle' \in [Chans -> Handles \cup {NoHandle}]
      /\ left' \in SUBSET Handles /\ faults' \in 0 .. MaxFaults
      /\ SecureInv' /\ ConnectionsAgree' /\ StorageFlow' /\ LeftInv' /\ ProxyAlone'
  BY <1>0, CloseEffect DEF Chans
<1>2. \A d \in Clients : handle'[d] = handle[d]
  BY <1>0, CloseEffect DEF Chans
<1>3. ops[Proxy] = "proxy" /\ (kind = "connect" => cur \in Clients)
  BY <1>0 DEF ProxyInv, Serving, TypeOK, LibTypeOK, Chans
<1>4. \A g \in Handles : g \notin left' /\ cookie'[g] \in Clients =>
         /\ cookie'[g] = cookie[g] /\ g \notin left
         /\ tx'[g] = tx[g] /\ work'[g] = work[g] /\ rx'[g] = rx[g]
  BY <1>0, CloseEffect DEF Chans
<1>5. AnswerMatches' /\ WaitedRecvHasMessage'
  BY <1>0 DEF AnswerMatches, WaitedRecvHasMessage, Shadowed, PollError, Return
<1>6. ReadyInv'
  <2>1. \A g \in Handles :
           (st'[g] = "connecting" \/ "READY" \in edge'[g]) /\ ~Shadowed(cookie[g])' =>
           /\ st[g] = "connecting" \/ "READY" \in edge[g]
           /\ cookie'[g] = cookie[g] /\ ~Shadowed(cookie[g])
    BY <1>0, CloseEffect DEF Chans
  <2>2. \A g \in Handles :
           (st'[g] = "connecting" \/ "READY" \in edge'[g]) /\ ~Shadowed(cookie[g])' =>
           kind = "connect" /\ cur = cookie'[g]
    BY <2>1 DEF ReadyInv
  <2> QED
    BY <1>0, <2>2 DEF ReadyInv, PollError
<1>7. CASE kind = "connect"
  <2>1. pc' = "conn_close" /\ UNCHANGED <<kind, req, abandoned>>
    BY <1>0, <1>7 DEF PollError
  <2>2. TypeOK'
    BY <1>0, <1>1, <2>1 DEF TypeOK, LibTypeOK
  <2>3. ControlInv' /\ ProxyInv'
    BY <1>0, <1>2, <1>3, <1>7, <2>1 DEF ControlInv, ProxyInv, Serving, Waiting
  <2>4. AnswerInv'
    BY <1>4, <1>7, <2>1, AnswerEmpty DEF AnswerInv, OnlyRequest
  <2> QED
    BY <1>1, <1>5, <1>6, <2>2, <2>3, <2>4
<1>8. CASE kind # "connect"
  <2>1. /\ pc' = "user" /\ kind' = "none" /\ req' = <<>>
        /\ abandoned' = IF kind = "drain" THEN abandoned ELSE [abandoned EXCEPT ![cur] = TRUE]
    BY <1>0, <1>8 DEF PollError, Return, Abandon
  <2>2. TypeOK'
    <3>1. abandoned' \in [Chans -> BOOLEAN]
      BY <2>1 DEF TypeOK, LibTypeOK
    <3> QED
      BY <1>0, <1>1, <2>1, <3>1, MsgSeqs DEF TypeOK, LibTypeOK
  <2>3. ControlInv' /\ ProxyInv'
    BY <1>0, <1>3, <2>1 DEF ControlInv, ProxyInv, Serving, Waiting
  <2>4. AnswerInv'
    <3> SUFFICES ASSUME NEW g \in Handles, g \notin left', cookie'[g] \in Clients,
                        ~abandoned'[cookie'[g]]
                 PROVE  tx'[g] = <<>> /\ work'[g] = <<>> /\ rx'[g] = <<>>
      BY AnswerEmpty
    <3>1. ~abandoned[cookie[g]] /\ (cookie[g] # cur \/ kind = "drain")
      BY <1>4, <2>1 DEF TypeOK, LibTypeOK, Chans
    <3> QED
      BY <1>4, <3>1 DEF AnswerInv, OnlyRequest
  <2> QED
    BY <1>1, <1>5, <1>6, <2>2, <2>3, <2>4
<1> QED
  BY <1>7, <1>8

\* trusty_ipc_connect keeps the invariant: a connection its channel had is left.
LEMMA ConnectKeeps ==
  ASSUME TipcInv, NEW c \in Chans, Connect(c), c = Proxy => \A g \in Handles : st[g] = "free"
  PROVE  TipcInv'
<1> USE ConstantsAssumption, TipcAssumption DEF TipcInv
<1>0. PICK h \in Handles : SecConnect(h, c) /\ handle' = [handle EXCEPT ![c] = h]
  BY DEF Connect
<1>1. /\ pc = "user" /\ cur' = c /\ complete' = [complete EXCEPT ![c] = 0]
      /\ ops' = [ops EXCEPT ![c] = "sync"] /\ abandoned' = [abandoned EXCEPT ![c] = FALSE]
      /\ left' = left \cup ({handle[c]} \ {NoHandle})
      /\ pc' = "poll" /\ kind' = "connect"
      /\ UNCHANGED <<inited, req, pxMsg, pxLen, last, faults>>
  BY DEF Connect, StartWait, MayInit, ChanInit
<1>2. /\ st[h] = "free" /\ st' = [st EXCEPT ![h] = "connecting"]
      /\ cookie' = [cookie EXCEPT ![h] = c]
      /\ UNCHANGED <<edge, rx, tx, work, phase, sop, nextId>>
  BY <1>0 DEF SecConnect
<1>a. /\ left' \in SUBSET Handles /\ left \subseteq left' /\ h \notin left'
      /\ \A g \in Handles \ left' : cookie[g] = c => st[g] = "free"
  <2>1. handle[c] \in Handles \cup {NoHandle} /\ left \in SUBSET Handles
    BY DEF TypeOK, LibTypeOK
  <2>2. handle[c] # h /\ h \notin left
    BY <1>2 DEF ConnectionsAgree, LeftInv
  <2>3. \A g \in Handles \ left : cookie[g] = c /\ st[g] # "free" => handle[c] = g
    BY <1>2 DEF ConnectionsAgree
  <2> QED
    BY <1>1, <2>1, <2>2, <2>3
<1>b. \A g \in Handles : /\ st'[g] = IF g = h THEN "connecting" ELSE st[g]
                         /\ cookie'[g] = IF g = h THEN c ELSE cookie[g]
  BY <1>2 DEF TypeOK, SecTypeOK
<1>3. TypeOK'
  <2>1. SecTypeOK'
    BY <1>2 DEF TypeOK, SecTypeOK
  <2>2. LibTypeOK'
    BY <1>0, <1>1, <1>a DEF TypeOK, LibTypeOK
  <2> QED
    BY <2>1, <2>2 DEF TypeOK
<1>4. kind = "none" /\ h # NoHandle
  BY <1>1 DEF ControlInv
<1>5. ControlInv'
  BY <1>0, <1>1, <1>4 DEF ControlInv, TypeOK, LibTypeOK, Waiting, Serving
<1>6. ProxyInv'
  BY <1>1 DEF ProxyInv, TypeOK, LibTypeOK, Serving, Chans
<1>7. SecureInv'
  BY <1>2 DEF SecureInv, TypeOK, SecTypeOK
<1>8. ReadyInv'
  <2> SUFFICES ASSUME NEW g \in Handles, g # h, ~Shadowed(cookie[g])',
                      st'[g] = "connecting" \/ "READY" \in edge'[g]
               PROVE  FALSE
    BY <1>1, <1>b DEF ReadyInv, Waiting
  <2>1. st[g] = "connecting" \/ "READY" \in edge[g]
    BY <1>2, <1>b
  <2>2. ~Shadowed(cookie[g])
    BY <1>a, <1>b DEF Shadowed
  <2> QED
    BY <1>4, <2>1, <2>2 DEF ReadyInv
<1>9. ConnectionsAgree'
  <2>1. \A d \in Chans : handle[d] # h
    BY <1>2, <1>4 DEF ConnectionsAgree
  <2>2. \A d \in Chans : handle'[d] = IF d = c THEN h ELSE handle[d]
    BY <1>0 DEF TypeOK, LibTypeOK
  <2>a. \A d \in Chans : d # c /\ handle[d] # NoHandle => handle[d] \notin left'
    BY <1>1 DEF ConnectionsAgree
  <2>4. \A d \in Chans : handle'[d] # NoHandle =>
           st'[handle'[d]] # "free" /\ cookie'[handle'[d]] = d /\ handle'[d] \notin left'
    BY <1>a, <1>b, <2>1, <2>2, <2>a DEF ConnectionsAgree, TypeOK, LibTypeOK
  <2>5. \A g \in Handles \ left' : st'[g] # "free" =>
           \/ handle'[cookie'[g]] = g
           \/ cookie'[g] = Proxy /\ handle'[Proxy] = NoHandle /\ st'[g] = "hup" /\ rx'[g] = <<>>
    <3> SUFFICES ASSUME NEW g \in Handles \ left', st'[g] # "free", g # h
                 PROVE  \/ handle'[cookie'[g]] = g
                        \/ /\ cookie'[g] = Proxy /\ handle'[Proxy] = NoHandle
                           /\ st'[g] = "hup" /\ rx'[g] = <<>>
      BY <2>2, <1>b
    <3>1. /\ st[g] # "free" /\ cookie'[g] = cookie[g] /\ cookie[g] # c /\ cookie[g] \in Chans
          /\ g \notin left
      BY <1>a, <1>b DEF TypeOK, SecTypeOK
    <3> QED
      BY <1>2, <1>b, <2>2, <3>1 DEF ConnectionsAgree, Chans
  <2> QED
    BY <2>4, <2>5 DEF ConnectionsAgree
<1>10. WaitedRecvHasMessage' /\ AnswerMatches'
  BY <1>1 DEF WaitedRecvHasMessage, AnswerMatches
<1>11. AnswerInv'
  <2> SUFFICES ASSUME NEW g \in Handles, g \notin left', cookie'[g] \in Clients,
                      ~abandoned'[cookie'[g]]
               PROVE  tx'[g] = <<>> /\ work'[g] = <<>> /\ rx'[g] = <<>>
    BY AnswerEmpty
  <2>1. CASE g = h
    BY <1>2, <2>1 DEF SecureInv
  <2>2. CASE g # h
    <3>1. cookie'[g] = cookie[g] /\ g \notin left
      BY <1>a, <1>b, <2>2
    <3>2. CASE cookie[g] = c
      BY <1>2, <1>a, <3>2 DEF SecureInv
    <3>3. CASE cookie[g] # c
      <4>1. ~abandoned[cookie[g]]
        BY <1>1, <3>1, <3>3 DEF TypeOK, LibTypeOK, Chans
      <4> QED
        BY <1>2, <1>4, <3>1, <4>1 DEF AnswerInv, OnlyRequest
    <3> QED
      BY <3>2, <3>3
  <2> QED
    BY <2>1, <2>2
<1>12. StorageFlow'
  <2> SUFFICES ASSUME NEW q \in Handles, ProxyOpen(q)'
               PROVE  StorageFlow!(q)'
    BY DEF StorageFlow
  <2>1. ProxyOpen(q) /\ (q \notin left' => q \notin left)
    BY <1>a, <1>b DEF ProxyOpen
  <2>2. pc # "px_close" /\ UNCHANGED <<rx, tx, sop, pxMsg>>
    BY <1>1, <1>2
  <2> QED
    BY <2>1, <2>2 DEF StorageFlow
<1>13. LeftInv' /\ ProxyAlone'
  <2>1. LeftInv'
    BY <1>1, <1>b, <1>a DEF LeftInv, ConnectionsAgree
  <2>2. CASE c = Proxy
    BY <1>1, <1>2, <1>b, <2>1, <2>2 DEF ProxyAlone, ProxyOpen, TypeOK, LibTypeOK
  <2>3. CASE c # Proxy
    <3>1. \A g \in Handles : ProxyOpen(g) => ProxyOpen(g)'
      BY <1>2, <1>b DEF ProxyOpen
    <3>2. ops'[Proxy] = ops[Proxy]
      BY <1>1, <2>3 DEF TypeOK, LibTypeOK, Chans
    <3> QED
      BY <1>2, <1>b, <2>1, <2>3, <3>1, <3>2 DEF ProxyAlone
  <2> QED
    BY <2>2, <2>3
<1> QED
  BY <1>3, <1>5, <1>6, <1>7, <1>8, <1>9, <1>10, <1>11, <1>12, <1>13

\* A CONNECT that fails keeps the invariant.
LEMMA ConnectFailsKeeps ==
  ASSUME TipcInv, NEW c \in Chans, ConnectFails(c),
         c = Proxy => \A g \in Handles : st[g] = "free"
  PROVE  TipcInv'
<1> USE ConstantsAssumption, TipcAssumption
    DEF TipcInv, ConnectFails, secVars, MayInit, ChanInit
<1>0. kind = "none" /\ kind' = "none" /\ pc' = "user" /\ handle[c] \in Handles \cup {NoHandle}
  BY DEF ControlInv, TypeOK, LibTypeOK
<1>a. left' \in SUBSET Handles /\ left \subseteq left'
  BY <1>0 DEF TypeOK, LibTypeOK
<1>b. \A d \in Chans : handle'[d] = IF d = c THEN NoHandle ELSE handle[d]
  BY DEF TypeOK, LibTypeOK
<1>1. TypeOK'
  BY <1>a DEF TypeOK, SecTypeOK, LibTypeOK
<1>2. ControlInv' /\ ProxyInv'
  BY <1>0 DEF ControlInv, ProxyInv, Waiting, Serving, TypeOK, LibTypeOK, Chans
<1>3. SecureInv' /\ ReadyInv'
  <2>1. \A g \in Handles : Shadowed(cookie[g]) => Shadowed(cookie[g])'
    BY <1>a DEF Shadowed
  <2> QED
    BY <1>0, <2>1 DEF SecureInv, ReadyInv
<1>4. ConnectionsAgree' /\ WaitedRecvHasMessage'
  <2>1. \A d \in Chans : d # c /\ handle[d] # NoHandle => handle[d] \notin left'
    BY DEF ConnectionsAgree
  <2>2. \A d \in Chans : handle'[d] # NoHandle =>
           st'[handle'[d]] # "free" /\ cookie'[handle'[d]] = d /\ handle'[d] \notin left'
    BY <1>b, <2>1 DEF ConnectionsAgree
  <2>3. \A g \in Handles \ left' : st'[g] # "free" =>
           \/ handle'[cookie'[g]] = g
           \/ cookie'[g] = Proxy /\ handle'[Proxy] = NoHandle /\ st'[g] = "hup" /\ rx'[g] = <<>>
    <3> SUFFICES ASSUME NEW g \in Handles \ left', st[g] # "free"
                 PROVE  \/ handle'[cookie[g]] = g
                        \/ /\ cookie[g] = Proxy /\ handle'[Proxy] = NoHandle
                           /\ st[g] = "hup" /\ rx[g] = <<>>
      OBVIOUS
    <3>1. cookie[g] \in Chans /\ g \notin left /\ (handle[c] # NoHandle => g # handle[c])
      BY <1>a DEF TypeOK, SecTypeOK
    <3>2. Proxy \in Chans /\ (handle[Proxy] = NoHandle => handle'[Proxy] = NoHandle)
      BY <1>b DEF Chans
    <3> QED
      BY <1>b, <3>1, <3>2 DEF ConnectionsAgree
  <2> QED
    BY <1>0, <2>2, <2>3 DEF ConnectionsAgree, WaitedRecvHasMessage
<1>5. AnswerInv' /\ AnswerMatches'
  <2>1. \A g \in Handles : g \notin left' /\ cookie[g] \in Clients /\ ~abandoned'[cookie[g]] =>
           tx[g] = <<>> /\ work[g] = <<>> /\ rx[g] = <<>>
    <3> SUFFICES ASSUME NEW g \in Handles, g \notin left', cookie[g] \in Clients,
                        ~abandoned'[cookie[g]]
                 PROVE  tx[g] = <<>> /\ work[g] = <<>> /\ rx[g] = <<>>
      OBVIOUS
    <3>1. CASE cookie[g] = c
      <4>1. st[g] = "free"
        BY <1>a, <3>1 DEF ConnectionsAgree
      <4> QED
        BY <4>1 DEF SecureInv
    <3>2. CASE cookie[g] # c
      <4>1. ~abandoned[cookie[g]] /\ g \notin left
        BY <1>a, <3>2 DEF TypeOK, LibTypeOK, Chans
      <4> QED
        BY <1>0, <4>1 DEF AnswerInv, OnlyRequest
    <3> QED
      BY <3>1, <3>2
  <2> QED
    BY <2>1, AnswerEmpty DEF AnswerMatches
<1>6. StorageFlow'
  <2>1. pc = "user"
    OBVIOUS
  <2> QED
    BY <1>a, <2>1, StorageFrame
<1>7. LeftInv' /\ ProxyAlone'
  BY <1>0 DEF LeftInv, ConnectionsAgree, ProxyAlone, ProxyOpen, TypeOK, LibTypeOK, Chans
<1> QED
  BY <1>1, <1>2, <1>3, <1>4, <1>5, <1>6, <1>7

\* A call that ends with the error of its send keeps the invariant.
LEMMA CallEndsKeeps ==
  ASSUME TipcInv, SendErr \/ VersionFails
  PROVE  TipcInv'
<1> USE ConstantsAssumption, TipcAssumption DEF TipcInv, secVars
<1>0. /\ pc \in {"send_err", "version"} /\ pc' = "user" /\ kind' = "none" /\ req' = <<>>
      /\ UNCHANGED <<secVars, handle, complete, ops, inited, cur, pxMsg, pxLen, last,
                     abandoned, left, faults>>
  BY DEF SendErr, VersionFails, Return
<1>1. TypeOK'
  BY <1>0, MsgSeqs DEF TypeOK, SecTypeOK, LibTypeOK
<1>2. ControlInv' /\ ProxyInv'
  BY <1>0 DEF ControlInv, ProxyInv, Waiting, Serving
<1>3. SecureInv' /\ ReadyInv'
  BY <1>0 DEF SecureInv, ReadyInv, Shadowed, Waiting, Serving
<1>4. ConnectionsAgree' /\ WaitedRecvHasMessage'
  BY <1>0 DEF ConnectionsAgree, WaitedRecvHasMessage, Shadowed
<1>5. AnswerInv' /\ AnswerMatches'
  <2>1. \A g \in Handles : g \notin left /\ cookie[g] \in Clients /\ ~abandoned[cookie[g]] =>
           tx[g] = <<>> /\ work[g] = <<>> /\ rx[g] = <<>>
    BY <1>0 DEF AnswerInv, OnlyRequest, ControlInv
  <2> QED
    BY <1>0, <2>1, AnswerEmpty DEF AnswerMatches
<1>6. StorageFlow'
  BY ZenonT(30), <1>0 DEF StorageFlow, ProxyOpen
<1>7. LeftInv' /\ ProxyAlone'
  BY <1>0 DEF LeftInv, ProxyAlone, ProxyOpen
<1> QED
  BY <1>1, <1>2, <1>3, <1>4, <1>5, <1>6, <1>7

\* A receive that fails keeps the invariant: the request is marked abandoned.
LEMMA RecvFailsKeeps ==
  ASSUME TipcInv, pc = "recv", Return, Abandon, faults' \in 0 .. MaxFaults,
         UNCHANGED <<secVars, handle, complete, ops, inited, cur, pxMsg, pxLen, last, left>>
  PROVE  TipcInv'
<1> USE ConstantsAssumption, TipcAssumption DEF TipcInv, secVars, Return
<1>0. abandoned' \in [Chans -> BOOLEAN] /\ abandoned' = [abandoned EXCEPT ![cur] = TRUE]
  BY DEF TypeOK, LibTypeOK, Abandon
<1>1. TypeOK'
  BY <1>0, MsgSeqs DEF TypeOK, SecTypeOK, LibTypeOK
<1>2. ControlInv' /\ ProxyInv'
  BY DEF ControlInv, ProxyInv, Serving, Waiting
<1>3. SecureInv' /\ ReadyInv'
  BY DEF SecureInv, ReadyInv, Shadowed, Waiting, Serving
<1>4. ConnectionsAgree' /\ WaitedRecvHasMessage' /\ LeftInv' /\ ProxyAlone'
  BY DEF ConnectionsAgree, WaitedRecvHasMessage, Shadowed, LeftInv, ProxyAlone, ProxyOpen
<1>5. AnswerInv' /\ AnswerMatches'
  <2>1. \A c \in Clients : ~abandoned'[c] => ~abandoned[c] /\ c # cur
    BY <1>0 DEF TypeOK, LibTypeOK, Chans
  <2>2. \A g \in Handles : g \notin left /\ cookie[g] \in Clients /\ ~abandoned'[cookie[g]] =>
           tx[g] = <<>> /\ work[g] = <<>> /\ rx[g] = <<>>
    BY <2>1 DEF AnswerInv, OnlyRequest
  <2> QED
    BY <2>2, AnswerEmpty DEF AnswerMatches
<1>6. StorageFlow'
  <2>1. pc # "px_close"
    OBVIOUS
  <2> QED
    BY <2>1, StorageFrame
<1> QED
  BY <1>1, <1>2, <1>3, <1>4, <1>5, <1>6

\* The receive after the wait keeps it: the message it takes answers the request.
LEMMA RecvKeeps ==
  ASSUME TipcInv, Recv
  PROVE  TipcInv'
<1> USE ConstantsAssumption, TipcAssumption DEF TipcInv
<1> DEFINE h == handle[cur]
<1>a. /\ pc = "recv" /\ Return
      /\ UNCHANGED <<st, cookie, edge, tx, work, phase, sop, nextId,
                     handle, complete, ops, cur, pxMsg, pxLen, left>>
      /\ \/ h \in Handles /\ rx[h] # <<>> /\ TakeAnswer(h) /\ UNCHANGED <<abandoned, faults>>
         \/ /\ faults' = faults \/ Fault
            /\ Abandon /\ UNCHANGED <<rx, last, inited>>
  BY DEF Recv
<1>b. ASSUME faults' = faults \/ Fault, Abandon, UNCHANGED <<rx, last, inited>>
      PROVE  TipcInv'
  <2>1. faults' \in 0 .. MaxFaults
    BY <1>b DEF Fault, TypeOK, LibTypeOK
  <2> QED
    BY <1>a, <1>b, <2>1, RecvFailsKeeps DEF secVars
<1>c. ASSUME h \in Handles, rx[h] # <<>>, TakeAnswer(h), UNCHANGED <<abandoned, faults>>
      PROVE  TipcInv'
  <2>0. /\ kind \in {"version", "call"} /\ cur \in Clients
        /\ h \in Handles /\ rx[h] # <<>> /\ cookie[h] = cur /\ Len(req) = 1
        /\ handle[cur] \in Handles
    BY <1>a, <1>c DEF ControlInv, ConnectionsAgree, Chans
  <2>1. /\ rx' = [rx EXCEPT ![h] = Tail(@)]
        /\ pc' = "user" /\ kind' = "none" /\ req' = <<>>
        /\ \/ last' = last
           \/ last' = [req |-> Head(req).id, ans |-> Head(rx[h]).id, clean |-> ~abandoned[cur]]
    BY <1>a, <1>c DEF TakeAnswer, Return
  <2>2. inited' \in [Chans -> BOOLEAN]
    BY <1>c DEF TakeAnswer, TypeOK, LibTypeOK
  <2> HIDE DEF h
  <2>3. TypeOK'
    <3>1. rx' \in [Handles -> Seq(Msgs)]
      BY <2>0, <2>1, MsgSeqs DEF TypeOK, SecTypeOK
    <3>2. Head(rx[h]) \in Msgs /\ Head(req) \in Msgs
      <4>1. rx[h] \in Seq(Msgs) /\ req \in Seq(Msgs) /\ req # <<>>
        BY <2>0, <2>1, MsgSeqs DEF TypeOK, SecTypeOK, LibTypeOK
      <4> QED
        BY <2>0, <4>1, MsgSeqs
    <3>3. Head(rx[h]).id \in 0 .. MaxReq /\ Head(req).id \in 0 .. MaxReq
      BY <3>2 DEF Msgs, Ids
    <3>4. (~abandoned[cur]) \in BOOLEAN
      OBVIOUS
    <3>5. last' \in [req : 0 .. MaxReq, ans : 0 .. MaxReq, clean : BOOLEAN]
      <5>1. CASE last' = last
        BY <5>1 DEF TypeOK, LibTypeOK
      <5>2. CASE last' = [req |-> Head(req).id, ans |-> Head(rx[h]).id, clean |-> ~abandoned[cur]]
        BY <3>3, <3>4, <5>2
      <5> QED
        BY <2>1, <5>1, <5>2
    <3> QED
      BY <1>a, <1>c, <2>1, <2>2, <3>1, <3>5, MsgSeqs DEF TypeOK, SecTypeOK, LibTypeOK
  <2>4. ControlInv' /\ ProxyInv'
    BY <1>a, <2>0, <2>1 DEF ControlInv, ProxyInv, Waiting, Serving
  <2>5. SecureInv' /\ ReadyInv'
    <3>1. SecureInv'
      BY <1>a, <2>0, <2>1 DEF SecureInv, TypeOK, SecTypeOK
    <3>2. ReadyInv'
      BY <1>a DEF ReadyInv, Shadowed, Waiting, Serving
    <3> QED
      BY <3>1, <3>2
  <2>6. ConnectionsAgree' /\ WaitedRecvHasMessage' /\ LeftInv' /\ ProxyAlone'
    BY <1>a, <2>0, <2>1 DEF ConnectionsAgree, WaitedRecvHasMessage, LeftInv, ProxyAlone, ProxyOpen,
                            TypeOK, SecTypeOK
  <2>7. AnswerInv'
    <3> SUFFICES ASSUME NEW g \in Handles, g \notin left, cookie[g] \in Clients, ~abandoned[cookie[g]]
                 PROVE  tx[g] = <<>> /\ work[g] = <<>> /\ rx'[g] = <<>>
      BY <1>a, <1>c, <2>1, AnswerEmpty
    <3>1. CASE g = h
      <4>1. tx[h] \in Seq(Msgs) /\ work[h] \in Seq(Msgs) /\ rx[h] \in Seq(Msgs) /\ rx'[h] = Tail(rx[h])
        BY <2>0, <2>1 DEF TypeOK, SecTypeOK
      <4>2. Len(tx[h]) + Len(work[h]) + Len(rx[h]) <= 1
        BY <3>1 DEF AnswerInv
      <4>a. Len(rx[h]) \in Nat \ {0} /\ Len(tx[h]) \in Nat /\ Len(work[h]) \in Nat
        BY <2>0, <4>1, MsgSeqs
      <4>b. \A i, j, n \in Nat : n # 0 /\ i + j + n <= 1 => n = 1 /\ i = 0 /\ j = 0
        OBVIOUS
      <4>3. Len(rx[h]) = 1 /\ Len(tx[h]) = 0 /\ Len(work[h]) = 0
        BY <4>a, <4>b, <4>2
      <4>4. Tail(rx[h]) \in Seq(Msgs) /\ Len(Tail(rx[h])) = 0
        BY <2>0, <4>1, <4>3, MsgSeqs
      <4> QED
        BY <3>1, <4>1, <4>3, <4>4, MsgSeqs
    <3>2. CASE g # h
      <4>1. cookie[g] # cur \/ st[g] = "free"
        BY <2>0, <3>2 DEF ConnectionsAgree, h
      <4>2. rx'[g] = rx[g]
        BY <2>1, <3>2 DEF TypeOK, SecTypeOK
      <4> QED
        BY <4>1, <4>2 DEF AnswerInv, OnlyRequest, SecureInv
    <3> QED
      BY <3>1, <3>2
  <2>8. AnswerMatches'
    <3>1. h \notin left
      BY <2>0 DEF ConnectionsAgree, h, Chans
    <3>2. ~abandoned[cur] => Head(rx[h]) = Head(req)
      BY <2>0, <3>1 DEF AnswerInv, OnlyRequest
    <3>3. CASE last' = last
      BY <3>3 DEF AnswerMatches
    <3>4. CASE last' = [req |-> Head(req).id, ans |-> Head(rx[h]).id, clean |-> ~abandoned[cur]]
      <4>1. /\ last'.req = Head(req).id /\ last'.ans = Head(rx[h]).id
            /\ last'.clean = ~abandoned[cur]
        BY <3>4
      <4> QED
        BY ONLY <3>2, <4>1, Zenon DEF AnswerMatches
    <3> QED
      BY <2>1, <3>3, <3>4
  <2>9. StorageFlow'
    <3>1. \A q \in Handles : cookie[q] = Proxy => rx'[q] = rx[q]
      BY <2>0, <2>1 DEF TypeOK, SecTypeOK
    <3> QED
      BY <1>a, <3>1, StorageFrame
  <2> QED
    BY <2>3, <2>4, <2>5, <2>6, <2>7, <2>8, <2>9
<1> QED
  BY <1>a, <1>b, <1>c

\* A client sends a request, in a call or while it is initialized.
LEMMA SendKeeps ==
  ASSUME TipcInv, NEW c \in Clients, NEW cmd \in Cmds, NEW k \in {"version", "call"},
         Send(c, cmd, k), handle[c] # NoHandle, cur' = c,
         pc = "user" \/ (pc = "version" /\ cur = c),
         UNCHANGED <<handle, ops, inited, pxMsg, pxLen, last, abandoned, left, faults>>
  PROVE  TipcInv'
<1> USE ConstantsAssumption, TipcAssumption DEF TipcInv
<1> DEFINE h == handle[c]
           m == [id |-> nextId, body |-> cmd]
<1>0. /\ h \in Handles /\ cookie[h] = c /\ st[h] # "free" /\ m \in Msgs
      /\ kind \notin {"version", "call"} /\ nextId \in Ids /\ c \in Chans
  BY DEF Send, ControlInv, ConnectionsAgree, SecureInv, TypeOK, LibTypeOK, Chans, Msgs
<1>1. nextId' = nextId + 1 /\ nextId' \in 1 .. (MaxReq + 1) /\ kind' = k
      /\ UNCHANGED <<st, cookie, edge, rx, work, phase, sop>>
  BY <1>0 DEF Send, StartWait, Ids
<1>2. \A g \in Handles : g \notin left /\ cookie[g] \in Clients /\ ~abandoned[cookie[g]] =>
         tx[g] = <<>> /\ work[g] = <<>> /\ rx[g] = <<>>
  BY <1>0 DEF AnswerInv, OnlyRequest
<1>3. \A g \in Handles : st[g] = "connecting" \/ "READY" \in edge[g] => Shadowed(cookie[g])
  BY DEF ReadyInv, Shadowed, ControlInv, Waiting, Serving
<1>4. \/ /\ CanSend(h) /\ tx' = [tx EXCEPT ![h] = Append(@, m)]
         /\ complete' = [complete EXCEPT ![c] = 0] /\ req' = <<m>> /\ pc' = "poll"
      \/ pc' = "send_err" /\ UNCHANGED <<tx, complete, req>>
  BY DEF Send, StartWait
<1> HIDE DEF h, m
<1>5. TypeOK'
  <2>1. tx' \in [Handles -> Seq(Msgs)] /\ req' \in Seq(Msgs)
    <3>1. <<m>> \in Seq(Msgs) /\ \A s \in Seq(Msgs) : Append(s, m) \in Seq(Msgs)
      BY <1>0, MsgSeqs
    <3>2. tx \in [Handles -> Seq(Msgs)] /\ req \in Seq(Msgs)
      BY DEF TypeOK, SecTypeOK, LibTypeOK
    <3>3. Append(tx[h], m) \in Seq(Msgs)
      BY <1>0, <3>1, <3>2
    <3>4. tx' \in [Handles -> Seq(Msgs)]
      BY <1>0, <1>4, <3>2, <3>3
    <3> QED
      BY <1>4, <3>1, <3>2, <3>4
  <2>2. complete' \in [Chans -> {0, 1, CHANNEL_CLOSED}]
    BY <1>4 DEF TypeOK, LibTypeOK
  <2>3. SecTypeOK'
    BY <1>1, <2>1 DEF TypeOK, SecTypeOK
  <2>4. LibTypeOK'
    BY <1>0, <1>1, <1>4, <2>1, <2>2 DEF TypeOK, LibTypeOK
  <2> QED
    BY <2>3, <2>4 DEF TypeOK
<1>6. ControlInv' /\ ProxyInv'
  <2>1. pc' = "poll" => Len(req') = 1 /\ complete'[c] = 0
    BY <1>0, <1>4, MsgSeqs DEF TypeOK, LibTypeOK
  <2> QED
    BY <1>0, <1>1, <1>4, <2>1 DEF ControlInv, ProxyInv, Waiting, Serving
<1>7. SecureInv' /\ ReadyInv'
  <2>1. SecureInv'
    BY <1>0, <1>1, <1>4 DEF SecureInv, CanSend, TypeOK, SecTypeOK
  <2> QED
    BY <1>1, <1>3, <2>1 DEF ReadyInv, Shadowed
<1>8. ConnectionsAgree' /\ WaitedRecvHasMessage'
  BY <1>1, <1>4 DEF ConnectionsAgree, WaitedRecvHasMessage, Shadowed
<1>9. AnswerInv'
  <2>1. CASE pc' = "send_err"
    BY <1>1, <1>2, <1>4, <2>1, AnswerEmpty
  <2>2. CASE pc' = "poll"
    <3> SUFFICES ASSUME NEW g \in Handles, g \notin left, cookie[g] \in Clients,
                        ~abandoned[cookie[g]]
                 PROVE  AnswerInv!(g)'
      BY <1>1 DEF AnswerInv
    <3>1. CASE g = h
      <4>1. tx'[h] = Append(<<>>, m) /\ rx'[h] = <<>> /\ work'[h] = <<>> /\ req' = <<m>>
        BY <1>0, <1>1, <1>2, <1>4, <2>2, <3>1 DEF TypeOK, SecTypeOK
      <4>2. Len(tx'[h]) = 1 /\ Head(tx'[h]) = m /\ Head(req') = m
        BY <1>0, <4>1, MsgSeqs
      <4> QED
        BY <1>0, <1>1, <2>2, <3>1, <4>1, <4>2, MsgSeqs DEF OnlyRequest
    <3>2. CASE g # h
      <4>1. tx'[g] = <<>> /\ rx'[g] = <<>> /\ work'[g] = <<>>
        BY <1>1, <1>2, <1>4, <3>2 DEF TypeOK, SecTypeOK
      <4> QED
        BY <4>1, MsgSeqs DEF OnlyRequest
    <3> QED
      BY <3>1, <3>2
  <2> QED
    BY <1>4, <2>1, <2>2
<1>10. AnswerMatches'
  BY DEF AnswerMatches
<1>11. StorageFlow'
  <2>1. \A q \in Handles : cookie[q] = Proxy => tx'[q] = tx[q]
    BY <1>0, <1>4 DEF TypeOK, SecTypeOK
  <2> QED
    BY <1>1, <2>1, StorageFrame
<1>12. LeftInv' /\ ProxyAlone'
  BY <1>1 DEF LeftInv, ProxyAlone, ProxyOpen
<1> QED
  BY <1>5, <1>6, <1>7, <1>8, <1>9, <1>10, <1>11, <1>12

\* The version request of an init and the request of a call keep it.
LEMMA RequestKeeps ==
  ASSUME TipcInv, SendVersion \/ \E c \in Clients, cmd \in Cmds : Call(c, cmd)
  PROVE  TipcInv'
<1>0. ControlInv
  BY DEF TipcInv
<1>1. CASE SendVersion
  BY <1>0, <1>1, SendKeeps DEF SendVersion, ControlInv
<1>2. CASE \E c \in Clients, cmd \in Cmds : Call(c, cmd)
  BY <1>2, SendKeeps DEF Call
<1> QED
  BY <1>1, <1>2

\* A message event of the proxy's channel keeps the invariant.
LEMMA ProxyMsgEventKeeps ==
  ASSUME TipcInv, NEW h \in Handles, ProxyMsgEvent(h)
  PROVE  TipcInv'
<1> USE ConstantsAssumption, TipcAssumption DEF TipcInv
<1>0. /\ pc = "poll" /\ pc' = "px_recv" /\ ops[cookie[h]] = "proxy" /\ cookie[h] \in Chans
      /\ edge' = [edge EXCEPT ![h] = {}]
      /\ UNCHANGED <<st, cookie, rx, tx, work, phase, sop, nextId,
                     handle, complete, ops, inited, kind, cur, req, pxMsg, pxLen,
                     last, abandoned, left, faults>>
  BY DEF ProxyMsgEvent, GetEvent, TypeOK, SecTypeOK
<1>1. ops[Proxy] = "proxy"
  BY <1>0 DEF ProxyInv, Chans
<1>2. TypeOK'
  BY <1>0 DEF TypeOK, SecTypeOK, LibTypeOK
<1>3. ControlInv' /\ ProxyInv'
  BY <1>0, <1>1 DEF ControlInv, ProxyInv, Waiting, Serving
<1>4. SecureInv' /\ ReadyInv'
  BY <1>0 DEF SecureInv, ReadyInv, Shadowed, Waiting, Serving, TypeOK, SecTypeOK
<1>5. ConnectionsAgree' /\ WaitedRecvHasMessage'
  BY <1>0 DEF ConnectionsAgree, WaitedRecvHasMessage, Shadowed
<1>6. AnswerInv' /\ AnswerMatches'
  BY <1>0 DEF AnswerInv, OnlyRequest, AnswerMatches
<1>7. StorageFlow' /\ LeftInv' /\ ProxyAlone'
  BY <1>0 DEF StorageFlow, ProxyOpen, LeftInv, ProxyAlone
<1> QED
  BY <1>2, <1>3, <1>4, <1>5, <1>6, <1>7

\* Other events of the proxy's channel keep it, the hangup included.
LEMMA ProxyHupEventKeeps ==
  ASSUME TipcInv, NEW h \in Handles, ProxyHupEvent(h)
  PROVE  TipcInv'
<1> USE ConstantsAssumption, TipcAssumption DEF TipcInv
<1>0. /\ pc = "poll" /\ ops[cookie[h]] = "proxy" /\ cookie[h] \in Chans
      /\ Events(h) # {} /\ "MSG" \notin Events(h)
      /\ edge' = [edge EXCEPT ![h] = {}]
      /\ handle' = [handle EXCEPT ![Proxy] = IF "HUP" \in Events(h) THEN NoHandle ELSE @]
      /\ UNCHANGED <<st, cookie, rx, tx, work, phase, sop, nextId,
                     complete, cur, pxMsg, pxLen, last, left, faults>>
  BY DEF ProxyHupEvent, GetEvent, TypeOK, SecTypeOK
<1>1. ops[Proxy] = "proxy" /\ cookie[h] = Proxy /\ ~(kind = "connect" /\ cur = Proxy)
  BY <1>0 DEF ProxyInv, Chans
<1>2. /\ UNCHANGED <<ops, abandoned>> /\ inited' \in [Chans -> BOOLEAN]
      /\ \/ pc' \in {"poll", "has_event"} /\ UNCHANGED <<kind, req>>
         \/ kind = "drain" /\ pc' = "user" /\ kind' = "none" /\ req' = <<>>
  <2>1. handle'[Proxy] \in Handles \cup {NoHandle} /\ AfterPoll(FALSE, complete[cur], handle'[Proxy])
    BY <1>0 DEF ProxyHupEvent, TypeOK, LibTypeOK, Chans
  <2> QED
    BY <1>0, <2>1, QuietPoll
<1>3. TypeOK'
  BY ZenonT(30), <1>0, <1>2, MsgSeqs DEF TypeOK, SecTypeOK, LibTypeOK, Chans
<1>4. ControlInv' /\ ProxyInv'
  <2>1. \A c \in Clients : handle'[c] = handle[c]
    BY <1>0 DEF TypeOK, LibTypeOK, Chans
  <2>2. kind \in {"connect", "version", "call"} => handle'[cur] # NoHandle
    BY <1>0, <1>1, <2>1 DEF ControlInv, TypeOK, LibTypeOK, Chans
  <2> QED
    BY <1>0, <1>1, <1>2, <2>2 DEF ControlInv, ProxyInv, Waiting, Serving
<1>5. SecureInv' /\ ReadyInv'
  BY ZenonT(30), <1>0, <1>2 DEF SecureInv, ReadyInv, Shadowed, Waiting, Serving, TypeOK, SecTypeOK
<1>6. ConnectionsAgree'
  <2>1. "HUP" \in Events(h) => st[h] = "hup" /\ rx[h] = <<>>
    BY <1>0, EventLive
  <2>2. CASE handle' = handle
    BY <1>0, <2>2 DEF ConnectionsAgree
  <2>3. CASE handle' # handle
    <3>1. /\ handle[Proxy] # NoHandle /\ st[h] = "hup" /\ rx[h] = <<>>
          /\ handle' = [handle EXCEPT ![Proxy] = NoHandle]
      <4>1. CASE "HUP" \notin Events(h)
        <5>1. handle' = [handle EXCEPT ![Proxy] = handle[Proxy]]
          BY <1>0, <4>1
        <5>2. handle' = handle
          BY <5>1 DEF TypeOK, LibTypeOK
        <5> QED
          BY <2>3, <5>2
      <4>2. CASE "HUP" \in Events(h)
        <5>1. handle' = [handle EXCEPT ![Proxy] = NoHandle]
          BY <1>0, <4>2
        <5>2. handle[Proxy] # NoHandle
          BY <2>3, <5>1 DEF TypeOK, LibTypeOK
        <5> QED
          BY <2>1, <4>2, <5>1, <5>2
      <4> QED
        BY <4>1, <4>2
    <3>2. \A g \in Handles : cookie[g] = Proxy /\ st[g] # "free" => g = h
      BY <1>1, <3>1 DEF ProxyAlone
    <3>3. \A d \in Chans : handle'[d] = IF d = Proxy THEN NoHandle ELSE handle[d]
      BY <3>1 DEF TypeOK, LibTypeOK
    <3>4. \A d \in Chans : handle'[d] # NoHandle =>
             st'[handle'[d]] # "free" /\ cookie'[handle'[d]] = d /\ handle'[d] \notin left'
      BY <1>0, <3>3 DEF ConnectionsAgree
    <3>5. \A g \in Handles \ left' : st'[g] # "free" =>
             \/ handle'[cookie'[g]] = g
             \/ cookie'[g] = Proxy /\ handle'[Proxy] = NoHandle /\ st'[g] = "hup" /\ rx'[g] = <<>>
      <4> SUFFICES ASSUME NEW g \in Handles \ left, st[g] # "free"
                   PROVE  \/ handle'[cookie[g]] = g
                          \/ /\ cookie[g] = Proxy /\ handle'[Proxy] = NoHandle
                             /\ st[g] = "hup" /\ rx[g] = <<>>
        BY <1>0
      <4>1. cookie[g] \in Chans
        BY DEF TypeOK, SecTypeOK
      <4>2. CASE g = h
        BY <1>1, <3>1, <3>3, <4>2 DEF Chans
      <4>3. CASE g # h
        BY <3>2, <3>3, <4>1, <4>3 DEF ConnectionsAgree
      <4> QED
        BY <4>2, <4>3
    <3> QED
      BY <3>4, <3>5 DEF ConnectionsAgree
  <2> QED
    BY <2>2, <2>3
<1>7. WaitedRecvHasMessage' /\ AnswerMatches'
  BY <1>0, <1>2 DEF WaitedRecvHasMessage, Shadowed, AnswerMatches
<1>8. AnswerInv'
  BY <1>0, <1>2 DEF AnswerInv, OnlyRequest
<1>9. StorageFlow'
  BY <1>0, StorageFrame
<1>10. LeftInv' /\ ProxyAlone'
  BY <1>0, <1>2 DEF LeftInv, ProxyAlone, ProxyOpen
<1> QED
  BY <1>3, <1>4, <1>5, <1>6, <1>7, <1>8, <1>9, <1>10

\* The proxy that reads a storage request keeps the invariant.
LEMMA PxRecvKeeps ==
  ASSUME TipcInv, PxRecv
  PROVE  TipcInv'
<1> USE ConstantsAssumption, TipcAssumption DEF TipcInv
<1> DEFINE h == handle[Proxy]
<1>0. /\ pc = "px_recv" /\ pxMsg = <<>>
      /\ UNCHANGED <<st, cookie, edge, tx, work, phase, sop, nextId, handle, complete, ops,
                     inited, kind, cur, req, last, abandoned, left>>
  BY MsgSeqs DEF PxRecv, ProxyInv, TypeOK, LibTypeOK
<1>b. faults' \in 0 .. MaxFaults
  BY DEF PxRecv, Fault, TypeOK, LibTypeOK
<1>1. h \in Handles => cookie[h] = Proxy /\ st[h] # "free"
  BY DEF ConnectionsAgree, Chans
<1>2. \/ pc' = "px_close" /\ UNCHANGED <<rx, pxMsg, pxLen>>
      \/ /\ h \in Handles /\ rx[h] # <<>> /\ rx' = [rx EXCEPT ![h] = Tail(@)]
         /\ \/ pc' = "px_close" /\ UNCHANGED <<pxMsg, pxLen>>
            \/ /\ pc' = "px_send" /\ pxMsg' = <<Head(rx[h])>>
               /\ pxLen' \in ResponseLens(Head(rx[h]).body)
  BY DEF PxRecv
<1> HIDE DEF h
<1>3. CASE pc' = "px_close" /\ UNCHANGED <<rx, pxMsg, pxLen>>
  <2>1. TypeOK'
    BY <1>0, <1>b, <1>3 DEF TypeOK, SecTypeOK, LibTypeOK
  <2>2. ControlInv' /\ ProxyInv'
    BY <1>0, <1>3 DEF ControlInv, ProxyInv, Waiting, Serving
  <2>3. SecureInv' /\ ReadyInv'
    BY <1>0, <1>3 DEF SecureInv, ReadyInv, Shadowed, Waiting, Serving
  <2>4. ConnectionsAgree' /\ WaitedRecvHasMessage'
    BY <1>0, <1>3 DEF ConnectionsAgree, WaitedRecvHasMessage, Shadowed
  <2>5. AnswerInv' /\ AnswerMatches' /\ StorageFlow'
    BY <1>0, <1>3 DEF AnswerInv, OnlyRequest, AnswerMatches, StorageFlow, ProxyOpen
  <2>6. LeftInv' /\ ProxyAlone'
    BY <1>0, <1>3 DEF LeftInv, ProxyAlone, ProxyOpen
  <2> QED
    BY <2>1, <2>2, <2>3, <2>4, <2>5, <2>6
<1>4. CASE /\ h \in Handles /\ rx[h] # <<>> /\ rx' = [rx EXCEPT ![h] = Tail(@)]
           /\ \/ pc' = "px_close" /\ UNCHANGED <<pxMsg, pxLen>>
              \/ /\ pc' = "px_send" /\ pxMsg' = <<Head(rx[h])>>
                 /\ pxLen' \in ResponseLens(Head(rx[h]).body)
  <2>0. rx[h] \in Seq(Msgs) /\ Head(rx[h]) \in Msgs /\ rx'[h] = Tail(rx[h])
    BY <1>4, MsgSeqs DEF TypeOK, SecTypeOK
  <2>a. rx[h] \in Seq(StorageMsgs) /\ Tail(rx[h]) \in Seq(StorageMsgs) /\ Head(rx[h]) \in StorageMsgs
    BY <1>1, <1>4 DEF SecureInv
  <2>1. TypeOK'
    <3>1. Head(rx[h]).body \in StorageReqs
      BY <2>a DEF StorageMsgs
    <3>2. ResponseLens(Head(rx[h]).body) \subseteq Nat
      BY <3>1, StorageReqsAssumption DEF ResponseLens, StorageReqType, StorageMsgSize
    <3>3. rx' \in [Handles -> Seq(Msgs)]
      BY <1>4, <2>0, MsgSeqs DEF TypeOK, SecTypeOK
    <3>4. pxMsg' \in Seq(Msgs) /\ pxLen' \in Nat
      BY <1>4, <2>0, <3>2, MsgSeqs DEF TypeOK, LibTypeOK
    <3> QED
      BY <1>0, <1>b, <1>4, <3>3, <3>4 DEF TypeOK, SecTypeOK, LibTypeOK
  <2>2. ControlInv' /\ ProxyInv'
    <3>1. Len(pxMsg') = IF pc' = "px_send" THEN 1 ELSE 0
      BY <1>0, <1>4, <2>0, MsgSeqs
    <3> QED
      BY <1>0, <1>4, <3>1 DEF ControlInv, ProxyInv, Waiting, Serving
  <2>3. SecureInv' /\ ReadyInv'
    BY <1>0, <1>1, <1>4, <2>a DEF SecureInv, ReadyInv, Shadowed, Waiting, Serving, TypeOK, SecTypeOK
  <2>4. ConnectionsAgree' /\ WaitedRecvHasMessage'
    BY <1>0, <1>4 DEF ConnectionsAgree, WaitedRecvHasMessage, Shadowed, TypeOK, SecTypeOK
  <2>5. AnswerInv' /\ AnswerMatches'
    <3>1. \A g \in Handles : cookie[g] \in Clients => rx'[g] = rx[g]
      BY <1>1, <1>4 DEF TypeOK, SecTypeOK
    <3> QED
      BY <1>0, <1>4, <3>1 DEF AnswerInv, OnlyRequest, AnswerMatches
  <2>6. StorageFlow'
    <3> SUFFICES ASSUME NEW q \in Handles, ProxyOpen(q)'
                 PROVE  StorageFlow!(q)'
      BY DEF StorageFlow
    <3>1. q = h /\ ProxyOpen(h)
      BY <1>0, <1>1, <1>4, ProxyUnique DEF ProxyOpen
    <3>2. tx[h] = <<>> /\ Len(rx[h]) = 1 /\ Head(rx[h]).id = sop
      <4>1. /\ Len(rx[h]) + Len(tx[h]) + Len(pxMsg) <= 1 /\ Head(rx[h]).id = sop
            /\ tx[h] \in Seq(Msgs)
        BY <1>4, <3>1 DEF StorageFlow, TypeOK, SecTypeOK
      <4>2. Len(rx[h]) \in Nat \ {0} /\ Len(tx[h]) \in Nat /\ Len(pxMsg) = 0
        BY <1>0, <1>4, <2>0, <4>1, MsgSeqs
      <4>3. \A i, j \in Nat : i # 0 /\ i + j + 0 <= 1 => i = 1 /\ j = 0
        OBVIOUS
      <4>4. Len(rx[h]) = 1 /\ Len(tx[h]) = 0
        BY <4>1, <4>2, <4>3
      <4> QED
        BY <4>1, <4>4, MsgSeqs
    <3>3. Tail(rx[h]) = <<>>
      <4>1. Tail(rx[h]) \in Seq(Msgs) /\ Len(Tail(rx[h])) = 0
        BY <1>4, <2>0, <3>2, MsgSeqs
      <4> QED
        BY <4>1, MsgSeqs
    <3>4. pxMsg' = <<>> \/ pxMsg' = <<Head(rx[h])>>
      BY <1>0, <1>4
    <3>5. rx'[q] = <<>> /\ tx'[q] = <<>> /\ sop' = sop
      BY <1>0, <2>0, <3>1, <3>2, <3>3
    <3>6. pxMsg' # <<>> => Len(pxMsg') = 1 /\ Head(pxMsg').id = sop
      BY <2>0, <3>2, <3>4, MsgSeqs
    <3>7. Len(rx'[q]) + Len(tx'[q]) + Len(pxMsg') <= 1
      <4>1. Len(rx'[q]) = 0 /\ Len(tx'[q]) = 0
        BY <3>5, MsgSeqs
      <4>2. Len(pxMsg') \in {0, 1}
        BY <3>6, MsgSeqs
      <4>3. \A n \in {0, 1} : 0 + 0 + n <= 1
        OBVIOUS
      <4> QED
        BY <4>1, <4>2, <4>3
    <3>8. pc' # "px_close" => pxMsg' # <<>>
      BY <1>4
    <3> QED
      BY <3>5, <3>6, <3>7, <3>8
  <2>7. LeftInv' /\ ProxyAlone'
    BY <1>0 DEF LeftInv, ProxyAlone, ProxyOpen
  <2> QED
    BY <2>1, <2>2, <2>3, <2>4, <2>5, <2>6, <2>7
<1> QED
  BY <1>2, <1>3, <1>4

\* The proxy that responds, or fails to, keeps the invariant.
LEMMA PxSendKeeps ==
  ASSUME TipcInv, PxSend
  PROVE  TipcInv'
<1> USE ConstantsAssumption, TipcAssumption DEF TipcInv
<1> DEFINE h == handle[Proxy]
           m == Head(pxMsg)
<1>0. /\ pc = "px_send" /\ Len(pxMsg) = 1 /\ m \in Msgs /\ pxMsg # <<>> /\ pxMsg' = <<>> /\ pxLen' = 0
      /\ UNCHANGED <<st, cookie, edge, rx, work, phase, sop, nextId,
                     handle, complete, cur, last, left>>
  <2>1. pc = "px_send" /\ Len(pxMsg) = 1 /\ pxMsg \in Seq(Msgs)
    BY DEF PxSend, ProxyInv, TypeOK, LibTypeOK
  <2>2. pxMsg # <<>>
    BY <2>1, MsgSeqs
  <2>3. m \in Msgs
    BY <2>1, <2>2, MsgSeqs
  <2> QED
    BY <2>1, <2>2, <2>3 DEF PxSend
<1>1. \/ /\ h \in Handles /\ st[h] = "open" /\ tx' = [tx EXCEPT ![h] = Append(@, m)]
         /\ UNCHANGED <<ops, abandoned>> /\ inited' \in [Chans -> BOOLEAN]
         /\ \/ pc' \in {"poll", "has_event"} /\ UNCHANGED <<kind, req>>
            \/ kind = "drain" /\ pc' = "user" /\ kind' = "none" /\ req' = <<>>
      \/ pc' = "px_close" /\ UNCHANGED <<tx, kind, req, ops, inited, abandoned>>
  <2>1. handle[Proxy] \in Handles \cup {NoHandle}
    BY DEF TypeOK, LibTypeOK, Chans
  <2> QED
    BY <1>0, <2>1, QuietPoll DEF PxSend, CanSend
<1>2. h \in Handles => cookie[h] = Proxy
  BY DEF ConnectionsAgree, Chans
<1>a. faults' \in 0 .. MaxFaults
  <2>1. faults' = faults \/ (faults < MaxFaults /\ faults' = faults + 1)
    BY Zenon DEF PxSend, Fault
  <2> QED
    BY <2>1 DEF TypeOK, LibTypeOK
<1>3. ops[Proxy] = "proxy"
  BY <1>0 DEF ProxyInv, Serving
<1> HIDE DEF h, m
<1>4. TypeOK'
  <2>1. tx' \in [Handles -> Seq(Msgs)]
    <3>1. tx \in [Handles -> Seq(Msgs)] /\ (h \in Handles => Append(tx[h], m) \in Seq(Msgs))
      BY <1>0, MsgSeqs DEF TypeOK, SecTypeOK
    <3> QED
      BY <1>1, <3>1
  <2>2. SecTypeOK'
    BY <1>0, <2>1 DEF TypeOK, SecTypeOK
  <2>3. LibTypeOK'
    BY <1>0, <1>1, <1>a, MsgSeqs DEF TypeOK, LibTypeOK
  <2> QED
    BY <2>2, <2>3 DEF TypeOK
<1>5. ControlInv' /\ ProxyInv'
  BY <1>0, <1>1, <1>3, MsgSeqs DEF ControlInv, ProxyInv, Waiting, Serving
<1>6. SecureInv' /\ ReadyInv'
  <2>1. SecureInv'
    BY <1>0, <1>1 DEF SecureInv, TypeOK, SecTypeOK
  <2>2. ReadyInv'
    BY <1>0, <1>1 DEF ReadyInv, Shadowed, Waiting, Serving
  <2> QED
    BY <2>1, <2>2
<1>7. ConnectionsAgree' /\ WaitedRecvHasMessage'
  BY <1>0, <1>1 DEF ConnectionsAgree, WaitedRecvHasMessage, Shadowed
<1>8. AnswerInv' /\ AnswerMatches'
  <2>1. \A g \in Handles : cookie[g] \in Clients => tx'[g] = tx[g]
    BY <1>1, <1>2 DEF TypeOK, SecTypeOK
  <2>2. CASE kind' = kind /\ req' = req
    BY <1>0, <1>1, <2>1, <2>2 DEF AnswerInv, OnlyRequest, AnswerMatches
  <2>3. CASE kind = "drain"
    <3>1. \A g \in Handles : g \notin left' /\ cookie'[g] \in Clients /\ ~abandoned'[cookie'[g]] =>
             tx'[g] = <<>> /\ work'[g] = <<>> /\ rx'[g] = <<>>
      BY <1>0, <1>1, <2>1, <2>3 DEF AnswerInv, OnlyRequest
    <3> QED
      BY <1>0, <3>1, AnswerEmpty DEF AnswerMatches
  <2> QED
    BY <1>1, <2>2, <2>3
<1>9. StorageFlow'
  <2> SUFFICES ASSUME NEW q \in Handles, ProxyOpen(q)'
               PROVE  StorageFlow!(q)'
    BY DEF StorageFlow
  <2>1. ProxyOpen(q) /\ rx'[q] = rx[q] /\ sop' = sop
    BY <1>0 DEF ProxyOpen
  <2>2. rx[q] = <<>> /\ tx[q] = <<>> /\ m.id = sop
    <3>1. Len(rx[q]) + Len(tx[q]) + Len(pxMsg) <= 1 /\ m.id = sop
      BY <1>0, <2>1 DEF StorageFlow, m
    <3>2. rx[q] \in Seq(Msgs) /\ tx[q] \in Seq(Msgs)
      BY DEF TypeOK, SecTypeOK
    <3>3. Len(rx[q]) \in Nat /\ Len(tx[q]) \in Nat
      BY <3>2, MsgSeqs
    <3>4. \A i, j \in Nat : i + j + 1 <= 1 => i = 0 /\ j = 0
      OBVIOUS
    <3>5. Len(rx[q]) = 0 /\ Len(tx[q]) = 0
      BY <1>0, <3>1, <3>3, <3>4
    <3> QED
      BY <3>1, <3>2, <3>5, MsgSeqs
  <2>3. tx'[q] = <<>> \/ tx'[q] = Append(<<>>, m)
    BY <1>1, <2>2 DEF TypeOK, SecTypeOK
  <2>4. Len(tx'[q]) <= 1 /\ (tx'[q] # <<>> => Head(tx'[q]).id = sop)
    <3>1. CASE tx'[q] = <<>>
      BY <3>1, MsgSeqs
    <3>2. CASE tx'[q] = Append(<<>>, m)
      <4>1. Len(Append(<<>>, m)) = 1 /\ Head(Append(<<>>, m)) = m
        BY <1>0, MsgSeqs
      <4> QED
        BY <2>2, <3>2, <4>1
    <3> QED
      BY <2>3, <3>1, <3>2
  <2>5. Len(tx'[q]) \in Nat
    BY <1>0, <2>3, MsgSeqs
  <2>6. pc' # "px_close" => tx'[q] # <<>>
    <3> SUFFICES ASSUME pc' # "px_close" PROVE tx'[q] # <<>>
      OBVIOUS
    <3>1. h \in Handles /\ st[h] = "open" /\ tx' = [tx EXCEPT ![h] = Append(@, m)]
      BY <1>1
    <3>2. q = h
      BY <1>2, <2>1, <3>1, ProxyUnique DEF ProxyOpen
    <3>3. tx'[q] = Append(<<>>, m)
      BY <2>2, <3>1, <3>2 DEF TypeOK, SecTypeOK
    <3> QED
      BY <1>0, <3>3, MsgSeqs
  <2> QED
    BY <1>0, <2>1, <2>2, <2>4, <2>5, <2>6, MsgSeqs
<1>10. LeftInv' /\ ProxyAlone'
  BY <1>0, <1>1 DEF LeftInv, ProxyAlone, ProxyOpen
<1> QED
  BY <1>4, <1>5, <1>6, <1>7, <1>8, <1>9, <1>10

\* The invariant is inductive: one case for each action.
LEMMA TipcNext == ASSUME TipcInv, [Next]_vars PROVE TipcInv'
<1>1. CASE SecureStep
  BY <1>1, AcceptKeeps, HupKeeps, SvcTakeKeeps, SvcReplyKeeps, StorageDoneKeeps,
     SvcStorageKeeps, StorageSelfKeeps DEF SecureStep, SecNext
<1>2. CASE LibraryStep
  BY <1>2, SyncEventKeeps, ProxyMsgEventKeeps, ProxyHupEventKeeps, PollNoneKeeps,
     PollFailsKeeps, HasEventKeeps, CallersCloseKeeps, CallEndsKeeps, RecvKeeps,
     RequestKeeps, PxRecvKeeps, PxSendKeeps, PxCloseKeeps DEF LibraryStep
<1>3. CASE UserStep
  <2>1. CASE ProxyInit
    BY <2>1, ConnectKeeps, ConnectFailsKeeps DEF ProxyInit, Chans
  <2>2. ASSUME NEW c \in Clients, ClientInit(c) PROVE TipcInv'
    <3>1. c \in Chans /\ c # Proxy
      BY ConstantsAssumption DEF Chans
    <3> QED
      BY <2>2, <3>1, ConnectKeeps, ConnectFailsKeeps DEF ClientInit
  <2> QED
    BY <1>3, <2>1, <2>2, CallersCloseKeeps, RequestKeeps DEF UserStep
<1>4. CASE UNCHANGED vars
  <2> USE <1>4 DEF TipcInv, vars, secVars, libVars
  <2>1. TypeOK'
    BY DEF TypeOK, SecTypeOK, LibTypeOK
  <2>2. ControlInv' /\ ProxyInv'
    BY DEF ControlInv, ProxyInv
  <2>3. SecureInv' /\ ReadyInv'
    BY DEF SecureInv, ReadyInv, Shadowed
  <2>4. ConnectionsAgree' /\ WaitedRecvHasMessage'
    BY DEF ConnectionsAgree, WaitedRecvHasMessage, Shadowed
  <2>5. AnswerInv' /\ AnswerMatches'
    BY DEF AnswerInv, OnlyRequest, AnswerMatches
  <2>6. StorageFlow' /\ LeftInv' /\ ProxyAlone'
    BY DEF StorageFlow, LeftInv, ProxyAlone, ProxyOpen
  <2> QED
    BY <2>1, <2>2, <2>3, <2>4, <2>5, <2>6
<1> QED
  BY <1>1, <1>2, <1>3, <1>4 DEF Next

\* StorageFlow says of each queue what StorageExact says of them together.
LEMMA FlowExact == TypeOK /\ StorageFlow => StorageExact
<1> SUFFICES ASSUME TypeOK, StorageFlow, NEW p \in Handles, ProxyOpen(p)
             PROVE  StorageExact!(p)
  BY DEF StorageExact
<1>1. rx[p] \in Seq(Msgs) /\ tx[p] \in Seq(Msgs) /\ pxMsg \in Seq(Msgs)
  BY DEF TypeOK, SecTypeOK, LibTypeOK
<1>2. /\ Len(rx[p]) \in Nat /\ Len(tx[p]) \in Nat /\ Len(pxMsg) \in Nat
      /\ Len(rx[p]) + Len(tx[p]) + Len(pxMsg) <= 1
      /\ rx[p] # <<>> => Head(rx[p]).id = sop
      /\ tx[p] # <<>> => Head(tx[p]).id = sop
      /\ pxMsg # <<>> => Head(pxMsg).id = sop
  <2>1. Len(rx[p]) \in Nat /\ Len(tx[p]) \in Nat /\ Len(pxMsg) \in Nat
    BY <1>1, MsgSeqs
  <2> QED
    BY <2>1 DEF StorageFlow
<1>a. \A i, j, k \in Nat : i + j + k <= 1 =>
         /\ i # 0 => i = 1 /\ j = 0 /\ k = 0
         /\ j # 0 => j = 1 /\ i = 0 /\ k = 0
         /\ k # 0 => k = 1 /\ i = 0 /\ j = 0
  OBVIOUS
<1>b. \A s \in Seq(Msgs) : s # <<>> <=> Len(s) # 0
  BY MsgSeqs
<1>3. CASE rx[p] = <<>> /\ pxMsg = <<>> /\ tx[p] = <<>>
  <2>1. Held(p) = <<>>
    BY <1>3 DEF Held
  <2>2. ~(sop # 0 /\ pc # "px_close" /\ p \notin left)
    BY <1>3 DEF StorageFlow
  <2>3. Len(<<>>) = 0 /\ DOMAIN <<>> = {}
    OBVIOUS
  <2> QED
    BY ONLY <2>1, <2>2, <2>3, SMT
<1>4. ASSUME NEW s \in Seq(Msgs), Len(s) = 1, Head(s).id = sop, Held(p) = s
      PROVE  StorageExact!(p)
  <2>1. DOMAIN s = {1} /\ s[1].id = sop /\ s # <<>>
    BY <1>4
  <2> QED
    BY ONLY <1>4, <2>1, SMT
<1>5. CASE rx[p] # <<>>
  <2>a. Len(rx[p]) = 1 /\ Len(tx[p]) = 0 /\ Len(pxMsg) = 0
    BY <1>1, <1>2, <1>a, <1>b, <1>5
  <2>1. pxMsg = <<>> /\ tx[p] = <<>> /\ Len(rx[p]) = 1 /\ Head(rx[p]).id = sop
    BY <1>1, <1>2, <1>b, <1>5, <2>a
  <2>2. Held(p) = rx[p]
    BY <1>1, <2>1 DEF Held
  <2> QED
    BY <1>1, <1>4, <2>1, <2>2
<1>6. CASE pxMsg # <<>>
  <2>a. Len(pxMsg) = 1 /\ Len(rx[p]) = 0 /\ Len(tx[p]) = 0
    BY <1>1, <1>2, <1>a, <1>b, <1>6
  <2>1. rx[p] = <<>> /\ tx[p] = <<>> /\ Len(pxMsg) = 1 /\ Head(pxMsg).id = sop
    BY <1>1, <1>2, <1>b, <1>6, <2>a
  <2>2. Held(p) = pxMsg
    BY <1>1, <2>1 DEF Held
  <2> QED
    BY <1>1, <1>4, <2>1, <2>2
<1>7. CASE tx[p] # <<>>
  <2>a. Len(tx[p]) = 1 /\ Len(rx[p]) = 0 /\ Len(pxMsg) = 0
    BY <1>1, <1>2, <1>a, <1>b, <1>7
  <2>1. rx[p] = <<>> /\ pxMsg = <<>> /\ Len(tx[p]) = 1 /\ Head(tx[p]).id = sop
    BY <1>1, <1>2, <1>b, <1>7, <2>a
  <2>2. Held(p) = tx[p]
    BY <1>1, <2>1 DEF Held
  <2> QED
    BY <1>1, <1>4, <2>1, <2>2
<1> QED
  BY <1>3, <1>5, <1>6, <1>7

\* The invariant holds in every reachable state, whatever commands fail and
\* however often clients are initialized and shut down.
THEOREM TipcInvariant == Spec => []TipcInv
<1>1. Init => TipcInv
  BY TipcInit
<1>2. TipcInv /\ [Next]_vars => TipcInv'
  BY TipcNext
<1> QED
  BY <1>1, <1>2, PTL DEF Spec

\* Every variable of the library and of the connections stays in its type.
THEOREM TipcTypeCorrect == Spec => []TypeOK
<1>1. TipcInv => TypeOK
  BY DEF TipcInv
<1> QED
  BY <1>1, TipcInvariant, PTL

\* chan->handle and the secure OS's table of connections agree, except for the
\* connections whose DISCONNECT failed or whose channel was initialized again
\* (trusty_ipc_close and trusty_ipc_chan_init forget those), and the proxy's
\* after its peer hung up; also when a CONNECT, DISCONNECT, SEND, RECV,
\* GET_EVENT or HAS_EVENT fails, for any number of channels and handles.
THEOREM TipcConnections == Spec => []ConnectionsAgree
<1>1. TipcInv => ConnectionsAgree
  BY DEF TipcInv
<1> QED
  BY <1>1, TipcInvariant, PTL

\* The wait of trusty_ipc_recv ends with a message to read, on a channel none
\* of whose connections was left.
THEOREM TipcWaits == Spec => []WaitedRecvHasMessage
<1>1. TipcInv => WaitedRecvHasMessage
  BY DEF TipcInv
<1> QED
  BY <1>1, TipcInvariant, PTL

\* A call that succeeds returns the answer to its own request, unless an earlier
\* call on the same connection failed without having read a message: its poll or
\* its RECV failed (trusty_ipc_recv), or its wait ended without a message.
THEOREM TipcAnswers == Spec => []AnswerMatches
<1>1. TipcInv => AnswerMatches
  BY DEF TipcInv
<1> QED
  BY <1>1, TipcInvariant, PTL

\* On the proxy's open connection there is exactly the outstanding storage
\* request, or its response: none lost, repeated or late, with any mix of valid
\* and malformed requests and failing commands, whatever call serves it.  The
\* exceptions: proxy_on_message is about to close, or its DISCONNECT failed.
THEOREM TipcStorage == Spec => []StorageExact
<1>1. TipcInv => StorageExact
  BY FlowExact DEF TipcInv
<1> QED
  BY <1>1, TipcInvariant, PTL

=============================================================================
