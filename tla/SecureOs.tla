------------------------------ MODULE SecureOs ------------------------------
(***************************************************************************)
(* The secure side of the ql-tipc IPC device, as the code in src/ql-tipc   *)
(* uses it (external to the repository): a table of connections that the   *)
(* non-secure library names by handle, an event set per connection, one    *)
(* message queue per direction, the service behind every client            *)
(* connection and the storage service behind the RPMB proxy connection.    *)
(*                                                                         *)
(* A message is [id, body].  The id is a serial number that only the model *)
(* sees: it tells which request a message belongs to.  The body is what    *)
(* the code compares: a client's command, or a storage request.            *)
(***************************************************************************)
EXTENDS Naturals, Sequences, FiniteSets

CONSTANTS
    Clients,      \* client channels: avb_chan, km_chan, hwbcc_chan
    Proxy,        \* proxy_chan, the RPMB storage proxy's channel
    Handles,      \* connection handles of the IPC device
    NoHandle,     \* INVALID_IPC_HANDLE
    Cmds,         \* commands a client sends
    StorageReqs,  \* requests the storage service may send to the proxy
    QueueCap,     \* messages the secure side queues per connection
    MaxReq        \* bound: serial numbers used in a behaviour

Chans == Clients \cup {Proxy}

ASSUME ConstantsAssumption ==
    /\ Proxy \notin Clients
    /\ NoHandle \notin Handles
    /\ QueueCap \in Nat \ {0}
    /\ MaxReq \in Nat

Ids == 1 .. MaxReq
Msgs == [id : Ids, body : Cmds \cup StorageReqs]

VARIABLES
    st,      \* st[h]: state of the connection behind handle h
    cookie,  \* cookie[h]: the channel given to CONNECT, returned in events
    edge,    \* edge[h]: edge-triggered events not yet reported
    rx,      \* rx[h]: messages waiting for the non-secure side
    tx,      \* tx[h]: messages sent by the non-secure side, not yet taken
    work,    \* work[h]: the request the service of h is working on, if any
    phase,   \* phase[h]: has that request used the storage service yet?
    sop,     \* serial number of the outstanding storage request, 0 if none
    nextId   \* next unused serial number

secVars == <<st, cookie, edge, rx, tx, work, phase, sop, nextId>>

SecTypeOK ==
    /\ st \in [Handles -> {"free", "connecting", "open", "hup"}]
    /\ cookie \in [Handles -> Chans]
    /\ edge \in [Handles -> SUBSET {"READY", "SEND_UNBLOCKED"}]
    /\ rx \in [Handles -> Seq(Msgs)]
    /\ tx \in [Handles -> Seq(Msgs)]
    /\ work \in [Handles -> Seq(Msgs)]
    /\ phase \in [Handles -> {"new", "storage", "done"}]
    /\ sop \in 0 .. MaxReq
    /\ nextId \in 1 .. (MaxReq + 1)

SecInit ==
    /\ st = [h \in Handles |-> "free"]
    /\ cookie = [h \in Handles |-> Proxy]
    /\ edge = [h \in Handles |-> {}]
    /\ rx = [h \in Handles |-> <<>>]
    /\ tx = [h \in Handles |-> <<>>]
    /\ work = [h \in Handles |-> <<>>]
    /\ phase = [h \in Handles |-> "new"]
    /\ sop = 0
    /\ nextId = 1

(***************************************************************************)
(* What the commands of the IPC device read and do.                        *)
(***************************************************************************)

\* READY and SEND_UNBLOCKED are reported once, MSG and HUP as long as they hold.
Events(h) ==
    edge[h] \cup {e \in {"MSG"} : rx[h] # <<>>}
            \cup {e \in {"HUP"} : st[h] = "hup"}

SomeEvent == \E h \in Handles : Events(h) # {}

CanSend(h) == h \in Handles /\ st[h] = "open" /\ Len(tx[h]) < QueueCap

\* CONNECT: a free handle is bound to the caller's cookie.
SecConnect(h, c) ==
    /\ st[h] = "free"
    /\ st' = [st EXCEPT ![h] = "connecting"]
    /\ cookie' = [cookie EXCEPT ![h] = c]
    /\ UNCHANGED <<edge, rx, tx, work, phase, sop, nextId>>

\* The connection of h ends.  A storage request is lost with the proxy's
\* connection, and the service that waits for it goes on without.
StorageLost(h) ==
    /\ sop' = IF cookie[h] = Proxy THEN 0 ELSE sop
    /\ phase' = [g \in Handles |->
                    IF g = h THEN "new"
                    ELSE IF cookie[h] = Proxy /\ phase[g] = "storage" THEN "done"
                    ELSE phase[g]]

\* DISCONNECT: everything queued on the connection is dropped (the cookie of a
\* free handle is never read).  An invalid handle is answered with an error.
SecClose(h) ==
    IF h \notin Handles
    THEN UNCHANGED secVars
    ELSE /\ st' = [st EXCEPT ![h] = "free"]
         /\ cookie' = [cookie EXCEPT ![h] = Proxy]
         /\ edge' = [edge EXCEPT ![h] = {}]
         /\ rx' = [rx EXCEPT ![h] = <<>>]
         /\ tx' = [tx EXCEPT ![h] = <<>>]
         /\ work' = [work EXCEPT ![h] = <<>>]
         /\ StorageLost(h)
         /\ UNCHANGED nextId

(***************************************************************************)
(* What the services do on their own.                                      *)
(***************************************************************************)

\* The service accepts the connection.
Accept(h) ==
    /\ st[h] = "connecting"
    /\ st' = [st EXCEPT ![h] = "open"]
    /\ edge' = [edge EXCEPT ![h] = @ \cup {"READY"}]
    /\ UNCHANGED <<cookie, rx, tx, work, phase, sop, nextId>>

\* The service refuses the connection or drops it: requests not yet answered
\* are lost, answers already queued stay readable.
Hup(h) ==
    /\ st[h] \in {"connecting", "open"}
    /\ st' = [st EXCEPT ![h] = "hup"]
    /\ tx' = [tx EXCEPT ![h] = <<>>]
    /\ work' = [work EXCEPT ![h] = <<>>]
    /\ StorageLost(h)
    /\ UNCHANGED <<cookie, edge, rx, nextId>>

\* The service takes the next request; a full queue may report that it drained.
SvcTake(h) ==
    /\ cookie[h] # Proxy /\ st[h] = "open"
    /\ tx[h] # <<>> /\ work[h] = <<>>
    /\ work' = [work EXCEPT ![h] = <<Head(tx[h])>>]
    /\ tx' = [tx EXCEPT ![h] = Tail(@)]
    /\ \E e \in {x \in SUBSET {"SEND_UNBLOCKED"} : x = {} \/ Len(tx[h]) = QueueCap} :
          edge' = [edge EXCEPT ![h] = @ \cup e]
    /\ UNCHANGED <<st, cookie, rx, phase, sop, nextId>>

ProxyOpen(p) == cookie[p] = Proxy /\ st[p] = "open"

\* The service of h needs the storage service, which asks the RPMB proxy.
\* The storage request carries the serial number of the client's request.
SvcStorage(h, p, r) ==
    /\ work[h] # <<>> /\ phase[h] = "new"
    /\ sop = 0 /\ ProxyOpen(p)
    /\ sop' = Head(work[h]).id
    /\ rx' = [rx EXCEPT ![p] = Append(@, [id |-> Head(work[h]).id, body |-> r])]
    /\ phase' = [phase EXCEPT ![h] = "storage"]
    /\ UNCHANGED <<st, cookie, edge, tx, work, nextId>>

\* The storage service reads RPMB for itself, as it does when it mounts.
StorageSelf(p, r) ==
    /\ sop = 0 /\ ProxyOpen(p) /\ nextId \in Ids
    /\ sop' = nextId
    /\ nextId' = nextId + 1
    /\ rx' = [rx EXCEPT ![p] = Append(@, [id |-> nextId, body |-> r])]
    /\ UNCHANGED <<st, cookie, edge, tx, work, phase>>

\* The proxy's response reaches the storage service.
StorageDone(p) ==
    /\ ProxyOpen(p) /\ tx[p] # <<>>
    /\ tx' = [tx EXCEPT ![p] = Tail(@)]
    /\ IF Head(tx[p]).id = sop
       THEN /\ sop' = 0
            /\ phase' = [h \in Handles |-> IF phase[h] = "storage" THEN "done" ELSE phase[h]]
       ELSE UNCHANGED <<sop, phase>>
    /\ UNCHANGED <<st, cookie, edge, rx, work, nextId>>

\* The service answers the request it was working on.
SvcReply(h) ==
    /\ work[h] # <<>> /\ phase[h] # "storage"
    /\ rx' = [rx EXCEPT ![h] = Append(@, Head(work[h]))]
    /\ work' = [work EXCEPT ![h] = <<>>]
    /\ phase' = [phase EXCEPT ![h] = "new"]
    /\ UNCHANGED <<st, cookie, edge, tx, sop, nextId>>

SecNext ==
    \/ \E h \in Handles : Accept(h) \/ Hup(h) \/ SvcTake(h) \/ SvcReply(h) \/ StorageDone(h)
    \/ \E h, p \in Handles, r \in StorageReqs : SvcStorage(h, p, r)
    \/ \E p \in Handles, r \in StorageReqs : StorageSelf(p, r)
=============================================================================
