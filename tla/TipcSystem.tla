----------------------------- MODULE TipcSystem -----------------------------
(***************************************************************************)
(* The tipc library with its clients and the RPMB proxy, talking to the    *)
(* secure OS: the composition, its fairness and its properties.            *)
(***************************************************************************)
EXTENDS RpmbProxy, TipcClient

Init == SecInit /\ LibInit

\* The secure side runs on its own.
SecureStep == SecNext /\ UNCHANGED libVars

\* A library call that is running takes its next step.
LibraryStep ==
    \/ \E h \in Handles : SyncEvent(h) \/ ProxyMsgEvent(h) \/ ProxyHupEvent(h)
    \/ PollNone \/ PollFails \/ HasEvent \/ Wake
    \/ ConnClose \/ SendErr \/ Recv \/ SendVersion \/ VersionFails
    \/ PxRecv \/ PxSend \/ PxClose

\* The boot loader calls into the library, in any order that the calls allow;
\* the callers in this repository keep to an order of their own (libtipc.c,
\* test-runner.c).
UserStep ==
    \/ ProxyInit \/ ProxyShutdown
    \/ \E c \in Clients : ClientInit(c) \/ ClientShutdown(c)
    \/ \E c \in Clients, cmd \in Cmds : Call(c, cmd)

Next == SecureStep \/ LibraryStep \/ UserStep

Spec == Init /\ [][Next]_vars

(***************************************************************************)
(* Fairness.  The library runs: every step but an injected failure and the *)
(* wake-up is taken.  An idle CPU wakes when the secure side has an event  *)
(* (CpuIdle).  GET_EVENT serves every ready connection in turn, so a       *)
(* connection with a lasting event is not passed over for ever.  Services  *)
(* answer: they accept or refuse, take, use the storage service or not,    *)
(* and reply; the storage service reads the answers it gets.               *)
(***************************************************************************)
LibraryFairness ==
    /\ WF_vars(\/ PollNone \/ HasEvent \/ ConnClose \/ SendErr \/ Recv
               \/ SendVersion \/ VersionFails \/ PxRecv \/ PxSend \/ PxClose)
    /\ WF_vars(Wake /\ SomeEvent)
    /\ \A h \in Handles : SF_vars(SyncEvent(h) \/ ProxyMsgEvent(h) \/ ProxyHupEvent(h))

SecureFairness ==
    \A h \in Handles :
        /\ WF_vars(Accept(h) /\ UNCHANGED libVars)
        /\ WF_vars(SvcTake(h) /\ UNCHANGED libVars)
        /\ WF_vars(SvcReply(h) /\ UNCHANGED libVars)
        /\ WF_vars(StorageDone(h) /\ UNCHANGED libVars)

FairSpec == Spec /\ LibraryFairness /\ SecureFairness

(***************************************************************************)
(* Properties.                                                             *)
(***************************************************************************)

\* Every variable stays in its type.
TypeOK == SecTypeOK /\ LibTypeOK

\* A channel's handle and the secure OS's table agree: a valid chan->handle
\* names a live connection made for this channel, and a live connection is
\* still named by its channel: trusty_ipc_connect, proxy_on_message and the
\* shutdowns close what they give up, whatever failed before.  A connection is
\* left without a name in three cases only: its DISCONNECT failed, its channel
\* was initialized again (trusty_ipc_close and trusty_ipc_chan_init forget the
\* handle), or the proxy's peer hung up and no request is left to read on it.
ConnectionsAgree ==
    /\ \A c \in Chans : handle[c] # NoHandle =>
          st[handle[c]] # "free" /\ cookie[handle[c]] = c /\ handle[c] \notin left
    /\ \A h \in Handles \ left : st[h] # "free" =>
          \/ handle[cookie[h]] = h
          \/ /\ cookie[h] = Proxy /\ handle[Proxy] = NoHandle
             /\ st[h] = "hup" /\ rx[h] = <<>>

\* A connection of channel c was left: its events still name c.
Shadowed(c) == \E h \in left : cookie[h] = c

\* trusty_ipc_recv with wait reads only when its message is there: what ends
\* the wait of a request is a message on that channel, never a late READY or
\* SEND_UNBLOCKED of it nor an event of another channel ("@wait: flag to wait
\* for a message to receive"), unless an earlier connection of the same
\* channel was left.
WaitedRecvHasMessage ==
    pc = "recv" /\ ~Shadowed(cur) => handle[cur] \in Handles /\ rx[handle[cur]] # <<>>

\* A call that succeeds returns the answer to its own request, unless an
\* earlier call on the same connection failed without having read a message:
\* its poll or its RECV failed (trusty_ipc_recv).
AnswerMatches == last.clean => last.ans = last.req

\* What there is of the storage request under way on connection p: the request
\* before it is read, while the proxy handles it, and the response.
Held(p) == rx[p] \o pxMsg \o tx[p]

\* While the proxy's connection p is open, what is under way on it is exactly the
\* request the storage service waits for, or the response to it, once: none is
\* repeated or late, and none is lost unless proxy_on_message is about to close
\* the connection or its DISCONNECT failed.
StorageExact ==
    \A p \in Handles : ProxyOpen(p) =>
        /\ Len(Held(p)) <= 1
        /\ \A i \in DOMAIN Held(p) : Held(p)[i].id = sop
        /\ sop # 0 /\ pc # "px_close" /\ p \notin left => Held(p) # <<>>

\* Every library call returns: no client waits for ever for a service that
\* waits for the storage service that waits for the proxy, because the wait
\* loop of any call serves the proxy's channel, and a lasting event of one
\* channel does not keep the events of another from being delivered.  Checked
\* without injected failures (MaxFaults = 0): polls and RECV may then fail only
\* where the code refuses, and HAS_EVENT answers truly (see CpuIdle for the
\* sleep that follows when it does not).
CallsReturn == (kind # "none") ~> (kind = "none")

\* A call that succeeds returns the answer to its own request ("send a request
\* to the AVB service and read the response", avb.c), also after a call failed.
AnswerIsForRequest == last.ans = last.req

\* trusty_ipc_recv with wait finds a message ("@wait: flag to wait for a message
\* to receive", trusty_ipc.h), also after an init was repeated.
RecvFindsMessage ==
    pc = "recv" => handle[cur] \in Handles /\ rx[handle[cur]] # <<>>

\* The response to a request proxy_handle_rpmb accepted can be sent ("Executes
\* the RPMB request at @r, sends response to storage service", rpmb_proxy.c).
ResponseFits == pc = "px_send" => pxLen <= MaxPayload
=============================================================================
