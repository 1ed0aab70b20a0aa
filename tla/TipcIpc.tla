------------------------------- MODULE TipcIpc -------------------------------
(***************************************************************************)
(* The tipc library: channels, the event dispatcher and the wait loop of   *)
(* src/ql-tipc/ipc.c on top of the IPC device commands of ipc_dev.c.       *)
(*                                                                         *)
(* The library is single-threaded: one call at a time runs, as the steps   *)
(* "pc" names.  Every command to the secure OS is one step; between two of *)
(* them the secure side runs (SecureOs).  Clients always wait (wait = true *)
(* in avb.c, keymaster.c and hwbcc.c); the proxy never does.               *)
(***************************************************************************)
EXTENDS SecureOs, Integers

CONSTANTS
    Versioned,  \* clients whose init asks the service for its version: avb, km
    EarlyInit,  \* clients initialized once connected, and whose init does not
                \* assert that they were not before: km, hwbcc
    MaxLeft,    \* bound: connections left by the time an init leaves one more
    MaxFaults   \* bound: commands the secure OS fails, POLL_ERROR events

ASSUME TipcAssumption ==
    /\ Versioned \subseteq Clients
    /\ EarlyInit \subseteq Clients
    /\ Clients \subseteq Versioned \cup EarlyInit
    /\ MaxLeft \in Nat
    /\ MaxFaults \in Nat

VARIABLES
    handle,    \* chan->handle
    complete,  \* chan->complete
    ops,       \* chan->ops: the sync_ipc_ops or the proxy_ops
    inited,    \* the static bool initialized of each client and of the proxy
    pc,        \* where the running library call is
    kind,      \* which call it is: the wait it is in returns there
    cur,       \* the channel it is for
    req,       \* the request it sent (<<>> when none)
    pxMsg,     \* the storage request in req_msg/req_buf, while it is handled
    pxLen,     \* the length of the response to it
    last,      \* history: the last call answered with success
    abandoned, \* history: a call on this connection failed without having read
               \* a message
    left,      \* history: connections whose DISCONNECT failed, and those whose
               \* channel was initialized again
    faults     \* injected failures so far

libVars == <<handle, complete, ops, inited, pc, kind, cur, req, pxMsg, pxLen,
             last, abandoned, left, faults>>
vars == <<secVars, libVars>>

CHANNEL_CLOSED == -8

LibTypeOK ==
    /\ handle \in [Chans -> Handles \cup {NoHandle}]
    /\ complete \in [Chans -> {0, 1, CHANNEL_CLOSED}]
    /\ ops \in [Chans -> {"sync", "proxy"}]
    /\ inited \in [Chans -> BOOLEAN]
    /\ pc \in {"user", "poll", "has_event", "wfi", "recv", "conn_close",
               "version", "send_err", "px_recv", "px_send", "px_close"}
    /\ kind \in {"none", "connect", "version", "call", "drain"}
    /\ cur \in Chans
    /\ req \in Seq(Msgs)
    /\ pxMsg \in Seq(Msgs)
    /\ pxLen \in Nat
    /\ last \in [req : 0 .. MaxReq, ans : 0 .. MaxReq, clean : BOOLEAN]
    /\ abandoned \in [Chans -> BOOLEAN]
    /\ left \in SUBSET Handles
    /\ faults \in 0 .. MaxFaults

LibInit ==
    /\ handle = [c \in Chans |-> NoHandle]
    /\ complete = [c \in Chans |-> 0]
    /\ ops = [c \in Chans |-> "sync"]
    /\ inited = [c \in Chans |-> FALSE]
    /\ pc = "user" /\ kind = "none" /\ cur = Proxy
    /\ req = <<>> /\ pxMsg = <<>> /\ pxLen = 0
    /\ last = [req |-> 0, ans |-> 0, clean |-> TRUE]
    /\ abandoned = [c \in Chans |-> FALSE]
    /\ left = {}
    /\ faults = 0

(***************************************************************************)
(* Control flow shared by the calls.                                       *)
(***************************************************************************)

\* The secure OS fails a command, which then had no effect there.
Fault == faults < MaxFaults /\ faults' = faults + 1

\* The call fails: its answer, if it sent a request, is not read.
Abandon == abandoned' = [abandoned EXCEPT ![cur] = TRUE]

\* The library call is over.
Return ==
    /\ pc' = "user" /\ kind' = "none" /\ req' = <<>>

\* wait_for_complete enters its loop.
StartWait(k) == pc' = "poll" /\ kind' = k

\* The poll failed (rc < 0): wait_for_complete and the proxy's drain loop
\* return it.  A connect then closes its channel; a request is abandoned.
PollError ==
    /\ IF kind = "connect"
       THEN pc' = "conn_close" /\ UNCHANGED <<kind, req, abandoned>>
       ELSE /\ Return
            /\ IF kind = "drain" THEN UNCHANGED abandoned ELSE Abandon
    /\ UNCHANGED <<ops, inited>>

\* trusty_ipc_connect returns success to the client's init or the proxy's init.
ConnectDone ==
    /\ inited' = [inited EXCEPT ![cur] = @ \/ cur \in EarlyInit]
    /\ ops' = [ops EXCEPT ![cur] = IF cur = Proxy THEN "proxy" ELSE @]
    /\ \/ cur = Proxy /\ StartWait("drain") /\ UNCHANGED req
       \/ cur \in Versioned /\ pc' = "version" /\ UNCHANGED <<kind, req>>
       \/ cur \notin Versioned \cup {Proxy} /\ Return
    /\ UNCHANGED abandoned

\* The wait ends because chan->complete is set, to done.
WaitDone(done) ==
    \/ kind = "connect" /\ done > 0 /\ ConnectDone
    \/ /\ kind = "connect" /\ done < 0
       /\ pc' = "conn_close" /\ UNCHANGED <<kind, req, ops, inited, abandoned>>
    \/ /\ kind # "connect" /\ done > 0
       /\ pc' = "recv" /\ UNCHANGED <<kind, req, ops, inited, abandoned>>
    \/ /\ kind # "connect" /\ done < 0
       /\ Return /\ Abandon /\ UNCHANGED <<ops, inited>>

\* One turn of the proxy's drain loop, after a poll that did not fail.
DrainStep(none, ph) ==
    /\ \/ ph = NoHandle /\ Return /\ UNCHANGED inited
       \/ /\ ph # NoHandle /\ none
          /\ Return /\ inited' = [inited EXCEPT ![Proxy] = TRUE]
       \/ ph # NoHandle /\ ~none /\ pc' = "poll" /\ UNCHANGED <<kind, req, inited>>
    /\ UNCHANGED <<ops, abandoned>>

\* What follows a poll that did not fail.  none: TRUSTY_EVENT_NONE was
\* returned; done, ph: cur's complete and the proxy's handle after the poll.
AfterPoll(none, done, ph) ==
    \/ kind = "drain" /\ DrainStep(none, ph)
    \/ kind # "drain" /\ done # 0 /\ WaitDone(done)
    \/ /\ kind # "drain" /\ done = 0
       /\ pc' = IF none THEN "has_event" ELSE "poll"
       /\ UNCHANGED <<kind, req, ops, inited, abandoned>>

(***************************************************************************)
(* The poll: trusty_ipc_poll_for_event with the sync_ipc_ops.              *)
(***************************************************************************)

\* GET_EVENT reports the events of a ready connection, edges only once.
GetEvent(h) ==
    /\ pc = "poll" /\ Events(h) # {}
    /\ edge' = [edge EXCEPT ![h] = {}]
    /\ UNCHANGED <<st, cookie, rx, tx, work, phase, sop, nextId>>

\* Mutant of SyncComplete: sync_ipc_on_disconnect stores another error.
SyncCompleteGeneric(c, evts) ==
    IF "READY" \in evts \/ "MSG" \in evts THEN 1
    ELSE IF "HUP" \in evts THEN -1
    ELSE complete[c]

\* The value the first sync callback that handles the events stores.
SyncComplete(c, evts) ==
    IF "READY" \in evts \/ "MSG" \in evts THEN 1
    ELSE IF "HUP" \in evts THEN CHANNEL_CLOSED
    ELSE complete[c]

\* The events go to the channel of the cookie; the sync ops have no
\* on_send_unblocked, so SEND_UNBLOCKED alone is not handled.
SyncEvent(h) ==
    LET c == cookie[h]
        done == [complete EXCEPT ![c] = SyncComplete(c, Events(h))]
    IN  /\ ops[c] = "sync"
        /\ GetEvent(h)
        /\ complete' = done
        /\ AfterPoll(FALSE, done[cur], handle[Proxy])
        /\ UNCHANGED <<handle, cur, pxMsg, pxLen, last, left, faults>>

\* GET_EVENT reports nothing.
PollNone ==
    /\ pc = "poll" /\ ~SomeEvent
    /\ AfterPoll(TRUE, complete[cur], handle[Proxy])
    /\ UNCHANGED <<secVars, handle, complete, cur, pxMsg, pxLen, last, left, faults>>

\* GET_EVENT fails, or it reports POLL_ERROR: the poll fails.
PollFails ==
    /\ pc = "poll" /\ Fault
    /\ PollError
    /\ UNCHANGED <<secVars, handle, complete, cur, pxMsg, pxLen, last, left>>

(***************************************************************************)
(* The rest of the wait loop.                                              *)
(***************************************************************************)

\* trusty_ipc_dev_has_event, after a poll that found nothing.  It answers false
\* when the command fails: the CPU idles then, whatever is pending.
HasEvent ==
    /\ pc = "has_event"
    /\ \/ pc' = (IF SomeEvent THEN "poll" ELSE "wfi") /\ UNCHANGED faults
       \/ pc' = "wfi" /\ Fault
    /\ UNCHANGED <<secVars, handle, complete, ops, inited, kind, cur, req,
                   pxMsg, pxLen, last, abandoned, left>>

\* trusty_ipc_dev_idle returns (any interrupt ends it; see CpuIdle).
Wake ==
    /\ pc = "wfi"
    /\ pc' = "poll"
    /\ UNCHANGED <<secVars, handle, complete, ops, inited, kind, cur, req,
                   pxMsg, pxLen, last, abandoned, left, faults>>

(***************************************************************************)
(* Calls a client or the proxy makes.                                      *)
(***************************************************************************)

\* avb and the proxy assert that they are not initialized, km and hwbcc do not.
MayInit(c) ==
    /\ pc = "user"
    /\ inited[c] => c \in EarlyInit
    /\ handle[c] # NoHandle => Cardinality(left) < MaxLeft

\* trusty_ipc_chan_init forgets the handle of an earlier connection.
ChanInit(c) ==
    /\ complete' = [complete EXCEPT ![c] = 0]
    /\ ops' = [ops EXCEPT ![c] = "sync"]
    /\ abandoned' = [abandoned EXCEPT ![c] = FALSE]
    /\ left' = left \cup ({handle[c]} \ {NoHandle})
    /\ cur' = c

\* trusty_ipc_chan_init followed by trusty_ipc_connect(wait = true).
Connect(c) ==
    /\ MayInit(c) /\ ChanInit(c)
    /\ \E h \in Handles :
          /\ SecConnect(h, c)
          /\ handle' = [handle EXCEPT ![c] = h]
    /\ StartWait("connect")
    /\ UNCHANGED <<inited, req, pxMsg, pxLen, last, faults>>

\* CONNECT fails: the channel was initialised, the call returns the error.
ConnectFails(c) ==
    /\ MayInit(c) /\ ChanInit(c)
    /\ handle' = [handle EXCEPT ![c] = NoHandle]
    /\ UNCHANGED <<secVars, inited, pc, kind, req, pxMsg, pxLen, last, faults>>

\* Mutant of Close: the handle is forgotten and the connection left.
CloseForgets(c) ==
    /\ UNCHANGED <<secVars, left, faults>>
    /\ handle' = [handle EXCEPT ![c] = NoHandle]

\* trusty_ipc_close: the handle is forgotten also when DISCONNECT fails.
Close(c) ==
    /\ \/ SecClose(handle[c]) /\ UNCHANGED <<left, faults>>
       \/ /\ handle[c] # NoHandle /\ Fault
          /\ left' = left \cup {handle[c]}
          /\ UNCHANGED secVars
    /\ handle' = [handle EXCEPT ![c] = NoHandle]

\* The wait for the connection failed: trusty_ipc_connect closes it.
ConnClose ==
    /\ pc = "conn_close"
    /\ Close(cur)
    /\ Return
    /\ UNCHANGED <<complete, ops, inited, cur, pxMsg, pxLen, last, abandoned>>

\* Mutant of Send: the wait begins without resetting chan->complete.
SendNoReset(c, cmd, k) ==
    /\ nextId \in Ids
    /\ nextId' = nextId + 1
    /\ IF CanSend(handle[c])
       THEN /\ tx' = [tx EXCEPT ![handle[c]] = Append(@, [id |-> nextId, body |-> cmd])]
            /\ req' = <<[id |-> nextId, body |-> cmd]>>
            /\ StartWait(k) /\ UNCHANGED complete
       ELSE pc' = "send_err" /\ kind' = k /\ UNCHANGED <<tx, complete, req>>
    /\ UNCHANGED <<st, cookie, edge, rx, work, phase, sop>>

\* Mutant of Send: a message that was accepted is sent again.
SendTwice(c, cmd, k) ==
    LET m == [id |-> nextId, body |-> cmd]
    IN  /\ nextId \in Ids
        /\ nextId' = nextId + 1
        /\ IF CanSend(handle[c])
           THEN /\ tx' = [tx EXCEPT ![handle[c]] = @ \o <<m, m>>]
                /\ complete' = [complete EXCEPT ![c] = 0]
                /\ req' = <<m>>
                /\ StartWait(k)
           ELSE pc' = "send_err" /\ kind' = k /\ UNCHANGED <<tx, complete, req>>
        /\ UNCHANGED <<st, cookie, edge, rx, work, phase, sop>>

\* trusty_ipc_send and the wait_for_complete of the trusty_ipc_recv after it.
\* No status is mapped to TRUSTY_ERR_SEND_BLOCKED: a refused message is an error.
Send(c, cmd, k) ==
    /\ nextId \in Ids
    /\ nextId' = nextId + 1
    /\ IF CanSend(handle[c])
       THEN /\ tx' = [tx EXCEPT ![handle[c]] = Append(@, [id |-> nextId, body |-> cmd])]
            /\ complete' = [complete EXCEPT ![c] = 0]
            /\ req' = <<[id |-> nextId, body |-> cmd]>>
            /\ StartWait(k)
       ELSE pc' = "send_err" /\ kind' = k /\ UNCHANGED <<tx, complete, req>>
    /\ UNCHANGED <<st, cookie, edge, rx, work, phase, sop>>

\* The send failed: the caller returns its error.
SendErr ==
    /\ pc = "send_err"
    /\ Return
    /\ UNCHANGED <<secVars, handle, complete, ops, inited, cur, pxMsg, pxLen,
                   last, abandoned, left, faults>>

\* The client takes the answer off the queue.  It is good when it fits the
\* buffers and names no error, and is for the command of the request; a good
\* answer to the version request completes init when the version matches.
TakeAnswer(h) ==
    /\ rx' = [rx EXCEPT ![h] = Tail(@)]
    /\ \E good, match \in BOOLEAN :
          LET ok == good /\ Head(rx[h]).body = Head(req).body
          IN  /\ last' = IF ok THEN [req |-> Head(req).id, ans |-> Head(rx[h]).id,
                                     clean |-> ~abandoned[cur]]
                               ELSE last
              /\ inited' = [inited EXCEPT ![cur] = @ \/ (ok /\ kind = "version" /\ match)]

\* trusty_ipc_dev_recv after the wait.  A RECV that fails leaves the message
\* queued, and it fails when there is none.
Recv ==
    /\ pc = "recv"
    /\ LET h == handle[cur]
           got == h \in Handles /\ rx[h] # <<>>
       IN  \/ got /\ TakeAnswer(h) /\ UNCHANGED <<abandoned, faults>>
           \/ /\ IF got THEN Fault ELSE UNCHANGED faults
              /\ Abandon /\ UNCHANGED <<rx, last, inited>>
    /\ Return
    /\ UNCHANGED <<st, cookie, edge, tx, work, phase, sop, nextId,
                   handle, complete, ops, cur, pxMsg, pxLen, left>>
=============================================================================
