----------------------------- MODULE TipcClient -----------------------------
(***************************************************************************)
(* The clients of the library: avb.c, keymaster.c and hwbcc.c.  A client   *)
(* connects at init, asks for the version of the service if it is in       *)
(* Versioned, then sends one request at a time and waits for the answer.   *)
(***************************************************************************)
EXTENDS TipcIpc

\* avb_tipc_init, km_tipc_init, hwbcc_tipc_init, up to the connection.
ClientInit(c) == Connect(c) \/ ConnectFails(c)

\* The version request of avb_tipc_init and km_tipc_init, on the connection
\* just made.
SendVersion ==
    /\ pc = "version"
    /\ \E cmd \in Cmds : Send(cur, cmd, "version")
    /\ UNCHANGED <<handle, ops, inited, cur, pxMsg, pxLen, last, abandoned, left, faults>>

\* SEND fails: init returns with the connection left open.
VersionFails ==
    /\ pc = "version"
    /\ Return
    /\ UNCHANGED <<secVars, handle, complete, ops, inited, cur, pxMsg, pxLen,
                   last, abandoned, left, faults>>

\* avb_do_tipc, km_do_tipc and the hwbcc calls: send, then wait for the answer.
Call(c, cmd) ==
    /\ pc = "user" /\ inited[c] /\ handle[c] # NoHandle
    /\ cur' = c
    /\ Send(c, cmd, "call")
    /\ UNCHANGED <<handle, ops, inited, pxMsg, pxLen, last, abandoned, left, faults>>

\* avb_tipc_shutdown, km_tipc_shutdown, hwbcc_tipc_shutdown.
ClientShutdown(c) ==
    /\ pc = "user" /\ inited[c]
    /\ Close(c)
    /\ inited' = [inited EXCEPT ![c] = FALSE]
    /\ abandoned' = [abandoned EXCEPT ![c] = FALSE]
    /\ UNCHANGED <<complete, ops, pc, kind, cur, req, pxMsg, pxLen, last>>
=============================================================================
