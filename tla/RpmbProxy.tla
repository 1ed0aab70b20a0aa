----------------------------- MODULE RpmbProxy -----------------------------
(***************************************************************************)
(* The RPMB storage proxy, src/ql-tipc/rpmb_proxy.c: the storage service's *)
(* requests arrive as messages on proxy_chan and are served from inside    *)
(* whichever poll delivers them, so mostly while a client waits for its    *)
(* own answer.  Sizes are the code's, in bytes.                            *)
(***************************************************************************)
EXTENDS TipcIpc

StorageMsgSize == 24     \* sizeof(struct storage_msg)
RpmbReqSize    == 16     \* sizeof(struct storage_rpmb_send_req)
MmcBlockSize   == 512    \* MMC_BLOCK_SIZE
ReadBufSize    == 4096   \* sizeof(read_buf)
MaxPayload     == 4096 - 16  \* buf_size - sizeof(struct trusty_ipc_cmd_hdr)

\* A storage request: its command, the bytes that arrived after the header
\* (-1: not even a whole header) and the sizes the RPMB request names.
StorageReqType == [rpmb : BOOLEAN, len : {-1} \cup Nat, rel : Nat, wr : Nat, rd : Nat]

ASSUME StorageReqsAssumption == StorageReqs \subseteq StorageReqType

\* Every check of proxy_handle_rpmb: sizeof(req) is the size of a pointer there.
RpmbValid(r) ==
    /\ r.len >= 8
    /\ r.len = RpmbReqSize + r.rel + r.wr
    /\ r.rel % MmcBlockSize = 0
    /\ r.wr % MmcBlockSize = 0
    /\ r.rd % MmcBlockSize = 0 /\ r.rd <= ReadBufSize

\* Lengths proxy_handle_req may respond with: the data read when the RPMB
\* command was executed and succeeded, the header alone otherwise.
ResponseLens(r) ==
    {StorageMsgSize} \cup {StorageMsgSize + x : x \in {y \in {r.rd} : r.rpmb /\ RpmbValid(r)}}

\* A poll delivers an event of the proxy's channel: proxy_on_message first,
\* then proxy_on_disconnect; READY and SEND_UNBLOCKED are not handled.
ProxyMsgEvent(h) ==
    /\ ops[cookie[h]] = "proxy" /\ "MSG" \in Events(h)
    /\ GetEvent(h)
    /\ pc' = "px_recv"
    /\ UNCHANGED <<handle, complete, ops, inited, kind, cur, req, pxMsg, pxLen,
                   last, abandoned, left, faults>>

ProxyHupEvent(h) ==
    LET hung == [handle EXCEPT ![Proxy] = IF "HUP" \in Events(h) THEN NoHandle ELSE @]
    IN  /\ ops[cookie[h]] = "proxy" /\ "MSG" \notin Events(h)
        /\ GetEvent(h)
        /\ handle' = hung
        /\ AfterPoll(FALSE, complete[cur], hung[Proxy])
        /\ UNCHANGED <<complete, cur, pxMsg, pxLen, last, left, faults>>

\* proxy_read_request, and proxy_handle_req up to the response it will send.  A
\* RECV that fails leaves the request queued, a malformed request is taken.
PxRecv ==
    /\ pc = "px_recv"
    /\ LET h == handle[Proxy]
           got == h \in Handles /\ rx[h] # <<>>
           r == Head(rx[h]).body
       IN  \/ /\ got /\ rx' = [rx EXCEPT ![h] = Tail(@)]
              /\ \/ /\ r.len >= 0
                    /\ pxMsg' = <<Head(rx[h])>>
                    /\ pxLen' \in ResponseLens(r)
                    /\ pc' = "px_send"
                 \/ r.len < 0 /\ pc' = "px_close" /\ UNCHANGED <<pxMsg, pxLen>>
              /\ UNCHANGED faults
           \/ /\ IF got THEN Fault ELSE UNCHANGED faults
              /\ pc' = "px_close" /\ UNCHANGED <<rx, pxMsg, pxLen>>
    /\ UNCHANGED <<st, cookie, edge, tx, work, phase, sop, nextId, handle, complete, ops,
                   inited, kind, cur, req, last, abandoned, left>>

\* Mutant of PxSend: the result of sending the response is ignored.
PxSendIgnored ==
    /\ pc = "px_send"
    /\ pxMsg' = <<>> /\ pxLen' = 0
    /\ LET fits == pxLen <= MaxPayload /\ CanSend(handle[Proxy])
       IN  \/ /\ fits /\ UNCHANGED faults
              /\ tx' = [tx EXCEPT ![handle[Proxy]] = Append(@, Head(pxMsg))]
           \/ /\ IF fits THEN Fault ELSE UNCHANGED faults
              /\ UNCHANGED tx
    /\ AfterPoll(FALSE, complete[cur], handle[Proxy])
    /\ UNCHANGED <<st, cookie, edge, rx, work, phase, sop, nextId,
                   handle, complete, cur, last, left>>

\* proxy_send_response: the message must fit the shared buffer and be accepted.
PxSend ==
    /\ pc = "px_send"
    /\ pxMsg' = <<>> /\ pxLen' = 0
    /\ LET fits == pxLen <= MaxPayload /\ CanSend(handle[Proxy])
       IN  \/ /\ fits /\ UNCHANGED faults
              /\ tx' = [tx EXCEPT ![handle[Proxy]] = Append(@, Head(pxMsg))]
              /\ AfterPoll(FALSE, complete[cur], handle[Proxy])
           \/ /\ IF fits THEN Fault ELSE UNCHANGED faults
              /\ pc' = "px_close" /\ UNCHANGED <<tx, kind, req, ops, inited, abandoned>>
    /\ UNCHANGED <<st, cookie, edge, rx, work, phase, sop, nextId,
                   handle, complete, cur, last, left>>

\* Reading or answering failed: the proxy closes its channel and the poll fails.
PxClose ==
    /\ pc = "px_close"
    /\ Close(Proxy)
    /\ PollError
    /\ UNCHANGED <<complete, cur, pxMsg, pxLen, last>>

\* rpmb_storage_proxy_init is the first call on a device that was just created
\* (libtipc.c, test-runner.c): nothing is connected.
ProxyInit ==
    /\ \A h \in Handles : st[h] = "free"
    /\ Connect(Proxy) \/ ConnectFails(Proxy)

\* rpmb_storage_proxy_shutdown.
ProxyShutdown ==
    /\ pc = "user" /\ inited[Proxy]
    /\ Close(Proxy)
    /\ inited' = [inited EXCEPT ![Proxy] = FALSE]
    /\ UNCHANGED <<complete, ops, pc, kind, cur, req, pxMsg, pxLen, last, abandoned>>
=============================================================================
