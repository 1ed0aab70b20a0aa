------------------------------- MODULE HwBcc -------------------------------
(***************************************************************************)
(* How the hwbcc client reads a response, src/ql-tipc/hwbcc.c, from the    *)
(* copy into its iovecs (ipc_dev.c) to what the caller is told.  A message *)
(* is a sequence of words: the header's command, status and payload size,  *)
(* then the payload.                                                       *)
(***************************************************************************)
EXTENDS Integers, Sequences, SequencesExt

GetDice == 6        \* HWBCC_CMD_GET_DICE_ARTIFACTS
Deprivilege == 8    \* HWBCC_CMD_NS_DEPRIVILEGE
RespBit == 1        \* HWBCC_CMD_RESP_BIT
HdrLen == 3         \* sizeof(struct hwbcc_resp_hdr)
Err == -1

\* iovec_size.
IovecSize(lens) ==
    LET sum[i \in 0 .. Len(lens)] == IF i = 0 THEN 0 ELSE sum[i - 1] + lens[i]
    IN  sum[Len(lens)]

\* buf_to_iovec: every iovec takes as much of the message as fits, in turn.
BufToIovec(lens, msg) ==
    [i \in DOMAIN lens |->
        LET from == IovecSize(SubSeq(lens, 1, i - 1))
        IN  SubSeq(msg, from + 1, Min({from + lens[i], Len(msg)}))]

\* The end of trusty_ipc_dev_recv: the number of words copied, or an error when
\* the message is longer than the iovecs.
RecvResult(lens, msg) == IF Len(msg) > IovecSize(lens) THEN Err ELSE Len(msg)

\* The checks both kinds of response share; the header is zero where the
\* message does not reach.
HeaderOk(cmd, rc, hdr) == rc >= HdrLen /\ hdr[1] = cmd + RespBit /\ hdr[2] = 0

\* Mutant of ReadResponseWithData: the declared size is not compared with the received one.
ReadResponseDeclared(cmd, msg, cap) ==
    LET iov == BufToIovec(<<HdrLen, cap>>, msg)
        rc == RecvResult(<<HdrLen, cap>>, msg)
    IN  IF HeaderOk(cmd, rc, iov[1])
        THEN [rc |-> 0, size |-> iov[1][3], data |-> iov[2]]
        ELSE [rc |-> Err, size |-> 0, data |-> iov[2]]

\* read_response_with_data: the size is set when all checks have passed.
ReadResponseWithData(cmd, msg, cap) ==
    LET iov == BufToIovec(<<HdrLen, cap>>, msg)
        rc == RecvResult(<<HdrLen, cap>>, msg)
    IN  IF HeaderOk(cmd, rc, iov[1]) /\ iov[1][3] = rc - HdrLen
        THEN [rc |-> 0, size |-> iov[1][3], data |-> iov[2]]
        ELSE [rc |-> Err, size |-> 0, data |-> iov[2]]

\* read_header_only_response.
ReadHeaderOnlyResponse(cmd, msg) ==
    LET rc == RecvResult(<<HdrLen>>, msg)
    IN  IF HeaderOk(cmd, rc, msg) THEN 0 ELSE Err
=============================================================================
