----------------------------- MODULE Keymaster -----------------------------
(***************************************************************************)
(* The Keymaster client's calls, src/ql-tipc/keymaster.c, above the single *)
(* messages of TipcIpc: an answer that comes in several frames is put      *)
(* together again, and a CA response is sent in several requests.          *)
(*                                                                         *)
(* Lengths are in units of a 32-bit word and without a frame's command     *)
(* header.  The service (external) answers with an error word, and for a   *)
(* command with a data buffer with the length and the data after it; it    *)
(* cuts the answer into frames of at most MaxFrame words, the last of them *)
(* with KEYMASTER_STOP_BIT.  Its data fits the caller's buffer: nothing in *)
(* km_read_data_response checks that.                                      *)
(***************************************************************************)
EXTENDS Naturals, Sequences, FiniteSetsExt

CONSTANTS
    MaxFrame,  \* KEYMASTER_MAX_BUFFER_LENGTH
    MaxSend,   \* kMaxSendSize
    Cap,       \* size of the caller's data buffer
    Sizes,     \* sizes of CA responses
    MaxFaults  \* bound: receives that fail

ASSUME KeymasterAssumption ==
    /\ MaxFrame \in Nat /\ MaxFrame >= 2
    /\ MaxSend \in Nat \ {0}
    /\ Cap \in Nat
    /\ Sizes \subseteq Nat
    /\ MaxFaults \in Nat

VARIABLES
    pc,       \* user, first (km_read_data_response), raw (km_read_raw_response)
    call,     \* the command of the running km_do_tipc
    got,      \* data words received before km_read_raw_response
    len,      \* resp_len of km_read_raw_response
    max,      \* its max_resp_len
    declared, \* *resp_data_len: the capacity, then what the service sent
    err,      \* resp_header.error is not KM_ERROR_OK
    size,     \* ca_response_size
    sent,     \* bytes_sent
    frames,   \* frames queued by the service
    answer,   \* service: what is left to send of its answer
    announced, stored,  \* service: size of the CA response, and words of it so far
    broken,   \* history: a receive failed
    result,   \* history: what the last call returned
    faults

readVars == <<got, len, max, declared>>
serviceVars == <<frames, answer, announced, stored>>
vars == <<pc, call, readVars, err, size, sent, serviceVars, broken, result, faults>>

Calls == {"get", "set", "begin", "update", "finish"}
NoAnswer == [left |-> 0, first |-> FALSE, err |-> FALSE, data |-> 0]
Frames == [n : 0 .. MaxFrame, stop : BOOLEAN, first : BOOLEAN, err : BOOLEAN, data : 0 .. Cap]

TypeOK ==
    /\ pc \in {"user", "first", "raw"}
    /\ call \in Calls
    /\ got \in 0 .. Cap /\ len \in 0 .. Cap + 1 /\ max \in 0 .. Cap + 1 /\ declared \in 0 .. Cap
    /\ err \in BOOLEAN /\ broken \in BOOLEAN
    /\ size \in Sizes \cup {0} /\ sent \in 0 .. size
    /\ frames \in Seq(Frames)
    /\ answer \in [left : 0 .. Cap + 2, first : BOOLEAN, err : BOOLEAN, data : 0 .. Cap]
    /\ announced \in Sizes \cup {0} /\ stored \in Nat
    /\ result \in {"none", "error", "ok", "too_big", "short", "failed"}
    /\ faults \in 0 .. MaxFaults

Init ==
    /\ pc = "user" /\ call = "get"
    /\ got = 0 /\ len = 0 /\ max = 0 /\ declared = 0
    /\ err = FALSE /\ size = 0 /\ sent = 0
    /\ frames = <<>> /\ answer = NoAnswer /\ announced = 0 /\ stored = 0
    /\ broken = FALSE /\ result = "none" /\ faults = 0

Least(a, b) == Min({a, b})

(***************************************************************************)
(* The service.                                                            *)
(***************************************************************************)

\* The service executes a command and prepares its answer, possibly an error.
Serve(c, chunk) ==
    \E e \in BOOLEAN, d \in 0 .. Cap :
        /\ (c # "get" \/ e) => d = 0
        /\ answer' = [left |-> IF c = "get" /\ ~e THEN 2 + d ELSE 1,
                      first |-> TRUE, err |-> e, data |-> d]
        /\ announced' = IF c = "begin" /\ ~e THEN size' ELSE announced
        /\ stored' = IF e THEN stored
                     ELSE IF c = "begin" THEN 0
                     ELSE IF c = "update" THEN stored + chunk ELSE stored

\* The service sends the next frame of its answer.
SendFrame ==
    /\ answer.left > 0
    /\ LET n == Least(answer.left, MaxFrame)
       IN  /\ frames' = Append(frames, [n |-> n, stop |-> n = answer.left, first |-> answer.first,
                                        err |-> answer.err, data |-> answer.data])
           /\ answer' = [answer EXCEPT !.left = @ - n, !.first = FALSE]
    /\ UNCHANGED <<pc, call, readVars, err, size, sent, announced, stored, broken, result, faults>>

(***************************************************************************)
(* km_do_tipc.                                                             *)
(***************************************************************************)

\* km_send_request, and the start of the read that fits the call.
DoTipc(c, chunk) ==
    /\ call' = c
    /\ Serve(c, chunk)
    /\ result' = "none"
    /\ got' = 0 /\ len' = 0
    /\ IF c = "get" THEN pc' = "first" /\ declared' = Cap /\ max' = 0
                    ELSE pc' = "raw" /\ declared' = 0 /\ max' = 1
    /\ UNCHANGED <<err, frames, broken, faults>>

\* The read is over: an error of the service counts when the read succeeded.
Done(r) ==
    /\ pc' = "user"
    /\ result' = IF r = "ok" /\ err' THEN "error" ELSE r

\* trusty_ipc_recv fails: the rest of the answer stays on the connection.
RecvFails ==
    /\ pc # "user" /\ faults < MaxFaults
    /\ faults' = faults + 1
    /\ broken' = TRUE
    /\ pc' = "user" /\ result' = "failed"
    /\ UNCHANGED <<call, readVars, err, size, sent, serviceVars>>

Receive ==
    /\ frames # <<>>
    /\ frames' = Tail(frames)
    /\ UNCHANGED <<call, size, sent, answer, announced, stored, faults>>

\* A frame larger than the buffers it is read into: TRUSTY_ERR_MSG_TOO_BIG.
TooBig ==
    /\ Done("too_big") /\ broken' = TRUE /\ UNCHANGED <<readVars, err>>

\* Mutant of ReadFirst: resp_data_bytes counts the error and the length too.
ReadFirstCounts ==
    /\ pc = "first" /\ Receive
    /\ LET f == Head(frames)
       IN  IF f.n > 2 + Least(MaxFrame, Cap) THEN TooBig
           ELSE /\ err' = f.err
                /\ declared' = IF f.n >= 2 THEN f.data ELSE declared
                /\ got' = Least(f.n, declared') /\ len' = 0 /\ max' = declared' - got'
                /\ IF f.stop THEN Done("ok") ELSE pc' = "raw" /\ UNCHANGED result
                /\ UNCHANGED broken

\* The first frame of km_read_data_response: error, length and data.  The
\* answer ends there when it has KEYMASTER_STOP_BIT, also when it is short.
ReadFirst ==
    /\ pc = "first" /\ Receive
    /\ LET f == Head(frames)
       IN  IF f.n > 2 + Least(MaxFrame, Cap) THEN TooBig
           ELSE /\ err' = f.err
                /\ declared' = IF f.n >= 2 THEN f.data ELSE declared
                /\ got' = IF f.n >= 2 THEN f.n - 2 ELSE 0
                /\ len' = 0 /\ max' = declared' - got'
                /\ IF f.stop THEN Done("ok") ELSE pc' = "raw" /\ UNCHANGED result
                /\ UNCHANGED broken

\* Mutant of RawEnds: a read ends with its first frame.
RawEndsFirst(f) == TRUE

\* The loop of km_read_raw_response ends with KEYMASTER_STOP_BIT or when the
\* buffer is full.
RawEnds(f) == f.stop \/ len + f.n >= max

\* A frame in km_read_raw_response, of a whole answer or of the rest of one
\* whose length must then be the one declared.
ReadRaw ==
    /\ pc = "raw" /\ Receive
    /\ LET f == Head(frames)
       IN  IF f.n > Least(MaxFrame, max - len) THEN TooBig
           ELSE /\ len' = len + f.n
                /\ err' = IF call = "get" THEN err ELSE f.err
                /\ IF RawEnds(f)
                   THEN Done(IF call = "get" /\ got + len' # declared THEN "short" ELSE "ok")
                   ELSE pc' = "raw" /\ UNCHANGED result
                /\ UNCHANGED <<got, max, declared, broken>>

(***************************************************************************)
(* The calls.  A connection on which a receive failed is not used again    *)
(* here (TipcSystem shows what happens when it is).                        *)
(***************************************************************************)

\* trusty_atap_set_ca_response goes on after a request that succeeded.
Uploading == call \in {"begin", "update"} /\ result = "ok"

\* trusty_atap_get_ca_request and trusty_atap_read_uuid_str.
Get ==
    /\ pc = "user" /\ ~broken /\ ~Uploading
    /\ UNCHANGED <<size, sent>>
    /\ DoTipc("get", 0)

\* trusty_set_boot_params, trusty_set_attestation_key and
\* trusty_append_attestation_cert_chain.
Set ==
    /\ pc = "user" /\ ~broken /\ ~Uploading
    /\ UNCHANGED <<size, sent>>
    /\ DoTipc("set", 0)

\* The request, or the buffer for its answer, cannot be allocated: the call, or the
\* upload it belongs to, ends before anything is sent.
NoMemory ==
    /\ pc = "user" /\ ~broken /\ (Uploading => sent < size)
    /\ result' = "failed"
    /\ UNCHANGED <<pc, call, readVars, err, size, sent, serviceVars, broken, faults>>

\* trusty_atap_set_ca_response announces the size of the response.
UploadBegin(n) ==
    /\ pc = "user" /\ ~broken /\ ~Uploading
    /\ size' = n /\ sent' = 0
    /\ DoTipc("begin", 0)

\* Mutant of Chunk: every part has kMaxSendSize bytes.
ChunkFull == MaxSend

\* send_size.
Chunk == Least(MaxSend, size - sent)

\* The next part of the response is sent.
UploadUpdate ==
    /\ pc = "user" /\ ~broken /\ Uploading /\ sent < size
    /\ sent' = sent + Chunk
    /\ UNCHANGED size
    /\ DoTipc("update", Chunk)

\* All of it was sent: the service is told to parse it.
UploadFinish ==
    /\ pc = "user" /\ ~broken /\ Uploading /\ sent >= size
    /\ UNCHANGED <<size, sent>>
    /\ DoTipc("finish", 0)

Next ==
    \/ SendFrame \/ ReadFirst \/ ReadRaw \/ RecvFails
    \/ Get \/ Set \/ NoMemory \/ UploadUpdate \/ UploadFinish
    \/ \E n \in Sizes : UploadBegin(n)

Spec == Init /\ [][Next]_vars

(***************************************************************************)
(* Properties.                                                             *)
(***************************************************************************)

\* A call that returns has read its whole answer, however it was cut into
\* frames and whether or not the service reported an error: no frame is left
\* to be taken for the answer to the next call.
NothingLeft == pc = "user" /\ ~broken => frames = <<>> /\ answer.left = 0

\* "On success, |error|, |resp_data|, and |resp_data_len| are filled": the data
\* and the length are the service's, and an answer whose data fits the buffer
\* is never refused as too big or short.
ReadsComplete ==
    /\ result \notin {"too_big", "short"}
    /\ call = "get" /\ result = "ok" => got + len = answer.data /\ declared = answer.data

\* The service is told to parse a CA response when it has all of it, and after
\* a part failed it is not told so before a new upload is complete.
UploadExact == call = "finish" => stored = size /\ announced = size
=============================================================================
