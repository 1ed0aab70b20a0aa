---------------------------- MODULE KmSerialize ----------------------------
(***************************************************************************)
(* The contents of the Keymaster requests of Keymaster: the serialization  *)
(* of boot parameters, attestation data and raw buffers into a buffer of   *)
(* the size computed for it (src/ql-tipc/keymaster_serializable.c), what   *)
(* the service (external) reads from it by the structures of keymaster.h,  *)
(* and the parts of an uploaded CA response.                               *)
(*                                                                         *)
(* A request is a sequence of words, as are the data buffers in it.        *)
(***************************************************************************)
EXTENDS Keymaster

CONSTANTS
    BootParams,      \* requests of trusty_set_boot_params
    AttestationData, \* requests with a key or a certificate
    Buffers          \* requests with a raw buffer

\* struct km_boot_params, struct km_attestation_data and struct km_raw_buffer with any
\* contents.
ASSUME RequestsAssumption ==
    /\ BootParams \subseteq
          [kind : {"boot"}, os_version : Nat, os_patchlevel : Nat, device_locked : Nat,
           verified_boot_state : Nat, key_hash : Seq(Nat), hash : Seq(Nat)]
    /\ AttestationData \subseteq [kind : {"attest"}, algorithm : Nat, data : Seq(Nat)]
    /\ Buffers \subseteq Seq(Nat)

VARIABLES
    asked,  \* what the running call was given
    seen,   \* service: what it read from the last request
    data    \* service: the CA response so far

requestVars == <<asked, seen, data>>

Raw(d) == [kind |-> "raw", data |-> d]
Nothing == Raw(<<>>)

(***************************************************************************)
(* keymaster_serializable.c.                                               *)
(***************************************************************************)

\* append_to_buf: the words that fit; b.at is the pointer that is returned.
AppendToBuf(b, words) ==
    [buf |-> [i \in DOMAIN b.buf |->
                IF i - b.at \in DOMAIN words THEN words[i - b.at] ELSE b.buf[i]],
     at |-> b.at + Len(words)]

AppendUint32(b, n) == AppendToBuf(b, <<n>>)
AppendSized(b, words) == AppendToBuf(AppendUint32(b, Len(words)), words)

\* trusty_calloc.
NewBuf(n) == [buf |-> [i \in 1 .. n |-> 0], at |-> 0]

\* Mutant of BootParamsSize: only one of the two lengths is counted.
BootParamsSizeShort(p) == 5 + Len(p.key_hash) + Len(p.hash)

\* *out_size.
BootParamsSize(p) == 6 + Len(p.key_hash) + Len(p.hash)

BootParamsSerialize(p) ==
    LET b1 == AppendUint32(NewBuf(BootParamsSize(p)), p.os_version)
        b2 == AppendUint32(b1, p.os_patchlevel)
        b3 == AppendUint32(b2, p.device_locked)
        b4 == AppendUint32(b3, p.verified_boot_state)
    IN  AppendSized(AppendSized(b4, p.key_hash), p.hash)

AttestationDataSerialize(p) == AppendSized(AppendUint32(NewBuf(2 + Len(p.data)), p.algorithm), p.data)

RawBufferSerialize(p) == AppendSized(NewBuf(1 + Len(p.data)), p.data)

Serialize(p) ==
    CASE p.kind = "boot" -> BootParamsSerialize(p)
      [] p.kind = "attest" -> AttestationDataSerialize(p)
      [] p.kind = "raw" -> RawBufferSerialize(p)

(***************************************************************************)
(* The service (external).                                                 *)
(***************************************************************************)

\* The sized buffer at place i of a request, cut where the request ends.
Sized(w, i) == IF i > Len(w) THEN <<>> ELSE SubSeq(w, i + 1, Least(i + w[i], Len(w)))

ReadRequest(kind, w) ==
    CASE kind = "boot" ->
            [kind |-> kind, os_version |-> w[1], os_patchlevel |-> w[2], device_locked |-> w[3],
             verified_boot_state |-> w[4], key_hash |-> Sized(w, 5), hash |-> Sized(w, 6 + w[5])]
      [] kind = "attest" -> [kind |-> kind, algorithm |-> w[1], data |-> Sized(w, 2)]
      [] kind = "raw" -> Raw(Sized(w, 1))

(***************************************************************************)
(* The calls of Keymaster, with their requests.                            *)
(***************************************************************************)

Request(p) ==
    /\ asked' = p
    /\ seen' = ReadRequest(p.kind, Serialize(p).buf)

SetParams == Set /\ (\E p \in BootParams \cup AttestationData : Request(p)) /\ UNCHANGED data

GetRaw == Get /\ (\E d \in Buffers : Request(Raw(d))) /\ UNCHANGED data

Begin ==
    /\ \E n \in Sizes : UploadBegin(n)
    /\ data' = IF answer'.err THEN data ELSE <<>>
    /\ UNCHANGED <<asked, seen>>

\* Mutant of Part: every part is taken from the start of the response.
PartFirst(from, n) == [i \in 1 .. n |-> i]

\* n words of the response, whose words are numbered, after from words.
Part(from, n) == [i \in 1 .. n |-> from + i]

\* The service keeps what it reads unless it answers with an error.
Update ==
    /\ UploadUpdate
    /\ Request(Raw(Part(sent, Chunk)))
    /\ data' = IF answer'.err THEN data ELSE data \o seen'.data

Others ==
    /\ SendFrame \/ ReadFirst \/ ReadRaw \/ RecvFails \/ NoMemory \/ UploadFinish
    /\ UNCHANGED requestVars

KInit == Init /\ asked = Nothing /\ seen = Nothing /\ data = <<>>

KNext == SetParams \/ GetRaw \/ Begin \/ Update \/ Others

KSpec == KInit /\ [][KNext]_<<vars, requestVars>>

(***************************************************************************)
(* Properties.                                                             *)
(***************************************************************************)

\* The service reads from a serialized request what the caller passed, for boot
\* parameters, attestation data and raw buffers of any contents, empty or not: the
\* size that is computed and the places that are written agree with the structure
\* it reads.
ServiceReads == seen = asked

\* What the service is told to parse is the caller's CA response, every word of it in
\* its place, however the response was cut and whatever was uploaded before.
UploadWhole == call = "finish" => data = [i \in 1 .. size |-> i]
=============================================================================
