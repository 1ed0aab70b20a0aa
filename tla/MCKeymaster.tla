----------------------------- MODULE MCKeymaster -----------------------------
(* An instance of KmSerialize for TLC. *)
EXTENDS KmSerialize

\* Empty buffers and buffers of different lengths next to each other.
SomeBuffers == {<<>>, <<8>>, <<9, 3>>}

SomeBootParams ==
    [kind : {"boot"}, os_version : {1}, os_patchlevel : {2}, device_locked : {0, 1},
     verified_boot_state : {4}, key_hash : SomeBuffers, hash : SomeBuffers]

SomeAttestationData == [kind : {"attest"}, algorithm : {1, 3}, data : SomeBuffers]
=============================================================================
