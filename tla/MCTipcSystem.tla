---------------------------- MODULE MCTipcSystem ----------------------------
(* Instances of TipcSystem for TLC. *)
EXTENDS TipcSystem, TLC

\* Storage requests: an RPMB command the proxy executes, a message shorter than
\* its header, and the largest read the checks let pass.
ReadOne   == [rpmb |-> TRUE, len |-> 16 + 512, rel |-> 512, wr |-> 0, rd |-> 512]
Truncated == [rpmb |-> TRUE, len |-> -1, rel |-> 0, wr |-> 0, rd |-> 0]
ReadAll   == [rpmb |-> TRUE, len |-> 16 + 512, rel |-> 512, wr |-> 0, rd |-> 4096]

OneReq    == {ReadOne}
MixedReqs == {ReadOne, Truncated}
LargeReqs == {ReadAll}

HandleSymmetry == Permutations(Handles)
=============================================================================
