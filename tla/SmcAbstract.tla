---------------------------- MODULE SmcAbstract ----------------------------
(***************************************************************************)
(* What a standard call promises its caller: the command is executed once, *)
(* not interleaved with another caller's, and the call returns after it.   *)
(***************************************************************************)
CONSTANT Callers

VARIABLE state  \* state[c]: idle, called, begun (partly executed) or done

Init == state = [c \in Callers |-> "idle"]

Call(c) ==
    /\ state[c] = "idle"
    /\ state' = [state EXCEPT ![c] = "called"]

\* The command begins, and may also complete at once.
Begin(c) ==
    /\ state[c] = "called"
    /\ \A d \in Callers : state[d] # "begun"
    /\ \E s \in {"begun", "done"} : state' = [state EXCEPT ![c] = s]

Complete(c) ==
    /\ state[c] = "begun"
    /\ state' = [state EXCEPT ![c] = "done"]

Return(c) ==
    /\ state[c] = "done"
    /\ state' = [state EXCEPT ![c] = "idle"]

Next == \E c \in Callers : Call(c) \/ Begin(c) \/ Complete(c) \/ Return(c)

Spec == Init /\ [][Next]_state
=============================================================================
