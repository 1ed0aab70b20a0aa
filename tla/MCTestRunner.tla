---------------------------- MODULE MCTestRunner ----------------------------
(***************************************************************************)
(* Machines to start the test runner on.                                   *)
(***************************************************************************)
EXTENDS TestRunner

MCCmds == {[rel |-> 1, write |-> 1, read |-> 2], [rel |-> 0, write |-> 1, read |-> 0]}

Line(n) == Prefix \o [i \in 1 .. n |-> Tok("port", i)]

Virt == [transport |-> "mmio", bus |-> <<"other", "console">>, offered |-> {0, 1}, accepts |-> TRUE,
         kind |-> (0 :> "plugged" @@ 1 :> "plugged"),
         name |-> (0 :> "testrunner0" @@ 1 :> "rpmb0"),
         line |-> Line(2), doorbell |-> 9, secs |-> 1, api |-> "mem_obj", kernel |-> "none"]

Pci == [Virt EXCEPT !.transport = "pci", !.bus = <<"none", "console">>, !.secs = 5, !.api = "old",
                    !.name = (0 :> "rpmb0" @@ 1 :> "testrunner0")]

NoRpmb == [Virt EXCEPT !.kind[1] = "gone", !.secs = 2, !.line = Line(7)]

\* Machines on which there is no test to run.
Broken ==
    {[Virt EXCEPT !.bus = <<"other", "none", "console">>], [Pci EXCEPT !.bus = <<"other">>],
     [Pci EXCEPT !.bus = <<"no_caps", "console">>], [Pci EXCEPT !.bus = <<"two_bars">>],
     [Pci EXCEPT !.offered = {0}], [Virt EXCEPT !.accepts = FALSE], [Virt EXCEPT !.doorbell = 40],
     [Virt EXCEPT !.kind[0] = "gone"], [Virt EXCEPT !.name[0] = "other"],
     [Virt EXCEPT !.kind[0] = "absent"], [Virt EXCEPT !.api = "newer"], [NoRpmb EXCEPT !.secs = 0],
     [Virt EXCEPT !.kind = (0 :> "gone" @@ 1 :> "gone")]}
    \cup {[Pci EXCEPT !.line = Line(0), !.kernel = k] : k \in {"none", "bad", "ok"}}

MCMachines == {Virt, Pci, NoRpmb} \cup Broken
=============================================================================
