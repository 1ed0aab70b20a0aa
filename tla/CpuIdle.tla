------------------------------ MODULE CpuIdle ------------------------------
(***************************************************************************)
(* Sleeping and waking CPUs: trusty_idle and trusty_local_irq_disable of   *)
(* src/test-runner/arm64/asm.S (GICv3), the NOP loop of the secondary CPUs *)
(* in boot(), and the wait loop of CPU 0 in wait_for_complete.             *)
(*                                                                         *)
(* CPU 0 alone talks to the IPC device.  Secure threads run on a CPU only  *)
(* while it is inside a call, so an event CPU 0 waits for, or the work its *)
(* unfinished call waits for, may be produced on another CPU.  Interrupts  *)
(* are never taken: a pending one ends wfi, and is acknowledged, and so    *)
(* lost, before the next smc.                                              *)
(***************************************************************************)
EXTENDS Naturals

CONSTANTS
    Secondaries,  \* CPUs other than CPU 0
    None

ASSUME IdleAssumption == None \notin Secondaries

VARIABLES
    pc0,     \* where CPU 0 is in its wait loop
    pcs,     \* where each secondary CPU is in its NOP loop
    again,   \* again[c]: its last NOP call was interrupted (event_poll = 1)
    irq0,    \* an interrupt is pending at CPU 0
    irq,     \* irq[c]: an interrupt is pending at secondary CPU c
    skip,    \* skip_cpu0_wfi
    x3,      \* the value CPU 0 loaded from it
    excl,    \* CPU 0's exclusive monitor is armed
    missed,  \* history: the HAS_EVENT before this idle failed
    evt,     \* secure OS: the IPC device has an event
    work,    \* secure OS: work[c], a thread is ready to run on CPU c
    waitOn   \* secure OS: the CPU whose work CPU 0's call waits for, or None

vars == <<pc0, pcs, again, irq0, irq, skip, x3, excl, missed, evt, work, waitOn>>

TypeOK ==
    /\ pc0 \in {"ack", "smc", "has_event", "ldaxr", "stxr", "wfi", "cpu_idle",
             "busy_idle"}
    /\ pcs \in [Secondaries -> {"ack", "nop", "stlr", "sgi", "wfi"}]
    /\ again \in [Secondaries -> BOOLEAN]
    /\ irq0 \in BOOLEAN /\ skip \in BOOLEAN /\ x3 \in BOOLEAN /\ excl \in BOOLEAN
    /\ missed \in BOOLEAN
    /\ irq \in [Secondaries -> BOOLEAN]
    /\ evt \in BOOLEAN
    /\ work \in [Secondaries -> BOOLEAN]
    /\ waitOn \in Secondaries \cup {None}

Init ==
    /\ pc0 = "ack"
    /\ pcs = [c \in Secondaries |-> "ack"]
    /\ again = [c \in Secondaries |-> FALSE]
    /\ irq0 = FALSE /\ skip = FALSE /\ x3 = FALSE /\ excl = FALSE
    /\ missed = FALSE
    /\ irq = [c \in Secondaries |-> FALSE]
    /\ evt = FALSE
    /\ work = [c \in Secondaries |-> FALSE]
    /\ waitOn = None

secondaryVars == <<pcs, again>>
secureVars == <<evt, work, waitOn>>

(***************************************************************************)
(* CPU 0.                                                                  *)
(***************************************************************************)

\* trusty_local_irq_disable acknowledges every pending interrupt.
Ack0 ==
    /\ pc0 = "ack"
    /\ irq0' = FALSE /\ missed' = FALSE
    /\ pc0' = "smc"
    /\ UNCHANGED <<secondaryVars, irq, skip, x3, excl, secureVars>>

\* The secure OS makes a thread ready on CPU c and rings its doorbell.
Ready(c) ==
    /\ work' = [work EXCEPT ![c] = TRUE]
    /\ irq' = [irq EXCEPT ![c] = TRUE]

\* GET_EVENT returns an event, which CPU 0 handles before it polls again.
GetEvent ==
    /\ pc0 = "smc" /\ waitOn = None /\ evt
    /\ evt' = FALSE
    /\ pc0' = "ack"
    /\ UNCHANGED <<secondaryVars, irq0, irq, skip, x3, excl, work, waitOn, missed>>

\* GET_EVENT finds no event; before CPU 0 is back, threads run on it during
\* the same call may still produce one.
GetNone ==
    /\ pc0 = "smc" /\ waitOn = None /\ ~evt
    /\ evt' \in BOOLEAN
    /\ pc0' = "has_event"
    /\ UNCHANGED <<secondaryVars, irq0, irq, skip, x3, excl, work, waitOn, missed>>

\* The call returns SM_ERR_CPU_IDLE: it waits for work on CPU c.
GetBlocked(c) ==
    /\ pc0 = "smc"
    /\ waitOn = None \/ waitOn = c
    /\ waitOn' = c
    /\ IF waitOn = None THEN Ready(c) ELSE UNCHANGED <<work, irq>>
    /\ pc0' = "cpu_idle"
    /\ UNCHANGED <<secondaryVars, irq0, skip, x3, excl, evt, missed>>

\* The call is still SM_ERR_BUSY after its retries: the secure OS is busy with
\* another CPU's call, and CPU 0 will call again.
GetBusy ==
    /\ pc0 = "smc"
    /\ \E c \in Secondaries : pcs[c] = "nop"
    /\ pc0' = "busy_idle"
    /\ UNCHANGED <<secondaryVars, irq0, irq, skip, x3, excl, secureVars, missed>>

\* Mutant of HasEvent: CPU 0 idles without asking.
HasEventSkipped ==
    /\ pc0 = "has_event"
    /\ pc0' = "ldaxr"
    /\ UNCHANGED <<secondaryVars, irq0, irq, skip, x3, excl, secureVars, missed>>

\* Mutant of HasEvent: CPU 0 asks again instead of polling.
HasEventSpins ==
    /\ pc0 = "has_event"
    /\ pc0' = IF evt THEN "has_event" ELSE "ldaxr"
    /\ UNCHANGED <<secondaryVars, irq0, irq, skip, x3, excl, secureVars, missed>>

\* trusty_ipc_dev_has_event: a fast call, which acknowledges nothing.  When it
\* fails it answers false, whatever is pending.
HasEvent ==
    /\ pc0 = "has_event"
    /\ \/ pc0' = (IF evt THEN "ack" ELSE "ldaxr") /\ UNCHANGED missed
       \/ pc0' = "ldaxr" /\ missed' = TRUE
    /\ UNCHANGED <<secondaryVars, irq0, irq, skip, x3, excl, secureVars>>

\* trusty_idle(dev, true): skip_cpu0_wfi is read, then cleared.  The store
\* fails, and the flag stays, when a secondary wrote it in between.
Ldaxr ==
    /\ pc0 = "ldaxr"
    /\ x3' = skip /\ excl' = TRUE
    /\ pc0' = "stxr"
    /\ UNCHANGED <<secondaryVars, irq0, irq, skip, secureVars, missed>>

Stxr ==
    /\ pc0 = "stxr"
    /\ skip' = (skip /\ ~excl) /\ excl' = FALSE
    /\ pc0' = IF x3 THEN "ack" ELSE "wfi"
    /\ UNCHANGED <<secondaryVars, irq0, irq, x3, secureVars, missed>>

\* wfi, of trusty_idle(dev, true) in the wait loop or of trusty_idle(dev, false),
\* which leaves the flag alone, in trusty_std_call32 after SM_ERR_CPU_IDLE and in
\* trusty_std_call_helper after SM_ERR_BUSY.
Wfi0 ==
    /\ pc0 \in {"wfi", "cpu_idle", "busy_idle"} /\ irq0
    /\ pc0' = "ack"
    /\ UNCHANGED <<secondaryVars, irq0, irq, skip, x3, excl, secureVars, missed>>

(***************************************************************************)
(* Secondary CPU c.                                                        *)
(***************************************************************************)

AckS(c) ==
    /\ pcs[c] = "ack"
    /\ irq' = [irq EXCEPT ![c] = FALSE]
    /\ pcs' = [pcs EXCEPT ![c] = "nop"]
    /\ UNCHANGED <<pc0, again, irq0, skip, x3, excl, secureVars, missed>>

\* Mutant of Nop: trusty_dev_nop returns the code of the smc, negative when the
\* NOP was interrupted, for which boot() aborts.
NopUnmapped(c) ==
    /\ pcs[c] = "nop"
    /\ work' = [work EXCEPT ![c] = FALSE]
    /\ waitOn' = IF waitOn = c THEN None ELSE waitOn
    /\ evt' \in IF work[c] THEN {evt, TRUE} ELSE {evt}
    /\ pcs' = [pcs EXCEPT ![c] = IF irq[c] THEN "abort" ELSE "stlr"]
    /\ UNCHANGED <<pc0, again, irq0, irq, skip, x3, excl, missed>>

\* trusty_dev_nop: the secure OS runs what is ready on this CPU, which may
\* produce an event and lets a call waiting for it go on.
Nop(c) ==
    /\ pcs[c] = "nop"
    /\ work' = [work EXCEPT ![c] = FALSE]
    /\ waitOn' = IF waitOn = c THEN None ELSE waitOn
    /\ evt' \in IF work[c] THEN {evt, TRUE} ELSE {evt}
    /\ again' = [again EXCEPT ![c] = irq[c]]
    /\ pcs' = [pcs EXCEPT ![c] = "stlr"]
    /\ UNCHANGED <<pc0, irq0, irq, skip, x3, excl, missed>>

\* trusty_idle: the flag is set, then CPU 0 is interrupted.
Stlr(c) ==
    /\ pcs[c] = "stlr"
    /\ skip' = TRUE /\ excl' = FALSE
    /\ pcs' = [pcs EXCEPT ![c] = "sgi"]
    /\ UNCHANGED <<pc0, again, irq0, irq, x3, secureVars, missed>>

Sgi(c) ==
    /\ pcs[c] = "sgi"
    /\ irq0' = TRUE
    /\ pcs' = [pcs EXCEPT ![c] = IF again[c] THEN "ack" ELSE "wfi"]
    /\ UNCHANGED <<pc0, again, irq, skip, x3, excl, secureVars, missed>>

WfiS(c) ==
    /\ pcs[c] = "wfi" /\ irq[c]
    /\ pcs' = [pcs EXCEPT ![c] = "ack"]
    /\ UNCHANGED <<pc0, again, irq0, irq, skip, x3, excl, secureVars, missed>>

\* A secure timer or interrupt makes a thread ready on CPU c.
Timer(c) ==
    /\ Ready(c)
    /\ UNCHANGED <<pc0, secondaryVars, irq0, skip, x3, excl, evt, waitOn, missed>>

Cpu0Step ==
    \/ Ack0 \/ GetEvent \/ GetNone \/ GetBusy \/ (\E c \in Secondaries : GetBlocked(c))
    \/ HasEvent \/ Ldaxr \/ Stxr \/ Wfi0

SecondaryStep(c) == AckS(c) \/ Nop(c) \/ Stlr(c) \/ Sgi(c) \/ WfiS(c)

Next == Cpu0Step \/ \E c \in Secondaries : SecondaryStep(c) \/ Timer(c)

Spec == Init /\ [][Next]_vars

(***************************************************************************)
(* Fairness: CPUs run, wfi ends when an interrupt is pending, and a call   *)
(* that need not wait for other CPUs is not made to wait for ever.         *)
(***************************************************************************)
FairSpec ==
    /\ Spec
    /\ WF_vars(Cpu0Step) /\ SF_vars(GetEvent)
    /\ \A c \in Secondaries : WF_vars(SecondaryStep(c))

(***************************************************************************)
(* Properties.                                                             *)
(***************************************************************************)

\* A secondary CPU is about to interrupt CPU 0, or has done so and CPU 0 has
\* not acknowledged it.
Signalled == irq0 \/ \E c \in Secondaries : pcs[c] \in {"stlr", "sgi"}

\* No CPU sleeps through what it is waiting for: when CPU 0 is in wfi and the
\* IPC device has an event, or the call it waits to restart can go on, and when
\* a secondary CPU is in wfi with work ready, an interrupt is pending or on its
\* way ("this call needs to return without waiting for another interrupt if a
\* secondary CPU ... has entered idle since the last such call", sysdeps.h); a
\* busy call is made again when the CPU it was busy with has left its own.  Only
\* a HAS_EVENT that failed (it then answers false) lets CPU 0 sleep on an event
\* nobody signals.
NoLostWakeup ==
    /\ pc0 = "wfi" /\ evt => Signalled \/ missed
    /\ pc0 = "cpu_idle" /\ waitOn = None => Signalled
    /\ pc0 = "busy_idle" => Signalled \/ \E c \in Secondaries : pcs[c] = "nop"
    /\ \A c \in Secondaries : pcs[c] = "wfi" /\ work[c] => irq[c]

\* Every event of the IPC device is delivered to CPU 0, whichever CPU produced
\* it and whatever CPU 0 was doing then, unless trusty_ipc_dev_has_event failed
\* and CPU 0 went to sleep on it.
EventsDelivered == evt ~> ~evt \/ (pc0 = "wfi" /\ missed)
=============================================================================
