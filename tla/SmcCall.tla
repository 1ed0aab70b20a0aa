------------------------------ MODULE SmcCall ------------------------------
(***************************************************************************)
(* Standard calls into the secure OS, src/ql-tipc/trusty_dev_common.c.     *)
(* Several CPUs call: some issue commands (under the device lock), the     *)
(* others enter the secure OS with NOP to lend it their CPU (without the   *)
(* lock).  A call may come back before it is done: BUSY is retried with    *)
(* the same arguments, INTERRUPTED and CPU_IDLE with RESTART_LAST, and     *)
(* FIQ_INTERRUPTED with RESTART_FIQ, at once and on the same CPU.          *)
(*                                                                         *)
(* The secure monitor (job, fiq, waits) is external; it is modelled from   *)
(* the return codes documented in sm_err.h and smcall.h.                   *)
(***************************************************************************)
EXTENDS Naturals

CONSTANTS
    Callers,  \* CPUs that issue commands
    Nops,     \* CPUs that issue NOP calls only
    None,
    Retries   \* retry = 5 in trusty_std_call_inner

Cpus == Callers \cup Nops

ASSUME SmcAssumption ==
    /\ Callers \cap Nops = {}
    /\ None \notin Cpus
    /\ Retries \in Nat

VARIABLES
    pc,     \* where the call of each CPU is
    nr,     \* the smc number it issues
    ret,    \* what the last smc returned
    retry,  \* retries left in trusty_std_call_inner
    tries,  \* history: times the smc was issued since interrupts were masked, by
            \* the retry loop: the restarts of its inner FIQ loop are not counted
    masked, \* interrupts masked on this CPU
    lock,   \* holder of the device lock
    job,    \* monitor: caller whose command is begun and not finished
    fiq,    \* monitor: CPUs that left by FIQ_INTERRUPTED
    waits   \* monitor: the begun command waits for another CPU to run

vars == <<pc, nr, ret, retry, tries, masked, lock, job, fiq, waits>>

Rets == {"none", "OK", "BUSY", "INTERRUPTED", "CPU_IDLE", "FIQ", "NOP_DONE",
         "NOP_INTERRUPTED", "UNEXPECTED_RESTART", "INTERLEAVED"}

TypeOK ==
    /\ pc \in [Cpus -> {"user", "lock", "disable", "smc", "fiq", "restore", "idle", "unlock"}]
    /\ nr \in [Cpus -> {"CMD", "RESTART_LAST", "NOP"}]
    /\ ret \in [Cpus -> Rets]
    /\ retry \in [Cpus -> 0 .. Retries]
    /\ tries \in [Cpus -> Nat]
    /\ masked \in [Cpus -> BOOLEAN]
    /\ lock \in Cpus \cup {None}
    /\ job \in Cpus \cup {None}
    /\ fiq \in SUBSET Cpus
    /\ waits \in BOOLEAN

Init ==
    /\ pc = [c \in Cpus |-> "user"]
    /\ nr = [c \in Cpus |-> "NOP"]
    /\ ret = [c \in Cpus |-> "none"]
    /\ retry = [c \in Cpus |-> 0]
    /\ tries = [c \in Cpus |-> 0]
    /\ masked = [c \in Cpus |-> FALSE]
    /\ lock = None /\ job = None /\ fiq = {} /\ waits = FALSE

monVars == <<job, fiq, waits>>

\* Mutant of Locks: SMC_SC_NOP takes the lock too.
LocksAlways(n) == TRUE

\* smcnr != SMC_SC_NOP: the call takes the device lock, and releases it.
Locks(n) == n # "NOP"

\* trusty_std_call32 is entered.
Start(c, n) ==
    /\ pc[c] = "user"
    /\ nr' = [nr EXCEPT ![c] = n]
    /\ ret' = [ret EXCEPT ![c] = "none"]
    /\ pc' = [pc EXCEPT ![c] = IF Locks(n) THEN "lock" ELSE "disable"]
    /\ UNCHANGED <<retry, tries, masked, lock, monVars>>

StartCall(c) == c \in Callers /\ Start(c, "CMD")
StartNop(c) == c \in Nops /\ Start(c, "NOP")

Lock(c) ==
    /\ pc[c] = "lock" /\ lock = None
    /\ lock' = c
    /\ pc' = [pc EXCEPT ![c] = "disable"]
    /\ UNCHANGED <<nr, ret, retry, tries, masked, monVars>>

\* trusty_std_call_helper masks interrupts and calls trusty_std_call_inner.
Disable(c) ==
    /\ pc[c] = "disable"
    /\ masked' = [masked EXCEPT ![c] = TRUE]
    /\ retry' = [retry EXCEPT ![c] = Retries]
    /\ pc' = [pc EXCEPT ![c] = "smc"]
    /\ UNCHANGED <<nr, ret, tries, lock, monVars>>

\* Mutant of InnerStep: "|| !retry" is missing.
InnerStepUnlimited(c, r) ==
    /\ ret' = [ret EXCEPT ![c] = r]
    /\ \/ r = "FIQ" /\ pc' = [pc EXCEPT ![c] = "fiq"] /\ UNCHANGED retry
       \/ /\ r = "BUSY"
          /\ pc' = [pc EXCEPT ![c] = "smc"]
          /\ retry' = [retry EXCEPT ![c] = @ - 1]
       \/ /\ r \notin {"FIQ", "BUSY"}
          /\ pc' = [pc EXCEPT ![c] = "restore"]
          /\ UNCHANGED retry

\* What trusty_std_call_inner does with a return value r.
InnerStep(c, r) ==
    /\ ret' = [ret EXCEPT ![c] = r]
    /\ \/ r = "FIQ" /\ pc' = [pc EXCEPT ![c] = "fiq"] /\ UNCHANGED retry
       \/ /\ r = "BUSY" /\ retry[c] > 0
          /\ pc' = [pc EXCEPT ![c] = "smc"]
          /\ retry' = [retry EXCEPT ![c] = @ - 1]
       \/ /\ r # "FIQ" /\ (r = "BUSY" => retry[c] = 0)
          /\ pc' = [pc EXCEPT ![c] = "restore"]
          /\ UNCHANGED retry

(***************************************************************************)
(* The monitor runs the command of caller j on CPU c and comes back.       *)
(***************************************************************************)

Finishes(c) ==
    /\ ~waits
    /\ job' = None /\ fiq' = fiq \ {c} /\ UNCHANGED waits
    /\ InnerStep(c, "OK")

Stops(c, j) ==
    /\ job' = j
    /\ \/ InnerStep(c, "INTERRUPTED") /\ fiq' = fiq \ {c} /\ UNCHANGED waits
       \/ InnerStep(c, "FIQ") /\ fiq' = fiq \cup {c} /\ UNCHANGED waits
       \/ /\ Nops # {} /\ waits' = TRUE
          /\ InnerStep(c, "CPU_IDLE") /\ fiq' = fiq \ {c}

\* The monitor refuses.
Refuses(c, r) == InnerStep(c, r) /\ UNCHANGED monVars

\* smc(smcnr, ...) with a command.
SmcCmd(c) ==
    /\ pc[c] = "smc" /\ nr[c] = "CMD"
    /\ tries' = [tries EXCEPT ![c] = @ + 1]
    /\ \/ (job # None \/ c \in fiq) /\ Refuses(c, "INTERLEAVED")
       \/ job = None /\ c \notin fiq /\ (Refuses(c, "BUSY") \/ Finishes(c) \/ Stops(c, c))
    /\ UNCHANGED <<nr, masked, lock>>

\* smc(SMC_SC_RESTART_LAST, 0, 0, 0).
SmcRestart(c) ==
    /\ pc[c] = "smc" /\ nr[c] = "RESTART_LAST"
    /\ tries' = [tries EXCEPT ![c] = @ + 1]
    /\ \/ (job = None \/ c \in fiq) /\ Refuses(c, "UNEXPECTED_RESTART")
       \/ job # None /\ c \notin fiq /\ (Refuses(c, "BUSY") \/ Finishes(c) \/ Stops(c, job))
    /\ UNCHANGED <<nr, masked, lock>>

\* A NOP call ran what was pending on this CPU.
NopRuns(c) ==
    /\ \E r \in {"NOP_DONE", "NOP_INTERRUPTED"} : InnerStep(c, r)
    /\ waits' = FALSE /\ fiq' = fiq \ {c} /\ UNCHANGED job

NopStops(c) ==
    /\ InnerStep(c, "FIQ") /\ fiq' = fiq \cup {c} /\ UNCHANGED <<job, waits>>

\* smc(SMC_SC_NOP, ...).
SmcNop(c) ==
    /\ pc[c] = "smc" /\ nr[c] = "NOP"
    /\ tries' = [tries EXCEPT ![c] = @ + 1]
    /\ \/ c \in fiq /\ Refuses(c, "INTERLEAVED")
       \/ c \notin fiq /\ (Refuses(c, "BUSY") \/ NopRuns(c) \/ NopStops(c))
    /\ UNCHANGED <<nr, masked, lock>>

\* smc(SMC_SC_RESTART_FIQ, 0, 0, 0): what was running on this CPU goes on, as
\* part of the same attempt.
SmcRestartFiq(c) ==
    /\ pc[c] = "fiq"
    /\ \/ c \notin fiq /\ Refuses(c, "UNEXPECTED_RESTART")
       \/ c \in fiq /\ nr[c] = "NOP" /\ (NopRuns(c) \/ NopStops(c))
       \/ c \in fiq /\ nr[c] # "NOP" /\ (Finishes(c) \/ Stops(c, job))
    /\ UNCHANGED <<nr, tries, masked, lock>>

(***************************************************************************)
(* The loops of trusty_std_call_helper and trusty_std_call32.              *)
(***************************************************************************)

\* Mutant of Restore: an interrupted command is issued again from its start.
RestoreReissues(c) ==
    /\ pc[c] = "restore"
    /\ masked' = [masked EXCEPT ![c] = FALSE]
    /\ tries' = [tries EXCEPT ![c] = 0]
    /\ pc' = [pc EXCEPT ![c] =
                 IF ret[c] \in {"BUSY", "CPU_IDLE"} THEN "idle"
                 ELSE IF ret[c] = "INTERRUPTED" THEN "disable"
                 ELSE IF Locks(nr[c]) THEN "unlock"
                 ELSE "user"]
    /\ UNCHANGED <<nr, ret, retry, lock, monVars>>

\* Mutant of Restore: trusty_std_call_helper idles with interrupts masked.
RestoreLate(c) ==
    /\ pc[c] = "restore"
    /\ masked' = [masked EXCEPT ![c] = ret[c] = "BUSY"]
    /\ tries' = [tries EXCEPT ![c] = 0]
    /\ nr' = [nr EXCEPT ![c] = IF ret[c] \in {"INTERRUPTED", "CPU_IDLE"}
                               THEN "RESTART_LAST" ELSE @]
    /\ pc' = [pc EXCEPT ![c] =
                 IF ret[c] \in {"BUSY", "CPU_IDLE"} THEN "idle"
                 ELSE IF ret[c] = "INTERRUPTED" THEN "disable"
                 ELSE IF Locks(nr[c]) THEN "unlock"
                 ELSE "user"]
    /\ UNCHANGED <<ret, retry, lock, monVars>>

\* Mutant of Restore: trusty_std_call32 restarts after INTERRUPTED only.
RestoreGivesUp(c) ==
    /\ pc[c] = "restore"
    /\ masked' = [masked EXCEPT ![c] = FALSE]
    /\ tries' = [tries EXCEPT ![c] = 0]
    /\ nr' = [nr EXCEPT ![c] = IF ret[c] = "INTERRUPTED" THEN "RESTART_LAST" ELSE @]
    /\ pc' = [pc EXCEPT ![c] =
                 IF ret[c] = "BUSY" THEN "idle"
                 ELSE IF ret[c] = "INTERRUPTED" THEN "disable"
                 ELSE IF Locks(nr[c]) THEN "unlock"
                 ELSE "user"]
    /\ UNCHANGED <<ret, retry, lock, monVars>>

\* Interrupts are restored; the return value decides how the loops go on.
Restore(c) ==
    /\ pc[c] = "restore"
    /\ masked' = [masked EXCEPT ![c] = FALSE]
    /\ tries' = [tries EXCEPT ![c] = 0]
    /\ nr' = [nr EXCEPT ![c] = IF ret[c] \in {"INTERRUPTED", "CPU_IDLE"}
                               THEN "RESTART_LAST" ELSE @]
    /\ pc' = [pc EXCEPT ![c] =
                 IF ret[c] \in {"BUSY", "CPU_IDLE"} THEN "idle"
                 ELSE IF ret[c] = "INTERRUPTED" THEN "disable"
                 ELSE IF Locks(nr[c]) THEN "unlock"
                 ELSE "user"]
    /\ UNCHANGED <<ret, retry, lock, monVars>>

\* trusty_idle(dev, false) returns.
Idle(c) ==
    /\ pc[c] = "idle"
    /\ pc' = [pc EXCEPT ![c] = "disable"]
    /\ UNCHANGED <<nr, ret, retry, tries, masked, lock, monVars>>

Unlock(c) ==
    /\ pc[c] = "unlock"
    /\ lock' = None
    /\ pc' = [pc EXCEPT ![c] = "user"]
    /\ UNCHANGED <<nr, ret, retry, tries, masked, monVars>>

Step(c) ==
    \/ StartCall(c) \/ StartNop(c) \/ Lock(c) \/ Disable(c)
    \/ SmcCmd(c) \/ SmcRestart(c) \/ SmcNop(c) \/ SmcRestartFiq(c)
    \/ Restore(c) \/ Idle(c) \/ Unlock(c)

Next == \E c \in Cpus : Step(c)

Spec == Init /\ [][Next]_vars

(***************************************************************************)
(* Fairness.  CPUs run; the NOP loop of a secondary CPU never ends; the    *)
(* mutex is fair.  The monitor neither refuses nor interrupts a CPU for    *)
(* ever: a call that could have come to its end again and again does.  A   *)
(* CPU idling in a command that waits for another CPU is woken by that     *)
(* CPU's own trusty_idle (CpuIdle), so only once the command can go on.    *)
(***************************************************************************)
Fairness ==
    \A c \in Cpus :
        /\ WF_vars(\/ StartNop(c) \/ Disable(c) \/ Restore(c) \/ Unlock(c)
                   \/ SmcCmd(c) \/ SmcRestart(c) \/ SmcNop(c) \/ SmcRestartFiq(c))
        /\ SF_vars(Lock(c))
        /\ WF_vars(Idle(c) /\ (ret[c] = "CPU_IDLE" => ~waits))
        /\ SF_vars((SmcCmd(c) \/ SmcRestart(c) \/ SmcRestartFiq(c)) /\ ret'[c] = "OK")
        /\ SF_vars((SmcNop(c) \/ SmcRestartFiq(c)) /\ ret'[c] = "NOP_DONE")

FairSpec == Spec /\ Fairness

(***************************************************************************)
(* Properties.                                                             *)
(***************************************************************************)

\* The monitor never sees an smc out of order (SM_ERR_UNEXPECTED_RESTART, "Got
\* an restart SMC when we didn't expect it"; SM_ERR_INTERLEAVED_SMC, "Got a
\* trusted_service SMC when a restart SMC is required"): every code that asks
\* for a restart is answered with that restart, on the CPU that got it, before
\* another command is issued by anyone.
NoProtocolError == \A c \in Cpus : ret[c] \notin {"UNEXPECTED_RESTART", "INTERLEAVED"}

\* Interrupts are masked around the smcs only, and for Retries + 1 attempts at
\* most: a monitor that stays busy is left to be polled from trusty_idle.  Each
\* attempt may be restarted without a bound after FIQ_INTERRUPTED, with interrupts
\* masked: that loop of trusty_std_call_inner has no limit.
MaskedBriefly ==
    \A c \in Cpus :
        /\ masked[c] <=> pc[c] \in {"smc", "fiq", "restore"}
        /\ masked[c] => tries[c] <= Retries + 1

\* The call as its caller sees it.
CallState ==
    [c \in Callers |-> IF pc[c] = "user" THEN "idle"
                       ELSE IF ret[c] = "OK" THEN "done"
                       ELSE IF job = c THEN "begun"
                       ELSE "called"]

Abs == INSTANCE SmcAbstract WITH state <- CallState

\* However often the monitor is busy or interrupts it, a command is executed
\* exactly once, alone, and its call returns after it: trusty_std_call32
\* implements the abstract call.
ExactlyOnce == Abs!Spec

\* Every command returns, also when it waits for another CPU: that CPU's NOP
\* call does not need the lock the waiting command holds.
CommandReturns == \A c \in Callers : (pc[c] # "user") ~> (pc[c] = "user")
=============================================================================
