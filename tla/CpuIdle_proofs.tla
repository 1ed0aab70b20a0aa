--------------------------- MODULE CpuIdle_proofs ---------------------------
(***************************************************************************)
(* Proof that no wake-up is lost, for every set of secondary CPUs.         *)
(*                                                                         *)
(* NoLostWakeup speaks of sleeping CPUs only and is not inductive: the     *)
(* danger is in the steps between the last look at the events and wfi.     *)
(* IdleInv says the same of those steps: from has_event to wfi CPU 0       *)
(* acknowledges no interrupt, so an event produced since then comes with a *)
(* signal that is still there, unless HAS_EVENT failed and hid an older    *)
(* one.                                                                    *)
(***************************************************************************)
EXTENDS CpuIdle, TLAPS

EventSignalled == pc0 \in {"ldaxr", "stxr", "wfi"} /\ evt => Signalled \/ missed

RestartSignalled == pc0 = "cpu_idle" /\ waitOn = None => Signalled

BusySignalled ==
    pc0 = "busy_idle" => Signalled \/ \E c \in Secondaries : pcs[c] = "nop"

WorkSignalled ==
    \A c \in Secondaries : pcs[c] \in {"stlr", "sgi", "wfi"} /\ work[c] => irq[c]

IdleInv == TypeOK /\ EventSignalled /\ RestartSignalled /\ BusySignalled /\ WorkSignalled

\* The CPUs start awake and with nothing pending, so the invariant holds.
LEMMA IdleInit == Init => IdleInv
  BY IdleAssumption DEF Init, IdleInv, TypeOK, EventSignalled, RestartSignalled, BusySignalled, WorkSignalled

\* CPU 0 keeps the invariant.
LEMMA Cpu0Keeps == IdleInv /\ Cpu0Step => IdleInv'
<1> USE DEF IdleInv, TypeOK, EventSignalled, RestartSignalled, BusySignalled, WorkSignalled, Signalled,
            secondaryVars, secureVars
<1> SUFFICES ASSUME IdleInv, Cpu0Step PROVE IdleInv'
  OBVIOUS
<1>1. CASE Ack0
  BY <1>1 DEF Ack0
<1>2. CASE GetEvent
  BY <1>2 DEF GetEvent
<1>3. CASE GetNone
  BY <1>3 DEF GetNone
<1>a. CASE GetBusy
  BY <1>a DEF GetBusy
<1>4. ASSUME NEW c \in Secondaries, GetBlocked(c) PROVE IdleInv'
  BY <1>4, IdleAssumption DEF GetBlocked, Ready
<1>5. CASE HasEvent
  BY <1>5 DEF HasEvent
<1>6. CASE Ldaxr
  BY <1>6 DEF Ldaxr
<1>7. CASE Stxr
  BY <1>7 DEF Stxr
<1>8. CASE Wfi0
  BY <1>8 DEF Wfi0
<1> QED
  BY <1>1, <1>2, <1>3, <1>a, <1>4, <1>5, <1>6, <1>7, <1>8 DEF Cpu0Step

\* A secondary CPU and the secure timers keep it.
LEMMA SecondaryKeeps ==
  ASSUME NEW c \in Secondaries, IdleInv, SecondaryStep(c) \/ Timer(c)
  PROVE  IdleInv'
<1> USE DEF IdleInv, TypeOK, EventSignalled, RestartSignalled, BusySignalled, WorkSignalled, Signalled,
            secondaryVars, secureVars
<1>1. CASE AckS(c)
  BY <1>1 DEF AckS
<1>2. CASE Nop(c)
  BY ZenonT(30), <1>2 DEF Nop
<1>3. CASE Stlr(c)
  BY ZenonT(30), <1>3 DEF Stlr
<1>4. CASE Sgi(c)
  BY <1>4 DEF Sgi
<1>5. CASE WfiS(c)
  BY <1>5 DEF WfiS
<1>6. CASE Timer(c)
  BY <1>6 DEF Timer, Ready
<1> QED
  BY <1>1, <1>2, <1>3, <1>4, <1>5, <1>6 DEF SecondaryStep

\* Every step keeps the invariant: one case for CPU 0, one for the others.
LEMMA IdleStep == IdleInv /\ [Next]_vars => IdleInv'
<1> SUFFICES ASSUME IdleInv, [Next]_vars PROVE IdleInv'
  OBVIOUS
<1>1. CASE Cpu0Step
  BY <1>1, Cpu0Keeps
<1>2. ASSUME NEW c \in Secondaries, SecondaryStep(c) \/ Timer(c) PROVE IdleInv'
  BY <1>2, SecondaryKeeps
<1>3. CASE UNCHANGED vars
  BY <1>3 DEF vars, IdleInv, TypeOK, EventSignalled, RestartSignalled, BusySignalled, WorkSignalled, Signalled
<1> QED
  BY <1>1, <1>2, <1>3 DEF Next

\* From HAS_EVENT to wfi CPU 0 keeps a signal for every event a HAS_EVENT that
\* worked did not see, for its restart and for its retry, and a secondary CPU for
\* its work (trusty_idle), in every reachable state.
THEOREM IdleInvariant == Spec => []IdleInv
<1>1. Init => IdleInv
  BY IdleInit
<1>2. IdleInv /\ [Next]_vars => IdleInv'
  BY IdleStep
<1> QED
  BY <1>1, <1>2, PTL DEF Spec

\* Every variable of the idle protocol keeps its type.
THEOREM IdleTypeCorrect == Spec => []TypeOK
<1>1. IdleInv => TypeOK
  BY DEF IdleInv
<1> QED
  BY <1>1, IdleInvariant, PTL

\* For any number of secondary CPUs, no CPU in trusty_idle sleeps through the
\* event, the restart, the end of the other CPU's call or the work it waits for,
\* except for an event that a failed trusty_ipc_dev_has_event hid.
THEOREM WakeupsNotLost == Spec => []NoLostWakeup
<1>1. IdleInv => NoLostWakeup
  BY DEF IdleInv, NoLostWakeup, EventSignalled, RestartSignalled, BusySignalled, WorkSignalled
<1> QED
  BY <1>1, IdleInvariant, PTL
=============================================================================
