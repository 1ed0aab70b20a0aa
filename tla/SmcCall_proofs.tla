--------------------------- MODULE SmcCall_proofs ---------------------------
(***************************************************************************)
(* Proofs about standard calls, for any number of CPUs and any number of   *)
(* retries: the monitor sees no smc out of order, interrupts are masked    *)
(* briefly, and trusty_std_call32 implements the abstract call.            *)
(*                                                                         *)
(* The invariant ties the monitor's unfinished command to the holder of    *)
(* the lock and to where that caller is: it exists exactly while the       *)
(* caller is going to issue RESTART_LAST or RESTART_FIQ next.              *)
(***************************************************************************)
EXTENDS SmcCall, TLAPS

\* The holder of the lock is the caller inside its call.
LockInv ==
    /\ lock \in Callers \cup {None}
    /\ \A c \in Callers :
          lock = c <=> pc[c] \in {"disable", "smc", "fiq", "restore", "idle", "unlock"}

\* The unfinished command is the lock holder's.
JobInv == job # None => job = lock

\* What a caller does next fits what the monitor knows of its command.
CallerInv ==
    \A c \in Callers :
        /\ pc[c] # "user" => nr[c] # "NOP"
        /\ pc[c] = "lock" => nr[c] = "CMD"
        /\ pc[c] \in {"lock", "disable", "smc", "idle"} =>
              (job = c <=> nr[c] = "RESTART_LAST") /\ ret[c] # "OK"
        /\ pc[c] = "fiq" => job = c /\ ret[c] # "OK"
        /\ pc[c] = "restore" =>
              \/ ret[c] = "OK" /\ job # c
              \/ ret[c] = "BUSY" /\ (job = c <=> nr[c] = "RESTART_LAST")
              \/ ret[c] \in {"INTERRUPTED", "CPU_IDLE"} /\ job = c
        /\ pc[c] = "unlock" => ret[c] = "OK" /\ job # c

NopInv ==
    \A c \in Nops :
        /\ nr[c] = "NOP" /\ pc[c] \notin {"lock", "unlock"}
        /\ ret[c] \in {"none", "BUSY", "FIQ", "NOP_DONE", "NOP_INTERRUPTED"}

FiqInv == \A c \in Cpus : c \in fiq <=> pc[c] = "fiq"

\* Attempts made and retries left add up.
TriesInv ==
    \A c \in Cpus :
        /\ pc[c] = "smc" => tries[c] + retry[c] = Retries
        /\ pc[c] \in {"fiq", "restore"} => tries[c] + retry[c] = Retries + 1
        /\ pc[c] \notin {"smc", "fiq", "restore"} => tries[c] = 0
        /\ masked[c] <=> pc[c] \in {"smc", "fiq", "restore"}

SmcInv == TypeOK /\ LockInv /\ JobInv /\ CallerInv /\ NopInv /\ FiqInv /\ TriesInv /\ NoProtocolError

\* No CPU is in a call at first, so the invariant holds.
LEMMA SmcInit == Init => SmcInv
<1> SUFFICES ASSUME Init PROVE SmcInv
  OBVIOUS
<1>1. TypeOK
  <2>1. masked \in [Cpus -> BOOLEAN] /\ waits \in BOOLEAN
    BY DEF Init
  <2>2. /\ retry \in [Cpus -> 0 .. Retries] /\ tries \in [Cpus -> Nat]
        /\ lock \in Cpus \cup {None} /\ job \in Cpus \cup {None} /\ fiq \in SUBSET Cpus
    BY SmcAssumption DEF Init
  <2>3. /\ pc \in [Cpus -> {"user", "lock", "disable", "smc", "fiq", "restore", "idle", "unlock"}]
        /\ nr \in [Cpus -> {"CMD", "RESTART_LAST", "NOP"}] /\ ret \in [Cpus -> Rets]
    BY DEF Init, Rets
  <2> QED
    BY <2>1, <2>2, <2>3 DEF TypeOK
<1>2. LockInv /\ JobInv /\ CallerInv
  BY SmcAssumption DEF Init, LockInv, JobInv, CallerInv, Cpus
<1>3. NopInv /\ FiqInv /\ TriesInv /\ NoProtocolError
  BY SmcAssumption DEF Init, NopInv, FiqInv, TriesInv, NoProtocolError, Cpus
<1> QED
  BY <1>1, <1>2, <1>3 DEF SmcInv

\* An smc that returns r on CPU c keeps the invariant, provided the monitor's
\* record of the unfinished command changes as r says.
LEMMA ReturnKeeps ==
  ASSUME SmcInv,
         NEW c \in Cpus, NEW r \in Rets,
         pc[c] \in {"smc", "fiq"}, InnerStep(c, r),
         UNCHANGED <<nr, masked, lock>>, waits' \in BOOLEAN,
         tries' = [tries EXCEPT ![c] = IF pc[c] = "smc" THEN @ + 1 ELSE @],
         fiq' = IF r = "FIQ" THEN fiq \cup {c} ELSE fiq \ {c},
         pc[c] = "fiq" => r # "BUSY",
         c \in Callers => /\ r \in {"OK", "BUSY", "INTERRUPTED", "FIQ", "CPU_IDLE"}
                          /\ job' = IF r = "OK" THEN None ELSE IF r = "BUSY" THEN job ELSE c,
         c \in Nops => r \in {"BUSY", "FIQ", "NOP_DONE", "NOP_INTERRUPTED"} /\ job' = job
  PROVE  SmcInv'
<1> USE SmcAssumption DEF SmcInv, Cpus
<1>a. /\ ret' = [ret EXCEPT ![c] = r]
      /\ \/ r = "FIQ" /\ pc' = [pc EXCEPT ![c] = "fiq"] /\ retry' = retry
         \/ /\ r = "BUSY" /\ retry[c] > 0
            /\ pc' = [pc EXCEPT ![c] = "smc"] /\ retry' = [retry EXCEPT ![c] = @ - 1]
         \/ /\ r # "FIQ" /\ (r = "BUSY" => retry[c] = 0)
            /\ pc' = [pc EXCEPT ![c] = "restore"] /\ retry' = retry
  BY DEF InnerStep
<1>1. TypeOK'
  <2>1. retry' \in [Cpus -> 0 .. Retries]
    BY <1>a DEF TypeOK
  <2>2. tries' \in [Cpus -> Nat]
    BY DEF TypeOK
  <2>3. /\ pc' \in [Cpus -> {"user", "lock", "disable", "smc", "fiq", "restore", "idle", "unlock"}]
        /\ ret' \in [Cpus -> Rets]
    BY <1>a DEF TypeOK
  <2>4. job' \in Cpus \cup {None} /\ fiq' \in SUBSET Cpus
    BY DEF TypeOK
  <2> QED
    BY <2>1, <2>2, <2>3, <2>4 DEF TypeOK
<1>2. LockInv'
  BY <1>a DEF TypeOK, LockInv
<1>3. JobInv'
  BY <1>a DEF TypeOK, LockInv, JobInv
<1>4. CallerInv'
  <2> SUFFICES ASSUME NEW d \in Callers
               PROVE  CallerInv!(d)'
    BY DEF CallerInv
  <2>1. CASE d = c
    BY <2>1, <1>a DEF TypeOK, CallerInv, JobInv, LockInv
  <2>2. CASE d # c
    <3>1. pc'[d] = pc[d] /\ ret'[d] = ret[d] /\ nr'[d] = nr[d]
      BY <2>2, <1>a DEF TypeOK
    <3>2. job' = d <=> job = d
      BY <2>2 DEF TypeOK, CallerInv, JobInv, LockInv
    <3> QED
      BY <3>1, <3>2 DEF CallerInv
  <2> QED
    BY <2>1, <2>2
<1>5. NopInv'
  BY <1>a DEF TypeOK, NopInv
<1>6. FiqInv'
  BY <1>a DEF TypeOK, FiqInv
<1>7. TriesInv'
  BY <1>a DEF TypeOK, TriesInv
<1>8. NoProtocolError'
  BY <1>a DEF TypeOK, NoProtocolError
<1> QED
  BY <1>1, <1>2, <1>3, <1>4, <1>5, <1>6, <1>7, <1>8

\* Where the CPUs that issue each smc are, and what the monitor knows then.
LEMMA AtSmc ==
  ASSUME SmcInv, NEW c \in Cpus
  PROVE  /\ pc[c] = "smc" => c \notin fiq
         /\ pc[c] = "fiq" => c \in fiq
         /\ pc[c] \in {"smc", "fiq"} /\ nr[c] = "NOP" => c \in Nops /\ c \notin Callers
         /\ pc[c] \in {"smc", "fiq"} /\ nr[c] # "NOP" => c \in Callers /\ c \notin Nops
         /\ pc[c] = "smc" /\ nr[c] = "CMD" => job = None
         /\ pc[c] = "smc" /\ nr[c] = "RESTART_LAST" => job = c
         /\ pc[c] = "fiq" /\ nr[c] # "NOP" => job = c
  BY SmcAssumption DEF SmcInv, FiqInv, NopInv, CallerInv, LockInv, JobInv, TypeOK, Cpus

\* The smc of a command keeps the invariant: it is only issued afresh.
LEMMA SmcCmdKeeps ==
  ASSUME SmcInv, NEW c \in Cpus, SmcCmd(c)
  PROVE  SmcInv'
<1>1. /\ c \in Callers /\ c \notin Nops /\ job = None /\ c \notin fiq
      /\ pc[c] = "smc" /\ waits \in BOOLEAN
  BY AtSmc DEF SmcCmd, SmcInv, TypeOK
<1>2. /\ UNCHANGED <<nr, masked, lock>>
      /\ tries' = [tries EXCEPT ![c] = IF pc[c] = "smc" THEN @ + 1 ELSE @]
  BY <1>1 DEF SmcCmd
<1>3. PICK r \in {"OK", "BUSY", "INTERRUPTED", "FIQ", "CPU_IDLE"} :
         /\ InnerStep(c, r) /\ waits' \in BOOLEAN
         /\ fiq' = IF r = "FIQ" THEN fiq \cup {c} ELSE fiq \ {c}
         /\ job' = IF r = "OK" THEN None ELSE IF r = "BUSY" THEN job ELSE c
  BY <1>1 DEF SmcCmd, Refuses, Finishes, Stops, monVars
<1> QED
  BY <1>1, <1>2, <1>3, ReturnKeeps DEF Rets

\* SMC_SC_RESTART_LAST keeps the invariant: its command is unfinished.
LEMMA SmcRestartKeeps ==
  ASSUME SmcInv, NEW c \in Cpus, SmcRestart(c)
  PROVE  SmcInv'
<1>1. /\ c \in Callers /\ c \notin Nops /\ job = c /\ c \notin fiq
      /\ pc[c] = "smc" /\ waits \in BOOLEAN
  BY AtSmc DEF SmcRestart, SmcInv, TypeOK
<1>2. /\ UNCHANGED <<nr, masked, lock>>
      /\ tries' = [tries EXCEPT ![c] = IF pc[c] = "smc" THEN @ + 1 ELSE @]
  BY <1>1 DEF SmcRestart
<1>3. job # None
  BY <1>1, SmcAssumption DEF Cpus
<1>4. PICK r \in {"OK", "BUSY", "INTERRUPTED", "FIQ", "CPU_IDLE"} :
         /\ InnerStep(c, r) /\ waits' \in BOOLEAN
         /\ fiq' = IF r = "FIQ" THEN fiq \cup {c} ELSE fiq \ {c}
         /\ job' = IF r = "OK" THEN None ELSE IF r = "BUSY" THEN job ELSE c
  BY <1>1, <1>3 DEF SmcRestart, Refuses, Finishes, Stops, monVars
<1> QED
  BY <1>1, <1>2, <1>4, ReturnKeeps DEF Rets

\* SMC_SC_NOP keeps the invariant, although it does not hold the lock.
LEMMA SmcNopKeeps ==
  ASSUME SmcInv, NEW c \in Cpus, SmcNop(c)
  PROVE  SmcInv'
<1>1. c \in Nops /\ c \notin Callers /\ c \notin fiq /\ pc[c] = "smc" /\ waits \in BOOLEAN
  BY AtSmc DEF SmcNop, SmcInv, TypeOK
<1>2. /\ UNCHANGED <<nr, masked, lock>>
      /\ tries' = [tries EXCEPT ![c] = IF pc[c] = "smc" THEN @ + 1 ELSE @]
  BY <1>1 DEF SmcNop
<1>3. PICK r \in {"BUSY", "FIQ", "NOP_DONE", "NOP_INTERRUPTED"} :
         /\ InnerStep(c, r) /\ waits' \in BOOLEAN
         /\ fiq' = IF r = "FIQ" THEN fiq \cup {c} ELSE fiq \ {c}
         /\ job' = job
  BY <1>1 DEF SmcNop, Refuses, NopRuns, NopStops, monVars
<1> QED
  BY <1>1, <1>2, <1>3, ReturnKeeps DEF Rets

\* SMC_SC_RESTART_FIQ keeps the invariant: the CPU left by a FIQ before it.
LEMMA SmcRestartFiqKeeps ==
  ASSUME SmcInv, NEW c \in Cpus, SmcRestartFiq(c)
  PROVE  SmcInv'
<1>1. c \in fiq /\ pc[c] = "fiq" /\ waits \in BOOLEAN /\ tries \in [Cpus -> Nat]
  BY AtSmc DEF SmcRestartFiq, SmcInv, TypeOK
<1>2. /\ UNCHANGED <<nr, masked, lock>>
      /\ tries' = [tries EXCEPT ![c] = IF pc[c] = "smc" THEN @ + 1 ELSE @]
  BY <1>1 DEF SmcRestartFiq
<1>3. CASE nr[c] = "NOP"
  <2>1. c \in Nops /\ c \notin Callers
    BY <1>1, <1>3, AtSmc
  <2>2. PICK r \in {"FIQ", "NOP_DONE", "NOP_INTERRUPTED"} :
           /\ InnerStep(c, r) /\ waits' \in BOOLEAN
           /\ fiq' = IF r = "FIQ" THEN fiq \cup {c} ELSE fiq \ {c}
           /\ job' = job
    BY <1>1, <1>3 DEF SmcRestartFiq, NopRuns, NopStops
  <2> QED
    BY <1>1, <1>2, <2>1, <2>2, ReturnKeeps DEF Rets
<1>4. CASE nr[c] # "NOP"
  <2>1. c \in Callers /\ c \notin Nops /\ job = c
    BY <1>1, <1>4, AtSmc
  <2>2. PICK r \in {"OK", "INTERRUPTED", "FIQ", "CPU_IDLE"} :
           /\ InnerStep(c, r) /\ waits' \in BOOLEAN
           /\ fiq' = IF r = "FIQ" THEN fiq \cup {c} ELSE fiq \ {c}
           /\ job' = IF r = "OK" THEN None ELSE c
    BY <1>1, <1>4, <2>1 DEF SmcRestartFiq, Finishes, Stops
  <2> QED
    BY <1>1, <1>2, <2>1, <2>2, ReturnKeeps DEF Rets
<1> QED
  BY <1>3, <1>4

\* Every step of a CPU in trusty_std_call32 keeps the invariant.
LEMMA StepKeeps ==
  ASSUME NEW c \in Cpus, SmcInv, Step(c)
  PROVE  SmcInv'
<1> USE SmcAssumption
    DEF SmcInv, TypeOK, Rets, LockInv, JobInv, CallerInv, NopInv, FiqInv, TriesInv,
        NoProtocolError, Cpus, monVars
<1>1. CASE StartCall(c)
  BY <1>1 DEF StartCall, Start, Locks
<1>2. CASE StartNop(c)
  BY <1>2 DEF StartNop, Start, Locks
<1>3. CASE Lock(c)
  BY <1>3 DEF Lock
<1>4. CASE Disable(c)
  BY <1>4 DEF Disable
<1>5. CASE SmcCmd(c)
  BY <1>5, SmcCmdKeeps
<1>6. CASE SmcRestart(c)
  BY <1>6, SmcRestartKeeps
<1>7. CASE SmcNop(c)
  BY <1>7, SmcNopKeeps
<1>8. CASE SmcRestartFiq(c)
  BY <1>8, SmcRestartFiqKeeps
<1>9. CASE Restore(c)
  BY <1>9 DEF Restore, Locks
<1>10. CASE Idle(c)
  BY <1>10 DEF Idle
<1>11. CASE Unlock(c)
  BY <1>11 DEF Unlock
<1> QED
  BY <1>1, <1>2, <1>3, <1>4, <1>5, <1>6, <1>7, <1>8, <1>9, <1>10, <1>11 DEF Step

\* The invariant is inductive.
LEMMA SmcStep == SmcInv /\ [Next]_vars => SmcInv'
<1> SUFFICES ASSUME SmcInv, [Next]_vars PROVE SmcInv'
  OBVIOUS
<1>1. ASSUME NEW c \in Cpus, Step(c) PROVE SmcInv'
  BY <1>1, StepKeeps
<1>2. CASE UNCHANGED vars
  BY <1>2 DEF vars, SmcInv, TypeOK, LockInv, JobInv, CallerInv, NopInv, FiqInv, TriesInv,
              NoProtocolError
<1> QED
  BY <1>1, <1>2 DEF Next

\* The invariant that ties the monitor to the callers always holds.
THEOREM SmcInvariant == Spec => []SmcInv
<1>1. Init => SmcInv
  BY SmcInit
<1>2. SmcInv /\ [Next]_vars => SmcInv'
  BY SmcStep
<1> QED
  BY <1>1, <1>2, PTL DEF Spec

\* Every variable of the standard calls keeps its type.
THEOREM SmcTypeCorrect == Spec => []TypeOK
<1>1. SmcInv => TypeOK
  BY DEF SmcInv
<1> QED
  BY <1>1, SmcInvariant, PTL

\* Whatever the number of CPUs, the monitor never gets an smc out of order.
THEOREM SmcsInOrder == Spec => []NoProtocolError
<1>1. SmcInv => NoProtocolError
  BY DEF SmcInv
<1> QED
  BY <1>1, SmcInvariant, PTL

\* For every number of retries, interrupts are masked for that many attempts
\* and one more at most, and never outside trusty_std_call_inner.
THEOREM SmcMaskedBriefly == Spec => []MaskedBriefly
<1>1. SmcInv => MaskedBriefly
  BY SmcAssumption DEF SmcInv, TriesInv, MaskedBriefly, TypeOK
<1> QED
  BY <1>1, SmcInvariant, PTL

(***************************************************************************)
(* The refinement.                                                         *)
(***************************************************************************)

\* The abstract state of every caller but c stays as it is when c takes a step.
LEMMA OthersKeepState ==
  ASSUME SmcInv, SmcInv', NEW c \in Cpus, Step(c),
         NEW d \in Callers, d # c
  PROVE  CallState'[d] = CallState[d]
<1>1. pc'[d] = pc[d] /\ ret'[d] = ret[d]
  <2> USE DEF SmcInv, TypeOK, Cpus
  <2>1. pc' = [pc EXCEPT ![c] = pc'[c]] /\ ret' = [ret EXCEPT ![c] = ret'[c]]
    BY DEF Step, StartCall, StartNop, Start, Locks, Lock, Disable, SmcCmd, SmcRestart, SmcNop,
           SmcRestartFiq, Restore, Idle, Unlock, Refuses, Finishes, Stops, NopRuns, NopStops,
           InnerStep
  <2> QED
    BY <2>1
<1>2. job' = d <=> job = d
  BY SmcAssumption, AtSmc
  DEF Step, StartCall, StartNop, Start, Locks, Lock, Disable, SmcCmd, SmcRestart, SmcNop,
      SmcRestartFiq, Restore, Idle, Unlock, Refuses, Finishes, Stops, NopRuns, NopStops,
      monVars, Cpus, SmcInv, TypeOK
<1> QED
  BY <1>1, <1>2 DEF CallState

\* A step of a caller is a step of the abstract call or leaves it alone.
LEMMA CallerRefines ==
  ASSUME SmcInv, SmcInv', NEW c \in Callers, Step(c)
  PROVE  \/ CallState'[c] = CallState[c]
         \/ CallState[c] = "idle" /\ CallState'[c] = "called"
         \/ /\ CallState[c] = "called" /\ CallState'[c] \in {"begun", "done"}
            /\ \A d \in Callers : CallState[d] # "begun"
         \/ CallState[c] = "begun" /\ CallState'[c] = "done"
         \/ CallState[c] = "done" /\ CallState'[c] = "idle"
<1> USE SmcAssumption DEF Cpus
<1>a. c \in Cpus /\ c \notin Nops /\ c # None
  OBVIOUS
<1>b. /\ CallState[c] = IF pc[c] = "user" THEN "idle" ELSE IF ret[c] = "OK" THEN "done"
                        ELSE IF job = c THEN "begun" ELSE "called"
      /\ CallState'[c] = IF pc'[c] = "user" THEN "idle" ELSE IF ret'[c] = "OK" THEN "done"
                         ELSE IF job' = c THEN "begun" ELSE "called"
  BY DEF CallState
<1>1. CASE StartCall(c)
  <2>1. pc[c] = "user" /\ pc'[c] = "lock" /\ ret'[c] = "none" /\ job' # c
    BY <1>1, <1>a DEF StartCall, Start, Locks, SmcInv, TypeOK, JobInv, LockInv, monVars
  <2> QED
    BY <2>1, <1>b
<1>2. CASE SmcCmd(c)
  <2>1. pc[c] = "smc" /\ ret[c] # "OK" /\ job = None /\ c \notin fiq
    BY <1>2, <1>a, AtSmc DEF SmcCmd, SmcInv, CallerInv
  <2>2. \A d \in Callers : CallState[d] # "begun"
    BY <2>1 DEF CallState
  <2>3. pc'[c] # "user"
    BY <1>2, <1>a DEF SmcCmd, Refuses, Finishes, Stops, InnerStep, SmcInv, TypeOK
  <2>4. ret'[c] = "OK" \/ job' = c \/ (job' = None /\ ret'[c] = "BUSY")
    BY <1>2, <1>a, <2>1 DEF SmcCmd, Refuses, Finishes, Stops, InnerStep, SmcInv, TypeOK, monVars
  <2> QED
    BY <2>1, <2>2, <2>3, <2>4, <1>a, <1>b
<1>3. CASE SmcRestart(c) \/ SmcRestartFiq(c)
  <2>1. pc[c] \in {"smc", "fiq"} /\ ret[c] # "OK" /\ job = c
    BY <1>3, <1>a, AtSmc DEF SmcRestart, SmcRestartFiq, SmcInv, CallerInv
  <2>2. pc'[c] # "user"
    BY <1>3, <1>a DEF SmcRestart, SmcRestartFiq, Refuses, Finishes, Stops, NopRuns, NopStops,
                      InnerStep, SmcInv, TypeOK
  <2>3. ret'[c] = "OK" \/ job' = c
    BY <1>3, <1>a, <2>1 DEF SmcRestart, SmcRestartFiq, Refuses, Finishes, Stops, NopRuns,
                      NopStops, InnerStep, SmcInv, TypeOK, monVars
  <2> QED
    BY <2>1, <2>2, <2>3, <1>a, <1>b
<1>4. CASE Unlock(c)
  BY <1>4, <1>a, <1>b DEF Unlock, SmcInv, CallerInv, TypeOK
<1>5. CASE Lock(c) \/ Disable(c) \/ Restore(c) \/ Idle(c)
  <2>1. pc[c] # "user" /\ pc'[c] # "user"
    BY <1>5, <1>a DEF Lock, Disable, Restore, Locks, Idle, SmcInv, CallerInv, TypeOK
  <2>2. ret' = ret /\ job' = job
    BY <1>5 DEF Lock, Disable, Restore, Locks, Idle, monVars
  <2> QED
    BY <2>1, <2>2, <1>b
<1>6. ~SmcNop(c) /\ ~StartNop(c)
  BY <1>a, AtSmc DEF SmcNop, StartNop
<1> QED
  BY <1>1, <1>2, <1>3, <1>4, <1>5, <1>6 DEF Step

\* Every step maps to a step of SmcAbstract or to a stutter.
LEMMA NextRefines ==
  ASSUME SmcInv, SmcInv', [Next]_vars
  PROVE  [Abs!Next]_CallState
<1>1. CASE UNCHANGED vars
  BY <1>1 DEF vars, CallState
<1>2. ASSUME NEW c \in Cpus, Step(c) PROVE [Abs!Next]_CallState
  <2>1. \A d \in Callers : d # c => CallState'[d] = CallState[d]
    BY <1>2, OthersKeepState
  <2>2. DOMAIN CallState = Callers /\ DOMAIN CallState' = Callers
    BY DEF CallState
  <2>3. /\ CallState = [d \in Callers |-> CallState[d]]
        /\ CallState' = [d \in Callers |-> CallState'[d]]
    BY DEF CallState
  <2>4. CASE c \notin Callers
    <3>1. CallState' = CallState
      BY <2>1, <2>3, <2>4
    <3> QED
      BY <3>1
  <2>5. CASE c \in Callers
    <3>1. CallState' = [CallState EXCEPT ![c] = CallState'[c]]
      BY <2>1, <2>3, <2>5
    <3>2. \/ CallState'[c] = CallState[c]
          \/ CallState[c] = "idle" /\ CallState'[c] = "called"
          \/ /\ CallState[c] = "called" /\ CallState'[c] \in {"begun", "done"}
             /\ \A d \in Callers : CallState[d] # "begun"
          \/ CallState[c] = "begun" /\ CallState'[c] = "done"
          \/ CallState[c] = "done" /\ CallState'[c] = "idle"
      BY <1>2, <2>5, CallerRefines
    <3>3. CASE CallState'[c] = CallState[c]
      <4>1. CallState' = CallState
        BY <2>1, <2>3, <3>3
      <4> QED
        BY <4>1
    <3>4. CASE CallState'[c] # CallState[c]
      BY <3>1, <3>2, <3>4, <2>5 DEF Abs!Next, Abs!Call, Abs!Begin, Abs!Complete, Abs!Return
    <3> QED
      BY <3>3, <3>4
  <2> QED
    BY <2>4, <2>5
<1> QED
  BY <1>1, <1>2 DEF Next

\* For any number of callers, NOP CPUs and retries, trusty_std_call32
\* implements the abstract call: each command is executed once, alone, and
\* before its call returns.
THEOREM SmcRefinement == Spec => ExactlyOnce
<1>1. Init => Abs!Init
  BY SmcAssumption DEF Init, Abs!Init, CallState, Cpus
<1>2. SmcInv /\ SmcInv' /\ [Next]_vars => [Abs!Next]_CallState
  BY NextRefines
<1> QED
  BY <1>1, <1>2, SmcInvariant, PTL DEF Spec, ExactlyOnce, Abs!Spec
=============================================================================
