------------------------- MODULE TestRunner_proofs -------------------------
(***************************************************************************)
(* Theorems about the boot of the test runner.                             *)
(***************************************************************************)
EXTENDS TestRunner, TLAPS

(***************************************************************************)
(* Where boot() is.  While CPU 0 is inside send_vq, log_buf or             *)
(* rpmb_storage_send, Place is the point of boot() the call returns to.    *)
(***************************************************************************)

RpmbAt == {"rpmb_count", "rpmb_rel", "rpmb_write", "rpmb_read", "rpmb_end"}

Inner == IF pc = "io" THEN io.next ELSE pc

Place == IF Inner = "log" THEN log.next
         ELSE IF Inner \in RpmbAt THEN rpmb.next ELSE Inner

\* The phases of boot().  Nothing is allocated in the first one.
Early == {"start", "probe", "negotiate", "setup", "scan", "get", "poll", "msg", "ready", "scanned",
          "log_open", "log_opened", "cmdline", "boot_next", "dev_init"}
Storage == {"rpmb_scan", "rpmb_open", "rpmb_opened", "proxy", "km_init", "km_params"}
Bcc == {"hwbcc_init", "dice", "dice_size", "depriv", "shutdown", "hwbcc_again", "dice_again",
        "shutdown_again"}
Waiting == {"cpu_wait", "cpu_look"}
Serving == {"connect", "recv", "close", "exit"}
Stopped == {"error", "next_os", "assert", "hung"}
Ending == Stopped \cup {"astray"}

Phases == {Early, {"dev_create"}, Storage, Bcc, {"cpu_on"}, Waiting, Serving, Ending}

\* Where send_vq and recv_vq return to, and log_buf.
IoNext == {"get", "log", "log_opened", "rpmb_opened", "cmdline", "error", "astray"} \cup RpmbAt
LogNext == {"km_init", "error", "dice_size", "depriv", "shutdown", "shutdown_again", "astray", "recv"}

ControlInv ==
    /\ io = [q |-> io.q, step |-> io.step, next |-> io.next]
    /\ log = [left |-> log.left, next |-> log.next]
    /\ rpmb = [cmd |-> rpmb.cmd, next |-> rpmb.next, issued |-> rpmb.issued, answer |-> rpmb.answer,
               stream |-> rpmb.stream, executed |-> rpmb.executed, reply |-> rpmb.reply]
    /\ host = [transport |-> host.transport, bus |-> host.bus, offered |-> host.offered,
               kind |-> host.kind, name |-> host.name, line |-> host.line,
               accepts |-> host.accepts, doorbell |-> host.doorbell, secs |-> host.secs, api |-> host.api,
               kernel |-> host.kernel]
    /\ pc = "io" => io.next \in IoNext
    /\ Inner = "log" => log.next \in LogNext
    /\ Inner \in RpmbAt => rpmb.next \in Polling

\* What a step of CPU 0 leaves alone that neither allocates nor deals with CPUs.
Quiet ==
    /\ ControlInv'
    /\ UNCHANGED <<mem, smp>> /\ host'.secs = host.secs
    /\ \/ Place' = Place \/ Place' \in Ending
       \/ \E S \in Phases : Place \in S /\ Place' \in S
Inside == {"io", "log"} \cup RpmbAt

(***************************************************************************)
(* How the three ways to go on move boot().                                *)
(***************************************************************************)

\* A step of boot() that stays outside the calls goes where it says.
LEMMA GoPlace ==
    ASSUME ControlInv, UNCHANGED <<io, log, rpmb, host>>, pc' \notin Inside
    PROVE  ControlInv' /\ Place' = pc' /\ host'.secs = host.secs
BY DEF ControlInv, Place, Inner, Inside

\* send_vq and recv_vq return to next, also when there is nothing to transfer.
LEMMA IoPlace ==
    ASSUME ControlInv, NEW q, NEW data, NEW n, NEW next \in IoNext, StartIo(q, data, n, next),
           UNCHANGED host, log' = [left |-> log'.left, next |-> log'.next],
           rpmb' = [cmd |-> rpmb'.cmd, next |-> rpmb'.next, issued |-> rpmb'.issued,
                    answer |-> rpmb'.answer, stream |-> rpmb'.stream,
                    executed |-> rpmb'.executed, reply |-> rpmb'.reply],
           next = "log" => log'.next \in LogNext,
           next \in RpmbAt => rpmb'.next \in Polling
    PROVE  /\ ControlInv' /\ host'.secs = host.secs
           /\ Place' = IF next = "log" THEN log'.next ELSE IF next \in RpmbAt THEN rpmb'.next ELSE next
<1>1. next # "io"
  BY DEF IoNext, RpmbAt
<1>2. Inner' = next
  BY <1>1 DEF StartIo, Inner
<1>3. io' = [q |-> io'.q, step |-> io'.step, next |-> io'.next] /\ (pc' = "io" => io'.next \in IoNext)
  BY <1>1 DEF StartIo, ControlInv
<1> QED BY <1>2, <1>3 DEF ControlInv, Place

\* log_buf returns to next.
LEMMA LogPlace ==
    ASSUME ControlInv, NEW text, NEW next \in LogNext, LogBuf(text, next)
    PROVE  ControlInv' /\ Place' = next /\ UNCHANGED host
BY DEF LogBuf, ControlInv, Place, Inner, RpmbAt, queueVars

\* The host changes neither the place nor what the runner was started on.
LEMMA HostPlace ==
    ASSUME ControlInv, HostStep
    PROVE  ControlInv' /\ Place' = Place /\ host'.secs = host.secs
<1>1. /\ UNCHANGED <<pc, io, log>> /\ rpmb'.next = rpmb.next
      /\ rpmb' = [cmd |-> rpmb'.cmd, next |-> rpmb'.next, issued |-> rpmb'.issued,
                  answer |-> rpmb'.answer, stream |-> rpmb'.stream,
                  executed |-> rpmb'.executed, reply |-> rpmb'.reply]
      /\ UNCHANGED host \/ \E x : host' = [host EXCEPT !.line = x]
  <2>1. CASE ControlTake \/ ControlAdd \/ ControlSend \/ ControlDone
    BY <2>1 DEF ControlTake, ControlAdd, ControlSend, ControlDone, queueVars, deviceVars, ControlInv
  <2>2. CASE RpmbExecute
    BY <2>2 DEF RpmbExecute, queueVars, ControlInv
  <2>3. ASSUME NEW p \in PortIds, PortOut(p) PROVE <1>1!:
    BY <2>3 DEF PortOut, ControlInv
  <2>4. ASSUME NEW p \in PortIds, PortIn(p) PROVE <1>1!:
    BY <2>4 DEF PortIn, ControlInv
  <2> QED BY <2>1, <2>2, <2>3, <2>4 DEF HostStep
<1>2. /\ host' = [transport |-> host'.transport, bus |-> host'.bus, offered |-> host'.offered,
               kind |-> host'.kind, name |-> host'.name, line |-> host'.line,
               accepts |-> host'.accepts, doorbell |-> host'.doorbell, secs |-> host'.secs, api |-> host'.api,
               kernel |-> host'.kernel]
      /\ host'.secs = host.secs
  BY <1>1 DEF ControlInv
<1> QED BY <1>1, <1>2 DEF ControlInv, Place, Inner
(***************************************************************************)
(* The steps that neither allocate nor deal with CPUs are quiet.           *)
(***************************************************************************)

\* Outside the calls the place is pc.
LEMMA AtPlace == ASSUME pc \notin Inside PROVE Place = pc
BY DEF Inside, Place, Inner

\* The start of the console is quiet.
LEMMA ConsoleQuiet ==
    ASSUME ControlInv, ConsoleInit, UNCHANGED bootVars
    PROVE  Quiet
<1> USE DEF Early, Ending, Stopped
<1>a. Early \in Phases
  BY DEF Phases
<1>b. ASSUME pc \in Early, UNCHANGED <<io, log, rpmb, host>>, pc' \in Early \cup Ending PROVE Quiet
  <2>1. pc \notin Inside /\ pc' \notin Inside
    BY <1>b DEF Inside, RpmbAt
  <2> QED BY <2>1, <1>a, <1>b, AtPlace, GoPlace DEF Quiet, bootVars
<1>c. ASSUME pc \in Early, NEW q, NEW data, NEW n, StartIo(q, data, n, "get"), UNCHANGED <<log, rpmb, host>>
      PROVE Quiet
  <2>1. pc \notin Inside
    BY <1>c DEF Inside, RpmbAt
  <2>2. "get" \in IoNext /\ "get" \notin RpmbAt
    BY DEF IoNext, RpmbAt
  <2>3. ControlInv' /\ host'.secs = host.secs /\ Place' = "get"
    <3>1. /\ log' = [left |-> log'.left, next |-> log'.next]
          /\ rpmb' = [cmd |-> rpmb'.cmd, next |-> rpmb'.next, issued |-> rpmb'.issued,
                    answer |-> rpmb'.answer, stream |-> rpmb'.stream,
                    executed |-> rpmb'.executed, reply |-> rpmb'.reply]
      BY <1>c DEF ControlInv
    <3> QED BY <3>1, <2>2, <1>c, IoPlace
  <2> QED BY <2>1, <2>3, <1>a, <1>c, AtPlace DEF Quiet, bootVars
<1>1. CASE Probe
  BY <1>1, <1>b DEF Probe, LogNowhere, queueVars, consoleVars
<1>2. CASE Negotiate
  BY <1>2, <1>b DEF Negotiate, LogNowhere, queueVars
<1>3. CASE ControlSetup
  BY <1>3, <1>b DEF ControlSetup
<1>4. CASE Scan
  BY <1>4, <1>c DEF Scan, Send, consoleVars
<1>5. CASE GetMsg
  BY <1>5, <1>b DEF GetMsg, TakeMsg
<1>6. CASE PollMsg
  BY <1>6, <1>b DEF PollMsg, TakeMsg
<1>7. CASE PortReady
  BY <1>7, <1>b, <1>c DEF PortReady, Send, consoleVars
<1>8. ASSUME NEW e \in Events, HandleMsg(e) PROVE Quiet
  BY <1>8, <1>b DEF HandleMsg
<1> QED BY <1>1, <1>2, <1>3, <1>4, <1>5, <1>6, <1>7, <1>8 DEF ConsoleInit

\* Inside send_vq, log_buf and rpmb_storage_send the place does not change.
LEMMA CallsQuiet ==
    ASSUME ControlInv, UNCHANGED bootVars,
           LogChunk \/ RpmbStep \/ RpmbEnd \/ (DriverIo /\ UNCHANGED consoleVars) \/ StorageRequest
           \/ HostStep
    PROVE  Quiet /\ (Place' = Place \/ Place' \in Ending)
<1> USE DEF bootVars
<1>a. Polling \cap Inside = {} /\ LogNext \cap Inside = {} /\ "io" \notin IoNext /\ "assert" \notin Inside
  BY DEF Polling, Inside, LogNext, IoNext, RpmbAt
<1>b. "log" \in IoNext /\ RpmbAt \subseteq IoNext /\ "log" \notin RpmbAt /\ "io" \notin RpmbAt
  BY DEF RpmbAt, IoNext
<1>1. CASE LogChunk
  <2> DEFINE n == Min({Body, Len(log.left)})
  <2>1. pc = "log" /\ Place = log.next /\ log.next \in LogNext /\ UNCHANGED <<host, rpmb>>
    BY <1>1 DEF LogChunk, Place, Inner, ControlInv
  <2>2. CASE pc' = log.next /\ log' = NoLog /\ UNCHANGED <<vq, io>>
    <3>1. pc' \notin Inside
      BY <2>2, <2>1, <1>a
    <3>2. ControlInv'
      BY <3>1, <2>1, <2>2 DEF NoLog, ControlInv, Inner, Inside
    <3> QED BY <3>1, <3>2, <2>1, <2>2 DEF Quiet, Place, Inner, Inside
  <2>3. CASE Send("log_out", SubSeq(log.left, 1, n), "log") /\ log' = [log EXCEPT !.left = LogRest(n)]
    <3>1. log' = [left |-> log'.left, next |-> log'.next] /\ log'.next = log.next
      BY <2>3 DEF ControlInv
    <3>2. rpmb' = [cmd |-> rpmb'.cmd, next |-> rpmb'.next, issued |-> rpmb'.issued,
                    answer |-> rpmb'.answer, stream |-> rpmb'.stream,
                    executed |-> rpmb'.executed, reply |-> rpmb'.reply]
      BY <2>1 DEF ControlInv
    <3>3. ControlInv' /\ host'.secs = host.secs /\ Place' = log'.next
      BY <2>3, <3>1, <3>2, <2>1, <1>b, IoPlace DEF Send
    <3> QED BY <3>3, <3>1, <2>1 DEF Quiet
  <2> QED BY <1>1, <2>2, <2>3 DEF LogChunk
<1>2. CASE RpmbStep
  <2>1. \E q, data, n, next : next \in RpmbAt /\ StartIo(q, data, n, next)
    <3>1. "rpmb_rel" \in RpmbAt /\ "rpmb_write" \in RpmbAt /\ "rpmb_read" \in RpmbAt
          /\ "rpmb_end" \in RpmbAt
      BY DEF RpmbAt
    <3> QED BY <1>2, <3>1, Zenon DEF RpmbStep, Send, Recv
  <2>2. pc \in RpmbAt /\ UNCHANGED <<host, log, rpmb>>
    BY <1>2 DEF RpmbStep, RpmbAt, consoleVars
  <2>3. Place = rpmb.next /\ rpmb.next \in Polling
    BY <2>2, <1>b DEF Place, Inner, ControlInv
  <2>4. /\ log' = [left |-> log'.left, next |-> log'.next]
        /\ rpmb' = [cmd |-> rpmb'.cmd, next |-> rpmb'.next, issued |-> rpmb'.issued,
                  answer |-> rpmb'.answer, stream |-> rpmb'.stream,
                  executed |-> rpmb'.executed, reply |-> rpmb'.reply]
    BY <2>2 DEF ControlInv
  <2>5. ControlInv' /\ host'.secs = host.secs /\ Place' = rpmb'.next
    BY <2>1, <2>2, <2>3, <2>4, <1>b, IoPlace
  <2> QED BY <2>5, <2>3, <2>2 DEF Quiet
<1>3. CASE RpmbEnd
  <2>1. Place = rpmb.next /\ rpmb.next \in Polling /\ pc' \in {rpmb.next, "assert"}
    BY <1>3 DEF RpmbEnd, Place, Inner, ControlInv, RpmbAt
  <2>2. UNCHANGED <<io, log, host>> /\ pc' \notin Inside
    BY <1>3, <2>1, <1>a DEF RpmbEnd, queueVars
  <2>3. rpmb' = [cmd |-> rpmb'.cmd, next |-> rpmb'.next, issued |-> rpmb'.issued,
                  answer |-> rpmb'.answer, stream |-> rpmb'.stream,
                  executed |-> rpmb'.executed, reply |-> rpmb'.reply]
    BY <1>3 DEF RpmbEnd, ControlInv
  <2>4. ControlInv' /\ Place' = pc'
    BY <2>2, <2>3 DEF ControlInv, Place, Inner, Inside
  <2> QED BY <2>1, <2>2, <2>4 DEF Quiet, Ending, Stopped
<1>4. CASE DriverIo /\ UNCHANGED consoleVars
  <2>1. pc = "io" /\ UNCHANGED <<host, log, rpmb>> /\ io.next \in IoNext
    BY ZenonT(30), <1>4 DEF DriverIo, PublishIo, KickIo, FinishIo, consoleVars, ControlInv
  <2>2. Inner' = Inner /\ io' = [q |-> io'.q, step |-> io'.step, next |-> io'.next]
    BY <1>4, <2>1, <1>a DEF DriverIo, PublishIo, KickIo, FinishIo, NoIo, Inner, ControlInv
  <2>3. pc' = "io" => io'.next \in IoNext
    BY <2>1, <2>2 DEF Inner
  <2> QED BY <2>1, <2>2, <2>3 DEF Quiet, ControlInv, Place
<1>5. CASE StorageRequest
  <2>1. PICK c \in Cmds : RpmbSend(c, pc)
    BY <1>5 DEF StorageRequest
  <2>2. pc \in Polling /\ UNCHANGED <<host, log>> /\ rpmb'.next = pc
    BY <1>5, <2>1 DEF StorageRequest, RpmbSend, ControlInv
  <2>3. Place = pc
    BY <2>2, <1>a, AtPlace
  <2>4. /\ log' = [left |-> log'.left, next |-> log'.next]
        /\ rpmb' = [cmd |-> rpmb'.cmd, next |-> rpmb'.next, issued |-> rpmb'.issued,
                  answer |-> rpmb'.answer, stream |-> rpmb'.stream,
                  executed |-> rpmb'.executed, reply |-> rpmb'.reply]
    BY <2>1, <2>2 DEF ControlInv, RpmbSend
  <2>5. "rpmb_count" \in RpmbAt
    BY DEF RpmbAt
  <2>6. ControlInv' /\ host'.secs = host.secs /\ Place' = rpmb'.next
    BY <2>1, <2>2, <2>4, <2>5, <1>b, IoPlace DEF RpmbSend, Send
  <2> QED BY <2>2, <2>3, <2>6 DEF Quiet
<1>6. CASE HostStep
  BY <1>6, HostPlace DEF Quiet
<1> QED BY <1>1, <1>2, <1>3, <1>4, <1>5, <1>6
\* A step within a phase of boot() is quiet, whichever way it goes on.
LEMMA PhaseQuiet ==
    ASSUME ControlInv, UNCHANGED <<mem, smp>>, NEW S \in Phases, pc \in S
    PROVE  /\ UNCHANGED <<io, log, rpmb, host>> /\ pc' \in S \cup Ending => Quiet
           /\ \A text : \A next \in LogNext \cap (S \cup Ending) : LogBuf(text, next) => Quiet
           /\ UNCHANGED <<host, log, rpmb>> =>
                 \A q, data, n : \A next \in (IoNext \ ({"log"} \cup RpmbAt)) \cap (S \cup Ending) :
                     StartIo(q, data, n, next) => Quiet
<1>1. \A T \in Phases : T \cap Inside = {}
  BY DEF Phases, Early, Storage, Bcc, Waiting, Serving, Ending, Stopped, Inside, RpmbAt
<1>2. Place = pc /\ S \cap Inside = {} /\ Ending \cap Inside = {}
  BY <1>1, AtPlace DEF Phases
<1>3. ASSUME UNCHANGED <<io, log, rpmb, host>>, pc' \in S \cup Ending PROVE Quiet
  BY <1>2, <1>3, GoPlace DEF Quiet
<1>4. ASSUME NEW text, NEW next \in LogNext \cap (S \cup Ending), LogBuf(text, next) PROVE Quiet
  BY <1>2, <1>4, LogPlace DEF Quiet
<1>5. ASSUME NEW q, NEW data, NEW n,
             NEW next \in (IoNext \ ({"log"} \cup RpmbAt)) \cap (S \cup Ending),
             StartIo(q, data, n, next), UNCHANGED <<host, log, rpmb>>
      PROVE  Quiet
  <2>1. /\ log' = [left |-> log'.left, next |-> log'.next]
        /\ rpmb' = [cmd |-> rpmb'.cmd, next |-> rpmb'.next, issued |-> rpmb'.issued,
                  answer |-> rpmb'.answer, stream |-> rpmb'.stream,
                  executed |-> rpmb'.executed, reply |-> rpmb'.reply]
    BY <1>5 DEF ControlInv
  <2>2. next \in IoNext /\ next # "log" /\ next \notin RpmbAt
    OBVIOUS
  <2>3. ControlInv' /\ host'.secs = host.secs /\ Place' = next
    BY <2>1, <2>2, <1>5, IoPlace
  <2> QED BY <2>3, <1>2 DEF Quiet
<1> QED BY <1>3, <1>4, <1>5

\* The steps of boot() itself.
BootSteps ==
    \/ BootArm64 \/ InitLog \/ LogOpened \/ GetCmdline \/ BootNext \/ InitRpmb \/ RpmbOpened
    \/ ReportStatus \/ Astray \/ WfeReturns
    \/ (OpenPort("log_open", "log_opened") /\ UNCHANGED bootVars)
    \/ (OpenPort("rpmb_open", "rpmb_opened") /\ UNCHANGED bootVars)

LibtipcSteps ==
    \/ Call("proxy", "proxy", "km_init")
    \/ Call("km_init", "km_init", "km_params")
    \/ Call("hwbcc_init", "hwbcc_init", "dice")
    \/ GetDiceArtifacts("dice", "dice", "", "dice_size") \/ CheckSize
    \/ NsDeprivilege \/ Shutdown("shutdown", "hwbcc_again")
    \/ Call("hwbcc_again", "hwbcc_init", "dice_again")
    \/ GetDiceArtifacts("dice_again", "", "broken", "shutdown_again")
    \/ Call("connect", "connect", "recv")
    \/ RecvResultByte \/ WaitForClose

LEMMA BootQuiet ==
    ASSUME ControlInv, BootSteps
    PROVE  Quiet
<1> USE DEF bootVars, consoleVars, queueVars
<1>a. /\ Early \in Phases /\ Storage \in Phases /\ Serving \in Phases /\ Ending \in Phases
      /\ Waiting \in Phases
  BY DEF Phases
<1>b. "error" \in Ending /\ "astray" \in Ending /\ "hung" \in Ending /\ "assert" \in Ending /\ "next_os" \in Ending
  BY DEF Ending, Stopped
<1>c. /\ {"log_opened", "rpmb_opened", "cmdline", "error"} \subseteq IoNext \ ({"log"} \cup RpmbAt)
      /\ "km_init" \in LogNext
  BY DEF IoNext, RpmbAt, LogNext
<1>1. CASE BootArm64
  BY <1>1, <1>a, <1>b, PhaseQuiet DEF BootArm64, Go, Early
<1>2. CASE InitLog
  BY <1>2, <1>a, <1>b, PhaseQuiet DEF InitLog, Go, ConnectPort, Early
<1>3. CASE LogOpened
  <2>1. pc \in Early /\ "cmdline" \in Early /\ StartIo("log_in", <<>>, CmdSize, "cmdline")
        /\ UNCHANGED <<host, log, rpmb, mem, smp>>
    BY <1>3 DEF LogOpened, Recv, Early
  <2> QED BY <2>1, <1>a, <1>c, PhaseQuiet
<1>4. CASE GetCmdline
  BY <1>4, <1>a, PhaseQuiet DEF GetCmdline, Go, Early
<1>5. CASE BootNext
  BY <1>5, <1>a, <1>b, PhaseQuiet DEF BootNext, Go, Early
<1>6. CASE InitRpmb
  <2>1. pc \in Storage /\ "km_init" \in Storage /\ "rpmb_open" \in Storage
    BY <1>6 DEF InitRpmb, Storage
  <2>2. CASE LogMsg("no_rpmb", "km_init")
    BY <2>1, <2>2, <1>6, <1>a, <1>c, PhaseQuiet DEF LogMsg, InitRpmb
  <2>3. CASE Go("assert") \/ ConnectPort("rpmb0", "rpmb_in", "rpmb_out", "rpmb_open")
    BY <2>1, <2>3, <1>6, <1>a, <1>b, PhaseQuiet DEF Go, ConnectPort, InitRpmb
  <2> QED BY <2>2, <2>3, <1>6 DEF InitRpmb
<1>7. CASE RpmbOpened
  BY <1>7, <1>a, PhaseQuiet DEF RpmbOpened, Storage
<1>8. CASE ReportStatus
  <2>1. pc \in Serving /\ UNCHANGED <<mem, smp, host, log, rpmb>>
    BY <1>8 DEF ReportStatus, HostExit, Serving
  <2>2. \E data, n : StartIo("log_out", data, n, "error")
    BY <1>8 DEF ReportStatus, HostExit, Send
  <2> QED BY <2>1, <2>2, <1>a, <1>b, <1>c, PhaseQuiet
<1>9. CASE Astray
  BY <1>9, <1>a, <1>b, PhaseQuiet DEF Astray, LogNowhere
<1>10. CASE WfeReturns
  BY <1>10, <1>a, PhaseQuiet DEF WfeReturns, Go, Waiting
<1>11. CASE OpenPort("log_open", "log_opened") /\ UNCHANGED bootVars
  <2>1. pc \in Early /\ "log_opened" \in Early /\ UNCHANGED <<host, log, rpmb, mem, smp>>
    BY <1>11 DEF OpenPort, Early
  <2>2. \E data, n : StartIo("ctl_out", data, n, "log_opened")
    BY <1>11 DEF OpenPort, Send
  <2> QED BY <2>1, <2>2, <1>a, <1>c, PhaseQuiet
<1>12. CASE OpenPort("rpmb_open", "rpmb_opened") /\ UNCHANGED bootVars
  <2>1. pc \in Storage /\ "rpmb_opened" \in Storage /\ UNCHANGED <<host, log, rpmb, mem, smp>>
    BY <1>12 DEF OpenPort, Storage
  <2>2. \E data, n : StartIo("ctl_out", data, n, "rpmb_opened")
    BY <1>12 DEF OpenPort, Send
  <2> QED BY <2>1, <2>2, <1>a, <1>c, PhaseQuiet
<1> QED BY <1>1, <1>2, <1>3, <1>4, <1>5, <1>6, <1>7, <1>8, <1>9, <1>10, <1>11, <1>12 DEF BootSteps
\* The calls into libtipc that do not allocate.
LEMMA LibtipcQuiet ==
    ASSUME ControlInv, LibtipcSteps
    PROVE  Quiet
<1> USE DEF bootVars, consoleVars, queueVars
<1>a. Storage \in Phases /\ Bcc \in Phases /\ Serving \in Phases
  BY DEF Phases
<1>b. "error" \in Ending /\ {"error", "recv", "dice_size", "depriv", "shutdown", "shutdown_again"} \subseteq LogNext
  BY DEF Ending, Stopped, LogNext
<1>c. ASSUME NEW S \in Phases, NEW at \in S, NEW text, NEW next \in S, Call(at, text, next)
      PROVE  Quiet
  BY <1>c, <1>b, PhaseQuiet DEF Call, Go, LogMsg
<1>1. CASE Call("proxy", "proxy", "km_init") \/ Call("km_init", "km_init", "km_params")
  BY <1>1, <1>a, <1>c DEF Storage
<1>2. CASE Call("hwbcc_init", "hwbcc_init", "dice") \/ Call("hwbcc_again", "hwbcc_init", "dice_again")
  BY <1>2, <1>a, <1>c DEF Bcc
<1>3. CASE Call("connect", "connect", "recv")
  BY <1>3, <1>a, <1>c DEF Serving
<1>4. ASSUME NEW at \in Bcc, NEW failed, NEW done, NEW next \in LogNext \cap Bcc,
             GetDiceArtifacts(at, failed, done, next)
      PROVE  Quiet
  <2>1. pc = at /\ UNCHANGED <<mem, smp>> /\ (Go(next) \/ \E text : LogBuf(text, next))
    BY <1>4 DEF GetDiceArtifacts, LogMsg
  <2> QED BY <1>4, <2>1, <1>a, PhaseQuiet DEF Go
<1>5. CASE GetDiceArtifacts("dice", "dice", "", "dice_size")
  BY <1>5, <1>4, <1>b DEF Bcc
<1>6. CASE GetDiceArtifacts("dice_again", "", "broken", "shutdown_again")
  BY <1>6, <1>4, <1>b DEF Bcc
<1>7. CASE CheckSize
  <2>1. pc \in Bcc /\ "depriv" \in Bcc /\ UNCHANGED <<mem, smp>> /\ (Go("depriv") \/ \E text : LogBuf(text, "depriv"))
    BY <1>7 DEF CheckSize, LogMsg, Bcc
  <2> QED BY <2>1, <1>a, <1>b, PhaseQuiet DEF Go
<1>8. CASE NsDeprivilege
  <2>1. pc \in Bcc /\ "shutdown" \in Bcc /\ UNCHANGED <<mem, smp>>
        /\ (Go("shutdown") \/ \E text : LogBuf(text, "shutdown"))
    BY <1>8 DEF NsDeprivilege, LogMsg, Bcc
  <2> QED BY <2>1, <1>a, <1>b, PhaseQuiet DEF Go
<1>9. CASE Shutdown("shutdown", "hwbcc_again")
  BY <1>9, <1>a, PhaseQuiet DEF Shutdown, Go, Bcc
<1>10. CASE RecvResultByte
  <2>1. pc \in Serving /\ "recv" \in Serving /\ "close" \in Serving /\ UNCHANGED <<mem, smp>>
        /\ (Go("close") \/ Go("error") \/ \E text : LogBuf(text, "recv"))
    BY <1>10 DEF RecvResultByte, LogMsg, Serving
  <2> QED BY <2>1, <1>a, <1>b, PhaseQuiet DEF Go
<1>11. CASE WaitForClose
  <2>1. pc \in Serving /\ "exit" \in Serving /\ UNCHANGED <<mem, smp>> /\ (Go("exit") \/ Go("error"))
    BY <1>11 DEF WaitForClose, ExitAfter, Serving
  <2> QED BY <2>1, <1>a, <1>b, PhaseQuiet DEF Go
<1> QED BY <1>1, <1>2, <1>3, <1>5, <1>6, <1>7, <1>8, <1>9, <1>10, <1>11 DEF LibtipcSteps

\* Every step is quiet, or one of the eight that allocate or deal with CPUs.
LEMMA StepKinds ==
    ASSUME ControlInv, [Next]_vars
    PROVE  \/ Quiet
           \/ DevInit \/ DevCreate \/ SetBootParams \/ Shutdown("shutdown_again", "cpu_on")
           \/ CpuOn \/ CpuWait \/ CpuLook \/ \E c \in 1 .. MaxCpu - 1 : SecondaryStart(c)
<1>1. CASE UNCHANGED vars
  BY <1>1 DEF vars, bootVars, consoleVars, queueVars, deviceVars, Quiet, ControlInv, Place, Inner
<1>2. CASE Boot \/ WfeReturns
  BY <1>2, BootQuiet, ConsoleQuiet, CallsQuiet DEF Boot, Console, BootSteps
<1>3. CASE Libtipc
  BY <1>3, LibtipcQuiet DEF Libtipc, LibtipcSteps
<1>4. CASE StorageRequest
  BY <1>4, CallsQuiet DEF StorageRequest
<1>5. CASE Host
  BY <1>5, CallsQuiet DEF Host
<1> QED BY <1>1, <1>2, <1>3, <1>4, <1>5 DEF Next, Secondary
(***************************************************************************)
(* The allocators: what was handed out depends only on the phase.          *)
(***************************************************************************)

Memory == [heap : 0 .. HeapSize, pages : 0 .. PageCount, failed : BOOLEAN]

MemInv ==
    /\ mem \in Memory /\ ~mem.failed
    /\ Place \in Early => mem.heap = 0 /\ mem.pages = 0
    /\ Place = "dev_create" => mem.heap = 0 /\ mem.pages <= 2
    /\ Place \in Storage => mem.heap = DevSize

(***************************************************************************)
(* The secondary CPUs: those up to the one CPU 0 turns to next were        *)
(* started, those before the one it waits for have reported.               *)
(***************************************************************************)

CpuInv ==
    /\ host.secs \in Nat
    /\ smp \in [k : 0 .. MaxCpu, on : SUBSET (1 .. MaxCpu - 1),
               ready : [0 .. MaxCpu - 1 -> 0 .. MaxCpu - 1], event : BOOLEAN]
    /\ \A c \in 0 .. MaxCpu - 1 : smp.ready[c] \in {0, c}
    /\ Place \in Early \cup {"dev_create"} \cup Storage \cup Bcc => smp.k = 1
    /\ Place \in Early \cup {"dev_create"} \cup Storage \cup Bcc \cup {"cpu_on"} =>
          smp.on = 1 .. smp.k - 1
    /\ Place = "cpu_on" => smp.k = 1 \/ smp.k \in 2 .. LastCpu
    /\ Place \in Waiting =>
          /\ smp.k \in 0 .. LastCpu /\ LastCpu >= 1
          /\ \A c \in 1 .. smp.k - 1 : smp.ready[c] = c
    /\ Place \in Waiting \cup Serving => smp.on = 1 .. LastCpu
    /\ Place \in Serving => \A c \in 1 .. LastCpu : smp.ready[c] = c

RunInv == ControlInv /\ MemInv /\ CpuInv

\* The number of stacks bounds the CPUs that are started.
LEMMA LastCpuBound ==
    ASSUME host.secs \in Nat
    PROVE  /\ LastCpu \in Nat /\ LastCpu <= MaxCpu - 1 /\ LastCpu <= host.secs
           /\ LastCpu = host.secs \/ LastCpu = MaxCpu - 1
<1>1. \E x \in {host.secs, MaxCpu - 1} : \A y \in {host.secs, MaxCpu - 1} : x <= y
  BY RunnerAssumption
<1>2. LastCpu \in {host.secs, MaxCpu - 1} /\ \A y \in {host.secs, MaxCpu - 1} : LastCpu <= y
  BY <1>1 DEF LastCpu, Min
<1> QED BY <1>2, RunnerAssumption

\* The places of different phases are different.
LEMMA PhasesApart ==
    \A S, T \in Phases : S = T \/ S \cap T = {}
BY DEF Phases, Early, Storage, Bcc, Waiting, Serving, Ending, Stopped

\* A quiet step keeps both.
LEMMA QuietKeeps ==
    ASSUME RunInv, Quiet
    PROVE  RunInv'
<1>1. LastCpu' = LastCpu /\ UNCHANGED <<mem, smp>> /\ ControlInv'
  BY DEF Quiet, LastCpu
<1>2. CASE Place' \in Ending
  <2>1. Place' \notin Early \cup {"dev_create"} \cup Storage \cup Bcc \cup {"cpu_on"} \cup Waiting \cup Serving
    BY <1>2 DEF Early, Storage, Bcc, Waiting, Serving, Ending, Stopped
  <2>2. Place' # "dev_create" /\ Place' # "cpu_on"
    BY <2>1
  <2> QED BY <1>1, <2>1, <2>2 DEF RunInv, MemInv, CpuInv, Quiet
<1>3. CASE \A S \in Phases : Place' \in S => Place \in S
  <2>1. /\ Place' \in Early => Place \in Early
        /\ Place' = "dev_create" => Place = "dev_create"
        /\ Place' \in Storage => Place \in Storage
        /\ Place' \in Bcc => Place \in Bcc
        /\ Place' = "cpu_on" => Place = "cpu_on"
        /\ Place' \in Waiting => Place \in Waiting
        /\ Place' \in Serving => Place \in Serving
    BY <1>3 DEF Phases
  <2> QED BY <1>1, <2>1 DEF RunInv, MemInv, CpuInv, Quiet
<1> QED BY <1>2, <1>3, PhasesApart DEF Quiet

LEMMA RunInit ==
    ASSUME Init PROVE RunInv
<1>1. pc = "start" /\ io = NoIo /\ log = NoLog /\ host \in Machines
  BY DEF Init
<1>2. Inner = "start" /\ Place = "start"
  BY <1>1 DEF Inner, Place, RpmbAt
<1>3. ControlInv
  <2>1. host = [transport |-> host.transport, bus |-> host.bus, offered |-> host.offered,
               kind |-> host.kind, name |-> host.name, line |-> host.line,
               accepts |-> host.accepts, doorbell |-> host.doorbell, secs |-> host.secs, api |-> host.api,
               kernel |-> host.kernel]
    BY <1>1, MachineAssumption
  <2>2. rpmb = [cmd |-> rpmb.cmd, next |-> rpmb.next, issued |-> rpmb.issued, answer |-> rpmb.answer,
               stream |-> rpmb.stream, executed |-> rpmb.executed, reply |-> rpmb.reply]
    BY DEF Init
  <2>3. /\ io = [q |-> io.q, step |-> io.step, next |-> io.next]
        /\ log = [left |-> log.left, next |-> log.next]
    BY <1>1 DEF NoIo, NoLog
  <2> QED BY <2>1, <2>2, <2>3, <1>1, <1>2 DEF ControlInv, RpmbAt
<1>4. MemInv
  BY <1>2 DEF MemInv, Memory, Init, HeapSize, PageCount, Storage
<1>5. CpuInv
  <2>1. host.secs \in Nat
    BY <1>1, MachineAssumption
  <2>2. Place \notin Waiting /\ Place \notin Serving /\ Place # "cpu_on"
    BY <1>2 DEF Waiting, Serving
  <2>3. smp = [k |-> 1, on |-> {}, ready |-> [c \in 0 .. MaxCpu - 1 |-> 0], event |-> FALSE]
    BY DEF Init
  <2>4. 1 .. smp.k - 1 = {} /\ smp.k = 1 /\ smp.on = {}
    BY <2>3
  <2> QED BY <2>1, <2>2, <2>3, <2>4, RunnerAssumption DEF CpuInv
<1> QED BY <1>3, <1>4, <1>5 DEF RunInv
\* A step of boot() to a place outside the calls.
LEMMA GoesTo ==
    ASSUME RunInv, NEW next, next \notin Inside, Go(next), pc \notin Inside
    PROVE  ControlInv' /\ Place' = next /\ Place = pc /\ LastCpu' = LastCpu /\ UNCHANGED host
BY GoPlace, AtPlace DEF Go, RunInv, LastCpu, queueVars, consoleVars

\* host_exit before the return of a call that goes astray.
LEMMA AbortPlace ==
    ASSUME RunInv, Abort
    PROVE  ControlInv' /\ Place' = "astray" /\ UNCHANGED host
<1>1. UNCHANGED <<host, log, rpmb>> /\ \E data, n : StartIo("log_out", data, n, "astray")
  BY DEF Abort, HostExit, Send
<1>2. "astray" \in IoNext /\ "astray" \notin RpmbAt
  BY DEF IoNext, RpmbAt
<1>3. /\ log' = [left |-> log'.left, next |-> log'.next]
      /\ rpmb' = [cmd |-> rpmb'.cmd, next |-> rpmb'.next, issued |-> rpmb'.issued,
                answer |-> rpmb'.answer, stream |-> rpmb'.stream,
                executed |-> rpmb'.executed, reply |-> rpmb'.reply]
  BY <1>1 DEF RunInv, ControlInv
<1> QED BY <1>1, <1>2, <1>3, IoPlace DEF RunInv

\* At the end of the boot nothing is asked of the allocators and the CPUs
\* but their types.
LEMMA EndKeeps ==
    ASSUME RunInv, ControlInv', Place' \in Ending, host'.secs = host.secs, UNCHANGED smp,
           mem' \in Memory, ~mem'.failed
    PROVE  RunInv'
<1>1. Place' \notin Early \cup {"dev_create"} \cup Storage \cup Bcc \cup {"cpu_on"} \cup Waiting \cup Serving
  BY DEF Early, Storage, Bcc, Waiting, Serving, Ending, Stopped
<1>2. Place' # "dev_create" /\ Place' # "cpu_on"
  BY <1>1
<1> QED BY <1>1, <1>2 DEF RunInv, MemInv, CpuInv

\* What one page and n bytes do to the allocators while they fit.
LEMMA OnePage ==
    ASSUME NEW m \in Memory, ~m.failed, m.pages < PageCount
    PROVE  /\ AllocPage(m) \in Memory /\ ~AllocPage(m).failed
           /\ AllocPage(m).heap = m.heap /\ AllocPage(m).pages = m.pages + 1
<1>1. m.pages + 1 \in 0 .. PageCount
  BY DEF Memory, PageCount
<1>2. AllocPage(m) = [m EXCEPT !.pages = m.pages + 1]
  BY <1>1 DEF AllocPage, PagesFit, PageCount
<1> HIDE DEF PageCount
<1>3. AllocPage(m) \in Memory /\ AllocPage(m).heap = m.heap /\ AllocPage(m).pages = m.pages + 1
  BY <1>1, <1>2 DEF Memory
<1>4. AllocPage(m).failed = m.failed
  BY <1>2 DEF Memory
<1> QED BY <1>3, <1>4

LEMMA HeapGrows ==
    ASSUME NEW m \in Memory, ~m.failed, NEW n \in Nat, m.heap + n <= HeapSize
    PROVE  /\ [m EXCEPT !.heap = @ + n] \in Memory /\ ~[m EXCEPT !.heap = @ + n].failed
           /\ [m EXCEPT !.heap = @ + n].heap = m.heap + n
           /\ [m EXCEPT !.heap = @ + n].pages = m.pages
<1>1. m.heap + n \in 0 .. HeapSize
  BY DEF Memory, HeapSize
<1>2. [m EXCEPT !.heap = @ + n] = [m EXCEPT !.heap = m.heap + n]
  BY DEF Memory
<1>3. /\ [m EXCEPT !.heap = m.heap + n] \in Memory
      /\ [m EXCEPT !.heap = m.heap + n].heap = m.heap + n
      /\ [m EXCEPT !.heap = m.heap + n].pages = m.pages
  BY <1>1 DEF Memory
<1>4. [m EXCEPT !.heap = m.heap + n].failed = m.failed
  BY DEF Memory
<1> QED BY <1>2, <1>3, <1>4

\* trusty_dev_init and trusty_ipc_dev_create find the memory they ask for.
LEMMA DevKeeps ==
    ASSUME RunInv, DevInit \/ DevCreate
    PROVE  RunInv'
<1> USE DEF HeapSize, PageCount, DevSize
<1>1. CASE DevInit
  <2>1. pc = "dev_init" /\ pc \notin Inside /\ pc \in Early /\ UNCHANGED smp
    BY <1>1 DEF DevInit, Inside, RpmbAt, Early
  <2>2. Place = pc /\ mem \in Memory /\ ~mem.failed /\ mem.heap = 0 /\ mem.pages = 0
    BY <2>1, AtPlace DEF RunInv, MemInv
  <2>3. PICK m \in Memory : m = AllocPage(mem) /\ ~m.failed /\ m.heap = 0 /\ m.pages = 1
    BY <2>2, OnePage
  <2>4. mem' \in Memory /\ ~mem'.failed /\ mem'.heap = 0 /\ mem'.pages <= 2
    BY <1>1, <2>2, <2>3, OnePage DEF DevInit
  <2>5. Go("error") \/ Go("dev_create") \/ Abort
    BY <1>1 DEF DevInit
  <2>6. CASE Go("dev_create")
    <3>1. "dev_create" \notin Inside
      BY DEF Inside, RpmbAt
    <3>2. ControlInv' /\ Place' = "dev_create" /\ UNCHANGED host
      BY <2>1, <2>6, <3>1, GoesTo
    <3>3. Place' \notin Early /\ Place' \notin Storage /\ Place' \notin Waiting /\ Place' \notin Serving
          /\ Place' # "cpu_on"
      BY <3>2 DEF Early, Storage, Waiting, Serving
    <3>4. MemInv'
      BY <2>2, <2>4, <3>2, <3>3 DEF MemInv
    <3>5. CpuInv'
      BY <2>1, <2>2, <3>2, <3>3 DEF CpuInv, RunInv, LastCpu
    <3> QED BY <3>2, <3>4, <3>5 DEF RunInv
  <2>7. CASE Go("error") \/ Abort
    <3>1. "error" \notin Inside /\ "error" \in Ending /\ "astray" \in Ending
      BY DEF Inside, RpmbAt, Ending, Stopped
    <3>2. ControlInv' /\ Place' \in Ending /\ UNCHANGED host
      BY <2>1, <2>7, <3>1, GoesTo, AbortPlace
    <3> QED BY <3>2, <2>1, <2>2, <2>4, EndKeeps
  <2> QED BY <2>5, <2>6, <2>7
<1>2. CASE DevCreate
  <2>1. pc = "dev_create" /\ pc \notin Inside /\ UNCHANGED smp
    BY <1>2 DEF DevCreate, Inside, RpmbAt
  <2>2. Place = pc /\ mem \in Memory /\ ~mem.failed /\ mem.heap = 0 /\ mem.pages <= 2
    BY <2>1, AtPlace DEF RunInv, MemInv
  <2>3. CallocFits(DevSize)
    BY <2>2 DEF CallocFits
  <2> DEFINE m == [mem EXCEPT !.heap = @ + DevSize]
  <2>4. m \in Memory /\ ~m.failed /\ m.heap = DevSize /\ m.pages <= 2
    <3>1. DevSize \in Nat /\ mem.heap + DevSize <= HeapSize /\ mem.heap + DevSize = DevSize
      BY <2>2
    <3> HIDE DEF DevSize, HeapSize
    <3> QED BY <2>2, <3>1, HeapGrows
  <2>5. /\ mem' \in Memory /\ ~mem'.failed /\ mem'.heap = DevSize
        /\ Go("rpmb_scan") \/ Abort
    <3>1. mem' = AllocPage(m) /\ (IF mem'.failed THEN Go("error") ELSE Go("rpmb_scan") \/ Abort)
      BY <1>2, <2>3, <2>4 DEF DevCreate
    <3>2. m.pages < PageCount
      BY <2>4 DEF Memory
    <3> HIDE DEF m
    <3> QED BY <3>1, <3>2, <2>4, OnePage
  <2>6. CASE Go("rpmb_scan")
    <3>1. "rpmb_scan" \notin Inside
      BY DEF Inside, RpmbAt
    <3>2. ControlInv' /\ Place' = "rpmb_scan" /\ UNCHANGED host
      BY <2>1, <2>6, <3>1, GoesTo
    <3>3. Place' \notin Early /\ Place' # "dev_create" /\ Place' \notin Waiting /\ Place' \notin Serving
          /\ Place' # "cpu_on"
      BY <3>2 DEF Early, Waiting, Serving
    <3>4. MemInv'
      BY <2>2, <2>5, <3>2, <3>3 DEF MemInv
    <3>5. CpuInv'
      BY <2>1, <2>2, <3>2, <3>3 DEF CpuInv, RunInv, LastCpu
    <3> QED BY <3>2, <3>4, <3>5 DEF RunInv
  <2>7. CASE Abort
    <3>1. "astray" \in Ending
      BY DEF Ending
    <3> QED BY <3>1, <2>1, <2>2, <2>5, <2>7, EndKeeps, AbortPlace
  <2> QED BY <2>5, <2>6, <2>7
<1> QED BY <1>1, <1>2

\* trusty_set_boot_params takes the rest of the heap.
LEMMA ParamsKeeps ==
    ASSUME RunInv, SetBootParams \/ Shutdown("shutdown_again", "cpu_on")
    PROVE  RunInv'
<1> USE DEF HeapSize, PageCount, DevSize, ParamsSize
<1>1. CASE SetBootParams
  <2>1. pc = "km_params" /\ pc \notin Inside /\ pc \in Storage /\ UNCHANGED smp
    BY <1>1 DEF SetBootParams, Inside, RpmbAt, Storage
  <2>2. Place = pc /\ mem \in Memory /\ ~mem.failed /\ mem.heap = DevSize
    BY <2>1, AtPlace DEF RunInv, MemInv
  <2>3. CallocFits(ParamsSize) /\ mem' = [mem EXCEPT !.heap = @ + ParamsSize]
    BY <1>1, <2>2 DEF SetBootParams, Calloc, CallocFits
  <2>6. mem' \in Memory /\ ~mem'.failed
    BY SMTT(30), <2>2, <2>3, HeapGrows
  <2>4. CASE Go("hwbcc_init")
    <3>1. "hwbcc_init" \notin Inside
      BY DEF Inside, RpmbAt
    <3>2. ControlInv' /\ Place' = "hwbcc_init" /\ UNCHANGED host
      BY <2>1, <2>4, <3>1, GoesTo
    <3>3. Place' \notin Early /\ Place' # "dev_create" /\ Place' \notin Storage /\ Place' \notin Waiting
          /\ Place' \notin Serving /\ Place' # "cpu_on"
      BY <3>2 DEF Early, Storage, Waiting, Serving
    <3>4. MemInv'
      BY <2>2, <2>6, <3>2, <3>3 DEF MemInv
    <3>5. CpuInv'
      BY <2>1, <2>2, <3>2, <3>3 DEF CpuInv, RunInv, LastCpu
    <3> QED BY <3>2, <3>4, <3>5 DEF RunInv
  <2>5. CASE LogMsg("km_params", "error")
    <3>1. "error" \in LogNext /\ "error" \in Ending
      BY DEF LogNext, Ending, Stopped
    <3> QED BY <3>1, <2>1, <2>6, <2>5, EndKeeps, LogPlace DEF LogMsg, RunInv
  <2> QED BY <1>1, <2>4, <2>5 DEF SetBootParams
<1>2. CASE Shutdown("shutdown_again", "cpu_on")
  <2>1. pc = "shutdown_again" /\ pc \notin Inside /\ pc \in Bcc /\ UNCHANGED <<smp, mem>> /\ Go("cpu_on")
    BY <1>2 DEF Shutdown, Inside, RpmbAt, Bcc
  <2>2. "cpu_on" \notin Inside
    BY DEF Inside, RpmbAt
  <2>3. ControlInv' /\ Place' = "cpu_on" /\ UNCHANGED host /\ Place = pc
    BY <2>1, <2>2, GoesTo
  <2>4. Place' \notin Early /\ Place' # "dev_create" /\ Place' \notin Storage /\ Place' \notin Waiting
        /\ Place' \notin Serving
    BY <2>3 DEF Early, Storage, Waiting, Serving
  <2>5. smp.k = 1 /\ smp.on = 1 .. smp.k - 1
    BY <2>1, <2>3 DEF RunInv, CpuInv
  <2>6. MemInv' /\ CpuInv'
    BY <2>1, <2>3, <2>4, <2>5 DEF MemInv, CpuInv, RunInv, LastCpu
  <2> QED BY <2>3, <2>6 DEF RunInv
<1> QED BY <1>1, <1>2
\* In arch_start_secondary_cpus and after it the allocators are left alone.
LEMMA CpuMem ==
    ASSUME RunInv, UNCHANGED mem, Place' \in {"cpu_on", "connect"} \cup Waiting
    PROVE  MemInv'
<1>1. Place' \notin Early /\ Place' # "dev_create" /\ Place' \notin Storage
  BY DEF Waiting, Early, Storage
<1> QED BY <1>1 DEF RunInv, MemInv

\* PSCI CPU_ON: the next CPU is started, and after the last one CPU 0 waits.
LEMMA CpuOnKeeps ==
    ASSUME RunInv, CpuOn
    PROVE  RunInv'
<1>1. pc = "cpu_on" /\ pc \notin Inside /\ Place = "cpu_on" /\ UNCHANGED mem
  BY AtPlace DEF CpuOn, Inside, RpmbAt
<1>2. /\ smp.on = 1 .. smp.k - 1 /\ (smp.k = 1 \/ smp.k \in 2 .. LastCpu)
      /\ smp \in [k : 0 .. MaxCpu, on : SUBSET (1 .. MaxCpu - 1),
               ready : [0 .. MaxCpu - 1 -> 0 .. MaxCpu - 1], event : BOOLEAN]
      /\ host.secs \in Nat /\ \A c \in 0 .. MaxCpu - 1 : smp.ready[c] \in {0, c}
  BY <1>1 DEF RunInv, CpuInv
<1>3. CASE LogMsg("cpus", "astray") /\ UNCHANGED smp
  <2>1. "astray" \in LogNext /\ "astray" \in Ending
    BY DEF LogNext, Ending
  <2>2. ControlInv' /\ Place' = "astray" /\ UNCHANGED host
    BY <1>3, <2>1, LogPlace DEF LogMsg, RunInv
  <2> QED BY <1>1, <1>3, <2>1, <2>2, EndKeeps DEF RunInv, MemInv
<1>4. CASE /\ smp.k <= host.secs
           /\ smp' = [smp EXCEPT !.on = @ \cup {smp.k},
                                 !.k = IF smp.k + 1 <= LastCpu THEN smp.k + 1 ELSE 0]
           /\ Go(IF smp.k + 1 <= LastCpu THEN "cpu_on" ELSE "cpu_wait")
  <2>1. {"cpu_on", "cpu_wait"} \cap Inside = {}
    BY DEF Inside, RpmbAt
  <2>2. /\ ControlInv' /\ LastCpu' = LastCpu /\ UNCHANGED host
        /\ Place' = IF smp.k + 1 <= LastCpu THEN "cpu_on" ELSE "cpu_wait"
    BY <1>1, <1>4, <2>1, GoesTo
  <2>3. LastCpu \in 1 .. MaxCpu - 1 /\ smp.k \in 1 .. LastCpu
    BY <1>2, <1>4, LastCpuBound, RunnerAssumption
  <2>4. smp'.on = 1 .. smp.k /\ smp'.ready = smp.ready /\ smp'.event = smp.event
    BY <1>2, <1>4, <2>3
  <2>5. smp'.k = IF smp.k + 1 <= LastCpu THEN smp.k + 1 ELSE 0
    BY <1>2, <1>4
  <2>6. smp' \in [k : 0 .. MaxCpu, on : SUBSET (1 .. MaxCpu - 1),
               ready : [0 .. MaxCpu - 1 -> 0 .. MaxCpu - 1], event : BOOLEAN]
    <3>1. smp' = [k |-> smp'.k, on |-> smp'.on, ready |-> smp'.ready, event |-> smp'.event]
      BY <1>2, <1>4
    <3>2. smp'.k \in 0 .. MaxCpu /\ smp'.on \subseteq 1 .. MaxCpu - 1
      BY <2>3, <2>4, <2>5, RunnerAssumption
    <3>3. smp'.ready \in [0 .. MaxCpu - 1 -> 0 .. MaxCpu - 1] /\ smp'.event \in BOOLEAN
      BY <1>2, <2>4
    <3> QED BY <3>1, <3>2, <3>3
  <2>7. MemInv'
    BY <1>1, <2>2, CpuMem DEF Waiting
  <2>8. CASE smp.k + 1 <= LastCpu
    <3>1. Place' = "cpu_on" /\ smp'.k = smp.k + 1
      BY <2>2, <2>5, <2>8
    <3>2. Place' \notin Early \cup {"dev_create"} \cup Storage \cup Bcc \cup Waiting \cup Serving
      BY <3>1 DEF Early, Storage, Bcc, Waiting, Serving
    <3>3. smp'.on = 1 .. smp'.k - 1 /\ smp'.k \in 2 .. LastCpu
      BY <2>3, <2>4, <2>8, <3>1
    <3>4. CpuInv'
      BY <1>2, <2>2, <2>4, <2>6, <3>1, <3>2, <3>3 DEF CpuInv
    <3> QED BY <2>2, <2>7, <3>4 DEF RunInv
  <2>9. CASE ~(smp.k + 1 <= LastCpu)
    <3>1. Place' = "cpu_wait" /\ smp'.k = 0 /\ smp.k = LastCpu
      BY <2>2, <2>3, <2>5, <2>9
    <3>2. Place' \notin Early \cup {"dev_create"} \cup Storage \cup Bcc \cup {"cpu_on"} \cup Serving
      BY <3>1 DEF Early, Storage, Bcc, Waiting, Serving
    <3>3. smp'.on = 1 .. LastCpu /\ smp'.k \in 0 .. LastCpu /\ 1 .. smp'.k - 1 = {}
      BY <2>3, <2>4, <3>1
    <3>4. CpuInv'
      BY <1>2, <2>2, <2>3, <2>4, <2>6, <3>1, <3>2, <3>3 DEF CpuInv
    <3> QED BY <2>2, <2>7, <3>4 DEF RunInv
  <2> QED BY <2>8, <2>9
<1> QED BY <1>3, <1>4 DEF CpuOn

\* CPU 0 waits for an event, then looks at the entry of one CPU.
LEMMA CpuWaitKeeps ==
    ASSUME RunInv, CpuWait \/ CpuLook
    PROVE  RunInv'
<1>1. pc \in Waiting /\ pc \notin Inside /\ Place = pc /\ UNCHANGED mem
  BY AtPlace DEF CpuWait, CpuLook, Inside, RpmbAt, Waiting
<1>2. /\ smp \in [k : 0 .. MaxCpu, on : SUBSET (1 .. MaxCpu - 1),
               ready : [0 .. MaxCpu - 1 -> 0 .. MaxCpu - 1], event : BOOLEAN]
      /\ host.secs \in Nat /\ \A c \in 0 .. MaxCpu - 1 : smp.ready[c] \in {0, c}
      /\ smp.k \in 0 .. LastCpu /\ LastCpu >= 1 /\ smp.on = 1 .. LastCpu
      /\ \A c \in 1 .. smp.k - 1 : smp.ready[c] = c
  BY <1>1 DEF RunInv, CpuInv
<1>a. LastCpu \in Nat /\ LastCpu <= MaxCpu - 1
  BY <1>2, LastCpuBound
<1>b. {"cpu_look", "cpu_wait", "connect"} \cap Inside = {}
  BY DEF Inside, RpmbAt
<1>c. ASSUME NEW next \in Waiting, Go(next), smp'.k = smp.k, smp'.on = smp.on, smp'.ready = smp.ready,
             smp' \in [k : 0 .. MaxCpu, on : SUBSET (1 .. MaxCpu - 1),
               ready : [0 .. MaxCpu - 1 -> 0 .. MaxCpu - 1], event : BOOLEAN]
      PROVE  RunInv'
  <2>1. ControlInv' /\ LastCpu' = LastCpu /\ UNCHANGED host /\ Place' = next
    BY <1>1, <1>b, <1>c, GoesTo DEF Waiting
  <2>2. Place' \notin Early \cup {"dev_create"} \cup Storage \cup Bcc \cup {"cpu_on"} \cup Serving
    BY <2>1 DEF Early, Storage, Bcc, Waiting, Serving
  <2>3. CpuInv'
    BY <1>2, <1>c, <2>1, <2>2 DEF CpuInv
  <2> QED BY <1>1, <2>1, <2>3, CpuMem DEF RunInv
<1>3. CASE CpuWait
  <2>1. smp' = [smp EXCEPT !.event = FALSE] /\ Go("cpu_look")
    BY <1>3 DEF CpuWait
  <2>2. smp'.k = smp.k /\ smp'.on = smp.on /\ smp'.ready = smp.ready
    BY <1>2, <2>1
  <2>3. smp' \in [k : 0 .. MaxCpu, on : SUBSET (1 .. MaxCpu - 1),
               ready : [0 .. MaxCpu - 1 -> 0 .. MaxCpu - 1], event : BOOLEAN]
    BY <1>2, <2>1
  <2> QED BY <2>1, <2>2, <2>3, <1>c DEF Waiting
<1>4. CASE CpuLook /\ smp.ready[smp.k] # smp.k
  <2>1. UNCHANGED smp /\ Go("cpu_wait")
    BY <1>4 DEF CpuLook
  <2> QED BY <2>1, <1>2, <1>c DEF Waiting
<1>5. CASE CpuLook /\ smp.ready[smp.k] = smp.k
  <2>1. smp' = [smp EXCEPT !.k = @ + 1] /\ Go(IF MoreCpus(smp.k) THEN "cpu_wait" ELSE "connect")
    BY <1>5 DEF CpuLook
  <2>2. /\ ControlInv' /\ LastCpu' = LastCpu /\ UNCHANGED host
        /\ Place' = IF MoreCpus(smp.k) THEN "cpu_wait" ELSE "connect"
    BY <1>1, <2>1, <1>b, GoesTo
  <2>3. smp'.k = smp.k + 1 /\ smp'.on = smp.on /\ smp'.ready = smp.ready
    BY <1>2, <2>1
  <2>4. smp' \in [k : 0 .. MaxCpu, on : SUBSET (1 .. MaxCpu - 1),
               ready : [0 .. MaxCpu - 1 -> 0 .. MaxCpu - 1], event : BOOLEAN]
    <3>1. smp.k + 1 \in 0 .. MaxCpu
      <4>1. smp.k \in 0 .. LastCpu /\ MaxCpu \in Nat
        BY <1>2, RunnerAssumption
      <4> QED BY <4>1, <1>a
    <3> QED BY <1>2, <2>1, <3>1
  <2>5. \A c \in 1 .. smp.k : smp.ready[c] = c
    BY <1>2, <1>5
  <2>6. MemInv'
    BY <1>1, <2>2, CpuMem DEF Waiting
  <2>7. CASE MoreCpus(smp.k)
    <3>1. Place' = "cpu_wait" /\ smp'.k \in 0 .. LastCpu /\ smp'.k - 1 = smp.k
      BY <2>2, <2>3, <2>7, <1>2, <1>a DEF MoreCpus
    <3>2. Place' \notin Early \cup {"dev_create"} \cup Storage \cup Bcc \cup {"cpu_on"} \cup Serving
      BY <3>1 DEF Early, Storage, Bcc, Waiting, Serving
    <3>3. CpuInv'
      BY <1>2, <2>2, <2>3, <2>4, <2>5, <3>1, <3>2 DEF CpuInv
    <3> QED BY <2>2, <2>6, <3>3 DEF RunInv
  <2>8. CASE ~MoreCpus(smp.k)
    <3>1. Place' = "connect" /\ smp.k = LastCpu
      BY <2>2, <2>8, <1>2, <1>a DEF MoreCpus
    <3>2. Place' \notin Early \cup {"dev_create"} \cup Storage \cup Bcc \cup {"cpu_on"} \cup Waiting
      BY <3>1 DEF Early, Storage, Bcc, Waiting
    <3>3. CpuInv'
      BY <1>2, <2>2, <2>3, <2>4, <2>5, <3>1, <3>2 DEF CpuInv
    <3> QED BY <2>2, <2>6, <3>3 DEF RunInv
  <2> QED BY <2>7, <2>8
<1> QED BY <1>3, <1>4, <1>5

\* A secondary CPU only ever enters its own number.
LEMMA SecondaryKeeps ==
    ASSUME RunInv, NEW c \in 1 .. MaxCpu - 1, SecondaryStart(c)
    PROVE  RunInv'
<1>1. /\ UNCHANGED <<pc, io, log, rpmb, host, mem>>
      /\ smp' = [smp EXCEPT !.ready[c] = c, !.event = TRUE]
  BY DEF SecondaryStart, queueVars, consoleVars
<1>2. Place' = Place /\ LastCpu' = LastCpu /\ ControlInv' /\ MemInv'
  BY <1>1 DEF Place, Inner, LastCpu, RunInv, ControlInv, MemInv
<1>3. smp \in [k : 0 .. MaxCpu, on : SUBSET (1 .. MaxCpu - 1),
               ready : [0 .. MaxCpu - 1 -> 0 .. MaxCpu - 1], event : BOOLEAN]
  BY DEF RunInv, CpuInv
<1>4. /\ smp'.k = smp.k /\ smp'.on = smp.on
      /\ smp'.ready = [smp.ready EXCEPT ![c] = c]
  BY <1>1, <1>3
<1>5. smp' \in [k : 0 .. MaxCpu, on : SUBSET (1 .. MaxCpu - 1),
               ready : [0 .. MaxCpu - 1 -> 0 .. MaxCpu - 1], event : BOOLEAN]
  <2>1. c \in 0 .. MaxCpu - 1
    BY RunnerAssumption
  <2>2. [smp.ready EXCEPT ![c] = c] \in [0 .. MaxCpu - 1 -> 0 .. MaxCpu - 1]
    BY <1>3, <2>1
  <2> QED BY <1>1, <1>3, <2>2
<1>6. \A d \in 0 .. MaxCpu - 1 : smp.ready[d] = d => smp'.ready[d] = d
  BY <1>3, <1>4
<1>7. \A d \in 0 .. MaxCpu - 1 : smp'.ready[d] \in {0, d}
  BY <1>3, <1>4 DEF RunInv, CpuInv
<1>8. host.secs \in Nat /\ LastCpu \in Nat /\ LastCpu <= MaxCpu - 1
  BY LastCpuBound DEF RunInv, CpuInv
<1>9. /\ Place \in Waiting => \A d \in 1 .. smp'.k - 1 : smp'.ready[d] = d
      /\ Place \in Serving => \A d \in 1 .. LastCpu : smp'.ready[d] = d
  BY SMTT(30), <1>4, <1>6, <1>8, RunnerAssumption DEF RunInv, CpuInv
<1>10. CpuInv'
  BY <1>1, <1>2, <1>4, <1>5, <1>7, <1>8, <1>9 DEF RunInv, CpuInv
<1> QED BY <1>2, <1>10 DEF RunInv

(***************************************************************************)
(* The theorems.                                                           *)
(***************************************************************************)

\* The places of boot(), the allocators and the secondary CPUs agree in every
\* reachable state.
THEOREM RunInvariance == Spec => []RunInv
<1>1. Init => RunInv
  BY RunInit
<1>2. ASSUME RunInv, [Next]_vars PROVE RunInv'
  BY <1>2, StepKinds, QuietKeeps, DevKeeps, ParamsKeeps, CpuOnKeeps, CpuWaitKeeps, SecondaryKeeps
     DEF RunInv
<1> QED BY <1>1, <1>2, PTL DEF Spec

\* No allocation of a boot fails: every request of trusty_calloc and
\* trusty_alloc_pages fits into what the allocators have left, though neither
\* takes memory back.
THEOREM AllocatorsSuffice == Spec => []AllocFits
<1>1. RunInv => AllocFits
  BY DEF RunInv, MemInv, AllocFits
<1> QED BY <1>1, RunInvariance, PTL

\* boot() gets past arch_start_secondary_cpus only when every secondary CPU
\* there is a stack for was started and has entered itself in cpu_ready.
THEOREM SecondariesStarted == Spec => []SecondariesFirst
<1>1. RunInv => SecondariesFirst
  <2> SUFFICES ASSUME RunInv, pc \in Serving
               PROVE  smp.on = 1 .. LastCpu /\ \A c \in smp.on : smp.ready[c] = c
    BY DEF SecondariesFirst, Serving
  <2>1. pc \notin Inside
    BY DEF Serving, Inside, RpmbAt
  <2> QED BY <2>1, AtPlace DEF RunInv, CpuInv
<1> QED BY <1>1, RunInvariance, PTL
(***************************************************************************)
(* hwbcc.                                                                  *)
(***************************************************************************)

\* What iovec_size adds up for the iovecs the client uses.
LEMMA IovecSizes ==
    ASSUME NEW a \in Nat, NEW b \in Nat
    PROVE  /\ IovecSize(<<>>) = 0
           /\ IovecSize(<<a>>) = a
           /\ IovecSize(<<a, b>>) = a + b
<1> DEFINE Sums(lens, f) == f = [i \in 0 .. Len(lens) |-> IF i = 0 THEN 0 ELSE f[i - 1] + lens[i]]
<1> DEFINE Sum(lens) == CHOOSE f : Sums(lens, f)
<1>1. \A lens : IovecSize(lens) = Sum(lens)[Len(lens)]
  BY DEF IovecSize
<1>2. ASSUME NEW lens, NEW f, Sums(lens, f) PROVE Sums(lens, Sum(lens))
  <2> HIDE DEF Sums
  <2> QED BY <1>2
<1> HIDE DEF Sum
<1>3. IovecSize(<<>>) = 0
  <2> DEFINE f == [i \in 0 .. 0 |-> 0]
  <2>1. Sums(<<>>, f)
    OBVIOUS
  <2>2. Sums(<<>>, Sum(<<>>))
    <3> HIDE DEF f, Sums
    <3> QED BY <2>1, <1>2
  <2>3. Sum(<<>>)[0] = 0
    BY <2>2
  <2> QED BY <2>3, <1>1
<1>4. IovecSize(<<a>>) = a
  <2> DEFINE f == [i \in 0 .. 1 |-> IF i = 0 THEN 0 ELSE a]
  <2>1. Sums(<<a>>, f)
    OBVIOUS
  <2>2. Sums(<<a>>, Sum(<<a>>))
    <3> HIDE DEF f, Sums
    <3> QED BY <2>1, <1>2
  <2>3. Sum(<<a>>)[0] = 0
    BY <2>2
  <2>4. Sum(<<a>>)[1] = a
    BY <2>2, <2>3
  <2> QED BY <2>4, <1>1
<1>5. IovecSize(<<a, b>>) = a + b
  <2> DEFINE f == [i \in 0 .. 2 |-> IF i = 0 THEN 0 ELSE IF i = 1 THEN a ELSE a + b]
  <2>1. Sums(<<a, b>>, f)
    OBVIOUS
  <2>2. Sums(<<a, b>>, Sum(<<a, b>>))
    <3> HIDE DEF f, Sums
    <3> QED BY <2>1, <1>2
  <2>3. Sum(<<a, b>>)[0] = 0
    BY <2>2
  <2>4. Sum(<<a, b>>)[1] = a
    BY <2>2, <2>3
  <2>5. Sum(<<a, b>>)[2] = a + b
    BY <2>2, <2>4
  <2> QED BY <2>5, <1>1
<1> QED BY <1>3, <1>4, <1>5
LEMMA MinOfTwo ==
    ASSUME NEW a \in Int, NEW b \in Int
    PROVE  Min({a, b}) = IF a <= b THEN a ELSE b
<1>1. \E x \in {a, b} : \A y \in {a, b} : x <= y
  OBVIOUS
<1>2. Min({a, b}) \in {a, b} /\ \A y \in {a, b} : Min({a, b}) <= y
  BY <1>1 DEF Min
<1> QED BY <1>2

\* read_response_with_data, for every message and every size of the caller's
\* buffer: it succeeds only with the whole payload of an answer to the request.
LEMMA ResponseWhole ==
    ASSUME NEW cmd \in Nat, NEW msg \in Seq(Nat), NEW cap \in Nat,
           ReadResponseWithData(cmd, msg, cap).rc = 0
    PROVE  LET r == ReadResponseWithData(cmd, msg, cap)
           IN  /\ msg[1] = cmd + RespBit /\ msg[2] = 0
               /\ r.data = SubSeq(msg, HdrLen + 1, Len(msg))
               /\ r.size = Len(r.data)
<1> DEFINE lens == <<HdrLen, cap>>
           iov == BufToIovec(lens, msg)
           rc == RecvResult(lens, msg)
<1>1. HeaderOk(cmd, rc, iov[1]) /\ iov[1][3] = rc - HdrLen
      /\ ReadResponseWithData(cmd, msg, cap) = [rc |-> 0, size |-> iov[1][3], data |-> iov[2]]
  BY DEF ReadResponseWithData, Err
<1>2. IovecSize(lens) = HdrLen + cap /\ HdrLen = 3
  BY IovecSizes DEF HdrLen
<1>3. rc = Len(msg) /\ Len(msg) >= 3 /\ Len(msg) <= 3 + cap
  BY <1>1, <1>2 DEF RecvResult, HeaderOk, Err
<1>4. lens \in Seq(Nat) /\ Len(lens) = 2 /\ lens[1] = 3 /\ lens[2] = cap
  BY DEF HdrLen
<1> HIDE DEF lens
<1>10. 1 \in DOMAIN lens /\ 2 \in DOMAIN lens /\ SubSeq(lens, 1, 1 - 1) = <<>>
  BY <1>4
<1>11. SubSeq(lens, 1, 2 - 1) = <<3>>
  <2>1. \A t \in Seq(Nat) : Len(t) = 1 /\ t[1] = 3 => t = <<3>>
    OBVIOUS
  <2>2. /\ SubSeq(lens, 1, 1) \in Seq(Nat) /\ Len(SubSeq(lens, 1, 1)) = 1
        /\ SubSeq(lens, 1, 1)[1] = 3
    BY <1>4
  <2>3. SubSeq(lens, 1, 1) = <<3>>
    BY <2>1, <2>2, Zenon
  <2>4. 2 - 1 = 1
    OBVIOUS
  <2> QED BY <2>3, <2>4
<1>5. iov[1] = SubSeq(msg, 1, 3)
  <2>1. iov[1] = SubSeq(msg, 0 + 1, Min({0 + 3, Len(msg)}))
    BY <1>4, <1>10, IovecSizes DEF BufToIovec
  <2>2. Min({0 + 3, Len(msg)}) = 3
    BY <1>3, MinOfTwo
  <2> QED BY <2>1, <2>2
<1>6. iov[2] = SubSeq(msg, 4, Len(msg))
  <2>1. IovecSize(<<3>>) = 3
    BY IovecSizes
  <2>2. iov[2] = SubSeq(msg, 3 + 1, Min({3 + cap, Len(msg)}))
    BY <1>4, <1>10, <1>11, <2>1 DEF BufToIovec
  <2>3. Min({3 + cap, Len(msg)}) = Len(msg)
    BY SMTT(30), <1>3, MinOfTwo
  <2>4. 3 + 1 = 4
    OBVIOUS
  <2> QED BY <2>2, <2>3, <2>4, Zenon
<1> HIDE DEF iov, rc
<1>7. iov[1][1] = msg[1] /\ iov[1][2] = msg[2] /\ Len(iov[2]) = Len(msg) - 3
  BY SMTT(30), <1>3, <1>5, <1>6
<1>8. msg[1] = cmd + RespBit /\ msg[2] = 0
  BY <1>1, <1>7 DEF HeaderOk
<1>9. /\ ReadResponseWithData(cmd, msg, cap).data = iov[2]
      /\ ReadResponseWithData(cmd, msg, cap).size = Len(iov[2])
  BY <1>1, <1>2, <1>3, <1>7
<1> QED BY <1>2, <1>6, <1>8, <1>9

DiceInv ==
    \/ hw = NoResponse
    \/ \E m \in Responses : hw = [msg |-> m, res |-> ReadResponseWithData(GetDice, m, DiceCap)]

\* hwbcc_get_dice_artifacts succeeds only with the payload of a response to its
\* own request, all of it and no more.
THEOREM DiceArtifactsWhole == Spec => []DiceWhole
<1>1. Init => DiceInv
  BY DEF Init, DiceInv
<1>2. ASSUME DiceInv, [Next]_vars PROVE DiceInv'
  <2>1. CASE UNCHANGED hw
    BY <1>2, <2>1 DEF DiceInv
  <2>2. ASSUME NEW at, NEW failed, NEW done, NEW next, GetDiceArtifacts(at, failed, done, next)
        PROVE  DiceInv'
    BY <2>2 DEF GetDiceArtifacts, DiceInv
  <2>3. ASSUME NEW at, NEW next, Shutdown(at, next) PROVE DiceInv'
    BY <2>3 DEF Shutdown, DiceInv
  <2>4. CASE Libtipc
    <3>1. CASE DevInit \/ DevCreate \/ SetBootParams \/ CheckSize \/ NsDeprivilege \/ RecvResultByte \/ WaitForClose
      BY <3>1, <2>1 DEF DevInit, DevCreate, SetBootParams, CheckSize, NsDeprivilege, RecvResultByte,
                        WaitForClose, bootVars
    <3>2. ASSUME NEW at, NEW text, NEW next, Call(at, text, next) PROVE DiceInv'
      BY <3>2, <2>1 DEF Call, bootVars
    <3> QED BY <2>4, <2>2, <2>3, <3>1, <3>2, Zenon DEF Libtipc
  <2>5. CASE Boot
    BY <2>5, <2>1 DEF Boot, BootArm64, InitLog, LogOpened, GetCmdline, BootNext, InitRpmb, RpmbOpened,
                      CpuOn, CpuWait, CpuLook, ReportStatus, Astray, Console, bootVars
  <2>6. CASE StorageRequest \/ WfeReturns \/ Secondary \/ Host \/ UNCHANGED vars
    BY <2>6, <2>1 DEF StorageRequest, WfeReturns, Secondary, SecondaryStart, Host, vars, bootVars
  <2> QED BY <1>2, <2>4, <2>5, <2>6 DEF Next
<1>3. DiceInv => DiceWhole
  <2>1. CASE hw = NoResponse
    BY <2>1 DEF NoResponse, DiceWhole, Err
  <2>2. ASSUME NEW m \in Responses, hw = [msg |-> m, res |-> ReadResponseWithData(GetDice, m, DiceCap)]
        PROVE  DiceWhole
    <3>1. m \in Seq(Nat) /\ GetDice \in Nat /\ DiceCap \in Nat
      <4>1. GetDice + RespBit = 7 /\ Deprivilege + RespBit = 9 /\ GetDice \in Nat /\ DiceCap \in Nat
        BY DEF GetDice, Deprivilege, RespBit, DiceCap
      <4>2. /\ <<>> \in Seq(Nat) /\ <<7, 0>> \in Seq(Nat) /\ <<7, 0, 2, 7, 8>> \in Seq(Nat)
            /\ <<7, 0, 1, 7>> \in Seq(Nat) /\ <<7, 0, 2, 7>> \in Seq(Nat)
        OBVIOUS
      <4>3. /\ <<7, 0, 4, 7, 8, 9, 9>> \in Seq(Nat) /\ <<7, 1, 0>> \in Seq(Nat) /\ <<9, 0, 0>> \in Seq(Nat)
        OBVIOUS
      <4>4. m \in {<<>>, <<7, 0>>, <<7, 0, 2, 7, 8>>, <<7, 0, 1, 7>>, <<7, 0, 2, 7>>,
                  <<7, 0, 4, 7, 8, 9, 9>>, <<7, 1, 0>>, <<9, 0, 0>>}
        BY <4>1 DEF Responses
      <4> QED BY <4>1, <4>2, <4>3, <4>4
    <3>2. hw.msg = m /\ hw.res = ReadResponseWithData(GetDice, m, DiceCap)
      BY <2>2
    <3> QED BY <3>1, <3>2, ResponseWhole DEF DiceWhole
  <2> QED BY <2>1, <2>2 DEF DiceInv
<1> QED BY <1>1, <1>2, <1>3, PTL DEF Spec
=============================================================================
