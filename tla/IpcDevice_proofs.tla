-------------------------- MODULE IpcDevice_proofs --------------------------
(***************************************************************************)
(* Proofs that the library gives back no memory the secure OS can still    *)
(* use and leaves nothing behind, for any buffers, any secure OS and any   *)
(* sequence of sessions and failures.                                      *)
(*                                                                         *)
(* The invariant says, for each place in trusty_ipc_init and               *)
(* trusty_ipc_shutdown, what the library and the secure world hold there.  *)
(***************************************************************************)
EXTENDS MemShare, TLAPS

\* Where the secure OS has the IPC device of this session.
Running == Chans \cup {"up", "failed", "stop"}

Unbuffered == {"down", "nodev", "ffa", "create", "dev_down"}

\* The buffer is allocated from Create to FreeBuf or Release, and nothing but
\* it is ever shared.
BufferInv ==
    /\ pc \in Unbuffered => buf = None
    /\ pc \notin Unbuffered \cup {"aborted"} => buf \in Bufs
    /\ shared \subseteq {buf}
    /\ pc \in {"share", "free", "release"} => shared = {}
    /\ pc # "aborted" /\ ~ffa => shared = {}

\* Devices and connections beyond the current one are those that could not be
\* shut down.
DeviceInv ==
    /\ \A b \in mapped : b \in stuck \/ (b = buf /\ pc \in Running \cup {"aborted"})
    /\ \A x \in conns : x[2] \in stuck \/ (x[2] = buf /\ pc \in Running \cup {"aborted"})

\* A channel is marked as initialized in a session only, and the FF-A buffers
\* are mapped only where ffa_tx says so.
SessionInv ==
    /\ inited # {} => pc \in Running \cup {"aborted"}
    /\ pc = "stop" => inited = {}
    /\ pc = "ffa" => api = "mem_obj"
    /\ rxtx => api = "mem_obj" /\ pc # "down"
    /\ rxtx /\ pc \notin {"nodev", "ffa", "aborted"} => ffa

\* A device that could not be shut down ends the program, unless memory is
\* shared without FF-A by a release build.
StuckInv ==
    /\ ffa => api = "mem_obj"
    /\ api = "mem_obj" /\ pc \notin {"down", "nodev", "ffa", "aborted"} => ffa
    /\ pc \in Running => buf \in mapped
    /\ stuck \subseteq mapped
    /\ \A b \in stuck :
          \/ ~debug /\ api # "mem_obj"
          \/ b = buf /\ (pc = "aborted" \/ (pc = "reclaim" /\ ~debug))

DevInv == TypeOK /\ BufferInv /\ DeviceInv /\ SessionInv /\ StuckInv

\* The library is down and nothing is shared at first.
LEMMA DevInit == Init => DevInv
  BY DeviceAssumption
  DEF Init, DevInv, TypeOK, BufferInv, DeviceInv, SessionInv, StuckInv, Unbuffered, Running, Chans

\* The steps of trusty_ipc_init up to the clients keep the invariant.
LEMMA CreateKeeps ==
  ASSUME DevInv,
         ApiVersion \/ FfaSetup \/ Create \/ ShareMemory \/ InitIpc \/ FreeBuf
  PROVE  DevInv'
<1> USE DeviceAssumption
    DEF DevInv, TypeOK, BufferInv, DeviceInv, SessionInv, StuckInv, Unbuffered, Running, Chans
<1>1. CASE ApiVersion
  BY <1>1 DEF ApiVersion
<1>2. CASE FfaSetup
  BY <1>2 DEF FfaSetup
<1>3. CASE Create
  BY <1>3 DEF Create
<1>4. CASE ShareMemory
  BY <1>4 DEF ShareMemory
<1>5. CASE InitIpc
  BY <1>5 DEF InitIpc
<1>6. CASE FreeBuf
  BY <1>6 DEF FreeBuf
<1> QED
  BY <1>1, <1>2, <1>3, <1>4, <1>5, <1>6

\* The clients' init calls, successful or not, keep the invariant.
LEMMA ChanKeeps ==
  ASSUME DevInv, NEW c \in Chans, ChanInit(c) \/ ChanInitFails(c)
  PROVE  DevInv'
<1> USE DEF DevInv, BufferInv, DeviceInv, SessionInv, StuckInv, Unbuffered, Running, Chans
<1>1. CASE ChanInit(c)
  <2>1. After(c) \in {"avb", "km", "up"}
    BY DEF After
  <2>2. TypeOK'
    BY <1>1, <2>1 DEF ChanInit, TypeOK
  <2> QED
    BY <1>1, <2>1, <2>2 DEF ChanInit, TypeOK
<1>2. CASE ChanInitFails(c)
  <2>1. inited' \subseteq Chans
    BY <1>2 DEF ChanInitFails, TypeOK
  <2>2. conns' \subseteq Chans \X Bufs
    BY <1>2 DEF ChanInitFails, TypeOK
  <2>3. TypeOK'
    BY <1>2, <2>1, <2>2 DEF ChanInitFails, TypeOK
  <2> QED
    BY <1>2, <2>3 DEF ChanInitFails, TypeOK
<1> QED
  BY <1>1, <1>2

\* Reclaiming the buffer, and what follows it, keeps the invariant.
LEMMA ReclaimKeeps ==
  ASSUME DevInv, Unwind \/ Reclaim \/ Release \/ DevShutdown
  PROVE  DevInv'
<1> USE DEF DevInv, TypeOK, BufferInv, DeviceInv, SessionInv, StuckInv, Unbuffered, Running, Chans
<1>1. CASE Unwind
  BY <1>1 DEF Unwind, ReclaimMemory
<1>2. CASE Reclaim
  BY <1>2 DEF Reclaim, ReclaimMemory
<1>3. CASE Release
  BY <1>3 DEF Release
<1>4. CASE DevShutdown
  BY <1>4 DEF DevShutdown
<1> QED
  BY <1>1, <1>2, <1>3, <1>4

\* A refused shutdown of the secure device ends a debug build, and leads to the
\* reclaim in a release build.
LEMMA StuckKeeps ==
  ASSUME StuckInv, StopIpc
  PROVE  StuckInv'
<1>1. pc = "stop" /\ buf \in mapped /\ stuck \subseteq mapped
  BY DEF StuckInv, StopIpc, Running, Chans
<1>2. \A b \in stuck : ~debug /\ api # "mem_obj"
  BY <1>1 DEF StuckInv
<1>3. stuck' \subseteq mapped'
  BY <1>1 DEF StopIpc
<1>4. \/ stuck' = stuck \ {buf} /\ pc' = "reclaim"
      \/ stuck' = stuck \cup {buf} /\ debug /\ pc' = "aborted"
      \/ stuck' = stuck \cup {buf} /\ ~debug /\ pc' = "reclaim"
  BY DEF StopIpc
<1>5. api' = api /\ debug' = debug /\ buf' = buf /\ ffa' = ffa
  BY DEF StopIpc
<1>6. ASSUME NEW b \in stuck'
      PROVE  \/ ~debug' /\ api' # "mem_obj"
             \/ b = buf' /\ (pc' = "aborted" \/ (pc' = "reclaim" /\ ~debug'))
  <2>1. CASE b \in stuck
    BY <2>1, <1>2, <1>5, Zenon
  <2>2. CASE b \notin stuck
    BY <2>2, <1>4, <1>5, <1>6
  <2> QED
    BY <2>1, <2>2
<1> QED
  BY <1>1, <1>3, <1>4, <1>5, <1>6 DEF StuckInv, Running, Chans

\* Closing the channels and shutting the secure device down keeps it.
LEMMA StopKeeps ==
  ASSUME DevInv, CloseChans \/ StopIpc
  PROVE  DevInv'
<1> USE DEF DevInv, TypeOK, BufferInv, DeviceInv, SessionInv, StuckInv, Unbuffered, Running, Chans
<1>1. CASE CloseChans
  BY <1>1 DEF CloseChans
<1>2. CASE StopIpc
  <2>1. StuckInv'
    BY <1>2, StuckKeeps
  <2>2. DeviceInv'
    BY <1>2 DEF StopIpc
  <2> QED
    BY <1>2, <2>1, <2>2 DEF StopIpc
<1> QED
  BY <1>1, <1>2

\* The invariant is inductive.
LEMMA DevStep == DevInv /\ [Next]_vars => DevInv'
<1> SUFFICES ASSUME DevInv, [Next]_vars PROVE DevInv'
  OBVIOUS
<1>1. CASE UNCHANGED vars
  BY <1>1 DEF vars, DevInv, TypeOK, BufferInv, DeviceInv, SessionInv, StuckInv
<1>2. CASE Next
  BY <1>2, CreateKeeps, ChanKeeps, ReclaimKeeps, StopKeeps DEF Next
<1> QED
  BY <1>1, <1>2

\* What the library and the secure world hold agrees at every step.
THEOREM DevInvariant == Spec => []DevInv
<1>1. Init => DevInv
  BY DevInit
<1>2. DevInv /\ [Next]_vars => DevInv'
  BY DevStep
<1> QED
  BY <1>1, <1>2, PTL DEF Spec

\* Every variable of the device's life keeps its type.
THEOREM DevTypeCorrect == Spec => []TypeOK
<1>1. DevInv => TypeOK
  BY DEF DevInv
<1> QED
  BY <1>1, DevInvariant, PTL

\* No error path of trusty_ipc_dev_create and no order of failures makes
\* trusty_free_pages return memory that is shared, or in use by a device that
\* did not refuse to be shut down.
THEOREM FreedPagesPrivate == Spec => []NoSharedFree
<1>1. DevInv => NoSharedFree
  BY DEF DevInv, TypeOK, BufferInv, DeviceInv, StuckInv, NoSharedFree
<1> QED
  BY <1>1, DevInvariant, PTL

\* A session that was shut down leaves nothing to the next one.
THEOREM SessionsIndependent == Spec => []CleanStart
<1>1. DevInv => CleanStart
  BY DeviceAssumption
  DEF DevInv, TypeOK, BufferInv, DeviceInv, SessionInv, StuckInv, CleanStart, Unbuffered, Running, Chans
<1> QED
  BY <1>1, DevInvariant, PTL

(***************************************************************************)
(* The secure OS maps the shared buffer the way the library does           *)
(* (SharedAsMapped), for any way the pages are mapped.                     *)
(*                                                                         *)
(* A step of MemShare is a step of IpcDevice, so the invariant above       *)
(* holds: a device that is mapped and was not refused its shutdown is the  *)
(* one of the running session.  It remains to follow the page information  *)
(* of that session from the allocation to the secure OS.                   *)
(***************************************************************************)

\* The secure OS was told of buffer b what SharedAsMapped asks for.
ToldRight(b) ==
    (page.fmt = "none" \/ ~ffa) =>
        /\ told[b].addr = b /\ told[b].write
        /\ page.fmt = "none" => told[b].mair = (IF ffa THEN FfaUncached ELSE Uncached)
        /\ page.fmt = "long" => told[b].mair = page.mair /\ told[b].sh = page.sh
        /\ page.fmt = "short" /\ Cached(page) =>
              told[b].mair = Mair(page) /\ told[b].sh = (IF page.shared THEN 3 ELSE 0)

\* The page information is the buffer's until it is told, and what was told is
\* right from then on until the session's device is gone.
MemInv ==
    /\ page \in Pages
    /\ page.fmt = "none" => rxtxAt = "own"
    /\ DOMAIN told = Bufs
    /\ pc = "share" => info = EncodePageInfo(Zeroed, buf)
    /\ pc = "init_ipc" \/ buf \in mapped \ stuck => ToldRight(buf)

MDevInv == DevInv /\ MemInv

-----------------------------------------------------------------------------

\* A step with page information is a step of the device.
LEMMA MNextIsNext == [MNext]_<<vars, memVars>> => [Next]_vars
  BY DEF MNext, MapBuffers, CreateDev, ShareDev, Untouched, Next

\* trusty_dev_share_memory's descriptor, read by the offsets written into it, is the
\* one range of the page information.
LEMMA DescriptorRead ==
  ASSUME NEW i
  PROVE  Retrieve(Descriptor(i, 1), TxSize) =
           [addr |-> i.paddr, mair |-> i.ffa_mem_attr, sh |-> 0, write |-> i.ffa_mem_perm = FfaRw]
<1> DEFINE tx == Descriptor(i, 1)
<1>1. /\ MtdSize = 32 /\ CompOffset = 48 /\ CompSize = 16 /\ ConsSize = 16 /\ TxSize = 80
  BY DEF MtdSize, EmadSize, CompOffset, CompSize, ConsSize, TxSize
<1>2. /\ tx[0] = [attr |-> i.ffa_mem_attr, emads |-> 1]
      /\ tx[32] = [perm |-> i.ffa_mem_perm, comp |-> 48]
      /\ tx[48] = [total |-> 1, ranges |-> 1]
      /\ tx[64] = [address |-> i.paddr, count |-> 1]
  <2>1. 48 + 16 = 64
    OBVIOUS
  <2> QED
    BY <1>1, <2>1 DEF Descriptor
<1> HIDE DEF tx
<1>3. /\ tx[0].attr = i.ffa_mem_attr
      /\ tx[MtdSize].comp = 48 /\ tx[MtdSize].perm = i.ffa_mem_perm
      /\ tx[48].total = 1 /\ tx[48 + CompSize].count = 1
      /\ tx[48 + CompSize].address = i.paddr
  <2>1. 48 + CompSize = 64
    BY <1>1
  <2> QED
    BY <1>1, <1>2, <2>1
<1>4. 48 + CompSize + ConsSize <= TxSize
  BY <1>1
<1> QED
  BY <1>3, <1>4 DEF Retrieve, tx

\* par2attr gives the memory attribute of a short descriptor that is cached in
\* both caches.
LEMMA ShortAttr ==
  ASSUME NEW p \in [fmt : {"short"}, inner : DOMAIN Inner, outer : DOMAIN Outer, shared : BOOLEAN],
         NEW b, Cached(p)
  PROVE  Par2AttrShort(p, b) = [pa |-> b, mair |-> Mair(p), sh |-> IF p.shared THEN 3 ELSE 0]
<1>1. /\ Inner["wbwa"] = 5 /\ Inner["wt"] = 6 /\ Inner["wb"] = 7
      /\ Outer["wbwa"] = 1 /\ Outer["wt"] = 2 /\ Outer["wb"] = 3
  BY DEF Inner, Outer
<1>2. /\ IshToMair(5) = 15 /\ IshToMair(6) = 10 /\ IshToMair(7) = 14
      /\ OshToMair(1) = 15 /\ OshToMair(2) = 10 /\ OshToMair(3) = 14
  BY DEF IshToMair, OshToMair
<1> DEFINE nib == [wbwa |-> 15, wt |-> 10, wb |-> 14]
<1>3. ASSUME NEW k \in {"wbwa", "wt", "wb"}
      PROVE  IshToMair(Inner[k]) = nib[k] /\ OshToMair(Outer[k]) = nib[k] /\ nib[k] \in 1 .. 15
  <2>1. CASE k = "wbwa"
    BY <1>1, <1>2, <2>1
  <2>2. CASE k = "wt"
    BY <1>1, <1>2, <2>2
  <2>3. CASE k = "wb"
    BY <1>1, <1>2, <2>3
  <2> QED
    BY <2>1, <2>2, <2>3
<1>4. p.inner \in {"wbwa", "wt", "wb"} /\ p.outer \in {"wbwa", "wt", "wb"}
  BY DEF Cached
<1>5. Mair(p) = 16 * nib[p.outer] + nib[p.inner]
  BY DEF Mair
<1> HIDE DEF nib
<1>6. 16 * OshToMair(Outer[p.outer]) + IshToMair(Inner[p.inner]) = Mair(p) /\ Mair(p) # 0
  BY <1>3, <1>4, <1>5
<1> QED
  BY <1>6 DEF Par2AttrShort

\* What trusty_dev_share_memory tells of the page information of a buffer is right.
LEMMA TellsRight ==
  ASSUME MemInv, ffa \in BOOLEAN, NEW b \in Bufs, info = EncodePageInfo(Zeroed, b),
         page.fmt = "none" \/ ~ffa
  PROVE  LET t == Tell(info)
         IN  /\ t.addr = b /\ t.write
             /\ page.fmt = "none" => t.mair = (IF ffa THEN FfaUncached ELSE Uncached)
             /\ page.fmt = "long" => t.mair = page.mair /\ t.sh = page.sh
             /\ page.fmt = "short" /\ Cached(page) =>
                   t.mair = Mair(page) /\ t.sh = (IF page.shared THEN 3 ELSE 0)
<1>1. CASE page.fmt = "none"
  <2>1. info = EncodeRunner(b)
    BY <1>1 DEF EncodePageInfo
  <2>2. CASE ffa
    <3>1. Tell(info) = Retrieve(Descriptor(info, 1), TxSize)
      BY <1>1, <2>2 DEF Tell, MemInv
    <3>2. Tell(info) = [addr |-> info.paddr, mair |-> info.ffa_mem_attr, sh |-> 0,
                        write |-> info.ffa_mem_perm = FfaRw]
      BY <3>1, DescriptorRead
    <3>3. info.paddr = b /\ info.ffa_mem_attr = FfaUncached /\ info.ffa_mem_perm = FfaRw
      BY <2>1 DEF EncodeRunner
    <3>4. Tell(info) = [addr |-> b, mair |-> FfaUncached, sh |-> 0, write |-> TRUE]
      BY <3>2, <3>3
    <3> QED
      BY <1>1, <2>2, <3>4
  <2>3. CASE ~ffa
    <3>1. Tell(info) = Decode(info.attr)
      BY <2>3 DEF Tell
    <3> QED
      BY <1>1, <2>1, <2>3, <3>1 DEF EncodeRunner, Decode
  <2> QED
    BY <2>2, <2>3
<1>2. CASE page.fmt = "long"
  <2>1. info.attr = Par2AttrLong(page, b)
    BY <1>2 DEF EncodePageInfo, Zeroed
  <2>2. Tell(info) = Decode(info.attr)
    BY <1>2 DEF Tell
  <2> QED
    BY <1>2, <2>1, <2>2 DEF Decode, Par2AttrLong
<1>3. CASE page.fmt = "short"
  <2>1. info.attr = Par2AttrShort(page, b)
    BY <1>3 DEF EncodePageInfo, Zeroed
  <2>2. Tell(info) = Decode(info.attr)
    BY <1>3 DEF Tell
  <2>3. page \in [fmt : {"short"}, inner : DOMAIN Inner, outer : DOMAIN Outer, shared : BOOLEAN]
    BY <1>3 DEF MemInv, Pages
  <2>4. Tell(info).addr = b /\ Tell(info).write
    BY <2>1, <2>2 DEF Decode, Par2AttrShort
  <2>5. Cached(page) =>
          Tell(info).mair = Mair(page) /\ Tell(info).sh = (IF page.shared THEN 3 ELSE 0)
    BY <2>1, <2>2, <2>3, ShortAttr DEF Decode
  <2> QED
    BY <1>3, <2>4, <2>5
<1>4. page.fmt \in {"none", "long", "short"}
  BY DEF MemInv, Pages
<1> QED
  BY <1>1, <1>2, <1>3, <1>4

\* Where a session has no device of its own in the secure OS, no buffer is mapped but
\* those of devices that could not be shut down.
LEMMA OnlyStuckMapped ==
  ASSUME DevInv, pc \notin Running \cup {"aborted"}
  PROVE  mapped \subseteq stuck
  BY DEF DevInv, DeviceInv

\* The steps of trusty_dev_init and trusty_ipc_dev_create that deal with page
\* information keep it right.
LEMMA InfoKeeps ==
  ASSUME MDevInv, MapBuffers \/ CreateDev \/ ShareDev
  PROVE  MemInv'
<1> USE DEF MDevInv
<1>1. CASE MapBuffers
  <2>1. pc = "ffa" /\ pc' \in {"create", "aborted"} /\ UNCHANGED <<buf, mapped, stuck, page, info, told>>
    BY <1>1 DEF MapBuffers, FfaSetup
  <2>2. mapped \subseteq stuck
    BY <2>1, OnlyStuckMapped DEF Running, Chans
  <2>3. page.fmt = "none" => rxtxAt' = "own"
    BY <1>1 DEF MapBuffers
  <2> QED
    BY <2>1, <2>2, <2>3 DEF MemInv
<1>2. CASE CreateDev
  <2>1. pc = "create" /\ pc' \in {"nodev", "share", "unwind"} /\ UNCHANGED <<mapped, stuck, page, rxtxAt, told>>
    BY <1>2 DEF CreateDev, Create
  <2>2. mapped \subseteq stuck
    BY <2>1, OnlyStuckMapped DEF Running, Chans
  <2>3. pc' = "share" => info' = EncodePageInfo(Zeroed, buf')
    BY <1>2 DEF CreateDev
  <2>4. EncodePageInfo(Zeroed, buf)' = EncodePageInfo(Zeroed, buf')
    BY <2>1 DEF EncodePageInfo
  <2> QED
    BY <2>1, <2>2, <2>3, <2>4 DEF MemInv
<1>3. CASE ShareDev
  <2>1. /\ pc = "share" /\ UNCHANGED <<buf, ffa, mapped, stuck, page, info, rxtxAt>>
        /\ \/ pc' = "init_ipc" /\ idOk' = TRUE
           \/ pc' = "free"
        /\ told' = IF idOk' THEN [told EXCEPT ![buf] = Tell(info)] ELSE told
    BY <1>3 DEF ShareDev, ShareMemory
  <2>2. mapped \subseteq stuck
    BY <2>1, OnlyStuckMapped DEF Running, Chans
  <2>3. buf \in Bufs /\ ffa \in BOOLEAN
    BY <2>1 DEF DevInv, BufferInv, TypeOK, Unbuffered
  <2>4. DOMAIN told' = Bufs
    BY <2>1 DEF MemInv
  <2>5. pc' = "init_ipc" => ToldRight(buf)'
    <3> SUFFICES ASSUME pc' = "init_ipc", page.fmt = "none" \/ ~ffa PROVE ToldRight(buf)'
      BY <2>1 DEF ToldRight
    <3>1. told'[buf'] = Tell(info)
      BY <2>1, <2>3 DEF MemInv
    <3>2. info = EncodePageInfo(Zeroed, buf)
      BY <2>1 DEF MemInv
    <3> QED
      BY <2>1, <2>3, <3>1, <3>2, TellsRight DEF ToldRight
  <2> QED
    BY <2>1, <2>2, <2>4, <2>5 DEF MemInv
<1> QED
  BY <1>1, <1>2, <1>3

\* No other step changes what was told, nor how memory is shared while a device is
\* mapped.
LEMMA UntouchedKeeps ==
  ASSUME MDevInv, Untouched
  PROVE  MemInv'
<1> USE DEF MDevInv
<1>1. UNCHANGED <<page, info, rxtxAt, told>>
  BY DEF Untouched, memVars
<1>2. page' \in Pages /\ (page'.fmt = "none" => rxtxAt' = "own") /\ DOMAIN told' = Bufs
  BY <1>1 DEF MemInv
<1>3. SUFFICES pc' # "share" /\ (pc' = "init_ipc" \/ buf' \in mapped' \ stuck' => ToldRight(buf)')
  BY <1>2 DEF MemInv
<1>4. ASSUME UNCHANGED <<buf, ffa>>, ToldRight(buf)
      PROVE  ToldRight(buf)'
  BY <1>1, <1>4 DEF ToldRight
<1>5. CASE ApiVersion
  <2>1. mapped \subseteq stuck
    BY <1>5, OnlyStuckMapped DEF ApiVersion, Running, Chans
  <2> QED
    BY <1>5, <2>1 DEF ApiVersion
<1>6. CASE InitIpc
  <2>1. ToldRight(buf)
    BY <1>6 DEF InitIpc, MemInv
  <2> QED
    BY <1>4, <1>6, <2>1 DEF InitIpc
<1>7. CASE StopIpc
  <2>1. buf' \notin mapped' \ stuck' /\ pc' \in {"reclaim", "aborted"}
    BY <1>7 DEF StopIpc
  <2> QED
    BY <2>1
<1>8. CASE FreeBuf \/ Release
  <2>1. buf' \notin mapped' /\ pc' \in {"nodev", "dev_down"}
    BY <1>8, DeviceAssumption DEF FreeBuf, Release, DevInv, TypeOK
  <2> QED
    BY <2>1
<1>9. CASE Unwind \/ Reclaim \/ CloseChans \/ DevShutdown
           \/ \E c \in Chans : ChanInit(c) \/ ChanInitFails(c)
  <2>1. UNCHANGED <<buf, ffa, mapped, stuck>>
    BY <1>9 DEF Unwind, Reclaim, CloseChans, DevShutdown, ChanInit, ChanInitFails
  <2>2. pc' \in {"free", "release", "aborted", "stop", "down", "avb", "km", "up", "failed"}
    BY <1>9 DEF Unwind, Reclaim, ReclaimMemory, CloseChans, DevShutdown, ChanInit, ChanInitFails, Chans, After
  <2> QED
    BY <1>4, <2>1, <2>2 DEF MemInv
<1> QED
  BY <1>5, <1>6, <1>7, <1>8, <1>9 DEF Untouched

\* The invariant is inductive.
LEMMA MemStep == MDevInv /\ [MNext]_<<vars, memVars>> => MDevInv'
<1> SUFFICES ASSUME MDevInv, [MNext]_<<vars, memVars>> PROVE MDevInv'
  OBVIOUS
<1>1. DevInv'
  BY MNextIsNext, DevStep DEF MDevInv
<1>2. CASE MNext
  BY <1>1, <1>2, InfoKeeps, UntouchedKeeps DEF MNext, MDevInv
<1>3. CASE UNCHANGED <<vars, memVars>>
  BY <1>1, <1>3 DEF vars, memVars, MDevInv, MemInv, ToldRight, EncodePageInfo
<1> QED
  BY <1>2, <1>3

\* The page information follows the buffer at every step.
LEMMA MemInvariant == MSpec => []MDevInv
<1>1. MInit => MDevInv
  BY DevInit, DeviceAssumption DEF MInit, MDevInv, MemInv, Init
<1> QED
  BY <1>1, MemStep, PTL DEF MSpec

\* The device with its page information behaves as the device does, so that what
\* IpcDevice_proofs shows of IpcDevice holds of it.
THEOREM MemSharesAsDevice == MSpec => Spec
<1>1. MInit => Init
  BY DEF MInit
<1> QED
  BY <1>1, MNextIsNext, PTL DEF MSpec, Spec

\* The secure OS maps the pages of every device it has at the buffer's address,
\* writable, and with the attributes the caller's mapping has.
THEOREM BufferSharedAsMapped == MSpec => []SharedAsMapped
<1>1. MDevInv => SharedAsMapped
  <2> SUFFICES ASSUME MDevInv, NEW b \in mapped \ stuck PROVE ToldRight(b)
    BY DEF SharedAsMapped, ToldRight
  <2>1. b = buf
    BY DEF MDevInv, DevInv, DeviceInv
  <2> QED
    BY <2>1 DEF MDevInv, MemInv
<1> QED
  BY <1>1, MemInvariant, PTL
=============================================================================
