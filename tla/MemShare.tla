------------------------------ MODULE MemShare ------------------------------
(***************************************************************************)
(* What the secure OS is told of the buffer that IpcDevice shares with it: *)
(* trusty_encode_page_info for the Arm builds (arch/arm/trusty_mem.c) and  *)
(* for the test runner (test-runner/arm64/trusty_mem.c), and the memory    *)
(* descriptor or the encoded address of trusty_dev_share_memory.           *)
(*                                                                         *)
(* An address is the buffer it is the address of; page is how the caller   *)
(* maps its pages, the same for all of them.                               *)
(***************************************************************************)
EXTENDS IpcDevice, Naturals

\* Memory types of short descriptors, as the CPU encodes them for the inner and
\* for the outer caches.  Super sections are asserted not to be used.
Inner == [nc |-> 0, so |-> 1, dev |-> 3, wbwa |-> 5, wt |-> 6, wb |-> 7]
Outer == [nc |-> 0, wbwa |-> 1, wt |-> 2, wb |-> 3]
Uncached == 68   \* NS_MAIR_NORMAL_UNCACHED

FfaUncached == 36   \* FFA_MEM_ATTR_NORMAL_MEMORY_UNCACHED
FfaRw == 2          \* FFA_MEM_PERM_RW

\* How pages can be mapped: no MMU (the test runner), long descriptors with a
\* memory attribute and shareability, short descriptors.
Pages ==
    {[fmt |-> "none"]}
    \cup [fmt : {"long"}, mair : {Uncached, 255}, sh : {0, 3}]
    \cup [fmt : {"short"}, inner : DOMAIN Inner, outer : DOMAIN Outer, shared : BOOLEAN]

VARIABLES
    page,    \* the machine: how pages are mapped
    info,    \* dev->buf_ns
    rxtxAt,  \* SPM: are the mapped message buffers the library's own?
    told     \* SPM and secure OS: what they know of each buffer

memVars == <<page, info, rxtxAt, told>>

(***************************************************************************)
(* trusty_encode_page_info.                                                *)
(***************************************************************************)

NoAttr == [pa |-> None, mair |-> 0, sh |-> 0]
Zeroed == [paddr |-> None, ffa_mem_attr |-> 0, ffa_mem_perm |-> 0, attr |-> NoAttr]

\* ish_to_mair and osh_to_mair, by the bits of the register.
IshToMair(bits) == <<4, 0, 15 * 16, 4, 15 * 16, 15, 10, 14>>[bits + 1]
OshToMair(bits) == <<0, 15, 10, 14>>[bits + 1]

\* par2attr for long descriptors: the register has the fields already.
Par2AttrLong(p, b) == [pa |-> b, mair |-> p.mair, sh |-> p.sh]

\* Mutant of Par2AttrShort: inner and outer are taken for each other.
Par2AttrSwapped(p, b) ==
    LET both == OshToMair(Outer[p.outer]) + 16 * IshToMair(Inner[p.inner])
    IN  [pa |-> b, mair |-> IF both = 0 THEN Uncached ELSE both, sh |-> IF p.shared THEN 3 ELSE 0]

\* par2attr for short descriptors.  What comes out as strongly ordered is turned
\* into uncached memory.
Par2AttrShort(p, b) ==
    LET both == 16 * OshToMair(Outer[p.outer]) + IshToMair(Inner[p.inner])
    IN  [pa |-> b, mair |-> IF both = 0 THEN Uncached ELSE both, sh |-> IF p.shared THEN 3 ELSE 0]

\* Without the MMU all fields are set...
EncodeRunner(b) ==
    [paddr |-> b, ffa_mem_attr |-> FfaUncached, ffa_mem_perm |-> FfaRw,
     attr |-> [pa |-> b, mair |-> Uncached, sh |-> 0]]

\* ... with it only attr.  old is what the caller's structure held.
EncodePageInfo(old, b) ==
    CASE page.fmt = "none" -> EncodeRunner(b)
      [] page.fmt = "long" -> [old EXCEPT !.attr = Par2AttrLong(page, b)]
      [] page.fmt = "short" -> [old EXCEPT !.attr = Par2AttrShort(page, b)]

(***************************************************************************)
(* trusty_dev_share_memory: the descriptor, by the offsets of its parts.   *)
(***************************************************************************)

MtdSize == 32
EmadSize == 16
CompSize == 16
ConsSize == 16

CompOffset == MtdSize + EmadSize
TxSize == CompOffset + CompSize + ConsSize

Descriptor(i, pages) ==
    [at \in {0, MtdSize, CompOffset, CompOffset + CompSize} |->
        CASE at = 0 -> [attr |-> i.ffa_mem_attr, emads |-> 1]
          [] at = MtdSize -> [perm |-> i.ffa_mem_perm, comp |-> CompOffset]
          [] at = CompOffset -> [total |-> pages, ranges |-> 1]
          [] at = CompOffset + CompSize -> [address |-> i.paddr, count |-> pages]]

\* SPM (external): the one range that a descriptor of n bytes describes.
Retrieve(tx, n) ==
    LET at == tx[MtdSize].comp
    IN  IF at + CompSize + ConsSize <= n /\ tx[at].total = tx[at + CompSize].count
        THEN [addr |-> tx[at + CompSize].address, mair |-> tx[0].attr, sh |-> 0,
              write |-> tx[MtdSize].perm = FfaRw]
        ELSE [addr |-> None, mair |-> 0, sh |-> 0, write |-> FALSE]

\* Secure OS (external): an encoded address; access bits of zero allow writing.
Decode(attr) == [addr |-> attr.pa, mair |-> attr.mair, sh |-> attr.sh, write |-> TRUE]

\* With other message buffers the SPM reads memory the library did not write.
Tell(i) ==
    IF ~ffa THEN Decode(i.attr)
    ELSE IF rxtxAt = "own" THEN Retrieve(Descriptor(i, 1), TxSize)
    ELSE Decode(NoAttr)

(***************************************************************************)
(* The steps of IpcDevice that deal with page information.                 *)
(***************************************************************************)

\* The two structures are on the stack of trusty_dev_init and not cleared.
MapBuffers ==
    /\ FfaSetup
    /\ rxtxAt' \in IF page.fmt = "none" THEN {"own"} ELSE {"own", "elsewhere"}
    /\ UNCHANGED <<page, info, told>>

\* The device is cleared when it is allocated.
CreateDev ==
    /\ Create
    /\ info' = IF pc' = "share" THEN EncodePageInfo(Zeroed, buf') ELSE Zeroed
    /\ UNCHANGED <<page, rxtxAt, told>>

ShareDev ==
    /\ ShareMemory
    /\ told' = IF idOk' THEN [told EXCEPT ![buf] = Tell(info)] ELSE told
    /\ UNCHANGED <<page, info, rxtxAt>>

Untouched ==
    /\ \/ ApiVersion \/ InitIpc \/ Unwind \/ FreeBuf
       \/ \E c \in Chans : ChanInit(c) \/ ChanInitFails(c)
       \/ CloseChans \/ StopIpc \/ Reclaim \/ Release \/ DevShutdown
    /\ UNCHANGED memVars

MInit ==
    /\ Init
    /\ page \in Pages /\ info = Zeroed /\ rxtxAt = "own"
    /\ told = [b \in Bufs |-> Decode(NoAttr)]

MNext == MapBuffers \/ CreateDev \/ ShareDev \/ Untouched

MSpec == MInit /\ [][MNext]_<<vars, memVars>>

(***************************************************************************)
(* Properties.                                                             *)
(***************************************************************************)

\* The memory attribute of a short descriptor's type where both caches are used.
Mair(p) == LET nibble == [wbwa |-> 15, wt |-> 10, wb |-> 14] IN 16 * nibble[p.outer] + nibble[p.inner]
Cached(p) == p.inner \in {"wbwa", "wt", "wb"} /\ p.outer \in {"wbwa", "wt", "wb"}

\* The secure OS maps the pages at the address of the buffer, writable and with the
\* cache attributes and shareability the caller uses, over any number of sessions:
\* with other attributes the two sides would not see each other's commands.  Two
\* cases are left out: the Arm builds with FF-A (SharesBuffer) and short descriptors
\* that are uncached in one of the caches, which the tables turn into device memory.
SharedAsMapped ==
    \A b \in mapped \ stuck :
        (page.fmt = "none" \/ ~ffa) =>
            /\ told[b].addr = b /\ told[b].write
            /\ page.fmt = "none" => told[b].mair = (IF ffa THEN FfaUncached ELSE Uncached)
            /\ page.fmt = "long" => told[b].mair = page.mair /\ told[b].sh = page.sh
            /\ page.fmt = "short" /\ Cached(page) =>
                  told[b].mair = Mair(page) /\ told[b].sh = (IF page.shared THEN 3 ELSE 0)

\* trusty_dev_share_memory shares the buffer ("@pinfo: physical address and memory
\* attributes", trusty_dev.h).
SharesBuffer == \A b \in mapped : told[b].addr = b
=============================================================================
