----------------------------- MODULE IpcDevice -----------------------------
(***************************************************************************)
(* The life of the Trusty device and of the IPC device: trusty_ipc_init    *)
(* and trusty_ipc_shutdown (libtipc.c), trusty_ipc_dev_create and          *)
(* trusty_ipc_dev_shutdown (ipc_dev.c), trusty_dev_init, _shutdown,        *)
(* _share_memory and _reclaim_memory (trusty_dev_common.c).  Every call    *)
(* into the secure world and every allocation may fail; the library may be *)
(* initialised and shut down again and again.                              *)
(*                                                                         *)
(* The caller shuts the library down only when the IPC device was created, *)
(* and initialises it when it is down or when the device was not created.  *)
(***************************************************************************)

CONSTANTS
    Bufs,         \* buffers trusty_alloc_pages may return
    None,
    ApiVersions   \* API versions of secure OSes, against the library's

ASSUME DeviceAssumption ==
    /\ None \notin Bufs
    /\ ApiVersions \subseteq {"old", "mem_obj", "newer"}

Chans == {"proxy", "avb", "km"}

VARIABLES
    api,     \* the API version of the secure OS
    debug,   \* TIPC_ENABLE_DEBUG: trusty_assert has an effect
    pc,      \* where trusty_ipc_init or trusty_ipc_shutdown is
    ffa,     \* dev->ffa_tx is set: memory is shared with FF-A
       \* the pages of ffa_tx and ffa_rx are allocated
    buf,     \* the shared buffer of the IPC device, while it is allocated
    idOk,    \* buf_id was returned by trusty_dev_share_memory
    inited,  \* channels whose static bool initialized is set
    rxtx,    \* SPM: the FF-A message buffers are mapped
    shared,  \* SPM: buffers shared with the secure OS
    mapped,  \* secure OS: buffers of its IPC devices
    conns,   \* secure OS: connections, each of a channel on an IPC device
    stuck    \* history: buffers of devices whose shutdown failed

vars == <<api, debug, pc, ffa, buf, idOk, inited, rxtx, shared, mapped, conns, stuck>>

TypeOK ==
    /\ api \in ApiVersions /\ debug \in BOOLEAN
    /\ pc \in {"down", "nodev", "ffa", "create", "share", "init_ipc", "unwind", "free", "up",
               "failed", "stop", "reclaim", "release", "dev_down", "aborted"} \cup Chans
    /\ ffa \in BOOLEAN /\ idOk \in BOOLEAN /\ rxtx \in BOOLEAN
    /\ buf \in Bufs \cup {None}
    /\ inited \subseteq Chans
    /\ shared \subseteq Bufs /\ mapped \subseteq Bufs /\ stuck \subseteq Bufs
    /\ conns \subseteq Chans \X Bufs

Init ==
    /\ api \in ApiVersions /\ debug \in BOOLEAN
    /\ pc = "down" /\ ffa = FALSE /\ buf = None /\ idOk = FALSE
    /\ inited = {} /\ rxtx = FALSE /\ shared = {} /\ mapped = {} /\ conns = {} /\ stuck = {}

(***************************************************************************)
(* trusty_ipc_init.                                                        *)
(***************************************************************************)

\* trusty_init_api_version, and what trusty_dev_init makes of the version.
ApiVersion ==
    /\ pc \in {"down", "nodev"}
    /\ ffa' = FALSE
    /\ \/ api = "newer" /\ UNCHANGED pc
       \/ api = "old" /\ pc' = "create"
       \/ api = "mem_obj" /\ pc' = "ffa"
    /\ UNCHANGED <<api, debug, buf, idOk, inited, rxtx, shared, mapped, conns, stuck>>

\* The rest of trusty_dev_init: any failure is fatal, and FFA_RXTX_MAP fails
\* while buffers are mapped.
FfaSetup ==
    /\ pc = "ffa"
    /\ \/ /\ ~rxtx
          /\ rxtx' = TRUE /\ ffa' = TRUE
          /\ pc' = "create"
       \/ pc' = "aborted" /\ UNCHANGED <<rxtx, ffa>>
    /\ UNCHANGED <<api, debug, buf, idOk, inited, shared, mapped, conns, stuck>>

\* trusty_ipc_dev_create allocates, and gets the attributes of the pages.
Create ==
    /\ pc = "create"
    /\ idOk' = FALSE
    /\ \/ pc' = "nodev" /\ UNCHANGED buf
       \/ \E b \in Bufs : buf' = b /\ pc' \in {"share", "unwind"}
    /\ UNCHANGED <<api, debug, ffa, inited, rxtx, shared, mapped, conns, stuck>>

\* trusty_dev_share_memory: without FF-A the id is the encoded address.
ShareMemory ==
    /\ pc = "share"
    /\ \/ /\ idOk' = TRUE
          /\ shared' = IF ffa THEN shared \cup {buf} ELSE shared
          /\ pc' = "init_ipc"
       \/ ffa /\ pc' = "free" /\ UNCHANGED <<idOk, shared>>
    /\ UNCHANGED <<api, debug, ffa, buf, inited, rxtx, mapped, conns, stuck>>

\* trusty_dev_init_ipc.
InitIpc ==
    /\ pc = "init_ipc"
    /\ \/ mapped' = mapped \cup {buf} /\ pc' = "proxy"
       \/ pc' = "unwind" /\ UNCHANGED mapped
    /\ UNCHANGED <<api, debug, ffa, buf, idOk, inited, rxtx, shared, conns, stuck>>

\* Mutant of ReclaimMemory: its failure is not noticed.
ReclaimMemoryIgnored(next) ==
    /\ shared' = IF buf \in mapped THEN shared ELSE shared \ {buf}
    /\ pc' = next

\* trusty_dev_reclaim_memory, whose failure is fatal to both callers: it fails
\* for an id that names no share, and while the secure OS uses the memory.
ReclaimMemory(next) ==
    \/ ~ffa /\ pc' = next /\ UNCHANGED shared
    \/ ffa /\ buf \in shared \ mapped /\ shared' = shared \ {buf} /\ pc' = next
    \/ ffa /\ buf \notin shared \ mapped /\ pc' = "aborted" /\ UNCHANGED shared

\* err_page_info and err_create_sec_dev.
Unwind ==
    /\ pc = "unwind"
    /\ ReclaimMemory("free")
    /\ UNCHANGED <<api, debug, ffa, buf, idOk, inited, rxtx, mapped, conns, stuck>>

\* err_share_memory and err_alloc_pages: trusty_ipc_init returns the error.
FreeBuf ==
    /\ pc = "free"
    /\ buf' = None
    /\ pc' = "nodev"
    /\ UNCHANGED <<api, debug, ffa, idOk, inited, rxtx, shared, mapped, conns, stuck>>

\* Mutant of After: trusty_ipc_init goes on to a client it does not shut down.
AfterHwbcc(c) == [proxy |-> "avb", avb |-> "km", km |-> "hwbcc"][c]

After(c) == [proxy |-> "avb", avb |-> "km", km |-> "up"][c]

\* rpmb_storage_proxy_init, avb_tipc_init and km_tipc_init, in this order.
ChanInit(c) ==
    /\ pc = c
    /\ inited' = inited \cup {c}
    /\ conns' = conns \cup {<<c, buf>>}
    /\ pc' = After(c)
    /\ UNCHANGED <<api, debug, ffa, buf, idOk, rxtx, shared, mapped, stuck>>

\* One of them fails, its connection closed or left (TipcSystem); km_tipc_init
\* is marked initialized once it is connected.  Nothing is undone.
ChanInitFails(c) ==
    /\ pc = c
    /\ \/ UNCHANGED <<inited, conns>>
       \/ /\ conns' = conns \cup {<<c, buf>>}
          /\ inited' = inited \cup ({c} \cap {"km"})
    /\ pc' = "failed"
    /\ UNCHANGED <<api, debug, ffa, buf, idOk, rxtx, shared, mapped, stuck>>

(***************************************************************************)
(* trusty_ipc_shutdown.                                                    *)
(***************************************************************************)

\* Mutant of CloseChans: the clients stay marked as initialized after a failed init.
CloseChansInited ==
    /\ pc \in {"up", "failed"}
    /\ inited' = IF pc = "failed" THEN inited ELSE {}
    /\ conns' = conns \ (inited \X {buf})
    /\ pc' = "stop"
    /\ UNCHANGED <<api, debug, ffa, buf, idOk, rxtx, shared, mapped, stuck>>

\* rpmb_storage_proxy_shutdown closes its channel in any case (its assertion
\* aside), and closes nothing when a hangup made it forget the handle; the
\* clients close theirs when they are initialized.
CloseChans ==
    /\ pc \in {"up", "failed"}
    /\ IF debug /\ "proxy" \notin inited
       THEN pc' = "aborted" /\ UNCHANGED <<inited, conns>>
       ELSE /\ inited' = {}
            /\ \E closed \in {inited \cup {"proxy"}, inited \ {"proxy"}} :
                  conns' = conns \ (closed \X {buf})
            /\ pc' = "stop"
    /\ UNCHANGED <<api, debug, ffa, buf, idOk, rxtx, shared, mapped, stuck>>

\* trusty_dev_shutdown_ipc: the secure OS unmaps the buffer and closes all
\* connections of the device, or the command fails.
StopIpc ==
    /\ pc = "stop"
    /\ \/ /\ mapped' = mapped \ {buf} /\ stuck' = stuck \ {buf}
          /\ conns' = {x \in conns : x[2] # buf}
          /\ pc' = "reclaim"
       \/ /\ stuck' = stuck \cup {buf}
          /\ pc' = IF debug THEN "aborted" ELSE "reclaim"
          /\ UNCHANGED <<mapped, conns>>
    /\ UNCHANGED <<api, debug, ffa, buf, idOk, inited, rxtx, shared>>

Reclaim ==
    /\ pc = "reclaim"
    /\ ReclaimMemory("release")
    /\ UNCHANGED <<api, debug, ffa, buf, idOk, inited, rxtx, mapped, conns, stuck>>

\* trusty_free_pages and trusty_free of trusty_ipc_dev_shutdown.
Release ==
    /\ pc = "release"
    /\ buf' = None
    /\ pc' = "dev_down"
    /\ UNCHANGED <<api, debug, ffa, idOk, inited, rxtx, shared, mapped, conns, stuck>>

\* trusty_dev_shutdown.
DevShutdown ==
    /\ pc = "dev_down"
    /\ rxtx' = (rxtx /\ ~ffa)
    /\ pc' = "down"
    /\ UNCHANGED <<api, debug, ffa, buf, idOk, inited, shared, mapped, conns, stuck>>

Next ==
    \/ ApiVersion \/ FfaSetup \/ Create \/ ShareMemory \/ InitIpc \/ Unwind \/ FreeBuf
    \/ \E c \in Chans : ChanInit(c) \/ ChanInitFails(c)
    \/ CloseChans \/ StopIpc \/ Reclaim \/ Release \/ DevShutdown

Spec == Init /\ [][Next]_vars

(***************************************************************************)
(* Properties.                                                             *)
(***************************************************************************)

\* Pages the library has given back, or never had, are not shared with the
\* secure OS and not in use by it, whatever failed.  The exception: a secure OS
\* that refused to shut its device down keeps its pages, which a release build
\* without FF-A frees all the same (in a debug build trusty_assert prevents it,
\* with FF-A the reclaim fails).
NoSharedFree ==
    \A b \in Bufs : b # buf =>
        b \notin shared /\ (b \in mapped => b \in stuck /\ ~debug /\ ~ffa)

\* After trusty_ipc_shutdown, also after an init that failed half-way, nothing
\* of the session is left for the next one to trip over: no channel believes
\* itself initialized, no connection is open (on a device that could be shut
\* down), nothing is shared and the FF-A buffers can be mapped again.
CleanStart ==
    pc = "down" =>
        /\ inited = {} /\ buf = None
        /\ \A x \in conns : x[2] \in stuck
        /\ shared = {} /\ ~rxtx

\* What is reclaimed was shared ("@id: shared memory object id returned from
\* trusty_dev_share_memory", trusty_dev.h).
ReclaimsShared == pc \in {"unwind", "reclaim"} => idOk
=============================================================================
