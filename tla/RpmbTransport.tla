--------------------------- MODULE RpmbTransport ---------------------------
(***************************************************************************)
(* What rpmb_storage_send promises its caller, the storage proxy: commands *)
(* reach the RPMB device whole, in the order of the calls and once each,   *)
(* and a call that reads returns with the blocks of its own command.       *)
(***************************************************************************)
EXTENDS Naturals, Sequences

CONSTANTS
    Cmds,            \* commands: numbers of blocks to write reliably, to write, to read
    None,
    Executed(_),     \* a command as the device sees it
    Answer(_, _)     \* the blocks a command reads, by its place in the order

VARIABLES
    cmd,      \* the command of the running call
    queue,    \* commands on their way
    done,     \* what the device executed
    answer    \* what the last call returned

tvars == <<cmd, queue, done, answer>>

TInit == cmd = None /\ queue = <<>> /\ done = <<>> /\ answer = <<>>

Call(c) ==
    /\ cmd = None
    /\ cmd' = c /\ queue' = Append(queue, c)
    /\ UNCHANGED <<done, answer>>

Execute ==
    /\ queue # <<>>
    /\ done' = Append(done, Executed(Head(queue)))
    /\ queue' = Tail(queue)
    /\ UNCHANGED <<cmd, answer>>

\* A call that reads nothing may return before its command is executed.
Return ==
    /\ cmd # None
    /\ \/ cmd.read = 0 /\ answer' = <<>>
       \/ cmd.read > 0 /\ queue = <<>> /\ answer' = Answer(cmd, Len(done))
    /\ cmd' = None
    /\ UNCHANGED <<queue, done>>

TNext == (\E c \in Cmds : Call(c)) \/ Execute \/ Return

TSpec == TInit /\ [][TNext]_tvars
=============================================================================
