------------------------------ MODULE PathOwner ------------------------------
(***************************************************************************)
(* One path, added and removed at run time, and the tasks around it, wired *)
(* by bounded channels: its I/O owner, the sender, the receiver, the       *)
(* control fast path, the path command processor and the report task.      *)
(*                                                                         *)
(* Every channel has the same small capacity; quinn's buffer of incoming   *)
(* datagrams is bounded too, and drops.  A batch is a sequence; what the   *)
(* owner reads carries its number in its lane, 0 is a message of the fast  *)
(* path.  The tasks' other work is WindowArq's and is left out, and so are *)
(* the other paths and the end of the tunnel.                              *)
(***************************************************************************)
EXTENDS Enumerations, SequencesExt

CONSTANTS
    Depth,      \* capacity of every channel
    BatchMax,   \* INBOUND_BATCH_MAX
    QuinnCap,   \* datagrams that fit datagram_receive_buffer_size
    Loads       \* what may be asked of the path: see Load

(***************************************************************************)
(* A bound on the work: datagrams of the peer on either lane, its stream   *)
(* messages, datagrams the sender stages, report ticks.                    *)
(***************************************************************************)
Load == [rx : Nat, tx : Nat, uni : Nat, staged : Nat, ticks : Nat]

ASSUME OwnerAssumption ==
    /\ {Depth, BatchMax, QuinnCap} \subseteq Nat \ {0}
    /\ Loads \subseteq Load

VARIABLES
    load,       \* that of this behaviour
    owner,      \* the owner task: see Unconnected
    conn,       \* "up" or "lost"
    conn_lost,  \* the view's: the loss was seen
    quinn,      \* datagrams quinn has buffered
    arrived,    \* what arrived: datagrams on each lane, stream messages
    overflowed, \* history: what quinn's full buffer dropped of each lane
    uni_in,     \* stream messages not yet read
    wire,       \* history: what the sender staged and quinn took
    io,         \* the owner's commands
    msg, sender_in, cmds, ctrl,
    paths,      \* the transport's map has the path
    close_fwd,  \* the spawned task that forwards Close
    path_cmd,   \* where the path command processor is
    known,      \* the scheduler has the path
    sender,     \* [at, data, ctrl]: the loop and its TxBatch slot
    staged,
    tx_seen,    \* history: what the sender took from its input
    receiver,   \* [at, ctrl]
    rx_seen,    \* history: what the receiver took
    report,     \* [at, left, req]: the report task
    ticks

connVars == <<load, conn, conn_lost, quinn, arrived, overflowed, uni_in>>
cmdVars == <<paths, close_fwd, path_cmd>>
senderVars == <<known, sender, staged, tx_seen>>
receiverVars == <<receiver, rx_seen>>
reportVars == <<report, ticks>>
channels == <<io, msg, sender_in, cmds, ctrl>>

taskVars == <<owner, connVars, wire, channels, cmdVars, senderVars, receiverVars, reportVars>>

Unconnected ==
    [at |-> "unconnected", readers |-> FALSE, reader_dead |-> FALSE, uni_dead |-> FALSE,
     inbound |-> <<>>, inbound_tx |-> <<>>, ctrl_pending |-> {}, streams |-> <<>>, busy |-> {}]

TaskInit ==
    /\ load \in Loads
    /\ owner = Unconnected
    /\ conn = "up"
    /\ conn_lost = FALSE
    /\ quinn = <<>>
    /\ arrived = [rx |-> 0, tx |-> 0, uni |-> 0]
    /\ overflowed = [rx |-> {}, tx |-> {}]
    /\ uni_in = 0
    /\ wire = <<>>
    /\ io = <<>> /\ msg = <<>> /\ sender_in = <<>> /\ cmds = <<>> /\ ctrl = <<>>
    /\ paths = TRUE
    /\ close_fwd = FALSE
    /\ path_cmd = "connect"
    /\ known = FALSE
    /\ sender = [at |-> "select", data |-> <<>>, ctrl |-> <<>>]
    /\ staged = 0
    /\ tx_seen = <<>>
    /\ receiver = [at |-> "wait", ctrl |-> <<>>]
    /\ rx_seen = <<>>
    /\ report = [at |-> "idle", left |-> 0, req |-> 0]
    /\ ticks = 0

Room(channel) == Len(channel) < Depth

Try(channel, item) == IF Room(channel) THEN Append(channel, item) ELSE channel

Dgrams(items) == [kind |-> "send", items |-> items, req |-> 0]

Request(kind, req) == [kind |-> kind, items |-> <<>>, req |-> req]

-----------------------------------------------------------------------------
(***************************************************************************)
(* The report task's send of one control message is over: the reply, an    *)
(* error, or its timeout.  A late reply finds nobody.                      *)
(***************************************************************************)
Answered(reqs) ==
    IF report.at \in {"send", "await"} /\ report.req \in reqs
    THEN [at   |-> IF report.left = 1 THEN "idle" ELSE "send",
          left |-> report.left - 1, req |-> report.req + 1]
    ELSE report

(***************************************************************************)
(* The path's environment: the peer's datagrams and streams, its death.    *)
(* A datagram that finds quinn's buffer full takes the place of the oldest *)
(* there, and nobody is told.                                              *)
(***************************************************************************)
PeerSends(lane) ==
    /\ owner.at = "serving" /\ conn = "up"
    /\ arrived[lane] < load[lane]
    /\ arrived' = [arrived EXCEPT ![lane] = @ + 1]
    /\ LET new == <<lane, arrived[lane] + 1>>
           old == Head(quinn)
       IN  IF Len(quinn) < QuinnCap
           THEN quinn' = Append(quinn, new) /\ UNCHANGED overflowed
           ELSE /\ quinn' = Append(Tail(quinn), new)
                /\ overflowed' = [overflowed EXCEPT ![old[1]] = @ \cup {old[2]}]
    /\ UNCHANGED <<owner, load, conn, conn_lost, uni_in, wire, channels, cmdVars, senderVars,
                   receiverVars, reportVars>>

PeerStream ==
    /\ owner.at = "serving" /\ conn = "up"
    /\ arrived.uni < load.uni
    /\ arrived' = [arrived EXCEPT !.uni = @ + 1]
    /\ uni_in' = uni_in + 1
    /\ UNCHANGED <<owner, load, conn, conn_lost, quinn, overflowed, wire, channels, cmdVars,
                   senderVars, receiverVars, reportVars>>

ConnectionLost ==
    /\ owner.at = "serving" /\ conn = "up"
    /\ conn' = "lost"
    /\ UNCHANGED <<owner, load, conn_lost, quinn, arrived, overflowed, uni_in, wire, channels,
                   cmdVars, senderVars, receiverVars, reportVars>>

-----------------------------------------------------------------------------
(***************************************************************************)
(* owner_body, before the connection: only the processor's commands come,  *)
(* since nobody else knows the path.  A failed attempt leaves it waiting.  *)
(***************************************************************************)
OwnerConnects(ok) ==
    /\ owner.at = "unconnected"
    /\ io # <<>> /\ Head(io).kind = "connect"
    /\ io' = Tail(io)
    /\ owner' = IF ok THEN [owner EXCEPT !.at = "serving"] ELSE owner
    /\ path_cmd' = IF ok THEN "connected" ELSE "failed"
    /\ UNCHANGED <<connVars, wire, msg, sender_in, cmds, ctrl, paths, close_fwd, senderVars,
                   receiverVars, reportVars>>

Ended == [Unconnected EXCEPT !.at = "ended"]

OwnerUnconnectedCloses ==
    /\ owner.at = "unconnected"
    /\ io # <<>> /\ Head(io).kind = "close"
    /\ io' = <<>>
    /\ owner' = Ended
    /\ UNCHANGED <<connVars, wire, msg, sender_in, cmds, ctrl, cmdVars, senderVars,
                   receiverVars, reportVars>>

(***************************************************************************)
(* serve, the command arm: what was queued, in order; a Close among it     *)
(* ends the owner after the others.                                        *)
(***************************************************************************)
Perform(w, cmd) ==
    CASE cmd.kind = "send"    -> [w EXCEPT !.wire = IF conn = "up" THEN @ \o cmd.items ELSE @]
      [] cmd.kind = "stream"  -> [w EXCEPT !.o.streams = Append(@, cmd.req)]
      [] cmd.kind = "readers" -> [w EXCEPT !.o.readers = TRUE, !.o.reader_dead = FALSE]
      [] cmd.kind = "close"   -> [w EXCEPT !.close = TRUE]

(* Variant: a batch its consumer has no room for is awaited in the arm.    *)
takes_commands_unheld ==
    owner.at = "serving" /\ owner.inbound = <<>> /\ owner.inbound_tx = <<>>

(* The arm is always armed.                                                *)
takes_commands == owner.at = "serving"

(* All that was queued.                                                    *)
Performed(w, sent) == FoldLeft(Perform, w, sent)

OwnerCommands ==
    /\ takes_commands
    /\ io # <<>>
    /\ io' = <<>>
    /\ LET w == Performed([o |-> owner, wire |-> wire, close |-> FALSE], io)
       IN  /\ wire' = w.wire
           /\ owner' = IF w.close THEN Ended ELSE w.o
           /\ report' = IF w.close THEN Answered(ToSet(w.o.streams) \cup w.o.busy) ELSE report
    /\ UNCHANGED <<connVars, msg, sender_in, cmds, ctrl, cmdVars, senderVars, receiverVars, ticks>>

(***************************************************************************)
(* The read arm.  While a batch waits for room nothing is read.            *)
(***************************************************************************)
reading ==
    /\ owner.at = "serving" /\ owner.readers /\ ~owner.reader_dead
    /\ owner.inbound = <<>> /\ owner.inbound_tx = <<>>

(* The peer's datagrams in a batch, and those of one lane.                 *)
Own(batch) == Kept(batch, Nat \ {0})

Lane(batch, lane) ==
    Own([i \in DOMAIN batch |-> IF batch[i][1] = lane THEN batch[i][2] ELSE 0])

(* Variant: a batch its channel has no room for is dropped.                *)
Held_dropped(channel, batch) == <<>>

(* A batch to hand on: held when its channel is full, gone when not.       *)
Held(channel, batch) == IF batch # <<>> /\ ~Room(channel) THEN batch ELSE <<>>

Forward(channel, batch) == IF batch # <<>> THEN Try(channel, batch) ELSE channel

OwnerReads ==
    /\ reading
    /\ quinn # <<>>
    /\ LET n     == IF Len(quinn) < BatchMax THEN Len(quinn) ELSE BatchMax
           batch == SubSeq(quinn, 1, n)
           dead  == conn = "lost" /\ n < BatchMax
       IN  /\ quinn' = SubSeq(quinn, n + 1, Len(quinn))
           /\ owner' = [owner EXCEPT !.inbound     = Held(msg, Lane(batch, "rx")),
                                     !.inbound_tx  = Held(sender_in, Lane(batch, "tx")),
                                     !.reader_dead = dead]
           /\ sender_in' = Forward(sender_in, Lane(batch, "tx"))
           /\ msg' = Forward(msg, Lane(batch, "rx"))
           /\ conn_lost' = (conn_lost \/ dead)
    /\ UNCHANGED <<load, conn, arrived, overflowed, uni_in, wire, io, cmds, ctrl, cmdVars,
                   senderVars, receiverVars, reportVars>>

OwnerReadFails ==
    /\ reading
    /\ quinn = <<>> /\ conn = "lost"
    /\ owner' = [owner EXCEPT !.reader_dead = TRUE]
    /\ conn_lost' = TRUE
    /\ UNCHANGED <<load, conn, quinn, arrived, overflowed, uni_in, wire, channels, cmdVars,
                   senderVars, receiverVars, reportVars>>

(* The reserve arms.                                                       *)
OwnerForwardsTx ==
    /\ owner.inbound_tx # <<>> /\ Room(sender_in)
    /\ sender_in' = Append(sender_in, owner.inbound_tx)
    /\ owner' = [owner EXCEPT !.inbound_tx = <<>>]
    /\ UNCHANGED <<connVars, wire, io, msg, cmds, ctrl, cmdVars, senderVars, receiverVars, reportVars>>

OwnerForwardsRx ==
    /\ owner.inbound # <<>> /\ Room(msg)
    /\ msg' = Append(msg, owner.inbound)
    /\ owner' = [owner EXCEPT !.inbound = <<>>]
    /\ UNCHANGED <<connVars, wire, io, sender_in, cmds, ctrl, cmdVars, senderVars, receiverVars, reportVars>>

(* One stream message is read ahead of the room for it.                    *)
OwnerReadsUni(kind) ==
    /\ owner.at = "serving" /\ owner.readers /\ ~owner.uni_dead /\ owner.ctrl_pending = {}
    /\ IF uni_in > 0
       THEN owner' = [owner EXCEPT !.ctrl_pending = {kind}] /\ uni_in' = uni_in - 1
       ELSE conn = "lost" /\ owner' = [owner EXCEPT !.uni_dead = TRUE] /\ UNCHANGED uni_in
    /\ UNCHANGED <<load, conn, conn_lost, quinn, arrived, overflowed, wire, channels, cmdVars,
                   senderVars, receiverVars, reportVars>>

OwnerForwardsUni == \E kind \in owner.ctrl_pending :
    /\ Room(ctrl)
    /\ ctrl' = Append(ctrl, kind)
    /\ owner' = [owner EXCEPT !.ctrl_pending = {}]
    /\ UNCHANGED <<connVars, wire, io, msg, sender_in, cmds, cmdVars, senderVars, receiverVars, reportVars>>

(* One stream send at a time, each within its time limit.                  *)
OwnerOpensStream ==
    /\ owner.streams # <<>> /\ owner.busy = {}
    /\ owner' = [owner EXCEPT !.busy = {Head(owner.streams)}, !.streams = Tail(@)]
    /\ UNCHANGED <<connVars, wire, channels, cmdVars, senderVars, receiverVars, reportVars>>

OwnerStreamDone ==
    /\ owner.busy # {}
    /\ report' = Answered(owner.busy)
    /\ owner' = [owner EXCEPT !.busy = {}]
    /\ UNCHANGED <<connVars, wire, channels, cmdVars, senderVars, receiverVars, ticks>>

-----------------------------------------------------------------------------
(***************************************************************************)
(* The sender.  TxBatch::stage: a handle of a removed path is dropped with *)
(* what is staged on it.                                                   *)
(***************************************************************************)
SenderStages(lane) ==
    /\ sender.at = "select" /\ known
    /\ staged < load.staged
    /\ staged' = staged + 1
    /\ sender' = IF paths THEN [sender EXCEPT ![lane] = Append(@, <<lane, staged'>>)]
                 ELSE [sender EXCEPT !.data = <<>>, !.ctrl = <<>>]
    /\ UNCHANGED <<owner, connVars, wire, channels, cmdVars, known, tx_seen, receiverVars, reportVars>>

SenderFlushes ==
    /\ sender.at = "select"
    /\ sender.data # <<>> \/ sender.ctrl # <<>>
    /\ sender' = [sender EXCEPT !.at = "flush"]
    /\ UNCHANGED <<owner, connVars, wire, channels, cmdVars, known, staged, tx_seen,
                   receiverVars, reportVars>>

(* Variant: control goes first.                                            *)
lane_ctrl_first == IF sender.ctrl # <<>> THEN "ctrl" ELSE "data"

(* The lane TxBatch::flush hands over next.                                *)
lane_first == IF sender.data # <<>> THEN "data" ELSE "ctrl"

(* The channel to the owner: a full one is waited for, a closed one drops. *)
ToOwner(cmd) == IF owner.at = "ended" THEN UNCHANGED io ELSE Room(io) /\ io' = Append(io, cmd)

SenderSends ==
    /\ sender.at = "flush"
    /\ ToOwner(Dgrams(sender[lane_first]))
    /\ LET rest == [sender EXCEPT ![lane_first] = <<>>]
       IN  sender' = IF rest.data = <<>> /\ rest.ctrl = <<>>
                     THEN [rest EXCEPT !.at = "select"] ELSE rest
    /\ UNCHANGED <<owner, connVars, wire, msg, sender_in, cmds, ctrl, cmdVars, known, staged,
                   tx_seen, receiverVars, reportVars>>

SenderInput ==
    /\ sender.at = "select"
    /\ sender_in # <<>>
    /\ tx_seen' = tx_seen \o FlattenSeq(sender_in)
    /\ sender_in' = <<>>
    /\ UNCHANGED <<owner, connVars, wire, io, msg, cmds, ctrl, cmdVars, known, sender, staged,
                   receiverVars, reportVars>>

(***************************************************************************)
(* apply_cmds.  The report lists the path when it is live.                 *)
(***************************************************************************)
Apply(w, cmd, live) ==
    CASE cmd = "add"    -> [w EXCEPT !.known = TRUE, !.at = IF @ = "asked" THEN "added" ELSE @]
      [] cmd = "remove" -> [w EXCEPT !.known = FALSE]
      [] cmd = "tick"   -> [w EXCEPT !.report = IF w.known /\ live
                                                THEN [@ EXCEPT !.at = "send", !.left = 2]
                                                ELSE [@ EXCEPT !.at = "idle"]]
      [] cmd = "revive" -> w

(* All commands drained in a turn.                                         *)
Applied(w, sent, live) == FoldLeft(LAMBDA v, cmd : Apply(v, cmd, live), w, sent)

SenderCommands(live) ==
    /\ sender.at = "select"
    /\ cmds # <<>>
    /\ cmds' = <<>>
    /\ LET w == Applied([known |-> known, at |-> path_cmd, report |-> report], cmds, live)
       IN  known' = w.known /\ path_cmd' = w.at /\ report' = w.report
    /\ UNCHANGED <<owner, connVars, wire, io, msg, sender_in, ctrl, paths, close_fwd, sender,
                   staged, tx_seen, receiverVars, ticks>>

-----------------------------------------------------------------------------
(***************************************************************************)
(* The receiver: a batch is answered with an ack, and the sender nudged if *)
(* it thinks the path dead.                                                *)
(***************************************************************************)
ReceiverTakes(nudge) ==
    /\ receiver.at = "wait"
    /\ msg # <<>>
    /\ rx_seen' = rx_seen \o Head(msg)
    /\ msg' = Tail(msg)
    /\ cmds' = IF nudge THEN Try(cmds, "revive") ELSE cmds
    /\ receiver' = IF paths THEN [at |-> "flush", ctrl |-> <<0>>] ELSE receiver
    /\ UNCHANGED <<owner, connVars, wire, io, sender_in, ctrl, cmdVars, senderVars, reportVars>>

ReceiverSends ==
    /\ receiver.at = "flush"
    /\ ToOwner(Dgrams(<<>>))
    /\ receiver' = [at |-> "wait", ctrl |-> <<>>]
    /\ UNCHANGED <<owner, connVars, wire, msg, sender_in, cmds, ctrl, cmdVars, senderVars,
                   rx_seen, reportVars>>

(***************************************************************************)
(* The control fast path: never waits.                                     *)
(***************************************************************************)
FastPath ==
    /\ ctrl # <<>>
    /\ ctrl' = Tail(ctrl)
    /\ sender_in' = IF Head(ctrl) = "ping" THEN Try(sender_in, <<0>>) ELSE sender_in
    /\ msg' = IF Head(ctrl) = "other" THEN Try(msg, <<0>>) ELSE msg
    /\ UNCHANGED <<owner, connVars, wire, io, cmds, cmdVars, senderVars, receiverVars, reportVars>>

-----------------------------------------------------------------------------
(***************************************************************************)
(* The report task: the sender's part of the tick, then a PathReport and a *)
(* Ping on the path's stream.                                              *)
(***************************************************************************)
Tick ==
    /\ report.at = "idle" /\ ticks < load.ticks
    /\ report' = [report EXCEPT !.at = "tick"]
    /\ ticks' = ticks + 1
    /\ UNCHANGED <<owner, connVars, wire, channels, cmdVars, senderVars, receiverVars>>

TickSends ==
    /\ report.at = "tick" /\ Room(cmds)
    /\ cmds' = Append(cmds, "tick")
    /\ report' = [report EXCEPT !.at = "asked"]
    /\ UNCHANGED <<owner, connVars, wire, io, msg, sender_in, ctrl, cmdVars, senderVars,
                   receiverVars, ticks>>

ReportSends ==
    /\ report.at = "send"
    /\ IF paths /\ owner.at # "ended"
       THEN ToOwner(Request("stream", report.req)) /\ report' = [report EXCEPT !.at = "await"]
       ELSE UNCHANGED io /\ report' = Answered({report.req})
    /\ UNCHANGED <<owner, connVars, wire, msg, sender_in, cmds, ctrl, cmdVars, senderVars,
                   receiverVars, ticks>>

ReportTimesOut ==
    /\ report.at \in {"send", "await"}
    /\ report' = Answered({report.req})
    /\ UNCHANGED <<owner, connVars, wire, channels, cmdVars, senderVars, receiverVars, ticks>>

-----------------------------------------------------------------------------
(***************************************************************************)
(* The path command processor: each step awaits the one before.            *)
(***************************************************************************)
AddConnects ==
    /\ path_cmd = "connect" /\ Room(io)
    /\ io' = Append(io, Request("connect", 0))
    /\ path_cmd' = "connecting"
    /\ UNCHANGED <<owner, connVars, wire, msg, sender_in, cmds, ctrl, paths, close_fwd,
                   senderVars, receiverVars, reportVars>>

AddAsks ==
    /\ path_cmd = "connected" /\ Room(cmds)
    /\ cmds' = Append(cmds, "add")
    /\ path_cmd' = "asked"
    /\ UNCHANGED <<owner, connVars, wire, io, msg, sender_in, ctrl, paths, close_fwd,
                   senderVars, receiverVars, reportVars>>

(* Variant: the readers are started without waiting for the sender.        *)
may_start_early == path_cmd \in {"asked", "added"}

may_start == path_cmd = "added"

AddStarts ==
    /\ may_start /\ Room(io)
    /\ io' = Append(io, Request("readers", 0))
    /\ path_cmd' = "running"
    /\ UNCHANGED <<owner, connVars, wire, msg, sender_in, cmds, ctrl, paths, close_fwd,
                   senderVars, receiverVars, reportVars>>

(* remove_path: out of the map at once; Close is forwarded if need be.     *)
RemovePath ==
    /\ path_cmd \in {"running", "failed"}
    /\ paths' = FALSE
    /\ io' = Try(io, Request("close", 0))
    /\ close_fwd' = ~Room(io)
    /\ path_cmd' = "removing"
    /\ UNCHANGED <<owner, connVars, wire, msg, sender_in, cmds, ctrl, senderVars,
                   receiverVars, reportVars>>

RemoveTells ==
    /\ path_cmd = "removing" /\ Room(cmds)
    /\ cmds' = Append(cmds, "remove")
    /\ path_cmd' = "removed"
    /\ UNCHANGED <<owner, connVars, wire, io, msg, sender_in, ctrl, paths, close_fwd,
                   senderVars, receiverVars, reportVars>>

CloseForwards ==
    /\ close_fwd /\ Room(io)
    /\ io' = Append(io, Request("close", 0))
    /\ close_fwd' = FALSE
    /\ UNCHANGED <<owner, connVars, wire, msg, sender_in, cmds, ctrl, paths, path_cmd,
                   senderVars, receiverVars, reportVars>>

-----------------------------------------------------------------------------
Environment ==
    \/ \E lane \in {"rx", "tx"} : PeerSends(lane)
    \/ PeerStream
    \/ ConnectionLost

OwnerArm ==
    \/ \E ok \in BOOLEAN : OwnerConnects(ok)
    \/ OwnerUnconnectedCloses
    \/ OwnerCommands
    \/ OwnerReads
    \/ OwnerReadFails
    \/ OwnerForwardsTx
    \/ OwnerForwardsRx
    \/ \E kind \in {"ping", "pong", "other"} : OwnerReadsUni(kind)
    \/ OwnerForwardsUni
    \/ OwnerOpensStream
    \/ OwnerStreamDone

SenderStep ==
    \/ \E lane \in {"data", "ctrl"} : SenderStages(lane)
    \/ SenderFlushes
    \/ SenderSends
    \/ SenderInput
    \/ \E live \in BOOLEAN : SenderCommands(live)

ReceiverStep == (\E nudge \in BOOLEAN : ReceiverTakes(nudge)) \/ ReceiverSends

ReportStep == Tick \/ TickSends \/ ReportSends \/ ReportTimesOut

PathCmdStep ==
    \/ AddConnects \/ AddAsks \/ AddStarts
    \/ RemovePath \/ RemoveTells \/ CloseForwards

TaskNext ==
    \/ Environment
    \/ OwnerArm
    \/ SenderStep
    \/ ReceiverStep
    \/ FastPath
    \/ ReportStep
    \/ PathCmdStep

TaskSpec == TaskInit /\ [][TaskNext]_taskVars

(***************************************************************************)
(* A task whose next step stays ready takes it, and a connection attempt   *)
(* ends.  (That a task waiting for room gets it in turn is not needed: the *)
(* work is bounded.)  Nothing is assumed of the peer, timeouts, ticks and  *)
(* removals.                                                               *)
(***************************************************************************)
TaskFairness ==
    /\ WF_taskVars(\E ok \in BOOLEAN : OwnerConnects(ok))
    /\ WF_taskVars(OwnerUnconnectedCloses)
    /\ WF_taskVars(OwnerCommands)
    /\ WF_taskVars(OwnerReads)
    /\ WF_taskVars(OwnerReadFails)
    /\ WF_taskVars(OwnerForwardsTx)
    /\ WF_taskVars(OwnerForwardsRx)
    /\ WF_taskVars(OwnerOpensStream)
    /\ WF_taskVars(OwnerStreamDone)
    /\ WF_taskVars(SenderFlushes)
    /\ WF_taskVars(SenderSends)
    /\ WF_taskVars(SenderInput)
    /\ WF_taskVars(\E live \in BOOLEAN : SenderCommands(live))
    /\ WF_taskVars(\E nudge \in BOOLEAN : ReceiverTakes(nudge))
    /\ WF_taskVars(ReceiverSends)
    /\ WF_taskVars(TickSends)
    /\ WF_taskVars(ReportSends)
    /\ WF_taskVars(AddConnects)
    /\ WF_taskVars(AddAsks)
    /\ WF_taskVars(AddStarts)
    /\ WF_taskVars(RemoveTells)
    /\ WF_taskVars(CloseForwards)

FairTaskSpec == TaskSpec /\ TaskFairness

-----------------------------------------------------------------------------
(***************************************************************************)
(* InboundOnce: what arrives reaches its consumer's channel once and in    *)
(* order on either lane, whichever channel is full and however the reads   *)
(* pause.  All that never gets there is what quinn's buffer, full while    *)
(* they pause, dropped: a datagram once read is not lost while the owner   *)
(* lives.                                                                  *)
(***************************************************************************)
InOrderFrom(lane, seen, channel, held) ==
    LET got == Own(seen \o FlattenSeq(channel)) \o held \o Lane(quinn, lane)
    IN  /\ \A i, k \in DOMAIN got : i < k => got[i] < got[k]
        /\ ToSet(got) = (1 .. arrived[lane]) \ overflowed[lane]

InboundOnce ==
    owner.at # "ended" =>
        /\ InOrderFrom("rx", rx_seen, msg, owner.inbound)
        /\ InOrderFrom("tx", tx_seen, sender_in, owner.inbound_tx)

(***************************************************************************)
(* ControlAfterData: a datagram overtakes one its producer staged before   *)
(* it only if it is data and the other control; so a Shutdown follows the  *)
(* last burst.                                                             *)
(***************************************************************************)
ControlAfterData ==
    \A i, k \in DOMAIN wire :
        i < k /\ wire[i][2] > wire[k][2] => wire[i][1] = "data" /\ wire[k][1] = "ctrl"

(***************************************************************************)
(* KnownFirst: no ack, and nothing of the fast path, reaches the sender    *)
(* from a path its scheduler does not know yet.                            *)
(***************************************************************************)
KnownFirst == sender_in # <<>> => known \/ path_cmd \in {"removing", "removed"}

(***************************************************************************)
(* NoWedge: the tasks wait on one another only for a time: every flush,    *)
(* every report tick and every path command ends, whatever is full, also   *)
(* when no timeout fires; a removed path is closed and forgotten; and the  *)
(* loss of the connection is seen, however long the reads were paused.     *)
(***************************************************************************)
NoWedge ==
    /\ sender.at = "flush" ~> sender.at = "select"
    /\ receiver.at = "flush" ~> receiver.at = "wait"
    /\ report.at # "idle" ~> report.at = "idle"
    /\ path_cmd = "connect" ~> path_cmd \notin {"connect", "connecting", "connected", "asked", "added"}
    /\ path_cmd = "removing" ~> owner.at = "ended" /\ ~known
    /\ conn = "lost" /\ owner.readers ~> conn_lost \/ owner.at = "ended"
=============================================================================
