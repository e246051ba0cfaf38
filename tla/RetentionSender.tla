-------------------------- MODULE RetentionSender --------------------------
(***************************************************************************)
(* The window sender's loop under retain-until-acked (rho = 1, no          *)
(* generation coding): the sent-data store, the SACK-clocked flow-control  *)
(* gate, gap-driven retransmission and the tail sweep.                     *)
(*                                                                         *)
(* One iteration: take the inputs and drain the SACK reports ("top"), wait *)
(* on the select! ("select"), run one arm, serve the queued gap reports    *)
(* and apply the cumulative ack.  The input arm can take several acks      *)
(* ("input") before the iteration goes on.                                 *)
(*                                                                         *)
(* Clocks are abstracted: cooldowns, ripeness laws and repair budgets      *)
(* choose which of the reported seqs are sent again, so any subset can be. *)
(***************************************************************************)
EXTENDS WindowLink, Sequences

CONSTANTS
    StoreCap,     \* effective_store_cap
    EmitBurst,    \* Law-0 burst quantum, in symbols
    SackDepth,    \* depth of the SACK-report channel
    NackDepth,    \* depth of the gap-report channel
    MaxNackGaps,  \* gaps one report names
    Packing       \* use_packing: several packets share a symbol

ASSUME SenderAssumption ==
    /\ StoreCap \in Nat \ {0}
    /\ EmitBurst \in Nat \ {0}
    /\ SackDepth \in Nat \ {0}
    /\ NackDepth \in Nat \ {0}
    /\ MaxNackGaps \in Nat \ {0}
    /\ Packing \in BOOLEAN

VARIABLES
    pc,                 \* "top", "select" or "input"
    next_seq,           \* the encoder's next source seq
    packer_pending,     \* the packer holds a partial symbol
    sent_store,         \* seqs whose payload is retained
    retransmit_buffer,  \* seqs the tail sweep looks at
    sack_released,      \* retained seqs some SACK range covered
    above_report,       \* the newest received-above report
    window_ack_seq,     \* the peer's cumulative point, as last heard
    prev_ack,           \* the cumulative point applied so far
    sack_rx,            \* queued SACK reports
    nack_rx             \* queued gap reports

sendVars == <<pc, next_seq, packer_pending, sent_store, retransmit_buffer, sack_released,
              above_report, window_ack_seq, prev_ack, sack_rx, nack_rx>>

AboveReport == [next_expected : 0 .. N, received_above : Nat]

SenderTypeOK ==
    /\ pc \in {"top", "select", "input"}
    /\ next_seq \in 0 .. N
    /\ packer_pending \in BOOLEAN
    /\ sent_store \subseteq Seqs
    /\ retransmit_buffer \subseteq Seqs
    /\ sack_released \subseteq Seqs
    /\ above_report \in AboveReport
    /\ window_ack_seq \in 0 .. N
    /\ prev_ack \in 0 .. N
    /\ sack_rx \in Seq(WindowAck)
    /\ nack_rx \in Seq(SUBSET Seqs)

SenderInit ==
    /\ pc = "top"
    /\ next_seq = 0
    /\ packer_pending = FALSE
    /\ sent_store = {}
    /\ retransmit_buffer = {}
    /\ sack_released = {}
    /\ above_report = [next_expected |-> 0, received_above |-> 0]
    /\ window_ack_seq = 0
    /\ prev_ack = 0
    /\ sack_rx = <<>>
    /\ nack_rx = <<>>

Queued(q) == {q[i] : i \in DOMAIN q}

-----------------------------------------------------------------------------
(***************************************************************************)
(* on_window_ack, run at the loop top and in the input arm.  Both queues   *)
(* are written with try_send: a report that finds its queue full is lost.  *)
(***************************************************************************)
on_window_ack(a) ==
    LET gaps == sack_to_gaps(a.next_expected, a.sacked, MaxNackGaps)
    IN  /\ window_ack_seq' = Larger(window_ack_seq, a.next_expected)
        /\ sack_rx' = IF a.sacked # {} /\ Len(sack_rx) < SackDepth
                      THEN Append(sack_rx, a) ELSE sack_rx
        /\ nack_rx' = IF gaps # {} /\ Len(nack_rx) < NackDepth
                      THEN Append(nack_rx, gaps) ELSE nack_rx

ReceiveAck(a, another) ==
    /\ TakeAck(a, another)
    /\ on_window_ack(a)
    /\ pc' = IF pc = "select" THEN "input" ELSE pc
    /\ UNCHANGED <<next_seq, packer_pending, sent_store, retransmit_buffer, sack_released,
                   above_report, prev_ack, data, repairs>>

(***************************************************************************)
(* The SACK drain at the top of an iteration: fold the counts, mark the    *)
(* retained seqs the ranges cover.  Nothing leaves the store.              *)
(***************************************************************************)
DrainSack ==
    LET reports == Queued(sack_rx)
        counts  == {above_report} \cup
                   {[next_expected |-> r.next_expected,
                     received_above |-> r.received_above] : r \in reports}
    IN  /\ pc = "top"
        /\ above_report' = CHOOSE r \in counts : \A q \in counts :
                              above_fold(r, q.next_expected, q.received_above) = r
        /\ sack_released' = sack_released \cup (sent_store \cap UNION {r.sacked : r \in reports})
        /\ sack_rx' = <<>>
        /\ pc' = "select"
        /\ UNCHANGED <<next_seq, packer_pending, sent_store, retransmit_buffer, window_ack_seq,
                       prev_ack, nack_rx, linkVars>>

(***************************************************************************)
(* The flow-control gate: retained minus what the reports show received.   *)
(***************************************************************************)
Outstanding(store) ==
    sack_release_outstanding(store, Cardinality(sack_released), above_report)

(* Variant: the pause sets in one symbol late.                             *)
tx_paused_late == Outstanding(sent_store) > StoreCap

tx_paused == Outstanding(sent_store) >= StoreCap

(***************************************************************************)
(* emit_source for the next n symbols: retained, watched by the tail sweep *)
(* and sent.  A correction the taper owes is a coded symbol, or, when the  *)
(* oldest watched symbol is thought lost, that symbol again.               *)
(***************************************************************************)
NewSymbols(n) == next_seq .. next_seq + n - 1

Oldest(S) == {s \in S : \A q \in S : s <= q}

TaperCopy(n) == {s \in Oldest(retransmit_buffer \cup NewSymbols(n)) : n > 0}

TaperRepairs == {r \in 0 .. MaxRepairs : r >= repairs}

(***************************************************************************)
(* The end of an iteration.  serve_gaps empties the queue of gap reports   *)
(* and sends `resent`, retained seqs they or `swept` name, again (with a   *)
(* coded margin); on_ack_advance then drops what the cumulative ack        *)
(* covers.                                                                 *)
(***************************************************************************)
FinishIteration(n, swept, resent) ==
    LET new   == NewSymbols(n)
        store == sent_store \cup new
        kept(S) == {s \in S : s >= window_ack_seq}
    IN  /\ resent \subseteq (swept \cup UNION Queued(nack_rx)) \cap store
        /\ next_seq' = next_seq + n
        /\ data' = data \cup new \cup resent
        /\ repairs' \in IF new \cup resent = {} THEN {repairs} ELSE TaperRepairs
        /\ nack_rx' = <<>>
        /\ IF window_ack_seq > prev_ack
           THEN /\ sent_store' = kept(store)
                /\ retransmit_buffer' = kept(retransmit_buffer \cup new)
                /\ sack_released' = kept(sack_released)
           ELSE /\ sent_store' = store
                /\ retransmit_buffer' = retransmit_buffer \cup new
                /\ UNCHANGED sack_released
        /\ prev_ack' = Larger(prev_ack, window_ack_seq)
        /\ pc' = "top"
        /\ UNCHANGED <<above_report, window_ack_seq, sack_rx, acks>>

(***************************************************************************)
(* The packet arm: while not paused, one TUN packet is read.  Packing: it  *)
(* joins the packer's partial symbol, or completes it and starts the next. *)
(* Otherwise it is a symbol, and queued packets follow it in one burst     *)
(* while the gate stays open.                                              *)
(***************************************************************************)
EmitArm(n, resent) ==
    /\ pc = "select"
    /\ ~tx_paused
    /\ next_seq + n <= N
    /\ IF Packing
       THEN /\ n \in 0 .. 1
            /\ n = 1 => packer_pending
            /\ next_seq + n < N
            /\ packer_pending' = TRUE
       ELSE /\ n \in 1 .. EmitBurst
            /\ \A m \in 1 .. n - 1 : Outstanding(sent_store \cup NewSymbols(m)) < StoreCap
            /\ UNCHANGED packer_pending
    /\ FinishIteration(n, TaperCopy(n), resent)

(***************************************************************************)
(* The packer's flush timer sends the partial symbol, paused or not.       *)
(***************************************************************************)
PackerFlush(resent) ==
    /\ pc = "select"
    /\ packer_pending
    /\ packer_pending' = FALSE
    /\ FinishIteration(1, TaperCopy(1), resent)

(***************************************************************************)
(* The gap arm.                                                            *)
(***************************************************************************)
NackArm(resent) ==
    /\ pc = "select"
    /\ nack_rx # <<>>
    /\ FinishIteration(0, {}, resent)
    /\ UNCHANGED packer_pending

(***************************************************************************)
(* The 1 ms poll while paused or out of pacing tokens, and the commands of *)
(* the cold tasks.                                                         *)
(***************************************************************************)
PollArm(resent) ==
    /\ pc = "select"
    /\ FinishIteration(0, {}, resent)
    /\ UNCHANGED packer_pending

(***************************************************************************)
(* The input arm, its acks handled.                                        *)
(***************************************************************************)
InputDone(resent) ==
    /\ pc = "input"
    /\ FinishIteration(0, {}, resent)
    /\ UNCHANGED packer_pending

(* Variant: the sweep repeats the newest symbol, not the blocker.          *)
TailNewest == {s \in retransmit_buffer : \A q \in retransmit_buffer : q <= s}

(***************************************************************************)
(* The tail-sweep timer names the cumulative blocker.                      *)
(***************************************************************************)
TailBlocker == Oldest(retransmit_buffer)

TailArm(resent) ==
    /\ pc = "select"
    /\ retransmit_buffer # {}
    /\ FinishIteration(0, TailBlocker, resent)
    /\ UNCHANGED packer_pending
=============================================================================
