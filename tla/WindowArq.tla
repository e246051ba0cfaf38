------------------------------ MODULE WindowArq ------------------------------
(***************************************************************************)
(* The reliable window end to end: the retention sender, the receiver and  *)
(* the lossy, reordering, duplicating datagram paths between them.  Both   *)
(* sides are tasks of their own; the steps interleave.                     *)
(***************************************************************************)
EXTENDS RetentionSender, WindowReceiver

vars == <<linkVars, sendVars, recvVars>>

Init == LinkInit /\ SenderInit /\ ReceiverInit

Emitted == 0 .. next_seq - 1

-----------------------------------------------------------------------------
AckArrives == /\ \E a \in acks, another \in BOOLEAN : ReceiveAck(a, another)
              /\ UNCHANGED recvVars

Drain == DrainSack /\ UNCHANGED recvVars

Emit == /\ \E n \in 0 .. EmitBurst, resent \in SUBSET sent_store : EmitArm(n, resent)
        /\ UNCHANGED recvVars

Flush == /\ \E resent \in SUBSET sent_store : PackerFlush(resent)
         /\ UNCHANGED recvVars

Nack == /\ \E resent \in SUBSET sent_store : NackArm(resent)
        /\ UNCHANGED recvVars

Poll == /\ \E resent \in SUBSET sent_store : PollArm(resent)
        /\ UNCHANGED recvVars

Input == /\ \E resent \in SUBSET sent_store : InputDone(resent)
         /\ UNCHANGED recvVars

Sweep == /\ \E resent \in SUBSET sent_store : TailArm(resent)
        /\ UNCHANGED recvVars

SourceArrives ==
    /\ \E s \in data, C \in SUBSET Emitted, another, floor_elapsed \in BOOLEAN :
          ReceiveSource(s, another, C, floor_elapsed)
    /\ UNCHANGED sendVars

RepairArrives ==
    /\ \E C \in SUBSET Emitted, floor_elapsed \in BOOLEAN : ReceiveRepair(C, floor_elapsed)
    /\ UNCHANGED sendVars

ReceiverWaits == Wait /\ UNCHANGED sendVars

Refresh == HoleRefresh /\ UNCHANGED sendVars

Reserve == (\E k \in 1 .. Len(held) : ReserveWake(k)) /\ UNCHANGED sendVars

Consume == ConsumerTake /\ UNCHANGED sendVars

DatagramLost == Lose /\ UNCHANGED <<sendVars, recvVars>>

Next ==
    \/ AckArrives \/ Drain \/ Emit \/ Flush \/ Nack \/ Poll \/ Input \/ Sweep
    \/ SourceArrives \/ RepairArrives \/ ReceiverWaits \/ Refresh \/ Reserve \/ Consume
    \/ DatagramLost

Spec == Init /\ [][Next]_vars

(***************************************************************************)
(* Fairness.  Each loop keeps running and its armed timers fire: the       *)
(* select! polls every arm, so a timer armed again and again fires in the  *)
(* end, and a tail sweep whose cooldown and budget have recovered sends    *)
(* the blocker (the idle floor of the NACK throttle guarantees the         *)
(* budget).  Paths are fair-lossy: what is sent again and again arrives.   *)
(* Nothing is assumed of the TUN.                                          *)
(***************************************************************************)
SweepSends == /\ \E resent \in SUBSET sent_store :
                    TailBlocker \subseteq resent /\ TailArm(resent)
              /\ UNCHANGED recvVars

SymbolArrives(seq) ==
    /\ \E another, floor_elapsed \in BOOLEAN : ReceiveSource(seq, another, {}, floor_elapsed)
    /\ UNCHANGED sendVars

CurrentAckArrives ==
    /\ \E a \in acks, another \in BOOLEAN :
          a.next_expected = next_expected /\ ReceiveAck(a, another)
    /\ UNCHANGED recvVars

Fairness ==
    /\ WF_vars(Drain) /\ WF_vars(Input) /\ SF_vars(SweepSends)
    /\ \A seq \in Seqs : SF_vars(SymbolArrives(seq))
    /\ SF_vars(CurrentAckArrives)
    /\ WF_vars(ReceiverWaits) /\ SF_vars(Reserve) /\ WF_vars(Consume)

FairSpec == Spec /\ Fairness

-----------------------------------------------------------------------------
(***************************************************************************)
(* TypeOK: one type invariant for both ends and the link.                  *)
(***************************************************************************)
TypeOK == LinkTypeOK /\ SenderTypeOK /\ ReceiverTypeOK

(***************************************************************************)
(* NothingLost: a symbol the sender no longer retains is in the consumer's *)
(* channel, every packet of it.  The ack that prunes the store (the only   *)
(* payload copy) never runs ahead of a full or slow consumer.              *)
(***************************************************************************)
NothingLost == PacketsOf(Emitted \ sent_store) \subseteq SeqSet(tun_out)

(***************************************************************************)
(* InOrder: without the out-of-order corner the consumer sees the packets  *)
(* in the order the TUN supplied them, with no packet skipped.             *)
(***************************************************************************)
InOrder == ~Ooo => \A i \in DOMAIN tun_out : tun_out[i] = i - 1

(***************************************************************************)
(* GateSound: however late, reordered or lost the reports are, the gate    *)
(* reuses no more slots than the receiver has retained symbols of.         *)
(***************************************************************************)
Delivered(s) == s < next_expected \/ s \in received_seqs

GateSound ==
    store_gate_released(sent_store, Cardinality(sack_released), above_report)
        <= Cardinality({s \in sent_store : Delivered(s)})

(***************************************************************************)
(* MarksSound: a slot marked by a SACK range is retained and its symbol is *)
(* at the receiver.                                                        *)
(***************************************************************************)
MarksSound == \A s \in sack_released : s \in sent_store /\ Delivered(s)

(***************************************************************************)
(* OutstandingBounded: the packet arm's gate, the burst loop and the       *)
(* packer's ungated flush together keep the outstanding count within one   *)
(* symbol of the cap.                                                      *)
(***************************************************************************)
OutstandingBounded ==
    Outstanding(sent_store) <= StoreCap + (IF Packing THEN 1 ELSE 0)

(***************************************************************************)
(* AboveExact: the receiver's incremental count is the number of received  *)
(* symbols at or above the frontier it was last moved to, through every    *)
(* prune.                                                                  *)
(***************************************************************************)
AboveExact ==
    recv_above.count = Cardinality({s \in received_seqs : s >= recv_above.frontier})

(***************************************************************************)
(* AckTruthful: no cumulative point on the wire or at the sender passes a  *)
(* packet that is still held for the consumer.                             *)
(***************************************************************************)
AckTruthful ==
    /\ \A a \in acks : a.next_expected <= next_expected
    /\ window_ack_seq <= next_expected
    /\ \A p \in SeqSet(held) : SymbolOf[p] >= next_expected

(***************************************************************************)
(* ReorderBounded: what the reorder buffer's comment claims, that the      *)
(* sender's store cap bounds what the receiver holds behind a hole.        *)
(***************************************************************************)
ReorderBounded == Cardinality(reorder_pending) <= StoreCap

(***************************************************************************)
(* StoreDrains: every retained symbol is in the end acknowledged and let   *)
(* go, so that a full store opens again.                                   *)
(***************************************************************************)
StoreDrains == \A s \in Seqs : s \in sent_store ~> s \notin sent_store

(***************************************************************************)
(* ConsumerServed: every packet of an emitted symbol reaches the consumer. *)
(***************************************************************************)
ConsumerServed ==
    \A s \in Seqs : s < next_seq ~>
                     PacketsOf({s}) \subseteq SeqSet(SubSeq(tun_out, 1, tun_taken))

(***************************************************************************)
(* Stream: the window implements the reliable stream it stands for.  So no *)
(* packet enters the consumer's channel twice, whatever is retransmitted,  *)
(* duplicated or decoded after its copy arrived, and although the decoder  *)
(* forgets what lies below its floor.                                      *)
(***************************************************************************)
Stream == INSTANCE ReliableStream
              WITH emitted <- next_seq, retained <- sent_store, delivered <- tun_out

ImplementsStream == Stream!StreamSpec
==============================================================================
