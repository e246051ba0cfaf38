-------------------------- MODULE WindowArqProofs --------------------------
(***************************************************************************)
(* Theorems about the reliable window, for any number of symbols and       *)
(* packets, any packing of the packets into symbols and any capacity: the  *)
(* store, the acks and the marks; then what flows through the window, in   *)
(* which order and how often, that the window implements ReliableStream,   *)
(* and the counts, the receiver's of what it holds above the frontier and  *)
(* the flow-control gate's.                                                *)
(***************************************************************************)
EXTENDS WindowArq, DataLemmas, SequenceTheorems


-----------------------------------------------------------------------------
(***************************************************************************)
(* Least and greatest members, which the CHOOSEs of the model name.        *)
(***************************************************************************)

(* The last key of a non-empty store is a key, and no key is above it.     *)
LEMMA LastSeqIsLast ==
    ASSUME NEW n \in Nat, NEW S \in SUBSET (0 .. n), S # {}
    PROVE  last_seq(S) \in S /\ \A s \in S : s <= last_seq(S)
<1> DEFINE T == {n - s : s \in S}
<1>1. T \in SUBSET Nat /\ T # {}
  <2>1. \A s \in S : n - s \in Nat
    OBVIOUS
  <2>. QED  BY <2>1
<1>2. PICK t \in T : \A u \in T : t <= u
  BY <1>1, LeastMember
<1>3. PICK h \in S : t = n - h
  OBVIOUS
<1>4. ASSUME NEW s \in S
      PROVE  s <= h
  <2>1. n - s \in T
    OBVIOUS
  <2>2. n - h <= n - s
    BY <1>2, <1>3, <2>1
  <2>3. s \in 0 .. n /\ h \in 0 .. n
    OBVIOUS
  <2>. HIDE DEF T
  <2>. QED  BY <2>2, <2>3
<1>5. \E g \in S : \A s \in S : s <= g
  BY <1>4
<1>. HIDE DEF T
<1>6. last_seq(S) = CHOOSE g \in S : \A s \in S : s <= g
  BY DEF last_seq
<1>. QED  BY <1>5, <1>6, Zenon

(* The run of received symbols that starts at `from` has an end.           *)
LEMMA RunEndIsEnd ==
    ASSUME NEW S \in SUBSET Seqs, NEW from \in 0 .. N
    PROVE  /\ RunEnd(S, from) \in from .. N
           /\ RunEnd(S, from) \notin S
           /\ \A s \in from .. RunEnd(S, from) - 1 : s \in S
<1> DEFINE T == {e \in from .. N : e \notin S}
<1>1. T \in SUBSET Nat /\ N \in T
  BY LinkAssumption DEF Seqs
<1>2. PICK e \in T : \A u \in T : e <= u
  BY <1>1, LeastMember
<1>3. e \in from .. N /\ e \notin S /\ \A s \in from .. e - 1 : s \in S
  BY <1>2, LinkAssumption
<1>. QED  BY <1>3 DEF RunEnd

(* The cumulative point stops at the hold's end or at the lowest seq held. *)
LEMMA DeliveredPrefixBounds ==
    ASSUME NEW n \in Nat, NEW H \in SUBSET Nat
    PROVE  /\ delivered_prefix(n, H) \in Nat
           /\ delivered_prefix(n, H) <= n
           /\ \A s \in H : delivered_prefix(n, H) <= s
           /\ delivered_prefix(n, H) = n \/ delivered_prefix(n, H) \in H
<1>1. CASE H = {}
  BY <1>1 DEF delivered_prefix
<1>2. CASE H # {}
  <2> DEFINE lowest == CHOOSE l \in H : \A s \in H : l <= s
  <2>1. \E l \in H : \A s \in H : l <= s
    BY <1>2, LeastMember
  <2>2. lowest \in H /\ \A s \in H : lowest <= s
    BY <2>1, Zenon
  <2>3. delivered_prefix(n, H) = Smaller(n, lowest)
    BY <1>2 DEF delivered_prefix
  <2>. HIDE DEF lowest
  <2>. QED  BY <2>2, <2>3 DEF Smaller
<1>. QED  BY <1>1, <1>2

-----------------------------------------------------------------------------
(***************************************************************************)
(* What the consumer's hold does to the packets it is handed.              *)
(***************************************************************************)

(* Two queues one after the other hold the packets of both.                *)
LEMMA ConcatPackets ==
    ASSUME NEW a \in Seq(Packets), NEW b \in Seq(Packets)
    PROVE  /\ a \o b \in Seq(Packets)
           /\ SeqSet(a \o b) = SeqSet(a) \cup SeqSet(b)
<1>1. a \o b \in Seq(Packets) /\ Len(a \o b) = Len(a) + Len(b)
  OBVIOUS
<1>2. SeqSet(a \o b) \subseteq SeqSet(a) \cup SeqSet(b)
  <2>1. ASSUME NEW i \in 1 .. Len(a) + Len(b)
        PROVE  (a \o b)[i] \in SeqSet(a) \cup SeqSet(b)
    <3>1. CASE i <= Len(a)
      BY <3>1 DEF SeqSet
    <3>2. CASE i > Len(a)
      <4>1. i - Len(a) \in 1 .. Len(b) /\ (a \o b)[i] = b[i - Len(a)]
        BY <3>2
      <4>. QED  BY <4>1 DEF SeqSet
    <3>. QED  BY <3>1, <3>2
  <2>. QED  BY <1>1, <2>1 DEF SeqSet
<1>3. SeqSet(a) \subseteq SeqSet(a \o b)
  BY <1>1 DEF SeqSet
<1>4. SeqSet(b) \subseteq SeqSet(a \o b)
  <2>1. ASSUME NEW j \in 1 .. Len(b)
        PROVE  b[j] \in SeqSet(a \o b)
    <3>1. Len(a) + j \in 1 .. Len(a \o b) /\ (a \o b)[Len(a) + j] = b[j]
      BY <1>1
    <3>. QED  BY <1>1, <3>1 DEF SeqSet
  <2>. QED  BY <2>1 DEF SeqSet
<1>. QED  BY <1>1, <1>2, <1>3, <1>4

(* Cutting a queue in two loses none of its packets.                       *)
LEMMA SplitPackets ==
    ASSUME NEW q \in Seq(Packets), NEW k \in 0 .. Len(q)
    PROVE  /\ SubSeq(q, 1, k) \in Seq(Packets) /\ Len(SubSeq(q, 1, k)) = k
           /\ SubSeq(q, k + 1, Len(q)) \in Seq(Packets)
           /\ SeqSet(SubSeq(q, 1, k)) \cup SeqSet(SubSeq(q, k + 1, Len(q))) = SeqSet(q)
<1> DEFINE front == SubSeq(q, 1, k)
           back  == SubSeq(q, k + 1, Len(q))
<1>1. front \in Seq(Packets) /\ Len(front) = k /\ \A i \in 1 .. k : front[i] = q[i]
  <2>1. \A i \in 1 .. k : q[i] \in Packets
    OBVIOUS
  <2>. QED  BY <2>1, SubSeqProperties
<1>2. /\ back \in Seq(Packets) /\ Len(back) = Len(q) - k
      /\ \A i \in 1 .. Len(q) - k : back[i] = q[k + i]
  <2>1. \A i \in k + 1 .. Len(q) : q[i] \in Packets
    OBVIOUS
  <2>. QED  BY <2>1, SubSeqProperties
<1>. HIDE DEF front, back
<1>3. SeqSet(front) \subseteq SeqSet(q)
  BY <1>1 DEF SeqSet
<1>4. SeqSet(back) \subseteq SeqSet(q)
  <2>1. ASSUME NEW i \in 1 .. Len(back)
        PROVE  back[i] \in SeqSet(q)
    <3>1. k + i \in 1 .. Len(q) /\ back[i] = q[k + i]
      BY <1>2
    <3>. QED  BY <3>1 DEF SeqSet
  <2>. QED  BY <1>2, <2>1 DEF SeqSet
<1>5. ASSUME NEW i \in 1 .. Len(q)
      PROVE  q[i] \in SeqSet(front) \cup SeqSet(back)
  <2>1. CASE i <= k
    BY <1>1, <2>1 DEF SeqSet
  <2>2. CASE i > k
    <3>1. i - k \in 1 .. Len(back) /\ back[i - k] = q[i]
      BY <1>2, <2>2
    <3>. QED  BY <1>2, <3>1 DEF SeqSet
  <2>. QED  BY <2>1, <2>2
<1>6. SeqSet(q) \subseteq SeqSet(front) \cup SeqSet(back)
  BY <1>5 DEF SeqSet
<1>. QED  BY <1>1, <1>2, <1>3, <1>4, <1>6 DEF front, back

(* Accept moves packets from the queue into the channel and keeps the rest. *)
LEMMA AcceptKeeps ==
    ASSUME ReceiverTypeOK, NEW queue \in Seq(Packets), NEW k, Accept(queue, k)
    PROVE  /\ tun_out' \in Seq(Packets) /\ held' \in Seq(Packets)
           /\ tun_taken' \in 0 .. Len(tun_out') /\ Len(tun_out') - tun_taken' <= ChanCap
           /\ SeqSet(tun_out) \subseteq SeqSet(tun_out')
           /\ SeqSet(held') \subseteq SeqSet(queue)
           /\ SeqSet(tun_out') \cup SeqSet(held') = SeqSet(tun_out) \cup SeqSet(queue)
<1>1. /\ tun_out \in Seq(Packets) /\ ChanCap \in Nat
      /\ tun_taken \in 0 .. Len(tun_out) /\ Len(tun_out) - tun_taken <= ChanCap
  BY ReceiverAssumption DEF ReceiverTypeOK
<1>2. k \in 0 .. Len(queue)
  BY <1>1, ReceiverAssumption DEF Accept, Room, Smaller
<1>3. /\ tun_out' = tun_out \o SubSeq(queue, 1, k)
      /\ held' = SubSeq(queue, k + 1, Len(queue))
      /\ tun_taken' = Larger(tun_taken, Len(tun_out) + k - ChanCap)
  BY DEF Accept
<1>4. /\ SubSeq(queue, 1, k) \in Seq(Packets) /\ Len(SubSeq(queue, 1, k)) = k
      /\ SubSeq(queue, k + 1, Len(queue)) \in Seq(Packets)
      /\ SeqSet(SubSeq(queue, 1, k)) \cup SeqSet(SubSeq(queue, k + 1, Len(queue))) = SeqSet(queue)
  BY <1>2, SplitPackets
<1>5. /\ tun_out' \in Seq(Packets)
      /\ SeqSet(tun_out') = SeqSet(tun_out) \cup SeqSet(SubSeq(queue, 1, k))
  BY <1>1, <1>3, <1>4, ConcatPackets
<1>6. Len(tun_out') = Len(tun_out) + k
  BY <1>1, <1>3, <1>4, SMTT(20)
<1>7. tun_taken' \in 0 .. Len(tun_out') /\ Len(tun_out') - tun_taken' <= ChanCap
  BY <1>1, <1>2, <1>3, <1>6 DEF Larger
<1>. QED  BY <1>3, <1>4, <1>5, <1>7

(* What is handed to the consumer are the packets of the symbols decoded,  *)
(* or of the run that they complete and of those below it.                 *)
LEMMA DeliverablePackets ==
    ASSUME NEW R \in SUBSET Seqs, ReceiverTypeOK, NEW packets \in Deliverable(R)
    PROVE  /\ packets \in Seq(Packets)
           /\ SeqSet(packets) =
                 IF Ooo THEN PacketsOf(R)
                 ELSE PacketsOf(Late(R)) \cup PacketsOf(Run(R))
<1>1. ASSUME NEW S, NEW w \in Arrangements(S)
      PROVE  w \in Seq(Packets) /\ SeqSet(w) = PacketsOf(S)
  <2>1. PacketsOf(S) \in SUBSET Packets /\ IsFiniteSet(Packets)
    BY FS_Interval, ReceiverAssumption DEF PacketsOf, Packets
  <2>2. Cardinality(PacketsOf(S)) \in Nat
    BY <2>1, FS_Subset, FS_CardinalityType
  <2>3. w \in [1 .. Cardinality(PacketsOf(S)) -> PacketsOf(S)] /\ SeqSet(w) = PacketsOf(S)
    BY DEF Arrangements
  <2>4. w \in [1 .. Cardinality(PacketsOf(S)) -> Packets]
    BY <2>1, <2>3
  <2>. QED  BY <2>2, <2>3, <2>4
<1>2. CASE Ooo
  BY <1>1, <1>2 DEF Deliverable
<1>3. CASE ~Ooo
  <2>1. PICK late \in Arrangements(Late(R)), run \in InSequence(Run(R)) :
             packets = late \o run
    BY <1>3 DEF Deliverable
  <2>2. run \in Arrangements(Run(R))
    BY <2>1 DEF InSequence
  <2>3. /\ late \in Seq(Packets) /\ SeqSet(late) = PacketsOf(Late(R))
        /\ run \in Seq(Packets) /\ SeqSet(run) = PacketsOf(Run(R))
    BY <1>1, <2>1, <2>2
  <2>. QED  BY <1>3, <2>1, <2>3, ConcatPackets
<1>. QED  BY <1>2, <1>3

-----------------------------------------------------------------------------
(***************************************************************************)
(* The inductive invariant.                                                *)
(***************************************************************************)

(* The sender retains what no cumulative ack it has applied covers.        *)
Retained ==
    /\ \A s \in Emitted : prev_ack <= s => s \in sent_store
    /\ sent_store \subseteq Emitted

(* The cumulative point runs from the receiver through the acks to the     *)
(* sender, and each holder is behind the one before.                       *)
AcksTrail ==
    /\ prev_ack <= window_ack_seq
    /\ window_ack_seq <= next_expected
    /\ \A a \in acks : a.next_expected <= next_expected

(* The decoder refuses what has been released: it is still an output of    *)
(* its or it is below its floor.                                           *)
ReleasedRefused ==
    /\ \A s \in 0 .. next_unreleased - 1 : s \in received_seqs \/ s < decoder_floor
    /\ \A s \in reorder_pending : s \in received_seqs /\ next_unreleased <= s

(* What was released is in the channel or held for it; nothing that is     *)
(* held is below the cumulative point.                                     *)
ReleasedKept ==
    /\ next_expected <= next_unreleased
    /\ PacketsOf(0 .. next_unreleased - 1) \subseteq SeqSet(tun_out) \cup SeqSet(held)
    /\ Ooo => PacketsOf(received_seqs) \subseteq SeqSet(tun_out) \cup SeqSet(held)
    /\ \A p \in SeqSet(held) : next_expected <= SymbolOf[p]

(* No SACK range names a symbol the receiver does not have.                *)
SacksTruthful ==
    /\ \A a \in acks : \A s \in a.sacked : Delivered(s)
    /\ \A r \in Queued(sack_rx) : \A s \in r.sacked : Delivered(s)

(* A partial symbol of the packer has a packet yet to come after it.       *)
PackerHasRoom == packer_pending => Packing /\ next_seq < N

IInv ==
    /\ TypeOK
    /\ PackerHasRoom
    /\ Retained
    /\ AcksTrail
    /\ ReleasedRefused
    /\ ReleasedKept
    /\ SacksTruthful
    /\ MarksSound

-----------------------------------------------------------------------------
(***************************************************************************)
(* The acks a receiver's step adds.                                        *)
(***************************************************************************)

(* ReceivedAbove::sync keeps a count.                                      *)
LEMMA AboveSyncIsCount ==
    ASSUME NEW S \in SUBSET Seqs, NEW f \in Nat, NEW c \in Nat, NEW e \in Nat
    PROVE  above_sync(S, f, c, e) \in Nat
<1> DEFINE below == {s \in S : f <= s /\ s < e}
           above == {s \in S : e <= s /\ s < f}
<1>1. IsFiniteSet(Seqs)
  BY FS_Interval, LinkAssumption DEF Seqs
<1>2. Cardinality(below) \in Nat /\ Cardinality(above) \in Nat
  <2>1. below \in SUBSET Seqs /\ above \in SUBSET Seqs
    OBVIOUS
  <2>. QED  BY <1>1, <2>1, FS_Subset, FS_CardinalityType
<1>3. above_sync(S, f, c, e) =
         IF e > f THEN Monus(c, Cardinality(below)) ELSE c + Cardinality(above)
  BY DEF above_sync
<1>. HIDE DEF below, above
<1>. QED  BY <1>2, <1>3 DEF Monus

(* SendAck adds one WindowAck at most.                                     *)
LEMMA SendAckAdds ==
    ASSUME acks \subseteq WindowAck, NEW a \in WindowAck, SendAck(a)
    PROVE  acks' \subseteq WindowAck /\ acks' \subseteq acks \cup {a}
BY DEF SendAck

(* The WindowAck of a data message carries the cumulative point and names  *)
(* received symbols only.                                                  *)
LEMMA EmissionAdds ==
    ASSUME TypeOK, NEW newly \in SUBSET Seqs, NEW floor_elapsed \in BOOLEAN,
           received_seqs' \subseteq Seqs, highest_seen_seq' \in Seqs, next_expected' \in 0 .. N,
           window_ack_emission(newly, floor_elapsed)
    PROVE  /\ acks' \subseteq WindowAck
           /\ \A a \in acks' : \/ a \in acks
                              \/ /\ a.next_expected = next_expected'
                                 /\ a.sacked \subseteq received_seqs'
           /\ recv_above' \in [frontier : 0 .. N, count : Nat]
           /\ last_advertised_ack' \in 0 .. N
           /\ last_gap_ack_seen' \in Seqs
<1> DEFINE cumulative_advanced == next_expected' > last_advertised_ack
           gap_report_due == /\ seen_end' > next_expected'
                             /\ highest_seen_seq' > last_gap_ack_seen
                             /\ floor_elapsed
           advertise == cumulative_advanced \/ gap_report_due
           count == recv_above.count + Cardinality(newly)
           above == above_sync(received_seqs', recv_above.frontier, count, next_expected')
           ranges == received_sack_ranges(received_seqs', next_expected',
                                          highest_seen_seq', MaxSackRanges)
           sacked == IF advertise THEN ranges ELSE {}
           ack == [next_expected |-> next_expected', received_above |-> above, sacked |-> sacked]
<1>1. /\ recv_above \in [frontier : 0 .. N, count : Nat] /\ N \in Nat
      /\ last_advertised_ack \in 0 .. N /\ last_gap_ack_seen \in Seqs
      /\ acks \subseteq WindowAck
  BY LinkAssumption DEF TypeOK, ReceiverTypeOK, LinkTypeOK
<1>2. count \in Nat
  <2>1. IsFiniteSet(Seqs)
    BY <1>1, FS_Interval DEF Seqs
  <2>2. Cardinality(newly) \in Nat
    BY <2>1, FS_Subset, FS_CardinalityType
  <2>. QED  BY <1>1, <2>2
<1>3. above \in Nat
  <2>1. recv_above.frontier \in Nat /\ next_expected' \in Nat
    BY <1>1
  <2>. HIDE DEF count
  <2>. QED  BY <1>2, <2>1, AboveSyncIsCount
<1>4. sacked \subseteq received_seqs'
  BY DEF received_sack_ranges, FirstRuns
<1>5. ack \in WindowAck
  <2>. HIDE DEF above, sacked
  <2>. QED  BY <1>3, <1>4 DEF WindowAck
<1>6. IF advertise \/ AckMerge
      THEN /\ SendAck(ack)
           /\ recv_above' = [frontier |-> next_expected', count |-> above]
           /\ last_advertised_ack' = Larger(last_advertised_ack, next_expected')
           /\ last_gap_ack_seen' = IF advertise THEN highest_seen_seq' ELSE last_gap_ack_seen
      ELSE /\ recv_above' = [recv_above EXCEPT !.count = count]
           /\ UNCHANGED <<acks, last_advertised_ack, last_gap_ack_seen>>
  BY Zenon DEF window_ack_emission
<1>7. ack.next_expected = next_expected' /\ ack.sacked \subseteq received_seqs'
  <2>. HIDE DEF above, sacked
  <2>. QED  BY <1>4
<1>. HIDE DEF ack, above, sacked, count, advertise
<1>8. CASE advertise \/ AckMerge
  BY <1>1, <1>3, <1>5, <1>6, <1>7, <1>8, SendAckAdds DEF Larger
<1>9. CASE ~(advertise \/ AckMerge)
  BY <1>1, <1>2, <1>6, <1>9
<1>. QED  BY <1>8, <1>9

-----------------------------------------------------------------------------
(***************************************************************************)
(* What a receiver's step does to its own state.                           *)
(***************************************************************************)

(* Pruning forgets only what the decoder then refuses and the cumulative   *)
(* point has passed.                                                       *)
LEMMA PruneForgets ==
    ASSUME TypeOK, NEW point \in 0 .. N, PruneTo(point)
    PROVE  /\ recv_above' \in [frontier : 0 .. N, count : Nat]
           /\ received_seqs' \subseteq received_seqs
           /\ decoder_floor' \in 0 .. N /\ decoder_floor <= decoder_floor'
           /\ \A s \in received_seqs :
                 s \in received_seqs' \/ (s < decoder_floor' /\ s < point)
<1> DEFINE inert == decode_inert_floor(point, WinCap)
<1>1. /\ recv_above \in [frontier : 0 .. N, count : Nat] /\ N \in Nat
      /\ received_seqs \in SUBSET Seqs /\ decoder_floor \in 0 .. N
  BY LinkAssumption DEF TypeOK, ReceiverTypeOK
<1>2. /\ recv_above' = [frontier |-> point,
                        count |-> above_sync(received_seqs, recv_above.frontier,
                                             recv_above.count, point)]
      /\ received_seqs' = {s \in received_seqs : s >= inert}
      /\ decoder_floor' = Larger(decoder_floor, inert)
  BY DEF PruneTo
<1>3. inert \in 0 .. point
  BY <1>1, ReceiverAssumption DEF decode_inert_floor, Monus
<1>4. recv_above' \in [frontier : 0 .. N, count : Nat]
  <2>1. recv_above.frontier \in Nat /\ recv_above.count \in Nat /\ point \in Nat
    BY <1>1
  <2>2. above_sync(received_seqs, recv_above.frontier, recv_above.count, point) \in Nat
    BY <1>1, <2>1, AboveSyncIsCount
  <2>. QED  BY <1>2, <2>2
<1>. HIDE DEF inert
<1>5. \A s \in received_seqs : s \in received_seqs' \/ (s < decoder_floor' /\ s < point)
  <2>1. \A s \in received_seqs : s \in Int
    BY <1>1 DEF Seqs
  <2>. QED  BY <1>1, <1>2, <1>3, <2>1 DEF Larger
<1>. QED  BY <1>1, <1>2, <1>3, <1>4, <1>5 DEF Larger

(* The hold's frontier ends a run of symbols that are received.            *)
LEMMA FrontierEndsRun ==
    ASSUME IInv, NEW R \in SUBSET Seqs
    PROVE  /\ Frontier(R) \in next_unreleased .. N
           /\ \A s \in Run(R) : s \in received_seqs \cup R
           /\ ~Ooo => \A s \in Run(R) : s \in Pending(R)
<1>1. /\ received_seqs \subseteq Seqs /\ reorder_pending \subseteq Seqs
      /\ next_unreleased \in 0 .. N
      /\ reorder_pending \subseteq received_seqs
  BY DEF IInv, TypeOK, ReceiverTypeOK, ReleasedRefused
<1>2. received_seqs \cup R \in SUBSET Seqs /\ Pending(R) \in SUBSET Seqs
  BY <1>1 DEF Pending
<1>3. CASE Ooo
  BY <1>1, <1>2, <1>3, RunEndIsEnd DEF Frontier, Run
<1>4. CASE ~Ooo
  <2>1. Pending(R) \subseteq received_seqs \cup R
    BY <1>1 DEF Pending
  <2>. QED  BY <1>1, <1>2, <1>4, <2>1, RunEndIsEnd DEF Frontier, Run
<1>. QED  BY <1>3, <1>4

(* The decoder puts out nothing that was released before.                  *)
LEMMA FreshIsNew ==
    ASSUME IInv, NEW R \in SUBSET Seqs, \A s \in R : fresh(s)
    PROVE  \A s \in R : next_unreleased <= s
<1>1. next_unreleased \in 0 .. N /\ decoder_floor \in 0 .. N /\ N \in Nat
  BY LinkAssumption DEF IInv, TypeOK, ReceiverTypeOK
<1>2. ASSUME NEW s \in R, s < next_unreleased
      PROVE  FALSE
  <2>1. s \in 0 .. next_unreleased - 1
    BY <1>1, <1>2 DEF Seqs
  <2>2. s \in received_seqs \/ s < decoder_floor
    BY <2>1 DEF IInv, ReleasedRefused
  <2>3. s >= decoder_floor /\ s \notin received_seqs
    BY DEF fresh
  <2>. QED  BY <1>1, <2>1, <2>2, <2>3
<1>. QED  BY <1>1, <1>2 DEF Seqs

(* The channel and the hold have the packets they had and those they were  *)
(* handed, and nothing is handed that is below the hold's frontier.        *)
LEMMA RecoveredKeeps ==
    ASSUME IInv, NEW R \in SUBSET Seqs, \A s \in R : fresh(s),
           NEW packets \in Deliverable(R), NEW k, Recovered(R, packets, k)
    PROVE  /\ tun_out' \in Seq(Packets) /\ held' \in Seq(Packets)
           /\ tun_taken' \in 0 .. Len(tun_out') /\ Len(tun_out') - tun_taken' <= ChanCap
           /\ SeqSet(tun_out) \subseteq SeqSet(tun_out')
           /\ SeqSet(tun_out') \cup SeqSet(held') =
                 SeqSet(tun_out) \cup SeqSet(held) \cup PacketsOf(IF Ooo THEN R ELSE Run(R))
           /\ \A p \in SeqSet(held') : p \in Packets /\ next_expected <= SymbolOf[p]
<1>1. /\ held \in Seq(Packets) /\ tun_out \in Seq(Packets) /\ ReceiverTypeOK
      /\ tun_taken \in 0 .. Len(tun_out) /\ Len(tun_out) - tun_taken <= ChanCap
      /\ next_unreleased \in 0 .. N /\ next_expected \in 0 .. N /\ next_expected <= next_unreleased
  BY DEF IInv, TypeOK, ReceiverTypeOK, ReleasedKept
<1>2. \A s \in R : next_unreleased <= s
  BY FreshIsNew
<1>3. Late(R) = {}
  <2>1. \A s \in R : ~(s < next_unreleased)
    BY <1>1, <1>2 DEF Seqs
  <2>. QED  BY <2>1 DEF Late
<1>4. packets \in Seq(Packets) /\ SeqSet(packets) = PacketsOf(IF Ooo THEN R ELSE Run(R))
  <2>1. PacketsOf({}) = {}
    BY DEF PacketsOf
  <2>. QED  BY <1>1, <1>3, <2>1, DeliverablePackets
<1>5. /\ tun_out' \in Seq(Packets) /\ held' \in Seq(Packets)
      /\ tun_taken' \in 0 .. Len(tun_out') /\ Len(tun_out') - tun_taken' <= ChanCap
      /\ SeqSet(tun_out) \subseteq SeqSet(tun_out')
      /\ SeqSet(held') \subseteq SeqSet(held) \cup SeqSet(packets)
      /\ SeqSet(tun_out') \cup SeqSet(held') = SeqSet(tun_out) \cup SeqSet(held) \cup SeqSet(packets)
  <2>1. CASE packets = <<>>
    <3>1. UNCHANGED <<tun_out, held, tun_taken>>
      BY <2>1 DEF Recovered
    <3>2. SeqSet(packets) = {}
      BY <2>1 DEF SeqSet
    <3>. QED  BY <1>1, <3>1, <3>2
  <2>2. CASE packets # <<>>
    <3>1. Accept(held \o packets, k)
      BY <2>2 DEF Recovered
    <3>2. /\ held \o packets \in Seq(Packets)
          /\ SeqSet(held \o packets) = SeqSet(held) \cup SeqSet(packets)
      BY <1>1, <1>4, ConcatPackets
    <3>. QED  BY <1>1, <3>1, <3>2, AcceptKeeps
  <2>. QED  BY <2>1, <2>2
<1>6. \A p \in SeqSet(packets) : next_expected <= SymbolOf[p]
  <2>1. \A s \in R \cup Run(R) : s \in Int /\ next_unreleased <= s
    BY <1>1, <1>2 DEF Run, Seqs
  <2>2. \A p \in SeqSet(packets) : SymbolOf[p] \in R \cup Run(R)
    BY <1>4 DEF PacketsOf
  <2>. QED  BY <1>1, <2>1, <2>2
<1>7. \A p \in SeqSet(held') : next_expected <= SymbolOf[p]
  BY <1>5, <1>6 DEF IInv, ReleasedKept
<1>8. SeqSet(held') \subseteq Packets
  BY <1>5 DEF SeqSet
<1>. QED  BY <1>4, <1>5, <1>7, <1>8

(* The cumulative point moves up to the new frontier at most and stays at  *)
(* or below every packet that is still held.                               *)
LEMMA RecoveredAdvances ==
    ASSUME IInv, NEW R \in SUBSET Seqs, \A s \in R : fresh(s),
           NEW packets \in Deliverable(R), NEW k, Recovered(R, packets, k)
    PROVE  /\ next_expected' \in next_expected .. Frontier(R)
           /\ \A p \in SeqSet(held') : next_expected' <= SymbolOf[p]
<1> DEFINE H == HeldSeqs(held')
           released == IF packets = <<>> THEN next_expected
                                         ELSE Larger(next_expected, Frontier(R))
<1>1. /\ next_unreleased \in 0 .. N /\ next_expected \in 0 .. N /\ N \in Nat
      /\ next_expected <= next_unreleased
  BY LinkAssumption DEF IInv, TypeOK, ReceiverTypeOK, ReleasedKept
<1>2. Frontier(R) \in next_unreleased .. N
  BY FrontierEndsRun
<1>3. \A p \in SeqSet(held') : p \in Packets /\ next_expected <= SymbolOf[p]
  BY RecoveredKeeps
<1>4. H \in SUBSET Nat /\ \A s \in H : next_expected <= s
  BY <1>3, ReceiverAssumption DEF HeldSeqs, Packets, Seqs
<1>5. released \in next_expected .. Frontier(R)
  BY <1>1, <1>2 DEF Larger
<1>6. next_expected' =
         IF R = {} THEN next_expected
         ELSE IF Ooo THEN Larger(next_expected, delivered_prefix(Frontier(R), H))
         ELSE delivered_prefix(released, H)
  BY DEF Recovered
<1>. HIDE DEF H, released
<1>7. ASSUME NEW n \in next_expected .. Frontier(R)
      PROVE  /\ delivered_prefix(n, H) \in next_expected .. Frontier(R)
             /\ \A s \in H : delivered_prefix(n, H) <= s
  <2>1. n \in Nat
    BY <1>1, <1>2
  <2>. QED  BY <1>1, <1>2, <1>4, <2>1, DeliveredPrefixBounds
<1>8. next_expected' \in next_expected .. Frontier(R) /\ \A s \in H : next_expected' <= s
  <2>1. CASE R = {}
    BY <1>1, <1>2, <1>4, <1>6, <2>1
  <2>2. CASE R # {} /\ Ooo
    <3>1. Frontier(R) \in next_expected .. Frontier(R)
      BY <1>1, <1>2
    <3>2. next_expected' = Larger(next_expected, delivered_prefix(Frontier(R), H))
      BY <1>6, <2>2
    <3>. QED  BY <1>1, <1>2, <1>4, <1>7, <3>1, <3>2 DEF Larger
  <2>3. CASE R # {} /\ ~Ooo
    <3>1. next_expected' = delivered_prefix(released, H)
      BY <1>6, <2>3
    <3>. QED  BY <1>5, <1>7, <3>1
  <2>. QED  BY <2>1, <2>2, <2>3
<1>. QED  BY <1>8 DEF H, HeldSeqs

(* A data message preserves the invariant.                                 *)
LEMMA DataMessageStep ==
    ASSUME IInv, NEW R \in SUBSET Seqs, \A s \in R : fresh(s),
           NEW floor_elapsed \in BOOLEAN, DataMessage(R, floor_elapsed),
           data' \subseteq Seqs, repairs' \in 0 .. MaxRepairs, pivots' \in 0 .. MaxRepairs,
           UNCHANGED sendVars
    PROVE  IInv'
<1>0. PICK packets \in Deliverable(R) :
           \E k \in 0 .. Len(held \o packets) : Recovered(R, packets, k)
  BY DEF DataMessage
<1>1. PICK k \in 0 .. Len(held \o packets) : Recovered(R, packets, k)
  BY <1>0
<1>2. /\ window_ack_emission({s \in R \ received_seqs : s >= recv_above.frontier}, floor_elapsed)
      /\ waiting' = FALSE /\ decoder_floor' = decoder_floor
  BY DEF DataMessage
<1>3. TypeOK /\ LinkTypeOK /\ SenderTypeOK /\ ReceiverTypeOK /\ N \in Nat
  BY LinkAssumption DEF IInv, TypeOK
<1>4. /\ Frontier(R) \in next_unreleased .. N
      /\ \A s \in Run(R) : s \in received_seqs \cup R
  BY FrontierEndsRun
<1>5. /\ next_expected' \in next_expected .. Frontier(R)
      /\ \A p \in SeqSet(held') : next_expected' <= SymbolOf[p]
  BY <1>1, RecoveredAdvances
<1>6. next_unreleased \in 0 .. N /\ next_expected \in 0 .. N
  BY <1>3 DEF ReceiverTypeOK
<1>7. /\ received_seqs' = received_seqs \cup R
      /\ next_unreleased' = Frontier(R)
      /\ reorder_pending' = IF Ooo THEN {} ELSE {s \in Pending(R) : s >= Frontier(R)}
  BY <1>1 DEF Recovered
<1>8. /\ highest_seen_seq' \in Seqs
      /\ seen_end' \in 0 .. N
  <2> DEFINE top == last_seq(R \cup {highest_seen_seq})
  <2>1. R \cup {highest_seen_seq} \in SUBSET (0 .. N - 1) /\ N - 1 \in Nat
    BY <1>3, LinkAssumption DEF ReceiverTypeOK, Seqs
  <2>2. top \in Seqs
    BY <2>1, LastSeqIsLast DEF Seqs
  <2>3. highest_seen_seq' = top /\ seen_end' = IF R = {} THEN seen_end ELSE top + 1
    BY <1>1 DEF Recovered
  <2>. HIDE DEF top
  <2>. QED  BY <1>3, <2>2, <2>3 DEF ReceiverTypeOK, Seqs
<1>9. /\ acks' \subseteq WindowAck
      /\ \A a \in acks' : a \in acks \/ (/\ a.next_expected = next_expected'
                                       /\ a.sacked \subseteq received_seqs')
      /\ recv_above' \in [frontier : 0 .. N, count : Nat]
      /\ last_advertised_ack' \in 0 .. N
      /\ last_gap_ack_seen' \in Seqs
  <2>1. {s \in R \ received_seqs : s >= recv_above.frontier} \in SUBSET Seqs
    OBVIOUS
  <2>2. received_seqs' \subseteq Seqs /\ next_expected' \in 0 .. N
    BY <1>3, <1>4, <1>5, <1>6, <1>7, SMTT(20) DEF ReceiverTypeOK
  <2>. QED  BY <1>2, <1>3, <1>8, <2>1, <2>2, EmissionAdds
<1>10. /\ tun_out' \in Seq(Packets) /\ held' \in Seq(Packets)
       /\ tun_taken' \in 0 .. Len(tun_out') /\ Len(tun_out') - tun_taken' <= ChanCap
       /\ SeqSet(tun_out') \cup SeqSet(held') =
             SeqSet(tun_out) \cup SeqSet(held) \cup PacketsOf(IF Ooo THEN R ELSE Run(R))
  BY <1>1, RecoveredKeeps
<1>11. TypeOK'
  <2>1. LinkTypeOK'
    BY <1>9 DEF LinkTypeOK, WindowAck, Seqs
  <2>2. SenderTypeOK'
    BY <1>3 DEF SenderTypeOK, sendVars, Seqs, AboveReport, WindowAck
  <2>3. reorder_pending' \subseteq Seqs
    BY <1>3, <1>7 DEF ReceiverTypeOK, Pending
  <2>4. received_seqs' \subseteq Seqs /\ next_unreleased' \in 0 .. N /\ next_expected' \in 0 .. N
    BY <1>3, <1>4, <1>5, <1>6, <1>7, SMTT(20) DEF ReceiverTypeOK
  <2>5. waiting' \in BOOLEAN /\ decoder_floor' \in 0 .. N
    BY <1>2, <1>3 DEF ReceiverTypeOK
  <2>6. ReceiverTypeOK'
    BY <1>8, <1>9, <1>10, <2>3, <2>4, <2>5 DEF ReceiverTypeOK, Seqs, Packets
  <2>. QED  BY <2>1, <2>2, <2>6 DEF TypeOK
<1>12. PackerHasRoom' /\ Retained'
  BY DEF IInv, PackerHasRoom, Retained, Emitted, sendVars
<1>13. AcksTrail'
  <2>1. prev_ack \in Int /\ window_ack_seq \in Int /\ prev_ack <= window_ack_seq
        /\ window_ack_seq <= next_expected /\ \A a \in acks : a.next_expected <= next_expected
    BY <1>3 DEF IInv, AcksTrail, SenderTypeOK
  <2>2. \A a \in acks : a.next_expected \in Int
    BY <1>3 DEF LinkTypeOK, WindowAck
  <2>3. next_expected' \in Int /\ next_expected <= next_expected'
    BY <1>4, <1>5, <1>6
  <2>4. \A a \in acks' : a.next_expected <= next_expected'
    BY <1>6, <1>9, <2>1, <2>2, <2>3, SMTT(20)
  <2>. QED  BY <1>6, <2>1, <2>3, <2>4 DEF AcksTrail, sendVars
<1>14. ReleasedRefused'
  <2>1. ASSUME NEW s \in 0 .. Frontier(R) - 1
        PROVE  s \in received_seqs' \/ s < decoder_floor'
    <3>1. CASE s < next_unreleased
      <4>1. s \in 0 .. next_unreleased - 1
        BY <1>4, <1>6, <3>1
      <4>. QED  BY <1>2, <1>7, <4>1 DEF IInv, ReleasedRefused
    <3>2. CASE s >= next_unreleased
      <4>1. s \in Run(R)
        BY <1>4, <1>6, <3>2 DEF Run
      <4>. QED  BY <1>4, <1>7, <4>1
    <3>. QED  BY <1>4, <1>6, <3>1, <3>2
  <2>2. \A s \in reorder_pending' : s \in received_seqs' /\ next_unreleased' <= s
    <3>1. \A s \in Pending(R) : s \in Int /\ s \in received_seqs \cup R
      BY <1>3 DEF IInv, ReleasedRefused, Pending, ReceiverTypeOK, Seqs
    <3>. QED  BY <1>4, <1>6, <1>7, <3>1
  <2>. QED  BY <1>7, <2>1, <2>2 DEF ReleasedRefused
<1>15. ReleasedKept'
  <2>1. PacketsOf(0 .. Frontier(R) - 1) \subseteq PacketsOf(0 .. next_unreleased - 1) \cup PacketsOf(Run(R))
    <3>1. 0 .. Frontier(R) - 1 \subseteq (0 .. next_unreleased - 1) \cup Run(R)
      BY <1>4, <1>6 DEF Run
    <3>. QED  BY <3>1 DEF PacketsOf
  <2>2. Ooo => /\ PacketsOf(Run(R)) \subseteq PacketsOf(received_seqs) \cup PacketsOf(R)
               /\ PacketsOf(received_seqs') \subseteq PacketsOf(received_seqs) \cup PacketsOf(R)
    BY <1>4, <1>7 DEF PacketsOf
  <2>3. /\ PacketsOf(0 .. next_unreleased - 1) \subseteq SeqSet(tun_out) \cup SeqSet(held)
        /\ Ooo => PacketsOf(received_seqs) \subseteq SeqSet(tun_out) \cup SeqSet(held)
    BY DEF IInv, ReleasedKept
  <2>4. next_expected' <= next_unreleased'
    BY <1>4, <1>5, <1>6, <1>7
  <2>5. PacketsOf(0 .. next_unreleased' - 1) \subseteq SeqSet(tun_out') \cup SeqSet(held')
    <3>1. CASE Ooo
      BY <1>7, <1>10, <2>1, <2>2, <2>3, <3>1
    <3>2. CASE ~Ooo
      BY <1>7, <1>10, <2>1, <2>3, <3>2
    <3>. QED  BY <3>1, <3>2
  <2>6. Ooo => PacketsOf(received_seqs') \subseteq SeqSet(tun_out') \cup SeqSet(held')
    BY <1>10, <2>2, <2>3
  <2>7. /\ PacketsOf(0 .. next_unreleased - 1)' = PacketsOf(0 .. next_unreleased' - 1)
        /\ PacketsOf(received_seqs)' = PacketsOf(received_seqs')
        /\ SeqSet(tun_out)' = SeqSet(tun_out') /\ SeqSet(held)' = SeqSet(held')
    BY DEF PacketsOf, SeqSet, Packets
  <2>. QED  BY <1>5, <2>4, <2>5, <2>6, <2>7 DEF ReleasedKept
<1>16. \A s \in Seqs : Delivered(s) => Delivered(s)'
  BY <1>4, <1>5, <1>6, <1>7 DEF Delivered, Seqs
<1>17. SacksTruthful'
  <2>1. ASSUME NEW a \in acks', NEW s \in a.sacked
        PROVE  Delivered(s)'
    <3>1. CASE a \in acks
      <4>1. s \in Seqs /\ Delivered(s)
        BY <1>3, <3>1 DEF LinkTypeOK, WindowAck, IInv, SacksTruthful
      <4>. QED  BY <1>16, <4>1
    <3>2. CASE a.sacked \subseteq received_seqs'
      BY <3>2 DEF Delivered
    <3>. QED  BY <1>9, <3>1, <3>2
  <2>2. ASSUME NEW r \in Queued(sack_rx), NEW s \in r.sacked
        PROVE  Delivered(s)'
    <3>1. r \in WindowAck
      BY <1>3 DEF SenderTypeOK, Queued
    <3>2. s \in Seqs /\ Delivered(s)
      BY <3>1 DEF WindowAck, IInv, SacksTruthful
    <3>. QED  BY <1>16, <3>2
  <2>3. Queued(sack_rx)' = Queued(sack_rx)
    BY DEF Queued, sendVars
  <2>. QED  BY <2>1, <2>2, <2>3 DEF SacksTruthful
<1>18. MarksSound'
  BY <1>3, <1>16 DEF IInv, MarksSound, sendVars, SenderTypeOK
<1>. QED  BY <1>11, <1>12, <1>13, <1>14, <1>15, <1>17, <1>18 DEF IInv

-----------------------------------------------------------------------------
(***************************************************************************)
(* The steps of Next, one by one.                                          *)
(***************************************************************************)

(* The end of an iteration prunes what the cumulative ack covers, no more. *)
LEMMA FinishIterationStep ==
    ASSUME IInv, NEW n \in Nat, NEW swept, NEW resent \in SUBSET sent_store,
           FinishIteration(n, swept, resent), next_seq + n <= N,
           packer_pending' \in BOOLEAN, PackerHasRoom', UNCHANGED recvVars
    PROVE  IInv'
<1> DEFINE new == NewSymbols(n)
<1>1. TypeOK /\ LinkTypeOK /\ SenderTypeOK /\ ReceiverTypeOK /\ N \in Nat
  BY LinkAssumption DEF IInv, TypeOK
<1>2. /\ next_seq \in 0 .. N /\ prev_ack \in 0 .. N /\ window_ack_seq \in 0 .. N
      /\ sent_store \subseteq Seqs
  BY <1>1 DEF SenderTypeOK
<1>3. new \subseteq Seqs /\ \A s \in new : next_seq <= s /\ s < next_seq + n
  <2>1. \A s \in new : s \in Int /\ next_seq <= s /\ s < next_seq + n
    BY <1>1, <1>2 DEF NewSymbols
  <2>. HIDE DEF new
  <2>. QED  BY <1>1, <1>2, <2>1 DEF Seqs
<1>4. /\ next_seq' = next_seq + n
      /\ data' = data \cup new \cup resent
      /\ nack_rx' = <<>> /\ pc' = "top"
      /\ prev_ack' = Larger(prev_ack, window_ack_seq)
      /\ UNCHANGED <<above_report, window_ack_seq, sack_rx, acks>>
  BY DEF FinishIteration
<1>5. repairs' \in 0 .. MaxRepairs
  BY <1>1 DEF FinishIteration, TaperRepairs, LinkTypeOK
<1>6. \/ /\ window_ack_seq > prev_ack
         /\ sent_store' = {s \in sent_store \cup new : s >= window_ack_seq}
         /\ retransmit_buffer' = {s \in retransmit_buffer \cup new : s >= window_ack_seq}
         /\ sack_released' = {s \in sack_released : s >= window_ack_seq}
      \/ /\ ~(window_ack_seq > prev_ack)
         /\ sent_store' = sent_store \cup new
         /\ retransmit_buffer' = retransmit_buffer \cup new
         /\ sack_released' = sack_released
  BY DEF FinishIteration
<1>. HIDE DEF new
<1>7. TypeOK'
  <2>1. LinkTypeOK'
    BY <1>1, <1>2, <1>3, <1>4, <1>5 DEF LinkTypeOK, WindowAck, Seqs
  <2>2. prev_ack' \in 0 .. N /\ next_seq' \in 0 .. N
    BY <1>1, <1>2, <1>4 DEF Larger
  <2>3. /\ sent_store' \subseteq Seqs /\ retransmit_buffer' \subseteq Seqs
        /\ sack_released' \subseteq Seqs
    BY <1>1, <1>3, <1>6 DEF SenderTypeOK
  <2>4. SenderTypeOK'
    BY <1>1, <1>4, <2>2, <2>3 DEF SenderTypeOK, Seqs, AboveReport, WindowAck
  <2>5. ReceiverTypeOK'
    BY <1>1 DEF ReceiverTypeOK, recvVars, Seqs, Packets
  <2>. QED  BY <2>1, <2>4, <2>5 DEF TypeOK
<1>8. Retained'
  <2>1. ASSUME NEW s \in 0 .. next_seq' - 1, prev_ack' <= s
        PROVE  s \in sent_store'
    <3>1. s \in sent_store \cup new
      <4>1. CASE s < next_seq
        <5>1. s \in Emitted /\ prev_ack <= s
          BY <1>2, <1>4, <2>1, <4>1 DEF Emitted, Larger
        <5>. QED  BY <5>1 DEF IInv, Retained
      <4>2. CASE s >= next_seq
        BY <1>2, <1>4, <4>2 DEF new, NewSymbols
      <4>. QED  BY <1>2, <4>1, <4>2
    <3>2. s >= window_ack_seq
      BY <1>2, <1>4, <2>1 DEF Larger
    <3>. QED  BY <1>6, <3>1, <3>2
  <2>2. sent_store' \subseteq 0 .. next_seq' - 1
    <3>1. sent_store \subseteq 0 .. next_seq - 1
      BY DEF IInv, Retained, Emitted
    <3>2. \A s \in sent_store \cup new : s \in 0 .. next_seq' - 1
      BY <1>2, <1>3, <1>4, <3>1 DEF Seqs
    <3>. QED  BY <1>6, <3>2
  <2>. QED  BY <2>1, <2>2 DEF Retained, Emitted
<1>9. AcksTrail'
  <2>1. UNCHANGED <<acks, next_expected>>
    BY <1>4 DEF recvVars
  <2>. QED  BY <1>2, <1>4, <2>1 DEF IInv, AcksTrail, Larger
<1>10. ReleasedRefused' /\ ReleasedKept'
  BY DEF IInv, ReleasedRefused, ReleasedKept, recvVars, PacketsOf, Packets, SeqSet
<1>11. SacksTruthful'
  BY <1>4 DEF IInv, SacksTruthful, Delivered, Queued, recvVars
<1>12. MarksSound'
  <2>1. \A s \in sack_released : s \in sent_store /\ Delivered(s)
    BY DEF IInv, MarksSound
  <2>2. sack_released' \subseteq sack_released /\ sack_released' \subseteq sent_store'
    BY <1>6, <2>1
  <2>. QED  BY <2>1, <2>2 DEF MarksSound, Delivered, recvVars
<1>. QED  BY <1>7, <1>8, <1>9, <1>10, <1>11, <1>12 DEF IInv

(* An ack that arrives moves the sender's view of the cumulative point.    *)
LEMMA AckArrivesStep ==
    ASSUME IInv, AckArrives
    PROVE  IInv'
<1>1. PICK a \in acks, another \in BOOLEAN : ReceiveAck(a, another)
  BY DEF AckArrives
<1>2. TypeOK /\ LinkTypeOK /\ SenderTypeOK /\ ReceiverTypeOK /\ N \in Nat
  BY LinkAssumption DEF IInv, TypeOK
<1>3. UNCHANGED recvVars
  BY DEF AckArrives
<1>4. /\ acks' \subseteq acks
      /\ window_ack_seq' = Larger(window_ack_seq, a.next_expected)
      /\ pc' = IF pc = "select" THEN "input" ELSE pc
      /\ UNCHANGED <<next_seq, packer_pending, sent_store, retransmit_buffer, sack_released,
                     above_report, prev_ack, data, repairs>>
  BY <1>1 DEF ReceiveAck, TakeAck, on_window_ack
<1>5. a \in WindowAck /\ a.next_expected \in 0 .. N /\ a.sacked \in SUBSET Seqs
  BY <1>2 DEF LinkTypeOK, WindowAck
<1>6. sack_rx' \in Seq(WindowAck) /\ \A r \in Queued(sack_rx') : r = a \/ r \in Queued(sack_rx)
  <2>1. sack_rx' = sack_rx \/ sack_rx' = Append(sack_rx, a)
    BY <1>1 DEF ReceiveAck, on_window_ack
  <2>2. sack_rx \in Seq(WindowAck)
    BY <1>2 DEF SenderTypeOK
  <2>. QED  BY <1>5, <2>1, <2>2 DEF Queued
<1>7. nack_rx' \in Seq(SUBSET Seqs)
  <2> DEFINE gaps == sack_to_gaps(a.next_expected, a.sacked, MaxNackGaps)
  <2>1. gaps \in SUBSET Seqs
    <3>1. CASE a.sacked = {}
      BY <3>1 DEF sack_to_gaps
    <3>2. CASE a.sacked # {}
      <4>1. a.sacked \in SUBSET (0 .. N - 1) /\ N - 1 \in Nat
        BY <1>5, LinkAssumption DEF Seqs
      <4>2. last_seq(a.sacked) \in 0 .. N - 1
        BY <3>2, <4>1, LastSeqIsLast
      <4>3. a.next_expected .. last_seq(a.sacked) \subseteq Seqs
        BY <1>2, <1>5, <4>2 DEF Seqs
      <4>. QED  BY <3>2, <4>3 DEF sack_to_gaps, FirstRuns
    <3>. QED  BY <3>1, <3>2
  <2>2. nack_rx' = nack_rx \/ nack_rx' = Append(nack_rx, gaps)
    BY <1>1 DEF ReceiveAck, on_window_ack
  <2>3. nack_rx \in Seq(SUBSET Seqs)
    BY <1>2 DEF SenderTypeOK
  <2>. HIDE DEF gaps
  <2>. QED  BY <2>1, <2>2, <2>3
<1>8. TypeOK'
  <2>1. LinkTypeOK'
    BY <1>2, <1>4 DEF LinkTypeOK, WindowAck, Seqs
  <2>2. SenderTypeOK'
    BY <1>2, <1>4, <1>5, <1>6, <1>7 DEF SenderTypeOK, Seqs, AboveReport, WindowAck, Larger
  <2>3. ReceiverTypeOK'
    BY <1>2, <1>3 DEF ReceiverTypeOK, recvVars, Seqs, Packets
  <2>. QED  BY <2>1, <2>2, <2>3 DEF TypeOK
<1>9. PackerHasRoom' /\ Retained' /\ MarksSound'
  BY <1>3, <1>4 DEF IInv, PackerHasRoom, Retained, Emitted, MarksSound, Delivered, recvVars
<1>10. AcksTrail'
  <2>1. a.next_expected <= next_expected /\ prev_ack <= window_ack_seq
        /\ window_ack_seq <= next_expected /\ \A b \in acks : b.next_expected <= next_expected
    BY DEF IInv, AcksTrail
  <2>2. UNCHANGED next_expected /\ window_ack_seq \in 0 .. N /\ prev_ack \in 0 .. N
    BY <1>2, <1>3 DEF SenderTypeOK, recvVars
  <2>. QED  BY <1>4, <1>5, <2>1, <2>2 DEF AcksTrail, Larger
<1>11. ReleasedRefused' /\ ReleasedKept'
  BY <1>3 DEF IInv, ReleasedRefused, ReleasedKept, recvVars, PacketsOf, Packets, SeqSet
<1>12. SacksTruthful'
  <2>1. \A s : Delivered(s)' = Delivered(s)
    BY <1>3 DEF Delivered, recvVars
  <2>2. Queued(sack_rx)' = Queued(sack_rx')
    BY DEF Queued
  <2>. QED  BY <1>4, <1>6, <2>1, <2>2 DEF IInv, SacksTruthful
<1>. QED  BY <1>8, <1>9, <1>10, <1>11, <1>12 DEF IInv

(* A step that leaves the two ends' state alone and adds nothing to the    *)
(* network preserves the invariant.                                        *)
LEMMA DatagramLostStep ==
    ASSUME IInv, UNCHANGED <<sendVars, recvVars>>,
           data' \subseteq data, repairs' \in 0 .. MaxRepairs, acks' \subseteq acks
    PROVE  IInv'
<1>1. LinkTypeOK'
  BY DEF IInv, TypeOK, LinkTypeOK, WindowAck, Seqs
<1>2. SenderTypeOK' /\ ReceiverTypeOK'
  BY DEF IInv, TypeOK, SenderTypeOK, ReceiverTypeOK, sendVars, recvVars, Seqs, AboveReport,
         WindowAck, Packets
<1>3. PackerHasRoom' /\ Retained' /\ AcksTrail' /\ SacksTruthful' /\ MarksSound'
  BY DEF IInv, PackerHasRoom, Retained, Emitted, AcksTrail, SacksTruthful, MarksSound,
         Delivered, Queued, sendVars, recvVars
<1>4. ReleasedRefused' /\ ReleasedKept'
  BY DEF IInv, ReleasedRefused, ReleasedKept, recvVars, PacketsOf, Packets, SeqSet
<1>. QED  BY <1>1, <1>2, <1>3, <1>4 DEF IInv, TypeOK

(* Of finitely many count reports one is the newest: the sets of reports   *)
(* newer than each are well-founded under strict inclusion.                *)
LEMMA NewestReport ==
    ASSUME NEW C \in SUBSET AboveReport, IsFiniteSet(C), C # {}
    PROVE  \E r \in C : \A q \in C : above_fold(r, q.next_expected, q.received_above) = r
<1> DEFINE Newer(q, r) == \/ q.next_expected > r.next_expected
                          \/ /\ q.next_expected = r.next_expected
                             /\ q.received_above > r.received_above
           Above(r) == {q \in C : Newer(q, r)}
           T == {Above(r) : r \in C}
<1>1. IsWellFoundedOn(StrictSubsetOrdering(C), FiniteSubsetsOf(C))
  BY FS_StrictSubsetOrderingWellFounded
<1>2. T \subseteq FiniteSubsetsOf(C) /\ T # {}
  <2>1. \A r \in C : Above(r) \in SUBSET C /\ IsFiniteSet(Above(r))
    BY FS_Subset
  <2>. HIDE DEF Above
  <2>. QED  BY <2>1 DEF FiniteSubsetsOf
<1>. HIDE DEF T
<1>3. \E x \in T : \A y \in T : ~(<<y, x>> \in StrictSubsetOrdering(C))
  BY <1>1, <1>2, WFMin
<1>4. PICK r \in C : \A y \in T : ~(<<y, Above(r)>> \in StrictSubsetOrdering(C))
  BY <1>3 DEF T
<1>5. ASSUME NEW q \in C, Newer(q, r)
      PROVE  FALSE
  <2>1. Above(q) \in T
    BY DEF T
  <2>2. \A u \in C : /\ u.next_expected \in Int /\ u.received_above \in Int
    BY DEF AboveReport
  <2>3. /\ Above(q) \subseteq Above(r) /\ Above(r) \subseteq C
        /\ q \in Above(r) /\ q \notin Above(q)
    BY <1>5, <2>2
  <2>. HIDE DEF Above
  <2>4. <<Above(q), Above(r)>> \in StrictSubsetOrdering(C)
    BY <2>3 DEF StrictSubsetOrdering
  <2>. QED  BY <1>4, <2>1, <2>4
<1>6. \A q \in C : above_fold(r, q.next_expected, q.received_above) = r
  BY <1>5 DEF above_fold
<1>. QED  BY <1>6

(* The reports the drain folds are finitely many.                          *)
LEMMA QueueFinite ==
    ASSUME SenderTypeOK
    PROVE  IsFiniteSet({above_report} \cup
                       {[next_expected |-> r.next_expected,
                         received_above |-> r.received_above] : r \in Queued(sack_rx)})
<1> DEFINE counts == {above_report} \cup
                     {[next_expected |-> r.next_expected,
                       received_above |-> r.received_above] : r \in Queued(sack_rx)}
           F == [i \in 0 .. Len(sack_rx) |->
                   IF i = 0 THEN above_report
                   ELSE [next_expected |-> sack_rx[i].next_expected,
                         received_above |-> sack_rx[i].received_above]]
<1>1. Len(sack_rx) \in Nat /\ DOMAIN sack_rx = 1 .. Len(sack_rx)
  BY DEF SenderTypeOK
<1>2. F \in Surjection(0 .. Len(sack_rx), counts)
  <2>1. \A i \in 0 .. Len(sack_rx) : F[i] \in counts
    BY <1>1 DEF Queued
  <2>2. \A c \in counts : \E i \in 0 .. Len(sack_rx) : F[i] = c
    BY <1>1 DEF Queued
  <2>. QED  BY <2>1, <2>2 DEF Surjection
<1>3. IsFiniteSet(0 .. Len(sack_rx))
  BY <1>1, FS_Interval
<1>. HIDE DEF F
<1>. QED  BY <1>2, <1>3, FS_Surjection

(* The SACK drain marks retained symbols that the receiver has.            *)
LEMMA DrainStep ==
    ASSUME IInv, Drain
    PROVE  IInv'
<1> DEFINE reports == Queued(sack_rx)
           counts == {above_report} \cup
                     {[next_expected |-> r.next_expected,
                       received_above |-> r.received_above] : r \in reports}
<1>1. TypeOK /\ LinkTypeOK /\ SenderTypeOK /\ ReceiverTypeOK /\ N \in Nat
  BY LinkAssumption DEF IInv, TypeOK
<1>2. /\ above_report' = CHOOSE r \in counts : \A q \in counts :
                            above_fold(r, q.next_expected, q.received_above) = r
      /\ sack_released' = sack_released \cup (sent_store \cap UNION {r.sacked : r \in reports})
      /\ sack_rx' = <<>> /\ pc' = "select"
      /\ UNCHANGED <<next_seq, packer_pending, sent_store, retransmit_buffer, window_ack_seq,
                     prev_ack, nack_rx, linkVars, recvVars>>
  BY DEF Drain, DrainSack
<1>3. reports \subseteq WindowAck
  BY <1>1 DEF SenderTypeOK, Queued
<1>4. above_report' \in AboveReport
  <2>1. counts \subseteq AboveReport
    BY <1>1, <1>3 DEF SenderTypeOK, WindowAck, AboveReport
  <2>2. \E r \in counts : \A q \in counts :
           above_fold(r, q.next_expected, q.received_above) = r
    <3>1. IsFiniteSet(counts)
      BY <1>1, QueueFinite
    <3>2. counts # {}
      OBVIOUS
    <3>. HIDE DEF counts
    <3>. QED  BY <2>1, <3>1, <3>2, NewestReport
  <2>3. above_report' \in counts
    BY <1>2, <2>2
  <2>. QED  BY <2>1, <2>3
<1>5. \A s \in sack_released' : s \in sent_store /\ Delivered(s)
  BY <1>2 DEF IInv, MarksSound, SacksTruthful
<1>6. TypeOK'
  <2>1. LinkTypeOK' /\ ReceiverTypeOK'
    BY <1>1, <1>2 DEF LinkTypeOK, linkVars, WindowAck, Seqs, ReceiverTypeOK, recvVars, Packets
  <2>2. sack_released' \subseteq Seqs /\ sack_rx' \in Seq(WindowAck)
    BY <1>1, <1>2, <1>5 DEF SenderTypeOK
  <2>. HIDE DEF reports, counts
  <2>3. SenderTypeOK'
    BY <1>1, <1>2, <1>4, <2>2 DEF SenderTypeOK, Seqs, AboveReport, WindowAck
  <2>. QED  BY <2>1, <2>3 DEF TypeOK
<1>. HIDE DEF counts
<1>7. PackerHasRoom' /\ Retained' /\ AcksTrail'
  BY <1>2 DEF IInv, PackerHasRoom, Retained, Emitted, AcksTrail, linkVars, recvVars
<1>8. ReleasedRefused' /\ ReleasedKept'
  BY <1>2 DEF IInv, ReleasedRefused, ReleasedKept, recvVars, PacketsOf, Packets, SeqSet
<1>9. SacksTruthful' /\ MarksSound'
  BY <1>2, <1>5 DEF IInv, SacksTruthful, MarksSound, Delivered, Queued, linkVars, recvVars
<1>. QED  BY <1>6, <1>7, <1>8, <1>9 DEF IInv

(* The sender's iterations.                                                *)
LEMMA SenderIterationStep ==
    ASSUME IInv, Emit \/ Flush \/ Nack \/ Poll \/ Input \/ Sweep
    PROVE  IInv'
<1>1. /\ next_seq \in 0 .. N /\ N \in Nat /\ packer_pending \in BOOLEAN
      /\ packer_pending => Packing /\ next_seq < N
      /\ Packing \in BOOLEAN /\ EmitBurst \in Nat
  BY LinkAssumption, SenderAssumption DEF IInv, TypeOK, SenderTypeOK, PackerHasRoom
<1>2. ASSUME NEW swept, NEW resent \in SUBSET sent_store, FinishIteration(0, swept, resent),
             UNCHANGED packer_pending, UNCHANGED recvVars
      PROVE  IInv'
  <2>1. next_seq' = next_seq
    BY <1>1, <1>2 DEF FinishIteration
  <2>2. packer_pending' \in BOOLEAN /\ PackerHasRoom'
    BY <1>1, <1>2, <2>1 DEF PackerHasRoom
  <2>. QED  BY <1>1, <1>2, <2>2, FinishIterationStep
<1>3. CASE Emit
  <2>1. PICK n \in 0 .. EmitBurst, resent \in SUBSET sent_store : EmitArm(n, resent)
    BY <1>3 DEF Emit
  <2>2. /\ n \in Nat /\ next_seq + n <= N
        /\ IF Packing THEN next_seq + n < N /\ packer_pending' = TRUE
                      ELSE UNCHANGED packer_pending
        /\ FinishIteration(n, TaperCopy(n), resent)
    BY <1>1, <2>1 DEF EmitArm
  <2>3. next_seq' = next_seq + n
    BY <2>2 DEF FinishIteration
  <2>4. packer_pending' \in BOOLEAN /\ PackerHasRoom'
    BY <1>1, <2>2, <2>3 DEF PackerHasRoom
  <2>5. UNCHANGED recvVars
    BY <1>3 DEF Emit
  <2>. QED  BY <2>2, <2>4, <2>5, FinishIterationStep
<1>4. CASE Flush
  <2>1. PICK resent \in SUBSET sent_store : PackerFlush(resent)
    BY <1>4 DEF Flush
  <2>2. packer_pending /\ packer_pending' = FALSE /\ FinishIteration(1, TaperCopy(1), resent)
    BY <2>1 DEF PackerFlush
  <2>3. UNCHANGED recvVars /\ next_seq + 1 <= N
    BY <1>1, <1>4, <2>2 DEF Flush
  <2>4. packer_pending' \in BOOLEAN /\ PackerHasRoom'
    BY <2>2 DEF PackerHasRoom
  <2>. QED  BY <2>2, <2>3, <2>4, FinishIterationStep
<1>5. CASE Nack
  BY <1>2, <1>5 DEF Nack, NackArm
<1>6. CASE Poll
  BY <1>2, <1>6 DEF Poll, PollArm
<1>7. CASE Input
  BY <1>2, <1>7 DEF Input, InputDone
<1>8. CASE Sweep
  BY <1>2, <1>8 DEF Sweep, TailArm
<1>. QED  BY <1>3, <1>4, <1>5, <1>6, <1>7, <1>8

(* The arrival of a source symbol and of a coded symbol.                   *)
LEMMA ArrivalStep ==
    ASSUME IInv, SourceArrives \/ RepairArrives
    PROVE  IInv'
<1>1. /\ N \in Nat /\ MaxRepairs \in Nat /\ next_seq \in 0 .. N /\ pivots \in 0 .. MaxRepairs
      /\ data \subseteq Seqs /\ repairs \in 0 .. MaxRepairs
  BY LinkAssumption DEF IInv, TypeOK, SenderTypeOK, ReceiverTypeOK, LinkTypeOK
<1>2. /\ Emitted \subseteq Seqs
      /\ \A C \in SUBSET Emitted : Cardinality(C) \in Nat
  <2>1. IsFiniteSet(Emitted)
    BY <1>1, FS_Interval DEF Emitted
  <2>2. \A C \in SUBSET Emitted : Cardinality(C) \in Nat
    BY <2>1, FS_Subset, FS_CardinalityType
  <2>3. \A s \in Emitted : s \in Seqs
    BY <1>1 DEF Emitted, Seqs
  <2>. QED  BY <2>2, <2>3
<1>3. CASE SourceArrives
  <2>1. PICK s \in data, C \in SUBSET Emitted, another \in BOOLEAN, floor_elapsed \in BOOLEAN :
             ReceiveSource(s, another, C, floor_elapsed)
    BY <1>3 DEF SourceArrives
  <2>2. /\ data' \subseteq data /\ repairs' = repairs
        /\ Cardinality(C) <= pivots /\ pivots' = pivots - Cardinality(C)
        /\ \A c \in C : fresh(c)
    BY <2>1 DEF ReceiveSource, TakeSource
  <2>3. data' \subseteq Seqs /\ repairs' \in 0 .. MaxRepairs /\ pivots' \in 0 .. MaxRepairs
    <3>1. Cardinality(C) \in Nat
      BY <1>2
    <3>. QED  BY <1>1, <2>2, <3>1
  <2>4. UNCHANGED sendVars
    BY <1>3 DEF SourceArrives
  <2>5. CASE fresh(s)
    <3>1. {s} \cup C \in SUBSET Seqs /\ \A r \in {s} \cup C : fresh(r)
      BY <1>1, <1>2, <2>2, <2>5
    <3>2. DataMessage({s} \cup C, floor_elapsed)
      BY <2>1, <2>5 DEF ReceiveSource
    <3>. QED  BY <2>3, <2>4, <3>1, <3>2, DataMessageStep
  <2>6. CASE ~fresh(s)
    <3>1. DataMessage({}, floor_elapsed)
      BY <2>1, <2>6 DEF ReceiveSource
    <3>2. {} \in SUBSET Seqs /\ \A r \in {} : fresh(r)
      OBVIOUS
    <3>. QED  BY <2>3, <2>4, <3>1, <3>2, DataMessageStep
  <2>. QED  BY <2>5, <2>6
<1>4. CASE RepairArrives
  <2>1. PICK C \in SUBSET Emitted, floor_elapsed \in BOOLEAN : ReceiveRepair(C, floor_elapsed)
    BY <1>4 DEF RepairArrives
  <2>2. /\ data' = data /\ repairs > 0 /\ repairs' = repairs - 1
        /\ pivots' \in 0 .. MaxRepairs
        /\ \A c \in C : fresh(c)
        /\ DataMessage(C, floor_elapsed)
    BY <2>1 DEF ReceiveRepair, TakeRepair
  <2>3. C \in SUBSET Seqs /\ data' \subseteq Seqs /\ repairs' \in 0 .. MaxRepairs
    BY <1>1, <1>2, <2>2
  <2>4. UNCHANGED sendVars
    BY <1>4 DEF RepairArrives
  <2>. QED  BY <2>2, <2>3, <2>4, DataMessageStep
<1>. QED  BY <1>3, <1>4

(* A receiver step that decodes nothing: it may move packets from the hold *)
(* to the channel, advance the cumulative point, prune and send an ack.    *)
LEMMA QuietStep ==
    ASSUME IInv, UNCHANGED <<sendVars, data, repairs, pivots, highest_seen_seq, seen_end,
                             reorder_pending, next_unreleased, last_gap_ack_seen>>,
           waiting' \in BOOLEAN, last_advertised_ack' \in 0 .. N,
           recv_above' \in [frontier : 0 .. N, count : Nat],
           acks' \subseteq WindowAck,
           \A a \in acks' : a \in acks \/ (/\ a.next_expected = next_expected'
                                        /\ a.sacked \subseteq received_seqs'),
           decoder_floor' \in 0 .. N, decoder_floor <= decoder_floor',
           received_seqs' \subseteq received_seqs,
           \A s \in received_seqs :
              s \in received_seqs' \/ (s < decoder_floor' /\ s < next_expected'),
           next_expected' \in next_expected .. next_unreleased,
           held' \in Seq(Packets), tun_out' \in Seq(Packets),
           tun_taken' \in 0 .. Len(tun_out'), Len(tun_out') - tun_taken' <= ChanCap,
           SeqSet(tun_out') \cup SeqSet(held') = SeqSet(tun_out) \cup SeqSet(held),
           \A p \in SeqSet(held') : next_expected' <= SymbolOf[p]
    PROVE  IInv'
<1>1. TypeOK /\ LinkTypeOK /\ SenderTypeOK /\ ReceiverTypeOK /\ N \in Nat
  BY LinkAssumption DEF IInv, TypeOK
<1>2. /\ next_expected \in 0 .. N /\ next_unreleased \in 0 .. N /\ decoder_floor \in 0 .. N
      /\ received_seqs \subseteq Seqs
      /\ \A s \in reorder_pending : s \in received_seqs /\ next_unreleased <= s
      /\ \A s \in 0 .. next_unreleased - 1 : s \in received_seqs \/ s < decoder_floor
  BY <1>1 DEF ReceiverTypeOK, IInv, ReleasedKept, ReleasedRefused
<1>3. next_expected' \in 0 .. N /\ next_expected <= next_expected'
  BY <1>1, <1>2, SMTT(20)
<1>4. TypeOK'
  <2>1. LinkTypeOK'
    BY <1>1 DEF LinkTypeOK, WindowAck, Seqs
  <2>2. SenderTypeOK'
    BY <1>1 DEF SenderTypeOK, sendVars, Seqs, AboveReport, WindowAck
  <2>3. received_seqs' \subseteq Seqs
    BY <1>2
  <2>4. ReceiverTypeOK'
    BY <1>1, <1>3, <2>3 DEF ReceiverTypeOK, Seqs, Packets
  <2>. QED  BY <2>1, <2>2, <2>4 DEF TypeOK
<1>5. PackerHasRoom' /\ Retained'
  BY DEF IInv, PackerHasRoom, Retained, Emitted, sendVars
<1>6. AcksTrail'
  <2>1. /\ prev_ack <= window_ack_seq /\ window_ack_seq <= next_expected
        /\ \A a \in acks : a.next_expected <= next_expected
    BY DEF IInv, AcksTrail
  <2>2. window_ack_seq \in Int /\ \A a \in acks : a.next_expected \in Int
    BY <1>1 DEF SenderTypeOK, LinkTypeOK, WindowAck
  <2>3. \A a \in acks' : a.next_expected <= next_expected'
    BY <1>2, <1>3, <2>1, <2>2, SMTT(20)
  <2>. QED  BY <1>2, <1>3, <2>1, <2>2, <2>3 DEF AcksTrail, sendVars
<1>7. ReleasedRefused'
  <2>1. \A s \in 0 .. next_unreleased - 1 : s \in received_seqs' \/ s < decoder_floor'
    BY <1>1, <1>2, SMTT(20)
  <2>2. ASSUME NEW s \in reorder_pending
        PROVE  s \in received_seqs' /\ next_unreleased <= s
    <3>1. s \in Int /\ s \in received_seqs /\ next_unreleased <= s
      <4>1. s \in received_seqs /\ next_unreleased <= s
        BY <1>2
      <4>2. s \in Seqs
        BY <1>2, <4>1
      <4>. QED  BY <1>1, <4>1, <4>2 DEF Seqs
    <3>2. ~(s < next_expected')
      BY <1>2, <1>3, <3>1
    <3>. QED  BY <3>1, <3>2
  <2>. QED  BY <2>1, <2>2 DEF ReleasedRefused
<1>8. ReleasedKept'
  <2>1. /\ PacketsOf(0 .. next_unreleased - 1) \subseteq SeqSet(tun_out) \cup SeqSet(held)
        /\ Ooo => PacketsOf(received_seqs) \subseteq SeqSet(tun_out) \cup SeqSet(held)
    BY DEF IInv, ReleasedKept
  <2>2. PacketsOf(received_seqs') \subseteq PacketsOf(received_seqs)
    BY DEF PacketsOf
  <2>3. /\ PacketsOf(0 .. next_unreleased - 1)' = PacketsOf(0 .. next_unreleased - 1)
        /\ PacketsOf(received_seqs)' = PacketsOf(received_seqs')
        /\ SeqSet(tun_out)' = SeqSet(tun_out') /\ SeqSet(held)' = SeqSet(held')
    BY DEF PacketsOf, SeqSet, Packets
  <2>4. next_expected' <= next_unreleased'
    BY <1>2, <1>3
  <2>. QED  BY <2>1, <2>2, <2>3, <2>4 DEF ReleasedKept
<1>9. \A s \in Seqs : Delivered(s) => Delivered(s)'
  BY <1>2, <1>3 DEF Delivered, Seqs
<1>10. SacksTruthful'
  <2>1. ASSUME NEW a \in acks', NEW s \in a.sacked
        PROVE  Delivered(s)'
    <3>1. CASE a \in acks
      <4>1. s \in Seqs /\ Delivered(s)
        BY <1>1, <3>1 DEF LinkTypeOK, WindowAck, IInv, SacksTruthful
      <4>. QED  BY <1>9, <4>1
    <3>2. CASE a.sacked \subseteq received_seqs'
      BY <3>2 DEF Delivered
    <3>. QED  BY <3>1, <3>2
  <2>2. ASSUME NEW r \in Queued(sack_rx), NEW s \in r.sacked
        PROVE  Delivered(s)'
    <3>1. r \in WindowAck
      BY <1>1, SMTT(20) DEF SenderTypeOK, Queued
    <3>2. s \in Seqs /\ Delivered(s)
      BY <3>1 DEF WindowAck, IInv, SacksTruthful
    <3>. QED  BY <1>9, <3>2
  <2>3. Queued(sack_rx)' = Queued(sack_rx)
    BY DEF Queued, sendVars
  <2>. QED  BY <2>1, <2>2, <2>3 DEF SacksTruthful
<1>11. MarksSound'
  BY <1>1, <1>9 DEF IInv, MarksSound, sendVars, SenderTypeOK
<1>. QED  BY <1>4, <1>5, <1>6, <1>7, <1>8, <1>10, <1>11 DEF IInv

(* The receiver's own timers and the consumer.                             *)
LEMMA ReceiverTimerStep ==
    ASSUME IInv, ReceiverWaits \/ Refresh \/ Reserve \/ Consume
    PROVE  IInv'
<1>1. TypeOK /\ LinkTypeOK /\ SenderTypeOK /\ ReceiverTypeOK /\ N \in Nat
  BY LinkAssumption DEF IInv, TypeOK
<1>2. /\ next_expected \in 0 .. N /\ next_unreleased \in 0 .. N
      /\ next_expected <= next_unreleased
      /\ decoder_floor \in 0 .. N /\ received_seqs \subseteq Seqs
      /\ last_advertised_ack \in 0 .. N /\ acks \subseteq WindowAck /\ waiting \in BOOLEAN
      /\ recv_above \in [frontier : 0 .. N, count : Nat]
      /\ held \in Seq(Packets) /\ tun_out \in Seq(Packets)
      /\ tun_taken \in 0 .. Len(tun_out) /\ Len(tun_out) - tun_taken <= ChanCap
      /\ \A p \in SeqSet(held) : p \in Packets /\ next_expected <= SymbolOf[p]
  <2>1. SeqSet(held) \subseteq Packets
    BY <1>1 DEF ReceiverTypeOK, SeqSet
  <2>. QED  BY <1>1, <2>1 DEF ReceiverTypeOK, LinkTypeOK, IInv, ReleasedKept
<1>3. CASE ReceiverWaits
  <2>1. /\ waiting' = TRUE /\ PruneTo(next_expected)
        /\ UNCHANGED <<sendVars, pivots, highest_seen_seq, seen_end, reorder_pending,
                       next_unreleased, held, tun_out, tun_taken, next_expected,
                       last_advertised_ack, last_gap_ack_seen, data, repairs, acks>>
    BY <1>3 DEF ReceiverWaits, Wait, linkVars
  <2>2. /\ recv_above' \in [frontier : 0 .. N, count : Nat]
        /\ received_seqs' \subseteq received_seqs
        /\ decoder_floor' \in 0 .. N /\ decoder_floor <= decoder_floor'
        /\ \A s \in received_seqs :
              s \in received_seqs' \/ (s < decoder_floor' /\ s < next_expected)
    BY <1>1, <1>2, <2>1, PruneForgets
  <2>3. next_expected' \in next_expected .. next_unreleased
    BY <1>2, <2>1
  <2>. QED  BY <1>2, <2>1, <2>2, <2>3, QuietStep
<1>4. CASE Refresh
  <2> DEFINE above == above_sync(received_seqs, recv_above.frontier, recv_above.count, next_expected)
             ranges == received_sack_ranges(received_seqs, next_expected,
                                            highest_seen_seq, MaxSackRanges)
             ack == [next_expected |-> next_expected, received_above |-> above, sacked |-> ranges]
  <2>1. /\ SendAck(ack) /\ recv_above' = [frontier |-> next_expected, count |-> above]
        /\ UNCHANGED <<sendVars, waiting, received_seqs, decoder_floor, pivots, highest_seen_seq,
                       seen_end, reorder_pending, next_unreleased, held, tun_out, tun_taken,
                       next_expected, last_advertised_ack, last_gap_ack_seen, data, repairs>>
    BY <1>4, Zenon DEF Refresh, HoleRefresh
  <2>2. above \in Nat
    <3>1. recv_above.frontier \in Nat /\ recv_above.count \in Nat /\ next_expected \in Nat
      BY <1>1, <1>2
    <3>. QED  BY <1>2, <3>1, AboveSyncIsCount
  <2>3. ranges \subseteq received_seqs
    BY DEF received_sack_ranges, FirstRuns
  <2>. HIDE DEF above, ranges
  <2>4. ack \in WindowAck /\ ack.next_expected = next_expected /\ ack.sacked \subseteq received_seqs
    BY <1>2, <2>2, <2>3 DEF WindowAck
  <2>. HIDE DEF ack
  <2>5. acks' \subseteq WindowAck /\ acks' \subseteq acks \cup {ack}
    BY <1>2, <2>1, <2>4, SendAckAdds
  <2>6. recv_above' \in [frontier : 0 .. N, count : Nat]
    BY <1>2, <2>1, <2>2
  <2>7. /\ next_expected' \in next_expected .. next_unreleased
        /\ decoder_floor' \in 0 .. N /\ decoder_floor <= decoder_floor'
        /\ \A a \in acks' : a \in acks \/ (/\ a.next_expected = next_expected'
                                         /\ a.sacked \subseteq received_seqs')
    BY <1>1, <1>2, <2>1, <2>4, <2>5
  <2>. QED  BY <1>2, <2>1, <2>5, <2>6, <2>7, QuietStep
<1>5. CASE Reserve
  <2>1. PICK k \in 1 .. Len(held) : ReserveWake(k)
    BY <1>5 DEF Reserve
  <2> DEFINE ack == [next_expected |-> next_expected', received_above |-> recv_above'.count,
                     sacked |-> {}]
             H == HeldSeqs(held')
  <2>2. /\ Accept(held, k) /\ PruneTo(next_expected')
        /\ next_expected' = Larger(next_expected, delivered_prefix(next_unreleased, H))
        /\ IF next_expected' > last_advertised_ack THEN SendAck(ack) ELSE UNCHANGED acks
        /\ last_advertised_ack' = Larger(last_advertised_ack, next_expected')
        /\ UNCHANGED <<waiting, pivots, highest_seen_seq, seen_end, reorder_pending,
                       next_unreleased, last_gap_ack_seen, data, repairs>>
    BY <2>1, Zenon DEF ReserveWake
  <2>3. /\ tun_out' \in Seq(Packets) /\ held' \in Seq(Packets)
        /\ tun_taken' \in 0 .. Len(tun_out') /\ Len(tun_out') - tun_taken' <= ChanCap
        /\ SeqSet(held') \subseteq SeqSet(held)
        /\ SeqSet(tun_out') \cup SeqSet(held') = SeqSet(tun_out) \cup SeqSet(held)
    BY <1>1, <1>2, <2>2, AcceptKeeps
  <2>4. H \in SUBSET Nat /\ \A s \in H : next_expected <= s
    <3>1. \A p \in SeqSet(held') : p \in Packets /\ next_expected <= SymbolOf[p]
      BY <1>2, <2>3
    <3>. QED  BY <3>1, ReceiverAssumption DEF HeldSeqs, Packets, Seqs
  <2>5. /\ next_expected' \in next_expected .. next_unreleased
        /\ \A s \in H : next_expected' <= s
    <3>. HIDE DEF H
    <3>1. /\ delivered_prefix(next_unreleased, H) \in Nat
          /\ delivered_prefix(next_unreleased, H) <= next_unreleased
          /\ \A s \in H : delivered_prefix(next_unreleased, H) <= s
      BY <1>1, <1>2, <2>4, DeliveredPrefixBounds
    <3>. QED  BY <1>2, <2>2, <2>4, <3>1 DEF Larger
  <2>6. next_expected' \in 0 .. N /\ last_advertised_ack' \in 0 .. N
    BY <1>1, <1>2, <2>2, <2>5 DEF Larger
  <2>7. /\ recv_above' \in [frontier : 0 .. N, count : Nat]
        /\ received_seqs' \subseteq received_seqs
        /\ decoder_floor' \in 0 .. N /\ decoder_floor <= decoder_floor'
        /\ \A s \in received_seqs :
              s \in received_seqs' \/ (s < decoder_floor' /\ s < next_expected')
    BY <1>1, <2>2, <2>6, PruneForgets
  <2>8. ack \in WindowAck
    BY <2>6, <2>7 DEF WindowAck
  <2>9. acks' \subseteq WindowAck /\ acks' \subseteq acks \cup {ack}
    <3>. HIDE DEF ack
    <3>. QED  BY <1>2, <2>2, <2>8, SendAckAdds
  <2>10. \A a \in acks' : a \in acks \/ (/\ a.next_expected = next_expected'
                                      /\ a.sacked \subseteq received_seqs')
    BY <2>9
  <2>11. UNCHANGED sendVars /\ waiting' \in BOOLEAN
    BY <1>2, <1>5, <2>2 DEF Reserve
  <2>12. \A p \in SeqSet(held') : next_expected' <= SymbolOf[p]
    BY <2>5 DEF HeldSeqs
  <2>. HIDE DEF ack, H
  <2>. QED  BY <2>2, <2>3, <2>5, <2>6, <2>7, <2>9, <2>10, <2>11, <2>12, QuietStep
<1>6. CASE Consume
  <2>1. /\ tun_taken < Len(tun_out) /\ tun_taken' = tun_taken + 1
        /\ UNCHANGED <<sendVars, waiting, received_seqs, decoder_floor, pivots, recv_above,
                       highest_seen_seq, seen_end, reorder_pending, next_unreleased, held,
                       tun_out, next_expected, last_advertised_ack, last_gap_ack_seen,
                       data, repairs, acks>>
    BY <1>6 DEF Consume, ConsumerTake, linkVars
  <2>2. tun_taken' \in 0 .. Len(tun_out') /\ Len(tun_out') - tun_taken' <= ChanCap
    BY <1>2, <2>1, ReceiverAssumption
  <2>3. next_expected' \in next_expected .. next_unreleased /\ decoder_floor <= decoder_floor'
    BY <1>2, <2>1
  <2>. QED  BY <1>2, <2>1, <2>2, <2>3, QuietStep
<1>. QED  BY <1>3, <1>4, <1>5, <1>6

-----------------------------------------------------------------------------
(***************************************************************************)
(* The theorems.                                                           *)
(***************************************************************************)

(* The invariant holds initially: nothing was emitted, received or acked.  *)
LEMMA InitInvariant == Init => IInv
<1> SUFFICES ASSUME Init PROVE IInv
  OBVIOUS
<1>1. N \in Nat \ {0} /\ MaxRepairs \in Nat /\ ChanCap \in Nat
  BY LinkAssumption, ReceiverAssumption
<1>2. TypeOK
  <2>1. LinkTypeOK
    BY <1>1 DEF Init, LinkInit, LinkTypeOK
  <2>2. SenderTypeOK
    <3>1. 0 \in 0 .. N /\ 0 \in Nat
      BY <1>1
    <3>2. above_report \in AboveReport
      BY <3>1 DEF Init, SenderInit, AboveReport
    <3>3. sack_rx \in Seq(WindowAck) /\ nack_rx \in Seq(SUBSET Seqs)
      BY EmptySeq DEF Init, SenderInit
    <3>. QED  BY <3>1, <3>2, <3>3 DEF Init, SenderInit, SenderTypeOK
  <2>3. 0 \in Seqs /\ 0 \in 0 .. N
    BY <1>1 DEF Seqs
  <2>4. ReceiverTypeOK
    BY <1>1, <2>3, EmptySeq DEF Init, ReceiverInit, ReceiverTypeOK
  <2>. QED  BY <2>1, <2>2, <2>4 DEF TypeOK
<1>3. PackerHasRoom /\ Retained /\ AcksTrail /\ MarksSound
  BY DEF Init, LinkInit, SenderInit, ReceiverInit, PackerHasRoom, Retained, Emitted, AcksTrail,
         MarksSound
<1>4. ReleasedRefused /\ SacksTruthful
  BY DEF Init, LinkInit, SenderInit, ReceiverInit, ReleasedRefused, SacksTruthful, Queued
<1>5. ReleasedKept
  <2>1. PacketsOf(0 .. -1) = {} /\ PacketsOf({}) = {}
    BY DEF PacketsOf
  <2>2. SeqSet(<<>>) = {}
    BY DEF SeqSet
  <2>. QED  BY <2>1, <2>2 DEF Init, ReceiverInit, ReleasedKept
<1>. QED  BY <1>2, <1>3, <1>4, <1>5 DEF IInv

(* Every step preserves the invariant.                                     *)
LEMMA NextInvariant == IInv /\ [Next]_vars => IInv'
<1> SUFFICES ASSUME IInv, [Next]_vars PROVE IInv'
  OBVIOUS
<1>1. LinkTypeOK
  BY DEF IInv, TypeOK
<1>2. CASE UNCHANGED vars
  <2>1. UNCHANGED <<sendVars, recvVars>> /\ data' \subseteq data /\ repairs' \in 0 .. MaxRepairs
        /\ acks' \subseteq acks
    BY <1>1, <1>2 DEF vars, linkVars, LinkTypeOK
  <2>. QED  BY <2>1, DatagramLostStep
<1>3. CASE DatagramLost
  <2>1. UNCHANGED <<sendVars, recvVars>> /\ Lose
    BY <1>3 DEF DatagramLost
  <2>2. data' \subseteq data /\ repairs' \in 0 .. MaxRepairs /\ acks' \subseteq acks
    BY <1>1, <2>1, LinkAssumption
       DEF Lose, LoseSource, LoseRepair, LoseAck, TakeRepair, TakeAck, LinkTypeOK
  <2>. QED  BY <2>1, <2>2, DatagramLostStep
<1>4. CASE AckArrives
  BY <1>4, AckArrivesStep
<1>5. CASE Drain
  BY <1>5, DrainStep
<1>6. CASE Emit \/ Flush \/ Nack \/ Poll \/ Input \/ Sweep
  BY <1>6, SenderIterationStep
<1>7. CASE SourceArrives \/ RepairArrives
  BY <1>7, ArrivalStep
<1>8. CASE ReceiverWaits \/ Refresh \/ Reserve \/ Consume
  BY <1>8, ReceiverTimerStep
<1>. QED  BY <1>2, <1>3, <1>4, <1>5, <1>6, <1>7, <1>8 DEF Next

(* The invariant holds in every reachable state.                           *)
THEOREM Invariance == Spec => []IInv
BY InitInvariant, NextInvariant, PTL DEF Spec

(* TypeOK holds in every reachable state: no counter leaves its range and  *)
(* the consumer's channel never exceeds its capacity.                      *)
THEOREM TypeCorrect == Spec => []TypeOK
<1>1. IInv => TypeOK
  BY DEF IInv
<1>. QED  BY <1>1, Invariance, PTL

(* AckTruthful: acks and the sender's view of them trail what the consumer *)
(* was given.                                                              *)
THEOREM AcksAreTruthful == Spec => []AckTruthful
<1>1. IInv => AckTruthful
  BY DEF IInv, AcksTrail, ReleasedKept, AckTruthful
<1>. QED  BY <1>1, Invariance, PTL

(* MarksSound: the SACK-driven release counts only slots whose symbols the *)
(* receiver has.                                                           *)
THEOREM MarksAreSound == Spec => []MarksSound
<1>1. IInv => MarksSound
  BY DEF IInv
<1>. QED  BY <1>1, Invariance, PTL

(* NothingLost: what the sender has pruned, the consumer's channel has     *)
(* accepted, whatever was lost, reordered or duplicated in between.        *)
THEOREM NothingIsLost == Spec => []NothingLost
<1>1. IInv => NothingLost
  <2> SUFFICES ASSUME IInv,
                      NEW p \in Packets, SymbolOf[p] \in Emitted \ sent_store
               PROVE  p \in SeqSet(tun_out)
    BY DEF NothingLost, PacketsOf
  <2>1. /\ prev_ack \in 0 .. N /\ window_ack_seq \in 0 .. N /\ next_seq \in 0 .. N
        /\ next_expected \in 0 .. N /\ next_unreleased \in 0 .. N
    BY DEF IInv, TypeOK, SenderTypeOK, ReceiverTypeOK
  <2>2. SymbolOf[p] < prev_ack /\ SymbolOf[p] >= 0
    BY <2>1 DEF IInv, Retained, Emitted
  <2>3. prev_ack <= next_expected /\ next_expected <= next_unreleased
    BY <2>1 DEF IInv, AcksTrail, ReleasedKept
  <2>4. SymbolOf[p] \in 0 .. next_unreleased - 1 /\ SymbolOf[p] < next_expected
    BY <2>1, <2>2, <2>3 DEF Emitted
  <2>5. p \in SeqSet(tun_out) \cup SeqSet(held)
    BY <2>4 DEF IInv, ReleasedKept, PacketsOf
  <2>6. p \notin SeqSet(held)
    BY <2>1, <2>4 DEF IInv, ReleasedKept
  <2>. QED  BY <2>5, <2>6
<1>. QED  BY <1>1, Invariance, PTL

-----------------------------------------------------------------------------
(***************************************************************************)
(* The packets the hold has released so far: in the channel, then held.    *)
(***************************************************************************)
Flow == tun_out \o held

-----------------------------------------------------------------------------
(***************************************************************************)
(* What extends the window's invariant.                                    *)
(***************************************************************************)

(* Nothing is in flight, received or handed on that was not emitted.       *)
OnlyEmitted ==
    /\ data \subseteq Emitted
    /\ received_seqs \subseteq Emitted
    /\ next_unreleased <= next_seq
    /\ \A p \in SeqSet(Flow) : SymbolOf[p] < next_seq

(* The decoder refuses the symbol of a packet that was handed on.          *)
FlowPassed ==
    \A p \in SeqSet(Flow) : SymbolOf[p] \in received_seqs \/ SymbolOf[p] < decoder_floor

(* No packet is handed on twice.                                           *)
FlowOnce == \A i, j \in DOMAIN Flow : Flow[i] = Flow[j] => i = j

(* In order, the packets handed on are those of the released symbols.      *)
FlowInOrder ==
    ~Ooo => /\ \A i \in DOMAIN Flow : Flow[i] = i - 1
            /\ SeqSet(Flow) = PacketsOf(0 .. next_unreleased - 1)

StreamInv ==
    /\ IInv
    /\ OnlyEmitted
    /\ FlowPassed
    /\ FlowOnce
    /\ FlowInOrder

-----------------------------------------------------------------------------
(***************************************************************************)
(* What the consumer's hold does to the order of the packets.              *)
(***************************************************************************)

(* Accept appends the queue to the channel and to the hold after it: the   *)
(* channel grows at its end, and nothing changes its place.                *)
LEMMA AcceptAppends ==
    ASSUME ReceiverTypeOK, NEW queue \in Seq(Packets), NEW k, Accept(queue, k)
    PROVE  /\ tun_out' \o held' = tun_out \o queue
           /\ Len(tun_out) <= Len(tun_out')
           /\ \A i \in 1 .. Len(tun_out) : tun_out'[i] = tun_out[i]
<1> DEFINE front == SubSeq(queue, 1, k)
           back  == SubSeq(queue, k + 1, Len(queue))
<1>1. /\ tun_out \in Seq(Packets) /\ ChanCap \in Nat
      /\ tun_taken \in 0 .. Len(tun_out) /\ Len(tun_out) - tun_taken <= ChanCap
  BY ReceiverAssumption DEF ReceiverTypeOK
<1>2. k \in 0 .. Len(queue)
  BY <1>1, ReceiverAssumption DEF Accept, Room, Smaller
<1>3. tun_out' = tun_out \o front /\ held' = back
  BY DEF Accept
<1>4. front \in Seq(Packets) /\ back \in Seq(Packets)
  BY <1>2, SplitPackets
<1>5. front \o back = queue
  <2>1. /\ 1 \in 1 .. Len(queue) + 1 /\ k \in 1 - 1 .. Len(queue)
        /\ Len(queue) \in k .. Len(queue)
    BY <1>2
  <2>2. front \o back = SubSeq(queue, 1, Len(queue))
    BY <2>1, ConcatAdjacentSubSeq
  <2>. QED  BY <2>2, SubSeqFull
<1>. HIDE DEF front, back
<1>6. tun_out' \o held' = tun_out \o queue
  <2>1. (tun_out \o front) \o back = tun_out \o (front \o back)
    BY <1>1, <1>4, ConcatAssociative, SMTT(20)
  <2>. QED  BY <1>3, <1>5, <2>1
<1>7. /\ Len(tun_out) <= Len(tun_out')
      /\ \A i \in 1 .. Len(tun_out) : tun_out'[i] = tun_out[i]
  BY <1>1, <1>3, <1>4, ConcatProperties
<1>. QED  BY <1>6, <1>7

(* The packets of a finite set of symbols are finitely many.               *)
LEMMA PacketsOfFinite ==
    ASSUME NEW S
    PROVE  IsFiniteSet(PacketsOf(S)) /\ Cardinality(PacketsOf(S)) \in Nat
<1>1. PacketsOf(S) \in SUBSET Packets /\ IsFiniteSet(Packets)
  BY FS_Interval, ReceiverAssumption DEF PacketsOf, Packets
<1>. QED  BY <1>1, FS_Subset, FS_CardinalityType

(* An arrangement names each packet of its symbols at one place.           *)
LEMMA ArrangedOnce ==
    ASSUME NEW S, NEW w \in Arrangements(S)
    PROVE  /\ w \in Seq(Packets)
           /\ SeqSet(w) = PacketsOf(S)
           /\ Len(w) = Cardinality(PacketsOf(S))
           /\ \A i, j \in 1 .. Len(w) : w[i] = w[j] => i = j
<1> DEFINE n == Cardinality(PacketsOf(S))
<1>1. IsFiniteSet(PacketsOf(S)) /\ n \in Nat
  BY PacketsOfFinite
<1>2. w \in [1 .. n -> PacketsOf(S)] /\ SeqSet(w) = PacketsOf(S)
  BY DEF Arrangements
<1>3. w \in Seq(Packets) /\ Len(w) = n
  <2>1. w \in [1 .. n -> Packets]
    BY <1>2 DEF PacketsOf
  <2>. HIDE DEF n
  <2>. QED  BY <1>1, <2>1
<1>4. w \in Surjection(1 .. n, PacketsOf(S))
  BY <1>2 DEF Surjection, SeqSet
<1>5. IsFiniteSet(1 .. n) /\ Cardinality(1 .. n) = n
  BY <1>1, FS_Interval
<1>6. w \in Injection(1 .. n, PacketsOf(S))
  BY <1>4, <1>5, FS_Surjection
<1>7. \A i, j \in 1 .. n : w[i] = w[j] => i = j
  BY <1>6 DEF Injection, IsInjective
<1>. QED  BY <1>2, <1>3, <1>7

(* An ascending enumeration of an interval is the interval in order.       *)
LEMMA AscendingInterval ==
    ASSUME NEW a \in Nat, NEW w \in Seq(Nat),
           \A i, j \in 1 .. Len(w) : i < j => w[i] < w[j],
           \A i \in 1 .. Len(w) : a <= w[i],
           \A i \in 1 .. Len(w) : \A q \in a .. w[i] : \E j \in 1 .. Len(w) : w[j] = q
    PROVE  \A i \in 1 .. Len(w) : w[i] = a + i - 1
<1> DEFINE Off == {i \in 1 .. Len(w) : w[i] # a + i - 1}
<1>1. SUFFICES ASSUME Off # {}
               PROVE  FALSE
  OBVIOUS
<1>2. PICK i \in Off : \A j \in Off : i <= j
  <2>1. Off \in SUBSET Nat
    OBVIOUS
  <2>. QED  BY <1>1, <2>1, LeastMember
<1>3. i \in 1 .. Len(w) /\ w[i] # a + i - 1 /\ w[i] \in Nat
  OBVIOUS
<1>4. \A j \in 1 .. i - 1 : w[j] = a + j - 1
  BY <1>2, <1>3
<1>. HIDE DEF Off
<1>5. a + i - 1 < w[i]
  <2>1. CASE i = 1
    BY <1>3, <2>1
  <2>2. CASE i > 1
    <3>1. i - 1 \in 1 .. Len(w) /\ i - 1 < i
      BY <1>3, <2>2
    <3>2. w[i - 1] = a + (i - 1) - 1
      BY <1>3, <1>4, <2>2
    <3>3. w[i - 1] < w[i]
      BY <1>3, <3>1, Zenon
    <3>4. \A x \in Nat : a + (i - 1) - 1 < x /\ x # a + i - 1 => a + i - 1 < x
      <4>1. i \in Nat
        BY <1>3
      <4>. QED  BY <4>1
    <3>. QED  BY <1>3, <3>2, <3>3, <3>4, Zenon
  <2>. QED  BY <1>3, <2>1, <2>2
<1>6. PICK j \in 1 .. Len(w) : w[j] = a + i - 1
  <2>1. a + i - 1 \in a .. w[i]
    BY <1>3, <1>5
  <2>. QED  BY <1>3, <2>1
<1>7. CASE j < i
  <2>1. w[j] = a + j - 1
    BY <1>3, <1>4, <1>7
  <2>. QED  BY <1>3, <1>6, <1>7, <2>1
<1>8. CASE j = i
  BY <1>3, <1>6, <1>8
<1>9. CASE j > i
  <2>1. w[i] < w[j]
    BY <1>3, <1>9
  <2>. QED  BY <1>3, <1>5, <1>6, <2>1
<1>. QED  BY <1>3, <1>7, <1>8, <1>9

-----------------------------------------------------------------------------
(***************************************************************************)
(* What a data message hands on.                                           *)
(***************************************************************************)

(* The packets of newly decoded symbols are handed on once each, and in    *)
(* order unless the consumer takes them in any order.                      *)
LEMMA DeliverableOnce ==
    ASSUME IInv, NEW R \in SUBSET Seqs, \A s \in R : fresh(s),
           NEW packets \in Deliverable(R)
    PROVE  /\ packets \in Seq(Packets)
           /\ SeqSet(packets) = PacketsOf(IF Ooo THEN R ELSE Run(R))
           /\ \A i, j \in 1 .. Len(packets) : packets[i] = packets[j] => i = j
           /\ ~Ooo => \A i, j \in 1 .. Len(packets) : i < j => packets[i] < packets[j]
<1>1. CASE Ooo
  <2>1. packets \in Arrangements(R)
    BY <1>1 DEF Deliverable
  <2>. QED  BY <1>1, <2>1, ArrangedOnce
<1>2. CASE ~Ooo
  <2>1. PICK late \in Arrangements(Late(R)), run \in InSequence(Run(R)) :
             packets = late \o run
    BY <1>2 DEF Deliverable
  <2>2. /\ run \in Arrangements(Run(R))
        /\ \A i, j \in DOMAIN run : i < j => run[i] < run[j]
    BY <2>1 DEF InSequence
  <2>3. /\ run \in Seq(Packets) /\ SeqSet(run) = PacketsOf(Run(R))
        /\ \A i, j \in 1 .. Len(run) : run[i] = run[j] => i = j
    BY <2>2, ArrangedOnce
  <2>4. late = <<>>
    <3>1. Late(R) = {}
      <4>1. next_unreleased \in 0 .. N /\ \A s \in R : next_unreleased <= s
        BY FreshIsNew DEF IInv, TypeOK, ReceiverTypeOK
      <4>2. \A s \in R : ~(s < next_unreleased)
        BY <4>1 DEF Seqs
      <4>. QED  BY <4>2 DEF Late
    <3>2. late \in Seq(Packets) /\ SeqSet(late) = {}
      <4>1. PacketsOf({}) = {}
        BY DEF PacketsOf
      <4>. QED  BY <2>1, <3>1, <4>1, ArrangedOnce
    <3>3. Len(late) \in Nat /\ DOMAIN late = 1 .. Len(late)
      BY <3>2, LenProperties
    <3>4. ~(1 \in 1 .. Len(late))
      BY <3>2, <3>3 DEF SeqSet
    <3>. QED  BY <3>2, <3>3, <3>4, EmptySeq
  <2>5. packets = run
    BY <2>1, <2>3, <2>4, ConcatEmptySeq
  <2>. QED  BY <1>2, <2>2, <2>3, <2>5
<1>. QED  BY <1>1, <1>2

(* They go behind the packets handed on before, and the channel grows at   *)
(* its end.                                                                *)
LEMMA RecoveredAppends ==
    ASSUME IInv, NEW R \in SUBSET Seqs, \A s \in R : fresh(s),
           NEW packets \in Deliverable(R), NEW k, Recovered(R, packets, k)
    PROVE  /\ Flow' = Flow \o packets
           /\ Len(tun_out) <= Len(tun_out')
           /\ \A i \in 1 .. Len(tun_out) : tun_out'[i] = tun_out[i]
<1>1. ReceiverTypeOK /\ tun_out \in Seq(Packets) /\ held \in Seq(Packets)
  BY DEF IInv, TypeOK, ReceiverTypeOK
<1>2. packets \in Seq(Packets)
  BY DeliverableOnce
<1>3. CASE packets = <<>>
  <2>1. UNCHANGED <<tun_out, held>>
    BY <1>3 DEF Recovered
  <2>2. Flow \in Seq(Packets)
    BY <1>1, ConcatProperties DEF Flow
  <2>3. Flow \o <<>> = Flow
    BY <2>2, ConcatEmptySeq
  <2>. QED  BY <1>1, <1>3, <2>1, <2>3 DEF Flow
<1>4. CASE packets # <<>>
  <2>1. Accept(held \o packets, k)
    BY <1>4 DEF Recovered
  <2>2. held \o packets \in Seq(Packets)
    BY <1>1, <1>2, ConcatProperties
  <2>3. /\ tun_out' \o held' = tun_out \o (held \o packets)
        /\ Len(tun_out) <= Len(tun_out')
        /\ \A i \in 1 .. Len(tun_out) : tun_out'[i] = tun_out[i]
    BY <1>1, <2>1, <2>2, AcceptAppends
  <2>4. tun_out \o (held \o packets) = (tun_out \o held) \o packets
    BY <1>1, <1>2, ConcatAssociative, SMTT(20)
  <2>. QED  BY <2>3, <2>4 DEF Flow
<1>. QED  BY <1>3, <1>4

(* The packets of the released symbols are a prefix of the TUN's, so those *)
(* of a run that follows come next.                                        *)
LEMMA RunComesNext ==
    ASSUME StreamInv, ~Ooo, NEW f \in next_unreleased .. N, NEW w \in Seq(Packets),
           SeqSet(w) = PacketsOf(next_unreleased .. f - 1),
           \A i, j \in 1 .. Len(w) : i < j => w[i] < w[j]
    PROVE  \A i \in 1 .. Len(w) : w[i] = Len(Flow) + i - 1
<1>1. /\ next_unreleased \in 0 .. N /\ N \in Nat /\ Flow \in Seq(Packets)
  BY LinkAssumption, ConcatProperties DEF StreamInv, IInv, TypeOK, ReceiverTypeOK, Flow
<1>2. /\ \A i \in 1 .. Len(Flow) : Flow[i] = i - 1
      /\ SeqSet(Flow) = PacketsOf(0 .. next_unreleased - 1)
  BY <1>1 DEF StreamInv, FlowInOrder
<1>3. \A p \in Packets : SymbolOf[p] \in Int /\ 0 <= SymbolOf[p] /\ p \in Int
  BY ReceiverAssumption DEF Packets, Seqs
<1>4. \A p \in Packets : p < Len(Flow) <=> SymbolOf[p] < next_unreleased
  <2>1. ASSUME NEW p \in Packets
        PROVE  p \in SeqSet(Flow) <=> p < Len(Flow)
    <3>1. CASE p < Len(Flow)
      <4>1. p + 1 \in 1 .. Len(Flow) /\ Flow[p + 1] = p
        BY <1>1, <1>2, <3>1 DEF Packets
      <4>. QED  BY <1>1, <3>1, <4>1 DEF SeqSet
    <3>2. ASSUME p \in SeqSet(Flow)
          PROVE  p < Len(Flow)
      <4>1. PICK i \in 1 .. Len(Flow) : Flow[i] = p
        BY <1>1, <3>2 DEF SeqSet
      <4>. QED  BY <1>1, <1>2, <4>1
    <3>. QED  BY <3>1, <3>2
  <2>2. \A p \in Packets : p \in SeqSet(Flow) <=> SymbolOf[p] < next_unreleased
    BY <1>1, <1>2, <1>3 DEF PacketsOf
  <2>. QED  BY <2>1, <2>2
<1>5. \A i \in 1 .. Len(w) : /\ w[i] \in Packets
                             /\ next_unreleased <= SymbolOf[w[i]] /\ SymbolOf[w[i]] < f
  <2>1. \A i \in 1 .. Len(w) : w[i] \in SeqSet(w)
    BY DEF SeqSet
  <2>. QED  BY <1>1, <1>3, <2>1 DEF PacketsOf
<1>6. ASSUME NEW i \in 1 .. Len(w)
      PROVE  Len(Flow) <= w[i]
  <2>1. /\ w[i] \in Packets /\ w[i] \in Int
        /\ SymbolOf[w[i]] \in Int /\ ~(SymbolOf[w[i]] < next_unreleased)
    BY <1>1, <1>3, <1>5
  <2>2. ~(w[i] < Len(Flow)) /\ Len(Flow) \in Nat
    BY <1>1, <1>4, <2>1
  <2>. QED  BY <2>1, <2>2
<1>7. ASSUME NEW i \in 1 .. Len(w), NEW q \in Len(Flow) .. w[i]
      PROVE  \E j \in 1 .. Len(w) : w[j] = q
  <2>1. /\ q \in Packets /\ w[i] \in Packets /\ q \in Int /\ w[i] \in Int
        /\ SymbolOf[q] \in Int /\ SymbolOf[w[i]] \in Int
        /\ Len(Flow) <= q /\ q <= w[i]
    <3>1. w[i] \in Packets /\ w[i] \in 0 .. PacketCount - 1
      BY <1>5 DEF Packets
    <3>2. q \in Packets
      BY <1>1, <3>1, ReceiverAssumption DEF Packets
    <3>. QED  BY <1>1, <1>3, <3>1, <3>2
  <2>2. SymbolOf[q] <= SymbolOf[w[i]]
    <3>1. CASE q = w[i]
      BY <2>1, <3>1
    <3>2. CASE q < w[i]
      BY <2>1, <3>2, ReceiverAssumption DEF Packets
    <3>. QED  BY <2>1, <3>1, <3>2
  <2>3. next_unreleased <= SymbolOf[q]
    BY <1>1, <1>4, <2>1
  <2>4. SymbolOf[q] \in next_unreleased .. f - 1
    <3>1. SymbolOf[w[i]] < f /\ f \in Int /\ next_unreleased \in Int
      BY <1>1, <1>5
    <3>. QED  BY <2>1, <2>2, <2>3, <3>1
  <2>5. q \in SeqSet(w)
    BY <2>1, <2>4 DEF PacketsOf
  <2>. QED  BY <2>5 DEF SeqSet
<1>8. w \in Seq(Nat) /\ Len(Flow) \in Nat
  <2>1. Packets \subseteq Nat
    BY ReceiverAssumption DEF Packets
  <2>2. w \in Seq(Nat)
    BY <2>1, SeqMonotonic
  <2>. QED  BY <1>1, <2>2
<1>. QED  BY <1>6, <1>7, <1>8, AscendingInterval

-----------------------------------------------------------------------------
(***************************************************************************)
(* The steps of Next, by what they do to the packets handed on.            *)
(***************************************************************************)

(* A longer interval holds the shorter one.                                *)
LEMMA IntervalGrows ==
    ASSUME NEW a \in Int, NEW b \in Int, a <= b
    PROVE  0 .. a - 1 \subseteq 0 .. b - 1
OBVIOUS

ChannelGrows ==
    /\ Len(tun_out) <= Len(tun_out')
    /\ \A i \in 1 .. Len(tun_out) : tun_out'[i] = tun_out[i]

(* A step that hands on nothing new preserves the invariant.               *)
LEMMA NothingHandedOn ==
    ASSUME StreamInv, IInv', next_seq <= next_seq', data' \subseteq 0 .. next_seq' - 1,
           UNCHANGED next_unreleased, Flow' = Flow,
           received_seqs' \subseteq received_seqs, decoder_floor <= decoder_floor',
           \A s \in received_seqs : s \in received_seqs' \/ s < decoder_floor'
    PROVE  StreamInv'
<1>1. /\ next_seq \in 0 .. N /\ next_seq' \in 0 .. N /\ next_unreleased \in 0 .. N
      /\ decoder_floor \in 0 .. N /\ decoder_floor' \in 0 .. N
      /\ held \in Seq(Packets) /\ tun_out \in Seq(Packets) /\ Flow \in Seq(Packets)
  BY ConcatProperties DEF StreamInv, IInv, TypeOK, SenderTypeOK, ReceiverTypeOK, Flow
<1>2. \A p \in SeqSet(Flow) : SymbolOf[p] \in Int
  <2>1. \A p \in SeqSet(Flow) : p \in Packets
    BY <1>1 DEF SeqSet
  <2>. QED  BY <2>1, ReceiverAssumption DEF Packets, Seqs
<1>3. SeqSet(Flow)' = SeqSet(Flow) /\ DOMAIN Flow' = DOMAIN Flow
  BY DEF SeqSet
<1>4. OnlyEmitted'
  <2>1. \A s \in received_seqs' : s \in 0 .. next_seq' - 1
    <3>1. received_seqs' \subseteq 0 .. next_seq - 1
      BY DEF StreamInv, OnlyEmitted, Emitted
    <3>2. next_seq \in Int /\ next_seq' \in Int /\ next_seq <= next_seq'
      BY <1>1
    <3>3. 0 .. next_seq - 1 \subseteq 0 .. next_seq' - 1
      BY <3>2, IntervalGrows
    <3>. QED  BY <3>1, <3>3
  <2>2. next_unreleased' <= next_seq'
    BY <1>1 DEF StreamInv, OnlyEmitted
  <2>3. \A p \in SeqSet(Flow) : SymbolOf[p] < next_seq'
    BY <1>1, <1>2 DEF StreamInv, OnlyEmitted
  <2>. QED  BY <1>3, <2>1, <2>2, <2>3 DEF OnlyEmitted, Emitted
<1>5. FlowPassed'
  <2>1. ASSUME NEW p \in SeqSet(Flow)
        PROVE  SymbolOf[p] \in received_seqs' \/ SymbolOf[p] < decoder_floor'
    <3>1. SymbolOf[p] \in received_seqs \/ SymbolOf[p] < decoder_floor
      BY DEF StreamInv, FlowPassed
    <3>. QED  BY <1>1, <1>2, <3>1
  <2>. QED  BY <1>3, <2>1 DEF FlowPassed
<1>6. FlowOnce'
  BY <1>3 DEF StreamInv, FlowOnce
<1>7. FlowInOrder'
  BY <1>3 DEF StreamInv, FlowInOrder, PacketsOf, Packets
<1>. QED  BY <1>4, <1>5, <1>6, <1>7 DEF StreamInv

(* A data message hands on packets it did not hand on before.              *)
LEMMA DataMessageHandsOn ==
    ASSUME StreamInv, IInv', NEW R \in SUBSET Emitted, \A s \in R : fresh(s),
           NEW floor_elapsed, DataMessage(R, floor_elapsed),
           data' \subseteq data, UNCHANGED next_seq
    PROVE  StreamInv' /\ ChannelGrows
<1>1. /\ IInv
      /\ next_seq \in 0 .. N /\ next_unreleased \in 0 .. N /\ N \in Nat
      /\ decoder_floor \in 0 .. N /\ received_seqs \subseteq Emitted
      /\ held \in Seq(Packets) /\ tun_out \in Seq(Packets) /\ Flow \in Seq(Packets)
      /\ Emitted \subseteq Seqs /\ next_unreleased <= next_seq
  <2>1. /\ IInv /\ received_seqs \subseteq Emitted /\ next_unreleased <= next_seq
        /\ next_seq \in 0 .. N /\ next_unreleased \in 0 .. N /\ decoder_floor \in 0 .. N
        /\ held \in Seq(Packets) /\ tun_out \in Seq(Packets)
    BY DEF StreamInv, OnlyEmitted, IInv, TypeOK, SenderTypeOK, ReceiverTypeOK
  <2>2. N \in Nat /\ Flow \in Seq(Packets)
    BY <2>1, LinkAssumption, ConcatProperties DEF Flow
  <2>. QED  BY <2>1, <2>2 DEF Emitted, Seqs
<1>2. R \in SUBSET Seqs /\ \A s \in R : s \in Int
  BY <1>1 DEF Seqs
<1>3. PICK packets \in Deliverable(R) :
           \E k \in 0 .. Len(held \o packets) : Recovered(R, packets, k)
  BY DEF DataMessage
<1>4. PICK k \in 0 .. Len(held \o packets) : Recovered(R, packets, k)
  BY <1>3
<1>5. /\ packets \in Seq(Packets)
      /\ SeqSet(packets) = PacketsOf(IF Ooo THEN R ELSE Run(R))
      /\ \A i, j \in 1 .. Len(packets) : packets[i] = packets[j] => i = j
      /\ ~Ooo => \A i, j \in 1 .. Len(packets) : i < j => packets[i] < packets[j]
  BY <1>1, <1>2, DeliverableOnce
<1>6. Flow' = Flow \o packets /\ ChannelGrows
  BY <1>1, <1>2, <1>4, RecoveredAppends DEF ChannelGrows
<1>7. /\ Frontier(R) \in next_unreleased .. N
      /\ \A s \in Run(R) : s \in received_seqs \cup R
  BY <1>1, <1>2, FrontierEndsRun
<1>8. /\ received_seqs' = received_seqs \cup R
      /\ next_unreleased' = Frontier(R) /\ decoder_floor' = decoder_floor
  BY <1>4 DEF Recovered, DataMessage
<1>9. /\ Flow' \in Seq(Packets) /\ Len(Flow') = Len(Flow) + Len(packets)
      /\ DOMAIN Flow' = 1 .. Len(Flow')
      /\ \A i \in 1 .. Len(Flow) : Flow'[i] = Flow[i]
      /\ \A i \in Len(Flow) + 1 .. Len(Flow') : /\ i - Len(Flow) \in 1 .. Len(packets)
                                                /\ Flow'[i] = packets[i - Len(Flow)]
  BY <1>1, <1>5, <1>6, ConcatProperties
<1>10. SeqSet(Flow') = SeqSet(Flow) \cup SeqSet(packets) /\ SeqSet(Flow)' = SeqSet(Flow')
  <2>1. SeqSet(Flow \o packets) = SeqSet(Flow) \cup SeqSet(packets)
    BY <1>1, <1>5, ConcatPackets
  <2>2. SeqSet(Flow)' = SeqSet(Flow')
    BY DEF SeqSet
  <2>. QED  BY <1>6, <2>1, <2>2
<1>11. \A p \in SeqSet(packets) : SymbolOf[p] \in received_seqs \cup R
  BY <1>5, <1>7 DEF PacketsOf
<1>12. OnlyEmitted'
  <2>1. \A s \in received_seqs \cup R : s \in Int /\ s < next_seq
    BY <1>1, <1>2 DEF Emitted, Seqs
  <2>2. Frontier(R) <= next_seq
    <3>1. CASE Frontier(R) = next_unreleased
      BY <1>1, <3>1
    <3>2. CASE Frontier(R) # next_unreleased
      <4>1. Frontier(R) - 1 \in Run(R)
        BY <1>1, <1>7, <3>2 DEF Run
      <4>2. Frontier(R) - 1 < next_seq
        BY <1>7, <2>1, <4>1
      <4>. QED  BY <1>1, <1>7, <4>2
    <3>. QED  BY <3>1, <3>2
  <2>3. \A p \in SeqSet(Flow') : SymbolOf[p] < next_seq
    BY <1>10, <1>11, <2>1 DEF StreamInv, OnlyEmitted
  <2>4. data' \subseteq Emitted /\ received_seqs' \subseteq Emitted /\ Emitted' = Emitted
    BY <1>1, <1>8 DEF StreamInv, OnlyEmitted, Emitted
  <2>. QED  BY <1>8, <1>10, <2>2, <2>3, <2>4 DEF OnlyEmitted
<1>13. FlowPassed'
  BY <1>8, <1>10, <1>11 DEF StreamInv, FlowPassed
<1>14. FlowInOrder'
  <2>1. ASSUME ~Ooo
        PROVE  /\ \A i \in DOMAIN Flow' : Flow'[i] = i - 1
               /\ SeqSet(Flow') = PacketsOf(0 .. Frontier(R) - 1)
    <3>1. /\ SeqSet(packets) = PacketsOf(next_unreleased .. Frontier(R) - 1)
          /\ \A i, j \in 1 .. Len(packets) : i < j => packets[i] < packets[j]
      BY <1>5, <2>1 DEF Run
    <3>2. \A i \in 1 .. Len(packets) : packets[i] = Len(Flow) + i - 1
      BY <1>5, <1>7, <2>1, <3>1, RunComesNext
    <3>3. /\ \A i \in 1 .. Len(Flow) : Flow[i] = i - 1
          /\ SeqSet(Flow) = PacketsOf(0 .. next_unreleased - 1)
      BY <1>1, <2>1 DEF StreamInv, FlowInOrder
    <3>4. ASSUME NEW i \in 1 .. Len(Flow')
          PROVE  Flow'[i] = i - 1
      <4>1. Len(Flow) \in Nat /\ Len(Flow') \in Nat
        BY <1>1, <1>9
      <4>2. CASE i <= Len(Flow)
        BY <1>9, <3>3, <4>1, <4>2
      <4>3. CASE i > Len(Flow)
        <5>1. i \in Len(Flow) + 1 .. Len(Flow')
          BY <4>1, <4>3
        <5>2. Flow'[i] = packets[i - Len(Flow)] /\ i - Len(Flow) \in 1 .. Len(packets)
          BY <1>9, <5>1
        <5>3. Flow'[i] = Len(Flow) + (i - Len(Flow)) - 1
          BY <3>2, <5>2
        <5>. QED  BY <4>1, <5>3
      <4>. QED  BY <4>1, <4>2, <4>3
    <3>5. SeqSet(Flow') = PacketsOf(0 .. Frontier(R) - 1)
      <4>1. 0 .. Frontier(R) - 1 = (0 .. next_unreleased - 1) \cup (next_unreleased .. Frontier(R) - 1)
        BY <1>1, <1>7
      <4>. QED  BY <1>10, <3>1, <3>3, <4>1 DEF PacketsOf
    <3>. QED  BY <1>9, <3>4, <3>5
  <2>. QED  BY <1>8, <1>10, <2>1 DEF FlowInOrder, PacketsOf, Packets
<1>15. FlowOnce'
  <2>1. CASE ~Ooo
    <3>1. \A i \in DOMAIN Flow' : Flow'[i] = i - 1 /\ i \in Int
      BY <1>9, <1>14, <2>1 DEF FlowInOrder
    <3>. QED  BY <3>1 DEF FlowOnce
  <2>2. CASE Ooo
    <3>1. \A p \in SeqSet(Flow) : p \notin SeqSet(packets)
      <4>1. ASSUME NEW p \in SeqSet(Flow), p \in SeqSet(packets)
            PROVE  FALSE
        <5>1. SymbolOf[p] \in R
          BY <1>5, <2>2, <4>1 DEF PacketsOf
        <5>2. SymbolOf[p] \in received_seqs \/ SymbolOf[p] < decoder_floor
          BY DEF StreamInv, FlowPassed
        <5>3. SymbolOf[p] >= decoder_floor /\ SymbolOf[p] \notin received_seqs
          BY <5>1 DEF fresh
        <5>. QED  BY <1>1, <1>2, <5>1, <5>2, <5>3
      <4>. QED  BY <4>1
    <3>2. \A i, j \in 1 .. Len(Flow) : Flow[i] = Flow[j] => i = j
      BY <1>1 DEF StreamInv, FlowOnce
    <3>3. Len(Flow) \in Nat /\ Len(Flow') \in Nat
      BY <1>1, <1>9
    <3>4. \A i \in 1 .. Len(Flow) : Flow'[i] \in SeqSet(Flow)
      BY <1>1, <1>9 DEF SeqSet
    <3>5. \A i \in 1 .. Len(Flow') : i > Len(Flow) =>
             /\ i - Len(Flow) \in 1 .. Len(packets)
             /\ Flow'[i] = packets[i - Len(Flow)] /\ Flow'[i] \in SeqSet(packets)
      <4>1. \A i \in 1 .. Len(packets) : packets[i] \in SeqSet(packets)
        BY <1>5 DEF SeqSet
      <4>. QED  BY <1>9, <3>3, <4>1
    <3>6. ASSUME NEW i \in 1 .. Len(Flow'), NEW j \in 1 .. Len(Flow'), Flow'[i] = Flow'[j]
          PROVE  i = j
      <4>1. CASE i <= Len(Flow) /\ j <= Len(Flow)
        BY <1>9, <3>2, <3>3, <3>6, <4>1
      <4>2. CASE i > Len(Flow) /\ j > Len(Flow)
        <5>1. i - Len(Flow) = j - Len(Flow)
          BY <1>5, <3>5, <3>6, <4>2
        <5>. QED  BY <3>3, <5>1
      <4>3. CASE (i <= Len(Flow)) # (j <= Len(Flow))
        BY <3>1, <3>3, <3>4, <3>5, <3>6, <4>3
      <4>. QED  BY <3>3, <4>1, <4>2, <4>3
    <3>. QED  BY <1>9, <3>6 DEF FlowOnce
  <2>. QED  BY <2>1, <2>2
<1>. QED  BY <1>6, <1>12, <1>13, <1>14, <1>15 DEF StreamInv

(* What enters the channel are packets the consumer did not have, of       *)
(* emitted symbols.                                                        *)
LEMMA GrowthIsGiven ==
    ASSUME StreamInv, StreamInv', ChannelGrows, UNCHANGED <<next_seq, sent_store>>
    PROVE  Stream!ConsumerIsGiven
<1>1. tun_out' \in Seq(Packets) /\ held' \in Seq(Packets)
  BY DEF StreamInv, IInv, TypeOK, ReceiverTypeOK, Packets
<1>2. /\ Flow' = tun_out' \o held' /\ Flow' \in Seq(Packets)
      /\ DOMAIN Flow' = 1 .. Len(Flow')
  <2>1. Flow' = tun_out' \o held' /\ Flow' \in Seq(Packets)
    BY <1>1, ConcatProperties DEF Flow
  <2>. QED  BY <2>1, LenProperties
<1>3. \A i \in 1 .. Len(tun_out') : i \in 1 .. Len(Flow') /\ Flow'[i] = tun_out'[i]
  BY <1>1, <1>2, ConcatProperties
<1>4. SeqSet(Flow)' = SeqSet(Flow')
  BY DEF SeqSet
<1>5. ASSUME NEW i \in Len(tun_out) + 1 .. Len(tun_out'), i \in 1 .. Len(tun_out')
      PROVE  /\ tun_out'[i] \in Packets
             /\ SymbolOf[tun_out'[i]] < next_seq
             /\ \A j \in 1 .. i - 1 : tun_out'[j] # tun_out'[i]
             /\ ~Ooo => tun_out'[i] = i - 1
  <2>1. tun_out'[i] \in Packets
    BY <1>1, <1>5
  <2>2. SymbolOf[tun_out'[i]] < next_seq
    <3>1. Flow'[i] \in SeqSet(Flow')
      BY <1>2, <1>3, <1>5 DEF SeqSet
    <3>2. tun_out'[i] \in SeqSet(Flow')
      BY <1>3, <1>5, <3>1
    <3>. QED  BY <1>4, <3>2 DEF StreamInv, OnlyEmitted
  <2>3. ASSUME NEW j \in 1 .. i - 1
        PROVE  tun_out'[j] # tun_out'[i]
    <3>1. j \in 1 .. Len(tun_out') /\ j # i
      BY <1>1, <1>5
    <3>2. Flow'[j] # Flow'[i]
      <4>1. i \in DOMAIN Flow' /\ j \in DOMAIN Flow'
        BY <1>2, <1>3, <1>5, <3>1
      <4>. QED  BY <3>1, <4>1 DEF StreamInv, FlowOnce
    <3>. QED  BY <1>3, <1>5, <3>1, <3>2
  <2>4. ~Ooo => tun_out'[i] = i - 1
    <3>1. i \in DOMAIN Flow'
      BY <1>2, <1>3, <1>5
    <3>2. ~Ooo => Flow'[i] = i - 1
      BY <3>1 DEF StreamInv, FlowInOrder
    <3>. QED  BY <1>3, <1>5, <3>2
  <2>. QED  BY <2>1, <2>2, <2>3, <2>4
<1>6. Len(tun_out) \in Nat /\ DOMAIN tun_out = 1 .. Len(tun_out)
  <2>1. tun_out \in Seq(Packets)
    BY DEF StreamInv, IInv, TypeOK, ReceiverTypeOK
  <2>. QED  BY <2>1, LenProperties
<1>. QED  BY <1>1, <1>5, <1>6 DEF ChannelGrows, Stream!ConsumerIsGiven, Stream!Packets, Packets

(* The end of an iteration emits symbols in turn and lets go only of what  *)
(* the consumer was given.                                                 *)
LEMMA IterationReleases ==
    ASSUME StreamInv, IInv', NEW n \in Nat, NEW swept, NEW resent \in SUBSET sent_store,
           FinishIteration(n, swept, resent), next_seq + n <= N, UNCHANGED recvVars
    PROVE  StreamInv' /\ Stream!SenderMoves
<1> DEFINE new == NewSymbols(n)
<1>1. /\ IInv /\ N \in Nat /\ next_seq \in 0 .. N /\ window_ack_seq \in 0 .. N
      /\ next_expected \in 0 .. N /\ next_unreleased \in 0 .. N
      /\ sent_store \subseteq Seqs /\ sent_store \subseteq Emitted
      /\ data \subseteq Emitted
      /\ window_ack_seq <= next_expected /\ next_expected <= next_unreleased
      /\ decoder_floor \in 0 .. N
  BY LinkAssumption DEF StreamInv, OnlyEmitted, IInv, TypeOK, SenderTypeOK, ReceiverTypeOK,
                        Retained, AcksTrail, ReleasedKept
<1>2. /\ next_seq' = next_seq + n
      /\ data' = data \cup new \cup resent
      /\ sent_store' \subseteq sent_store \cup new
      /\ \A s \in (sent_store \cup new) \ sent_store' : ~(s >= window_ack_seq)
  BY DEF FinishIteration
<1>3. new = next_seq .. next_seq' - 1
  BY <1>1, <1>2 DEF NewSymbols
<1>4. next_seq <= next_seq' /\ next_seq' \in 0 .. N /\ next_seq' \in next_seq .. N
  BY <1>1, <1>2
<1>. HIDE DEF new
<1>5. data' \subseteq 0 .. next_seq' - 1
  <2>1. 0 .. next_seq - 1 \subseteq 0 .. next_seq' - 1
    <3>1. next_seq \in Int /\ next_seq' \in Int /\ next_seq <= next_seq'
      BY <1>1, <1>4
    <3>. QED  BY <3>1, IntervalGrows
  <2>2. new \subseteq 0 .. next_seq' - 1
    BY <1>1, <1>3
  <2>. QED  BY <1>1, <1>2, <2>1, <2>2 DEF Emitted
<1>6. StreamInv'
  <2>1. /\ UNCHANGED <<next_unreleased, received_seqs, decoder_floor>> /\ Flow' = Flow
    BY DEF recvVars, Flow
  <2>2. received_seqs' \subseteq received_seqs /\ decoder_floor <= decoder_floor'
        /\ \A s \in received_seqs : s \in received_seqs' \/ s < decoder_floor'
    BY <1>1, <2>1
  <2>. QED  BY <1>4, <1>5, <2>1, <2>2, NothingHandedOn
<1>7. ASSUME NEW s \in (sent_store \cup new) \ sent_store'
      PROVE  Stream!WhollyGiven(s)
  <2>1. s \in Int /\ 0 <= s /\ s < window_ack_seq
    BY <1>1, <1>2, <1>3 DEF Seqs
  <2>2. s \in 0 .. next_unreleased - 1 /\ s < next_expected
    BY <1>1, <2>1
  <2>3. ASSUME NEW p \in Packets, SymbolOf[p] = s
        PROVE  p \in SeqSet(tun_out)
    <3>1. p \in SeqSet(tun_out) \cup SeqSet(held)
      BY <1>1, <2>2, <2>3 DEF IInv, ReleasedKept, PacketsOf
    <3>2. p \notin SeqSet(held)
      BY <1>1, <2>1, <2>2, <2>3 DEF IInv, ReleasedKept
    <3>. QED  BY <3>1, <3>2
  <2>. QED  BY <2>3 DEF Stream!WhollyGiven, Stream!Given, Stream!Packets, Packets, SeqSet
<1>8. UNCHANGED tun_out
  BY DEF recvVars
<1>. QED  BY <1>2, <1>3, <1>4, <1>6, <1>7, <1>8 DEF Stream!SenderMoves

(* A step of a sender's iteration.                                         *)
LEMMA IterationStream ==
    ASSUME StreamInv, IInv', Emit \/ Flush \/ Nack \/ Poll \/ Input \/ Sweep
    PROVE  StreamInv' /\ Stream!SenderMoves
<1>1. /\ next_seq \in 0 .. N /\ N \in Nat /\ EmitBurst \in Nat
      /\ packer_pending => next_seq < N
  BY LinkAssumption, SenderAssumption
     DEF StreamInv, IInv, TypeOK, SenderTypeOK, PackerHasRoom
<1>2. UNCHANGED recvVars
  BY DEF Emit, Flush, Nack, Poll, Input, Sweep
<1>3. ASSUME NEW swept, NEW resent \in SUBSET sent_store, FinishIteration(0, swept, resent)
      PROVE  StreamInv' /\ Stream!SenderMoves
  <2>1. 0 \in Nat /\ next_seq + 0 <= N
    BY <1>1
  <2>. QED  BY <1>2, <1>3, <2>1, IterationReleases
<1>4. CASE Emit
  <2>1. PICK n \in 0 .. EmitBurst, resent \in SUBSET sent_store : EmitArm(n, resent)
    BY <1>4 DEF Emit
  <2>2. n \in Nat /\ next_seq + n <= N /\ FinishIteration(n, TaperCopy(n), resent)
    BY <1>1, <2>1 DEF EmitArm
  <2>. QED  BY <1>2, <2>2, IterationReleases
<1>5. CASE Flush
  <2>1. PICK resent \in SUBSET sent_store : PackerFlush(resent)
    BY <1>5 DEF Flush
  <2>2. packer_pending /\ FinishIteration(1, TaperCopy(1), resent)
    BY <2>1 DEF PackerFlush
  <2>3. 1 \in Nat /\ next_seq + 1 <= N
    BY <1>1, <2>2
  <2>. QED  BY <1>2, <2>2, <2>3, IterationReleases
<1>6. CASE Nack
  BY <1>3, <1>6 DEF Nack, NackArm
<1>7. CASE Poll
  BY <1>3, <1>7 DEF Poll, PollArm
<1>8. CASE Input
  BY <1>3, <1>8 DEF Input, InputDone
<1>9. CASE Sweep
  BY <1>3, <1>9 DEF Sweep, TailArm
<1>. QED  BY <1>4, <1>5, <1>6, <1>7, <1>8, <1>9

(* A step of the receiver: an arrival, a timer, or the consumer.           *)
LEMMA ReceiverStream ==
    ASSUME StreamInv, IInv',
           SourceArrives \/ RepairArrives \/ ReceiverWaits \/ Refresh \/ Reserve \/ Consume
    PROVE  StreamInv' /\ ChannelGrows /\ UNCHANGED <<next_seq, sent_store>>
<1>1. /\ IInv /\ TypeOK /\ ReceiverTypeOK
      /\ next_expected \in 0 .. N /\ N \in Nat /\ decoder_floor \in 0 .. N
      /\ next_seq \in 0 .. N /\ data \subseteq Emitted
      /\ held \in Seq(Packets) /\ tun_out \in Seq(Packets)
  BY LinkAssumption DEF StreamInv, OnlyEmitted, IInv, TypeOK, SenderTypeOK, ReceiverTypeOK
<1>2. UNCHANGED <<next_seq, sent_store>>
  BY DEF SourceArrives, RepairArrives, ReceiverWaits, Refresh, Reserve, Consume, sendVars
<1>3. ASSUME UNCHANGED <<data, next_unreleased>>, Flow' = Flow,
             received_seqs' \subseteq received_seqs, decoder_floor <= decoder_floor',
             \A s \in received_seqs : s \in received_seqs' \/ s < decoder_floor'
      PROVE  StreamInv'
  <2>1. data' \subseteq 0 .. next_seq' - 1 /\ next_seq <= next_seq'
    BY <1>1, <1>2, <1>3 DEF Emitted
  <2>. QED  BY <1>3, <2>1, NothingHandedOn
<1>4. UNCHANGED tun_out => ChannelGrows
  <2>1. Len(tun_out) \in Nat
    BY <1>1
  <2>. QED  BY <2>1 DEF ChannelGrows
<1>5. CASE SourceArrives
  <2>1. PICK s \in data, C \in SUBSET Emitted, another \in BOOLEAN, floor_elapsed \in BOOLEAN :
             ReceiveSource(s, another, C, floor_elapsed)
    BY <1>5 DEF SourceArrives
  <2>2. data' \subseteq data /\ \A c \in C : fresh(c)
    BY <2>1 DEF ReceiveSource, TakeSource
  <2>3. PICK R \in SUBSET Emitted : DataMessage(R, floor_elapsed) /\ \A r \in R : fresh(r)
    <3>1. CASE fresh(s)
      <4>1. {s} \cup C \in SUBSET Emitted /\ \A r \in {s} \cup C : fresh(r)
        BY <1>1, <2>2, <3>1
      <4>. QED  BY <2>1, <3>1, <4>1 DEF ReceiveSource
    <3>2. CASE ~fresh(s)
      BY <2>1, <3>2 DEF ReceiveSource
    <3>. QED  BY <3>1, <3>2
  <2>. QED  BY <1>2, <2>2, <2>3, DataMessageHandsOn
<1>6. CASE RepairArrives
  <2>1. PICK C \in SUBSET Emitted, floor_elapsed \in BOOLEAN : ReceiveRepair(C, floor_elapsed)
    BY <1>6 DEF RepairArrives
  <2>2. data' = data /\ DataMessage(C, floor_elapsed) /\ \A c \in C : fresh(c)
    BY <2>1 DEF ReceiveRepair, TakeRepair
  <2>. QED  BY <1>2, <2>2, DataMessageHandsOn
<1>7. CASE ReceiverWaits
  <2>1. /\ PruneTo(next_expected) /\ UNCHANGED <<data, next_unreleased, tun_out, held>>
    BY <1>7 DEF ReceiverWaits, Wait, linkVars
  <2>2. /\ received_seqs' \subseteq received_seqs /\ decoder_floor <= decoder_floor'
        /\ \A s \in received_seqs : s \in received_seqs' \/ s < decoder_floor'
    BY <1>1, <2>1, PruneForgets
  <2>. QED  BY <1>2, <1>3, <1>4, <2>1, <2>2 DEF Flow
<1>8. CASE Refresh \/ Consume
  <2>1. UNCHANGED <<data, next_unreleased, tun_out, held, received_seqs, decoder_floor>>
    BY <1>8 DEF Refresh, HoleRefresh, Consume, ConsumerTake, linkVars
  <2>2. decoder_floor <= decoder_floor'
    BY <1>1, <2>1
  <2>. QED  BY <1>2, <1>3, <1>4, <2>1, <2>2 DEF Flow
<1>9. CASE Reserve
  <2>1. PICK k \in 1 .. Len(held) : ReserveWake(k)
    BY <1>9 DEF Reserve
  <2>2. Accept(held, k) /\ PruneTo(next_expected') /\ UNCHANGED <<data, next_unreleased>>
    BY <2>1 DEF ReserveWake
  <2>3. Flow' = Flow /\ ChannelGrows
    BY <1>1, <2>2, AcceptAppends DEF Flow, ChannelGrows
  <2>4. next_expected' \in 0 .. N
    BY DEF IInv, TypeOK, ReceiverTypeOK
  <2>5. /\ received_seqs' \subseteq received_seqs /\ decoder_floor <= decoder_floor'
        /\ \A s \in received_seqs : s \in received_seqs' \/ s < decoder_floor'
    BY <1>1, <2>2, <2>4, PruneForgets
  <2>. QED  BY <1>2, <1>3, <2>2, <2>3, <2>5
<1>. QED  BY <1>5, <1>6, <1>7, <1>8, <1>9

-----------------------------------------------------------------------------
(***************************************************************************)
(* The theorems.                                                           *)
(***************************************************************************)

(* Initially nothing was emitted, retained or given to the consumer.       *)
LEMMA InitStream == Init => StreamInv /\ Stream!StreamInit
<1> SUFFICES ASSUME Init
             PROVE  StreamInv /\ Stream!StreamInit
  OBVIOUS
<1>1. /\ IInv /\ N \in Nat
      /\ next_seq = 0 /\ data = {} /\ received_seqs = {} /\ next_unreleased = 0
      /\ tun_out = <<>> /\ held = <<>> /\ sent_store = {}
  BY InitInvariant, LinkAssumption DEF Init, LinkInit, SenderInit, ReceiverInit
<1>2. Flow = <<>> /\ DOMAIN Flow = {} /\ SeqSet(Flow) = {}
  <2>1. <<>> \in Seq(Packets) /\ <<>> \o <<>> = <<>>
    BY EmptySeq, ConcatEmptySeq
  <2>2. Flow = <<>>
    BY <1>1, <2>1 DEF Flow
  <2>. QED  BY <2>2 DEF SeqSet
<1>3. PacketsOf(0 .. next_unreleased - 1) = {}
  BY <1>1 DEF PacketsOf
<1>4. OnlyEmitted
  <2>1. next_unreleased <= next_seq
    BY <1>1
  <2>. QED  BY <1>1, <1>2, <2>1 DEF OnlyEmitted
<1>5. FlowPassed /\ FlowOnce
  BY <1>2 DEF FlowPassed, FlowOnce
<1>6. FlowInOrder
  BY <1>2, <1>3 DEF FlowInOrder
<1>. QED  BY <1>1, <1>4, <1>5, <1>6 DEF StreamInv, Stream!StreamInit

(* Every step preserves the invariant and is a step of the stream or none. *)
LEMMA NextStream ==
    StreamInv /\ [Next]_vars => StreamInv' /\ [Stream!StreamNext]_Stream!streamVars
<1> SUFFICES ASSUME StreamInv, [Next]_vars
             PROVE  StreamInv' /\ [Stream!StreamNext]_Stream!streamVars
  OBVIOUS
<1>1. /\ IInv' /\ decoder_floor \in 0 .. N /\ next_seq \in 0 .. N /\ data \subseteq Emitted
  BY NextInvariant DEF StreamInv, OnlyEmitted, IInv, TypeOK, ReceiverTypeOK, SenderTypeOK
<1>2. ASSUME data' \subseteq data, UNCHANGED <<recvVars, next_seq, sent_store>>
      PROVE  StreamInv' /\ UNCHANGED Stream!streamVars
  <2>1. /\ UNCHANGED <<next_unreleased, received_seqs, decoder_floor, tun_out, held>>
    BY <1>2 DEF recvVars
  <2>2. data' \subseteq 0 .. next_seq' - 1 /\ next_seq <= next_seq'
        /\ decoder_floor <= decoder_floor'
    BY <1>1, <1>2, <2>1 DEF Emitted
  <2>. QED  BY <1>1, <1>2, <2>1, <2>2, NothingHandedOn DEF Flow, Stream!streamVars
<1>3. CASE UNCHANGED vars
  BY <1>2, <1>3 DEF vars, linkVars, sendVars
<1>4. CASE DatagramLost
  <2>1. data' \subseteq data
    BY <1>4 DEF DatagramLost, Lose, LoseSource, LoseRepair, LoseAck, TakeRepair
  <2>. QED  BY <1>2, <1>4, <2>1 DEF DatagramLost, sendVars
<1>5. CASE AckArrives
  BY <1>2, <1>5 DEF AckArrives, ReceiveAck
<1>6. CASE Drain
  BY <1>2, <1>6 DEF Drain, DrainSack, linkVars
<1>7. CASE Emit \/ Flush \/ Nack \/ Poll \/ Input \/ Sweep
  BY <1>1, <1>7, IterationStream DEF Stream!StreamNext
<1>8. CASE SourceArrives \/ RepairArrives \/ ReceiverWaits \/ Refresh \/ Reserve \/ Consume
  <2>1. StreamInv' /\ ChannelGrows /\ UNCHANGED <<next_seq, sent_store>>
    BY <1>1, <1>8, ReceiverStream
  <2>. QED  BY <2>1, GrowthIsGiven DEF Stream!StreamNext
<1>. QED  BY <1>3, <1>4, <1>5, <1>6, <1>7, <1>8 DEF Next

(* The extended invariant holds in every reachable state.                  *)
THEOREM StreamInvariance == Spec => []StreamInv
BY InitStream, NextStream, PTL DEF Spec

(* InOrder: without the out-of-order corner the consumer is given the      *)
(* TUN's packets from the first on, none skipped, none twice, whatever is  *)
(* lost, reordered, duplicated or decoded early.                           *)
THEOREM ConsumerSeesOrder == Spec => []InOrder
<1>1. StreamInv => InOrder
  <2> SUFFICES ASSUME StreamInv, ~Ooo, NEW i \in DOMAIN tun_out
               PROVE  tun_out[i] = i - 1
    BY DEF InOrder
  <2>1. tun_out \in Seq(Packets) /\ held \in Seq(Packets)
    BY DEF StreamInv, IInv, TypeOK, ReceiverTypeOK
  <2>2. i \in DOMAIN Flow /\ Flow[i] = tun_out[i]
    <3>1. i \in 1 .. Len(tun_out)
      BY <2>1
    <3>. QED  BY <2>1, <3>1, ConcatProperties DEF Flow
  <2>. QED  BY <2>2 DEF StreamInv, FlowInOrder
<1>. QED  BY <1>1, StreamInvariance, PTL

(* ImplementsStream: the window, with its store, its acks, its hold and    *)
(* its decoder, is a reliable stream: every step maps to the sender taking *)
(* or letting go of symbols, to the consumer being given packets it did    *)
(* not have, or to no step.                                                *)
THEOREM WindowImplementsStream == Spec => ImplementsStream
BY InitStream, NextStream, PTL DEF Spec, ImplementsStream, Stream!StreamSpec

-----------------------------------------------------------------------------
(***************************************************************************)
(* The counts, and the gate that reads them.                               *)
(***************************************************************************)
From(S, a) == {s \in S : s >= a}

-----------------------------------------------------------------------------
(***************************************************************************)
(* Counting sets of sequence numbers.                                      *)
(***************************************************************************)

(* A set of sequence numbers is finite.                                    *)
LEMMA SeqsCount ==
    ASSUME NEW S \in SUBSET Seqs
    PROVE  IsFiniteSet(S) /\ Cardinality(S) \in Nat
<1>1. IsFiniteSet(Seqs)
  BY FS_Interval, LinkAssumption DEF Seqs
<1>. QED  BY <1>1, FS_Subset, FS_CardinalityType

(* Splitting a set at a point splits its count.                            *)
LEMMA SplitCount ==
    ASSUME NEW S \in SUBSET Seqs, NEW a \in Nat, NEW b \in Nat, a <= b
    PROVE  /\ Cardinality(From(S, a)) \in Nat /\ Cardinality(From(S, b)) \in Nat
           /\ Cardinality({s \in S : a <= s /\ s < b}) \in Nat
           /\ Cardinality(From(S, a)) =
                 Cardinality({s \in S : a <= s /\ s < b}) + Cardinality(From(S, b))
<1> DEFINE low == {s \in S : a <= s /\ s < b}
<1>1. \A s \in S : s \in Int
  BY DEF Seqs
<1>2. /\ low \in SUBSET Seqs /\ From(S, a) \in SUBSET Seqs /\ From(S, b) \in SUBSET Seqs
      /\ From(S, a) = low \cup From(S, b) /\ low \cap From(S, b) = {}
  BY <1>1 DEF From
<1>. HIDE DEF low
<1>3. /\ IsFiniteSet(low) /\ Cardinality(low) \in Nat
      /\ IsFiniteSet(From(S, b)) /\ Cardinality(From(S, b)) \in Nat
      /\ Cardinality(From(S, a)) \in Nat
  BY <1>2, SeqsCount
<1>4. Cardinality(low \cup From(S, b)) = Cardinality(low) + Cardinality(From(S, b)) - Cardinality({})
  BY <1>2, <1>3, FS_Union
<1>5. Cardinality({}) = 0
  BY FS_EmptySet
<1>. QED  BY <1>2, <1>3, <1>4, <1>5 DEF low

(* An interval's count.                                                    *)
LEMMA IntervalCount ==
    ASSUME NEW a \in Int, NEW b \in Int
    PROVE  IsFiniteSet(a .. b - 1) /\ Cardinality(a .. b - 1) = Monus(b, a)
<1>1. b - 1 \in Int
  OBVIOUS
<1>2. /\ IsFiniteSet(a .. b - 1)
      /\ Cardinality(a .. b - 1) = IF a > b - 1 THEN 0 ELSE (b - 1) - a + 1
  BY <1>1, FS_Interval
<1>. QED  BY <1>2 DEF Monus

(* Between two points there are no more sequence numbers than the distance.*)
LEMMA BetweenCount ==
    ASSUME NEW S \in SUBSET Seqs, NEW a \in Nat, NEW b \in Nat, a <= b
    PROVE  Cardinality({s \in S : a <= s /\ s < b}) <= b - a
<1> DEFINE low == {s \in S : a <= s /\ s < b}
<1>1. low \subseteq a .. b - 1
  <2>1. \A s \in S : s \in Int
    BY DEF Seqs
  <2>. QED  BY <2>1
<1>2. IsFiniteSet(a .. b - 1) /\ Cardinality(a .. b - 1) = b - a
  BY IntervalCount DEF Monus
<1>. HIDE DEF low
<1>3. Cardinality(low) <= Cardinality(a .. b - 1)
  BY <1>1, <1>2, FS_Subset
<1>. QED  BY <1>2, <1>3 DEF low

(* ReceivedAbove::sync turns the count above one frontier into the count   *)
(* above another, when the first is right.                                 *)
LEMMA AboveSyncExact ==
    ASSUME NEW S \in SUBSET Seqs, NEW f \in Nat, NEW e \in Nat
    PROVE  above_sync(S, f, Cardinality(From(S, f)), e) = Cardinality(From(S, e))
<1>1. CASE e > f
  <2>0. f <= e
    BY <1>1
  <2>1. /\ Cardinality(From(S, f)) \in Nat /\ Cardinality(From(S, e)) \in Nat
        /\ Cardinality({s \in S : f <= s /\ s < e}) \in Nat
        /\ Cardinality(From(S, f)) =
              Cardinality({s \in S : f <= s /\ s < e}) + Cardinality(From(S, e))
    BY <2>0, SplitCount
  <2>2. above_sync(S, f, Cardinality(From(S, f)), e) =
           Monus(Cardinality(From(S, f)), Cardinality({s \in S : f <= s /\ s < e}))
    BY <1>1 DEF above_sync
  <2>. QED  BY <2>1, <2>2 DEF Monus
<1>2. CASE ~(e > f)
  <2>0. e <= f
    BY <1>2
  <2>1. Cardinality(From(S, e)) =
           Cardinality({s \in S : e <= s /\ s < f}) + Cardinality(From(S, f))
        /\ Cardinality({s \in S : e <= s /\ s < f}) \in Nat
        /\ Cardinality(From(S, f)) \in Nat
    BY <2>0, SplitCount
  <2>2. above_sync(S, f, Cardinality(From(S, f)), e) =
           Cardinality(From(S, f)) + Cardinality({s \in S : e <= s /\ s < f})
    BY <1>2 DEF above_sync
  <2>. QED  BY <2>1, <2>2
<1>. QED  BY <1>1, <1>2

(* Moving the frontier up costs the count no more than the distance.       *)
LEMMA MeasureGrows ==
    ASSUME NEW S \in SUBSET Seqs, NEW T \in SUBSET Seqs, NEW a \in Nat, NEW b \in Nat,
           a <= b, From(S, b) \subseteq T
    PROVE  a + Cardinality(From(S, a)) <= b + Cardinality(From(T, b))
<1>1. /\ Cardinality(From(S, a)) \in Nat /\ Cardinality(From(S, b)) \in Nat
      /\ Cardinality({s \in S : a <= s /\ s < b}) \in Nat
      /\ Cardinality(From(S, a)) =
            Cardinality({s \in S : a <= s /\ s < b}) + Cardinality(From(S, b))
  BY SplitCount
<1>2. Cardinality({s \in S : a <= s /\ s < b}) <= b - a
  BY BetweenCount
<1>3. Cardinality(From(S, b)) <= Cardinality(From(T, b)) /\ Cardinality(From(T, b)) \in Nat
  <2>1. From(S, b) \subseteq From(T, b) /\ From(T, b) \in SUBSET Seqs
    BY DEF From
  <2>. QED  BY <2>1, SeqsCount, FS_Subset
<1>. QED  BY <1>1, <1>2, <1>3

(* The gate in closed form, for a store that retains all from `prev` on.   *)
LEMMA GateIs ==
    ASSUME NEW prev \in Nat, NEW top \in Nat, prev <= top, NEW k \in Nat,
           NEW r \in AboveReport, r.next_expected <= top
    PROVE  store_gate_released(prev .. top - 1, k, r) =
              Smaller(top - prev, Larger(k, Monus(r.next_expected + r.received_above, prev)))
<1> DEFINE store == prev .. top - 1
           f == r.next_expected
           below == {s \in store : s < f}
<1>1. f \in Nat /\ r.received_above \in Nat /\ f <= top
  BY LinkAssumption DEF AboveReport
<1>2. IsFiniteSet(store) /\ Cardinality(store) = top - prev
  BY IntervalCount DEF Monus
<1>3. CASE prev = top
  <2>1. Cardinality(store) = 0
    BY <1>2, <1>3
  <2>2. above_released(store, r) = 0
    BY <1>3 DEF above_released
  <2>. QED  BY <1>1, <1>3, <2>1, <2>2 DEF store_gate_released, Smaller, Larger, Monus
<1>4. CASE prev < top
  <2>1. last_seq(store) + 1 = top
    <3>1. top - 1 \in Nat /\ top - 1 \in store /\ store \in SUBSET (0 .. top - 1)
      <4>1. \A s \in prev .. top - 1 : s \in 0 .. top - 1
        OBVIOUS
      <4>. QED  BY <1>4, <4>1
    <3>2. last_seq(store) \in store /\ \A s \in store : s <= last_seq(store)
      BY <3>1, LastSeqIsLast
    <3>3. last_seq(store) \in prev .. top - 1 /\ top - 1 <= last_seq(store)
      BY <3>1, <3>2
    <3>. QED  BY <3>3
  <2>2. Cardinality(below) = Monus(f, prev)
    <3>1. below = prev .. f - 1
      <4>. HIDE DEF f
      <4>. QED  BY <1>1
    <3>. HIDE DEF f, below
    <3>2. Cardinality(prev .. f - 1) = Monus(f, prev)
      BY <1>1, IntervalCount
    <3>. QED  BY <3>1, <3>2
  <2>3. above_released(store, r) =
           Cardinality(below)
              + Monus(r.received_above,
                      Monus(Monus(last_seq(store) + 1, f), Cardinality(store) - Cardinality(below)))
    BY <1>4 DEF above_released
  <2>. HIDE DEF store, below, f
  <2>4. above_released(store, r) = Monus(f + r.received_above, prev)
    BY <1>1, <1>2, <1>4, <2>1, <2>2, <2>3 DEF Monus, f
  <2>. QED  BY <1>1, <1>2, <2>4 DEF store_gate_released, store, f
<1>. QED  BY <1>3, <1>4

-----------------------------------------------------------------------------
(***************************************************************************)
(* What extends the stream's invariant.                                    *)
(***************************************************************************)

CountOf(a) == [next_expected |-> a.next_expected, received_above |-> a.received_above]

(* The count reports on the wire, queued at the sender and folded.         *)
Counts == {CountOf(a) : a \in acks \cup Queued(sack_rx)} \cup {above_report}

(* How many symbols a report stands for, from the first on.                *)
Measure(c) == c.next_expected + c.received_above

ReceivedMeasure == next_expected + Cardinality(From(received_seqs, next_expected))

(* No report stands for more than the receiver has, and of two reports the *)
(* one with the higher cumulative point stands for no less.                *)
CountsTruthful ==
    /\ \A c \in Counts : c.next_expected <= next_expected /\ Measure(c) <= ReceivedMeasure
    /\ \A c, d \in Counts : c.next_expected < d.next_expected => Measure(c) <= Measure(d)

(* What is retained is all that was emitted since the ack applied last.    *)
StoreIsInterval == sent_store = prev_ack .. next_seq - 1

(* While the packer holds a partial symbol there is room for it.           *)
CapKept ==
    /\ OutstandingBounded
    /\ packer_pending => Outstanding(sent_store) <= StoreCap

GateInv ==
    /\ StreamInv
    /\ AboveExact
    /\ CountsTruthful
    /\ StoreIsInterval
    /\ CapKept

-----------------------------------------------------------------------------
(***************************************************************************)
(* The receiver's count and its reports.                                   *)
(***************************************************************************)

(* What a receiver's step may add to the reports: the count at the point   *)
(* it moved to.                                                            *)
ReportAdded ==
    Counts' \subseteq Counts \cup
        {[next_expected  |-> next_expected',
          received_above |-> Cardinality(From(received_seqs', next_expected'))]}

(* An ack with the count at the cumulative point adds that report.         *)
LEMMA AckAddsReport ==
    ASSUME NEW a, acks' \subseteq acks \cup {a}, UNCHANGED <<sack_rx, above_report>>,
           a.next_expected = next_expected',
           a.received_above = Cardinality(From(received_seqs', next_expected'))
    PROVE  ReportAdded
BY DEF ReportAdded, Counts, CountOf, Queued

(* A data message keeps the count right and reports it.                    *)
LEMMA EmissionCounts ==
    ASSUME TypeOK, AboveExact, NEW R \in SUBSET Seqs, \A s \in R : s \notin received_seqs,
           received_seqs' = received_seqs \cup R, next_expected' \in 0 .. N,
           highest_seen_seq' \in Seqs, NEW floor_elapsed \in BOOLEAN,
           window_ack_emission({s \in R \ received_seqs : s >= recv_above.frontier}, floor_elapsed),
           UNCHANGED <<sack_rx, above_report>>
    PROVE  AboveExact' /\ ReportAdded
<1> DEFINE newly == {s \in R \ received_seqs : s >= recv_above.frontier}
           count == recv_above.count + Cardinality(newly)
           above == above_sync(received_seqs', recv_above.frontier, count, next_expected')
           advertise == \/ next_expected' > last_advertised_ack
                        \/ /\ seen_end' > next_expected'
                           /\ highest_seen_seq' > last_gap_ack_seen
                           /\ floor_elapsed
           sacked == IF advertise
                     THEN received_sack_ranges(received_seqs', next_expected',
                                               highest_seen_seq', MaxSackRanges)
                     ELSE {}
           ack == [next_expected |-> next_expected', received_above |-> above, sacked |-> sacked]
<1>1. /\ recv_above.frontier \in Nat /\ recv_above \in [frontier : 0 .. N, count : Nat]
      /\ received_seqs \in SUBSET Seqs /\ received_seqs' \in SUBSET Seqs
      /\ next_expected' \in Nat /\ acks \subseteq WindowAck
  BY LinkAssumption DEF TypeOK, ReceiverTypeOK, LinkTypeOK
<1>2. count = Cardinality(From(received_seqs', recv_above.frontier))
  <2>1. /\ From(received_seqs', recv_above.frontier) = From(received_seqs, recv_above.frontier) \cup newly
        /\ From(received_seqs, recv_above.frontier) \cap newly = {}
    BY DEF From
  <2>2. /\ newly \in SUBSET Seqs /\ From(received_seqs, recv_above.frontier) \in SUBSET Seqs
    BY <1>1 DEF From
  <2>. HIDE DEF newly
  <2>3. /\ IsFiniteSet(newly) /\ Cardinality(newly) \in Nat
        /\ IsFiniteSet(From(received_seqs, recv_above.frontier))
        /\ Cardinality(From(received_seqs, recv_above.frontier)) \in Nat
    BY <2>2, SeqsCount
  <2>4. Cardinality(From(received_seqs, recv_above.frontier) \cup newly) =
           Cardinality(From(received_seqs, recv_above.frontier)) + Cardinality(newly) - Cardinality({})
    BY <2>1, <2>3, FS_Union
  <2>5. recv_above.count = Cardinality(From(received_seqs, recv_above.frontier))
    BY DEF AboveExact, From
  <2>6. Cardinality({}) = 0
    BY FS_EmptySet
  <2>7. count = Cardinality(From(received_seqs, recv_above.frontier)) + Cardinality(newly)
    BY <2>5
  <2>8. Cardinality(From(received_seqs', recv_above.frontier)) =
           Cardinality(From(received_seqs, recv_above.frontier) \cup newly)
    BY <2>1
  <2>. HIDE DEF count
  <2>. QED  BY <2>3, <2>4, <2>6, <2>7, <2>8
<1>3. above = Cardinality(From(received_seqs', next_expected'))
  BY <1>1, <1>2, AboveSyncExact
<1>4. IF advertise \/ AckMerge
      THEN SendAck(ack) /\ recv_above' = [frontier |-> next_expected', count |-> above]
      ELSE recv_above' = [recv_above EXCEPT !.count = count] /\ UNCHANGED acks
  BY Zenon DEF window_ack_emission
<1>5. ack \in WindowAck
  <2>1. above \in Nat
    <3>1. From(received_seqs', next_expected') \in SUBSET Seqs
      BY <1>1 DEF From
    <3>. QED  BY <1>3, <3>1, SeqsCount
  <2>2. sacked \subseteq Seqs
    BY <1>1 DEF received_sack_ranges, FirstRuns
  <2>. HIDE DEF above, sacked
  <2>. QED  BY <2>1, <2>2 DEF WindowAck
<1>6. /\ ack.next_expected = next_expected'
      /\ ack.received_above = Cardinality(From(received_seqs', next_expected'))
  <2>. HIDE DEF above, sacked
  <2>. QED  BY <1>3
<1>. HIDE DEF ack, above, count, advertise
<1>7. CASE advertise \/ AckMerge
  <2>1. acks' \subseteq acks \cup {ack}
    BY <1>1, <1>4, <1>5, <1>7, SendAckAdds
  <2>2. ReportAdded
    BY <1>6, <2>1, AckAddsReport
  <2>3. recv_above'.count = Cardinality(From(received_seqs', recv_above'.frontier))
    BY <1>3, <1>4, <1>7
  <2>. QED  BY <2>2, <2>3 DEF AboveExact, From
<1>8. CASE ~(advertise \/ AckMerge)
  <2>1. recv_above'.count = count /\ recv_above'.frontier = recv_above.frontier /\ acks' = acks
    BY <1>1, <1>4, <1>8
  <2>2. ReportAdded
    BY <2>1 DEF ReportAdded, Counts, Queued
  <2>. QED  BY <1>2, <2>1, <2>2 DEF AboveExact, From
<1>. QED  BY <1>7, <1>8

(* Pruning keeps the count right: nothing it forgets is above the point.   *)
LEMMA PruneCounts ==
    ASSUME TypeOK, AboveExact, NEW point \in 0 .. N, PruneTo(point)
    PROVE  /\ AboveExact'
           /\ From(received_seqs, point) \subseteq received_seqs'
           /\ recv_above'.count = Cardinality(From(received_seqs', point))
<1> DEFINE inert == decode_inert_floor(point, WinCap)
           above == above_sync(received_seqs, recv_above.frontier, recv_above.count, point)
<1>1. /\ recv_above.frontier \in Nat /\ received_seqs \in SUBSET Seqs /\ point \in Nat
  BY LinkAssumption DEF TypeOK, ReceiverTypeOK
<1>2. /\ recv_above' = [frontier |-> point, count |-> above]
      /\ received_seqs' = {s \in received_seqs : s >= inert}
  BY DEF PruneTo
<1>3. inert \in 0 .. point
  BY <1>1, ReceiverAssumption DEF decode_inert_floor, Monus
<1>4. recv_above.count = Cardinality(From(received_seqs, recv_above.frontier))
  BY DEF AboveExact, From
<1>5. above = Cardinality(From(received_seqs, point))
  BY <1>1, <1>4, AboveSyncExact
<1>. HIDE DEF inert, above
<1>6. /\ From(received_seqs, point) \subseteq received_seqs'
      /\ From(received_seqs', point) = From(received_seqs, point)
  <2>1. \A s \in received_seqs : s \in Int
    BY <1>1 DEF Seqs
  <2>. QED  BY <1>1, <1>2, <1>3, <2>1 DEF From
<1>7. recv_above'.count = Cardinality(From(received_seqs', recv_above'.frontier))
  BY <1>2, <1>5, <1>6
<1>. QED  BY <1>2, <1>6, <1>7 DEF AboveExact, From

(* A data message.                                                         *)
LEMMA DataMessageCounts ==
    ASSUME IInv, AboveExact, NEW R \in SUBSET Seqs, \A s \in R : fresh(s),
           NEW floor_elapsed \in BOOLEAN, DataMessage(R, floor_elapsed),
           UNCHANGED sendVars, IInv'
    PROVE  /\ AboveExact' /\ ReportAdded /\ next_expected <= next_expected'
           /\ received_seqs \subseteq received_seqs'
<1>1. TypeOK /\ next_expected' \in 0 .. N /\ highest_seen_seq' \in Seqs
  BY DEF IInv, TypeOK, ReceiverTypeOK, Seqs
<1>2. PICK packets \in Deliverable(R) :
           \E k \in 0 .. Len(held \o packets) : Recovered(R, packets, k)
  BY DEF DataMessage
<1>3. PICK k \in 0 .. Len(held \o packets) : Recovered(R, packets, k)
  BY <1>2
<1>4. received_seqs' = received_seqs \cup R
  BY <1>3 DEF Recovered
<1>5. next_expected <= next_expected'
  <2>1. next_expected' \in next_expected .. Frontier(R)
    BY <1>3, RecoveredAdvances
  <2>2. Frontier(R) \in next_unreleased .. N
    BY FrontierEndsRun
  <2>3. next_expected \in 0 .. N /\ next_unreleased \in 0 .. N /\ N \in Nat
    BY <1>1, LinkAssumption DEF TypeOK, ReceiverTypeOK
  <2>. QED  BY <2>1, <2>2, <2>3
<1>6. window_ack_emission({s \in R \ received_seqs : s >= recv_above.frontier}, floor_elapsed)
  BY DEF DataMessage
<1>7. (\A s \in R : s \notin received_seqs) /\ UNCHANGED <<sack_rx, above_report>>
  BY DEF fresh, sendVars
<1>. QED  BY <1>1, <1>4, <1>5, <1>6, <1>7, EmissionCounts

(* Every receiver's step.                                                  *)
LEMMA ReceiverCounts ==
    ASSUME GateInv, IInv',
           SourceArrives \/ RepairArrives \/ ReceiverWaits \/ Refresh \/ Reserve \/ Consume
    PROVE  /\ AboveExact' /\ ReportAdded /\ next_expected <= next_expected'
           /\ From(received_seqs, next_expected') \subseteq received_seqs'
<1>1. /\ IInv /\ AboveExact /\ TypeOK /\ ReceiverTypeOK /\ N \in Nat
      /\ next_expected \in 0 .. N /\ next_expected' \in 0 .. N
      /\ received_seqs \in SUBSET Seqs /\ data \subseteq Emitted /\ acks \subseteq WindowAck
      /\ recv_above.frontier \in Nat
  <2>1. IInv /\ IInv' /\ AboveExact /\ data \subseteq Emitted /\ TypeOK
    BY DEF GateInv, StreamInv, OnlyEmitted, IInv
  <2>2. /\ ReceiverTypeOK /\ N \in Nat /\ acks \subseteq WindowAck
        /\ next_expected \in 0 .. N /\ received_seqs \in SUBSET Seqs
        /\ recv_above \in [frontier : 0 .. N, count : Nat]
    BY <2>1, LinkAssumption DEF TypeOK, ReceiverTypeOK, LinkTypeOK
  <2>3. next_expected' \in 0 .. N
    BY <2>1 DEF IInv, TypeOK, ReceiverTypeOK
  <2>. QED  BY <2>1, <2>2, <2>3
<1>2. UNCHANGED sendVars
  BY DEF SourceArrives, RepairArrives, ReceiverWaits, Refresh, Reserve, Consume
<1>3. ASSUME NEW R \in SUBSET Emitted, \A s \in R : fresh(s),
             NEW floor_elapsed \in BOOLEAN, DataMessage(R, floor_elapsed)
      PROVE  /\ AboveExact' /\ ReportAdded /\ next_expected <= next_expected'
             /\ From(received_seqs, next_expected') \subseteq received_seqs'
  <2>1. R \in SUBSET Seqs
    <3>1. next_seq \in 0 .. N
      BY <1>1 DEF TypeOK, SenderTypeOK
    <3>2. \A s \in 0 .. next_seq - 1 : s \in 0 .. N - 1
      BY <1>1, <3>1
    <3>. QED  BY <3>2 DEF Emitted, Seqs
  <2>2. /\ AboveExact' /\ ReportAdded /\ next_expected <= next_expected'
        /\ received_seqs \subseteq received_seqs'
    BY <1>1, <1>2, <1>3, <2>1, DataMessageCounts
  <2>. QED  BY <2>2 DEF From
<1>4. CASE SourceArrives
  <2>1. PICK s \in data, C \in SUBSET Emitted, another \in BOOLEAN, floor_elapsed \in BOOLEAN :
             ReceiveSource(s, another, C, floor_elapsed)
    BY <1>4 DEF SourceArrives
  <2>2. \A c \in C : fresh(c)
    BY <2>1 DEF ReceiveSource
  <2>3. CASE fresh(s)
    <3>1. {s} \cup C \in SUBSET Emitted /\ \A r \in {s} \cup C : fresh(r)
      BY <1>1, <2>2, <2>3
    <3>. QED  BY <1>3, <2>1, <2>3, <3>1 DEF ReceiveSource
  <2>4. CASE ~fresh(s)
    BY <1>3, <2>1, <2>4 DEF ReceiveSource
  <2>. QED  BY <2>3, <2>4
<1>5. CASE RepairArrives
  <2>1. PICK C \in SUBSET Emitted, floor_elapsed \in BOOLEAN : ReceiveRepair(C, floor_elapsed)
    BY <1>5 DEF RepairArrives
  <2>. QED  BY <1>3, <2>1 DEF ReceiveRepair
<1>6. CASE ReceiverWaits
  <2>1. PruneTo(next_expected) /\ UNCHANGED <<next_expected, acks>>
    BY <1>6 DEF ReceiverWaits, Wait, linkVars
  <2>2. AboveExact' /\ From(received_seqs, next_expected) \subseteq received_seqs'
    BY <1>1, <2>1, PruneCounts
  <2>3. ReportAdded
    BY <1>2, <2>1 DEF ReportAdded, Counts, Queued, sendVars
  <2>. QED  BY <1>1, <2>1, <2>2, <2>3
<1>7. CASE Refresh
  <2> DEFINE above == above_sync(received_seqs, recv_above.frontier, recv_above.count, next_expected)
             ranges == received_sack_ranges(received_seqs, next_expected,
                                            highest_seen_seq, MaxSackRanges)
             ack == [next_expected |-> next_expected, received_above |-> above, sacked |-> ranges]
  <2>1. /\ SendAck(ack) /\ recv_above' = [frontier |-> next_expected, count |-> above]
        /\ UNCHANGED <<received_seqs, next_expected>>
    BY <1>7, Zenon DEF Refresh, HoleRefresh
  <2>2. above = Cardinality(From(received_seqs, next_expected))
    <3>1. recv_above.count = Cardinality(From(received_seqs, recv_above.frontier))
      BY <1>1 DEF AboveExact, From
    <3>2. next_expected \in Nat
      BY <1>1
    <3>. QED  BY <1>1, <3>1, <3>2, AboveSyncExact
  <2>3. ranges \subseteq Seqs
    BY <1>1 DEF received_sack_ranges, FirstRuns
  <2>4. above \in Nat
    <3>1. From(received_seqs, next_expected) \in SUBSET Seqs
      BY <1>1 DEF From
    <3>. QED  BY <2>2, <3>1, SeqsCount
  <2>. HIDE DEF above, ranges
  <2>5. ack \in WindowAck
    BY <1>1, <2>3, <2>4 DEF WindowAck
  <2>6. /\ ack.next_expected = next_expected'
        /\ ack.received_above = Cardinality(From(received_seqs', next_expected'))
    BY <2>1, <2>2
  <2>. HIDE DEF ack
  <2>7. ReportAdded
    BY <1>1, <1>2, <2>1, <2>5, <2>6, SendAckAdds, AckAddsReport DEF sendVars
  <2>8. AboveExact'
    <3>1. recv_above'.count = Cardinality(From(received_seqs', recv_above'.frontier))
      BY <2>1, <2>2
    <3>. QED  BY <3>1 DEF AboveExact, From
  <2>. QED  BY <1>1, <2>1, <2>7, <2>8 DEF From
<1>8. CASE Reserve
  <2>1. PICK k \in 1 .. Len(held) : ReserveWake(k)
    BY <1>8 DEF Reserve
  <2> DEFINE ack == [next_expected |-> next_expected', received_above |-> recv_above'.count,
                     sacked |-> {}]
  <2>2. /\ PruneTo(next_expected')
        /\ next_expected' = Larger(next_expected, delivered_prefix(next_unreleased, HeldSeqs(held')))
        /\ IF next_expected' > last_advertised_ack THEN SendAck(ack) ELSE UNCHANGED acks
    BY <2>1, Zenon DEF ReserveWake
  <2>3. /\ AboveExact'
        /\ From(received_seqs, next_expected') \subseteq received_seqs'
        /\ recv_above'.count = Cardinality(From(received_seqs', next_expected'))
    BY <1>1, <2>2, PruneCounts
  <2>4. ack \in WindowAck
    <3>1. recv_above'.count \in Nat
      BY DEF IInv, TypeOK, ReceiverTypeOK
    <3>. QED  BY <1>1, <3>1 DEF WindowAck
  <2>5. /\ ack.next_expected = next_expected'
        /\ ack.received_above = Cardinality(From(received_seqs', next_expected'))
    BY <2>3
  <2>. HIDE DEF ack
  <2>6. acks' \subseteq acks \cup {ack}
    BY <1>1, <2>2, <2>4, SendAckAdds
  <2>7. ReportAdded
    BY <1>2, <2>5, <2>6, AckAddsReport DEF sendVars
  <2>8. next_expected <= next_expected'
    <3>1. next_expected' \in Int /\ next_expected \in Int
      BY <1>1
    <3>. QED  BY <2>2, <3>1 DEF Larger
  <2>. QED  BY <2>3, <2>7, <2>8
<1>9. CASE Consume
  <2>1. UNCHANGED <<received_seqs, recv_above, next_expected, acks>>
    BY <1>9 DEF Consume, ConsumerTake, linkVars
  <2>2. AboveExact' /\ ReportAdded
    BY <1>1, <1>2, <2>1 DEF AboveExact, ReportAdded, Counts, Queued, sendVars
  <2>. QED  BY <1>1, <2>1, <2>2 DEF From
<1>. QED  BY <1>4, <1>5, <1>6, <1>7, <1>8, <1>9

-----------------------------------------------------------------------------
(***************************************************************************)
(* The reports and the gate.                                               *)
(***************************************************************************)

(* The reports are counts.                                                 *)
LEMMA CountsTyped ==
    ASSUME LinkTypeOK, SenderTypeOK
    PROVE  \A c \in Counts : /\ c \in AboveReport
                             /\ c.next_expected \in Nat /\ c.received_above \in Nat
<1>1. acks \subseteq WindowAck /\ above_report \in AboveReport /\ N \in Nat
  BY LinkAssumption DEF LinkTypeOK, SenderTypeOK
<1>2. Queued(sack_rx) \subseteq WindowAck
  BY DEF SenderTypeOK, Queued
<1>. QED  BY <1>1, <1>2 DEF Counts, CountOf, WindowAck, AboveReport

(* A step that adds at most the receiver's own count keeps the reports     *)
(* truthful.                                                               *)
LEMMA ReportsStayTruthful ==
    ASSUME IInv, IInv', CountsTruthful, next_expected <= next_expected',
           From(received_seqs, next_expected') \subseteq received_seqs', ReportAdded
    PROVE  CountsTruthful'
<1> DEFINE new == [next_expected  |-> next_expected',
                   received_above |-> Cardinality(From(received_seqs', next_expected'))]
<1>1. /\ next_expected \in Nat /\ next_expected' \in Nat
      /\ received_seqs \in SUBSET Seqs /\ received_seqs' \in SUBSET Seqs
  <2>1. next_expected \in 0 .. N /\ next_expected' \in 0 .. N /\ N \in Nat
        /\ received_seqs \in SUBSET Seqs /\ received_seqs' \in SUBSET Seqs
    BY LinkAssumption DEF IInv, TypeOK, ReceiverTypeOK, Seqs
  <2>. QED  BY <2>1
<1>2. \A c \in Counts : c.next_expected \in Nat /\ c.received_above \in Nat
  BY CountsTyped DEF IInv, TypeOK
<1>3. /\ ReceivedMeasure \in Nat /\ ReceivedMeasure' \in Nat
      /\ Cardinality(From(received_seqs', next_expected')) \in Nat
      /\ ReceivedMeasure' = next_expected' + Cardinality(From(received_seqs', next_expected'))
  <2>1. /\ From(received_seqs, next_expected) \in SUBSET Seqs
        /\ From(received_seqs', next_expected') \in SUBSET Seqs
    BY <1>1 DEF From
  <2>2. /\ Cardinality(From(received_seqs, next_expected)) \in Nat
        /\ Cardinality(From(received_seqs', next_expected')) \in Nat
    BY <2>1, SeqsCount
  <2>3. ReceivedMeasure' = next_expected' + Cardinality(From(received_seqs', next_expected'))
    BY DEF ReceivedMeasure, From
  <2>. QED  BY <1>1, <2>2, <2>3 DEF ReceivedMeasure
<1>4. ReceivedMeasure <= ReceivedMeasure'
  BY <1>1, <1>3, MeasureGrows DEF ReceivedMeasure
<1>5. new.next_expected = next_expected' /\ Measure(new) = ReceivedMeasure'
  BY <1>3 DEF Measure
<1>6. \A c \in Counts' : c \in Counts \/ c = new
  BY DEF ReportAdded
<1>. HIDE DEF new
<1>7. \A c \in Counts : Measure(c) \in Nat
  BY <1>2 DEF Measure
<1>8. /\ \A c \in Counts : c.next_expected <= next_expected /\ Measure(c) <= ReceivedMeasure
      /\ \A c, d \in Counts : c.next_expected < d.next_expected => Measure(c) <= Measure(d)
  BY DEF CountsTruthful
<1>9. ASSUME NEW c \in Counts'
      PROVE  c.next_expected <= next_expected' /\ Measure(c) <= ReceivedMeasure'
  <2>1. CASE c \in Counts
    BY <1>1, <1>2, <1>3, <1>4, <1>7, <1>8, <2>1
  <2>2. CASE c = new
    BY <1>1, <1>3, <1>5, <2>2
  <2>. QED  BY <1>6, <2>1, <2>2
<1>10. ASSUME NEW c \in Counts', NEW d \in Counts', c.next_expected < d.next_expected
       PROVE  Measure(c) <= Measure(d)
  <2>1. CASE d = new
    BY <1>5, <1>9, <2>1
  <2>2. CASE d \in Counts
    <3>1. d.next_expected <= next_expected
      BY <1>8, <2>2
    <3>2. c # new
      BY <1>1, <1>2, <1>5, <1>10, <2>2, <3>1
    <3>. QED  BY <1>6, <1>8, <1>10, <2>2, <3>2
  <2>. QED  BY <1>6, <2>1, <2>2
<1>. QED  BY <1>9, <1>10 DEF CountsTruthful, Measure

(* What the gate leaves outstanding, for a store that is an interval.      *)
LEMMA OutstandingIs ==
    ASSUME NEW prev \in Nat, NEW top \in Nat, prev <= top, NEW k \in Nat,
           NEW r \in AboveReport, r.next_expected <= top
    PROVE  sack_release_outstanding(prev .. top - 1, k, r) =
              Monus(top, Larger(prev + k, Measure(r)))
<1>1. store_gate_released(prev .. top - 1, k, r) =
         Smaller(top - prev, Larger(k, Monus(Measure(r), prev)))
  BY GateIs DEF Measure
<1>2. Cardinality(prev .. top - 1) = top - prev
  BY IntervalCount DEF Monus
<1>3. Measure(r) \in Nat
  BY LinkAssumption DEF AboveReport, Measure
<1>4. sack_release_outstanding(prev .. top - 1, k, r) =
         Monus(top - prev, Smaller(top - prev, Larger(k, Monus(Measure(r), prev))))
  BY <1>1, <1>2 DEF sack_release_outstanding
<1>. QED  BY <1>3, <1>4 DEF Monus, Smaller, Larger

(* Below this no emitted symbol is outstanding.                            *)
Covered == Larger(prev_ack + Cardinality(sack_released), Measure(above_report))

(* The sender's counters as naturals, in order.                            *)
LEMMA SenderPoints ==
    ASSUME StreamInv, CountsTruthful
    PROVE  /\ prev_ack \in Nat /\ next_seq \in Nat /\ prev_ack <= next_seq
           /\ window_ack_seq \in Nat /\ prev_ack <= window_ack_seq /\ window_ack_seq <= next_seq
           /\ next_expected \in Nat /\ window_ack_seq <= next_expected /\ next_expected <= next_seq
           /\ sack_released \in SUBSET Seqs
           /\ IsFiniteSet(sack_released) /\ Cardinality(sack_released) \in Nat
           /\ above_report \in AboveReport /\ above_report.next_expected <= next_seq
           /\ Measure(above_report) \in Nat /\ Covered \in Nat
<1>1. /\ prev_ack \in 0 .. N /\ next_seq \in 0 .. N /\ window_ack_seq \in 0 .. N /\ N \in Nat
      /\ next_expected \in 0 .. N /\ next_unreleased \in 0 .. N
      /\ above_report \in AboveReport /\ sack_released \in SUBSET Seqs
  BY LinkAssumption DEF StreamInv, IInv, TypeOK, SenderTypeOK, ReceiverTypeOK
<1>2. /\ prev_ack <= window_ack_seq /\ window_ack_seq <= next_expected
      /\ next_expected <= next_unreleased /\ next_unreleased <= next_seq
  BY DEF StreamInv, OnlyEmitted, IInv, AcksTrail, ReleasedKept
<1>3. above_report.next_expected <= next_expected
  BY DEF CountsTruthful, Counts
<1>4. above_report.next_expected \in Nat /\ above_report.received_above \in Nat
  BY <1>1 DEF AboveReport
<1>5. IsFiniteSet(sack_released) /\ Cardinality(sack_released) \in Nat
  BY <1>1, SeqsCount
<1>6. Measure(above_report) \in Nat
  BY <1>4 DEF Measure
<1>7. Covered \in Nat
  BY <1>1, <1>5, <1>6 DEF Covered, Larger
<1>. QED  BY <1>1, <1>2, <1>3, <1>4, <1>5, <1>6, <1>7

(* The gate's count with m more symbols.                                   *)
LEMMA OutstandingWith ==
    ASSUME StreamInv, CountsTruthful, StoreIsInterval, NEW m \in Nat
    PROVE  Outstanding(sent_store \cup NewSymbols(m)) = Monus(next_seq + m, Covered)
<1>1. /\ prev_ack \in Nat /\ next_seq \in Nat /\ prev_ack <= next_seq
      /\ Cardinality(sack_released) \in Nat
      /\ above_report \in AboveReport /\ above_report.next_expected <= next_seq
      /\ above_report.next_expected \in Int
  BY SenderPoints DEF AboveReport
<1>2. sent_store \cup NewSymbols(m) = prev_ack .. (next_seq + m) - 1
  BY <1>1 DEF StoreIsInterval, NewSymbols
<1>3. /\ next_seq + m \in Nat /\ prev_ack <= next_seq + m
      /\ above_report.next_expected <= next_seq + m
  BY <1>1
<1>4. sack_release_outstanding(prev_ack .. (next_seq + m) - 1, Cardinality(sack_released), above_report)
         = Monus(next_seq + m, Covered)
  BY <1>1, <1>3, OutstandingIs DEF Covered
<1>. QED  BY <1>2, <1>4 DEF Outstanding

(* What is outstanding.                                                    *)
LEMMA OutstandingNow ==
    StreamInv /\ CountsTruthful /\ StoreIsInterval =>
        /\ Outstanding(sent_store) = Monus(next_seq, Covered)
        /\ next_seq \in Nat /\ Covered \in Nat
<1> SUFFICES ASSUME StreamInv, CountsTruthful, StoreIsInterval
             PROVE  /\ Outstanding(sent_store) = Monus(next_seq, Covered)
                    /\ next_seq \in Nat /\ Covered \in Nat
  OBVIOUS
<1>1. next_seq \in Nat /\ Covered \in Nat
  BY SenderPoints
<1>2. Outstanding(sent_store \cup NewSymbols(0)) = Monus(next_seq + 0, Covered)
  BY OutstandingWith
<1>3. sent_store \cup NewSymbols(0) = sent_store /\ next_seq + 0 = next_seq
  BY <1>1 DEF NewSymbols
<1>. QED  BY <1>1, <1>2, <1>3

(* The same of the next state.                                             *)
LEMMA OutstandingNext ==
    (StreamInv /\ CountsTruthful /\ StoreIsInterval)' =>
        (/\ Outstanding(sent_store) = Monus(next_seq, Covered)
         /\ next_seq \in Nat /\ Covered \in Nat)'
BY OutstandingNow, PTL

(* A difference grows no faster than its first term.                       *)
LEMMA MonusGrows ==
    ASSUME NEW a \in Nat, NEW n \in Nat, NEW c \in Nat, NEW d \in Nat, c <= d
    PROVE  /\ Monus(a + n, d) \in Nat /\ Monus(a, c) \in Nat
           /\ Monus(a + n, d) <= Monus(a, c) + n
           /\ n > 0 => Monus(a + n, d) <= Monus(a + (n - 1), c) + 1
BY DEF Monus

(* A step of the sender that covers no less and emits n symbols has at     *)
(* most n more outstanding.                                                *)
LEMMA OutstandingGrows ==
    ASSUME GateInv, StreamInv', CountsTruthful', StoreIsInterval',
           NEW n \in Nat, next_seq' = next_seq + n, Covered <= Covered'
    PROVE  /\ Outstanding(sent_store)' \in Nat /\ Outstanding(sent_store) \in Nat
           /\ n > 0 => Outstanding(sent_store)' <=
                          Outstanding(sent_store \cup NewSymbols(n - 1)) + 1
           /\ Outstanding(sent_store)' <= Outstanding(sent_store) + n
<1>1. /\ Outstanding(sent_store) = Monus(next_seq, Covered)
      /\ next_seq \in Nat /\ Covered \in Nat
  BY OutstandingNow DEF GateInv
<1>2. /\ Outstanding(sent_store)' = Monus(next_seq', Covered')
      /\ next_seq' \in Nat /\ Covered' \in Nat
  BY OutstandingNext
<1>3. ASSUME n > 0
      PROVE  Outstanding(sent_store \cup NewSymbols(n - 1)) = Monus(next_seq + (n - 1), Covered)
  <2>1. n - 1 \in Nat
    BY <1>3
  <2>. QED  BY <2>1, OutstandingWith DEF GateInv
<1>4. /\ Monus(next_seq', Covered') \in Nat /\ Monus(next_seq, Covered) \in Nat
      /\ Monus(next_seq', Covered') <= Monus(next_seq, Covered) + n
      /\ n > 0 => Monus(next_seq', Covered') <= Monus(next_seq + (n - 1), Covered) + 1
  <2>1. next_seq' = next_seq + n /\ Covered <= Covered'
    OBVIOUS
  <2>. QED  BY <1>1, <1>2, <2>1, MonusGrows
<1>. QED  BY <1>1, <1>2, <1>3, <1>4

-----------------------------------------------------------------------------
(***************************************************************************)
(* The sender's steps.                                                     *)
(***************************************************************************)

(* The end of an iteration keeps the store an interval, and its prune      *)
(* takes no more marks away than it moves the ack up.                      *)
LEMMA IterationCovers ==
    ASSUME GateInv, NEW n \in Nat, NEW swept, NEW resent \in SUBSET sent_store,
           FinishIteration(n, swept, resent), UNCHANGED recvVars
    PROVE  /\ StoreIsInterval' /\ Counts' = Counts
           /\ next_seq' = next_seq + n
           /\ Covered <= Covered'
<1>1. /\ prev_ack \in Nat /\ next_seq \in Nat /\ window_ack_seq \in Nat
      /\ prev_ack <= window_ack_seq /\ window_ack_seq <= next_seq
      /\ sack_released \in SUBSET Seqs /\ Cardinality(sack_released) \in Nat
      /\ Measure(above_report) \in Nat
  BY SenderPoints DEF GateInv
<1>2. /\ next_seq' = next_seq + n /\ prev_ack' = Larger(prev_ack, window_ack_seq)
      /\ UNCHANGED <<above_report, sack_rx, acks>>
  BY DEF FinishIteration
<1>3. prev_ack' = window_ack_seq
  BY <1>1, <1>2 DEF Larger
<1>4. sent_store \cup NewSymbols(n) = prev_ack .. (next_seq + n) - 1
  BY <1>1 DEF GateInv, StoreIsInterval, NewSymbols
<1>5. \/ /\ window_ack_seq > prev_ack
         /\ sent_store' = {s \in sent_store \cup NewSymbols(n) : s >= window_ack_seq}
         /\ sack_released' = {s \in sack_released : s >= window_ack_seq}
      \/ /\ window_ack_seq = prev_ack
         /\ sent_store' = sent_store \cup NewSymbols(n)
         /\ sack_released' = sack_released
  BY <1>1 DEF FinishIteration
<1>6. StoreIsInterval'
  <2>1. sent_store' = {s \in prev_ack .. (next_seq + n) - 1 : s >= window_ack_seq}
    BY <1>1, <1>4, <1>5
  <2>2. {s \in prev_ack .. (next_seq + n) - 1 : s >= window_ack_seq}
           = window_ack_seq .. (next_seq + n) - 1
    BY <1>1
  <2>. QED  BY <1>2, <1>3, <2>1, <2>2 DEF StoreIsInterval
<1>7. Counts' = Counts
  BY <1>2 DEF Counts, Queued
<1>8. \A s \in sack_released : s \in Int /\ prev_ack <= s
  <2>1. sack_released \subseteq prev_ack .. next_seq - 1
    BY DEF GateInv, StreamInv, IInv, MarksSound, StoreIsInterval
  <2>. QED  BY <1>1, <2>1
<1>9. /\ From(sack_released, prev_ack) = sack_released
      /\ From(sack_released, window_ack_seq) = sack_released'
      /\ From(sack_released', window_ack_seq) = sack_released'
      /\ sack_released' \in SUBSET Seqs
  BY <1>1, <1>5, <1>8 DEF From
<1>10. prev_ack + Cardinality(sack_released) <= window_ack_seq + Cardinality(sack_released')
  <2>1. From(sack_released, window_ack_seq) \subseteq sack_released'
    BY <1>9
  <2>2. prev_ack + Cardinality(From(sack_released, prev_ack))
           <= window_ack_seq + Cardinality(From(sack_released', window_ack_seq))
    BY <1>1, <1>9, <2>1, MeasureGrows
  <2>. QED  BY <1>9, <2>2
<1>11. Covered <= Covered'
  <2>1. /\ prev_ack + Cardinality(sack_released) \in Nat
        /\ prev_ack' + Cardinality(sack_released') \in Nat
    <3>1. Cardinality(sack_released') \in Nat
      BY <1>9, SeqsCount
    <3>. QED  BY <1>1, <1>3, <3>1
  <2>2. prev_ack + Cardinality(sack_released) <= prev_ack' + Cardinality(sack_released')
    BY <1>3, <1>10
  <2>3. Covered' = Larger(prev_ack' + Cardinality(sack_released'), Measure(above_report))
    BY <1>2 DEF Covered, Measure
  <2>. QED  BY <1>1, <2>1, <2>2, <2>3 DEF Covered, Larger
<1>. QED  BY <1>2, <1>6, <1>7, <1>11

(* A sender's iteration keeps the gate's invariant when what it emits does *)
(* not take the outstanding count over the cap.                            *)
LEMMA IterationGate ==
    ASSUME GateInv, StreamInv', NEW n \in Nat, NEW swept, NEW resent \in SUBSET sent_store,
           FinishIteration(n, swept, resent), UNCHANGED recvVars,
           (/\ Outstanding(sent_store)' \in Nat
            /\ Outstanding(sent_store)' <= Outstanding(sent_store) + n
            /\ n > 0 => (Outstanding(sent_store)' <=
                            Outstanding(sent_store \cup NewSymbols(n - 1)) + 1)) => CapKept'
    PROVE  GateInv'
<1>1. /\ StoreIsInterval' /\ Counts' = Counts
      /\ next_seq' = next_seq + n /\ Covered <= Covered'
  BY IterationCovers
<1>2. AboveExact' /\ CountsTruthful'
  BY <1>1 DEF GateInv, AboveExact, CountsTruthful, ReceivedMeasure, From, recvVars
<1>3. CapKept'
  BY <1>1, <1>2, OutstandingGrows
<1>. QED  BY <1>1, <1>2, <1>3 DEF GateInv

(* A step of a sender's iteration.                                         *)
LEMMA SenderGate ==
    ASSUME GateInv, StreamInv', Emit \/ Flush \/ Nack \/ Poll \/ Input \/ Sweep
    PROVE  GateInv'
<1>1. /\ UNCHANGED recvVars
      /\ Outstanding(sent_store) \in Nat /\ StoreCap \in Nat /\ EmitBurst \in Nat
      /\ Outstanding(sent_store) <= StoreCap + (IF Packing THEN 1 ELSE 0)
      /\ packer_pending => Outstanding(sent_store) <= StoreCap /\ Packing
      /\ Packing \in BOOLEAN
  <2>1. Outstanding(sent_store) \in Nat
    BY OutstandingNow DEF GateInv, Monus
  <2>2. packer_pending => Packing
    BY DEF GateInv, StreamInv, IInv, PackerHasRoom
  <2>3. UNCHANGED recvVars
    BY DEF Emit, Flush, Nack, Poll, Input, Sweep
  <2>. QED  BY <2>1, <2>2, <2>3, SenderAssumption DEF GateInv, CapKept, OutstandingBounded
<1>2. ASSUME NEW swept, NEW resent \in SUBSET sent_store, FinishIteration(0, swept, resent),
             UNCHANGED packer_pending
      PROVE  GateInv'
  <2>1. Outstanding(sent_store)' \in Nat /\ Outstanding(sent_store)' <= Outstanding(sent_store) + 0
           => CapKept'
    BY <1>1, <1>2 DEF CapKept, OutstandingBounded
  <2>2. 0 \in Nat
    OBVIOUS
  <2>. QED  BY <1>1, <1>2, <2>1, <2>2, IterationGate
<1>3. CASE Emit
  <2>1. PICK n \in 0 .. EmitBurst, resent \in SUBSET sent_store : EmitArm(n, resent)
    BY <1>3 DEF Emit
  <2>2. n \in Nat /\ FinishIteration(n, TaperCopy(n), resent) /\ Outstanding(sent_store) < StoreCap
    BY <1>1, <2>1 DEF EmitArm, tx_paused
  <2>3. CASE Packing
    <3>1. n \in 0 .. 1
      BY <2>1, <2>3 DEF EmitArm
    <3>2. Outstanding(sent_store)' \in Nat /\ Outstanding(sent_store)' <= Outstanding(sent_store) + n
             => CapKept'
      BY <1>1, <2>2, <2>3, <3>1 DEF CapKept, OutstandingBounded
    <3>. QED  BY <1>1, <2>2, <3>2, IterationGate
  <2>4. CASE ~Packing
    <3>1. /\ n > 0 /\ UNCHANGED packer_pending
          /\ \A m \in 1 .. n - 1 : Outstanding(sent_store \cup NewSymbols(m)) < StoreCap
      BY <2>1, <2>2, <2>4 DEF EmitArm
    <3>2. Outstanding(sent_store \cup NewSymbols(n - 1)) \in Nat
          /\ Outstanding(sent_store \cup NewSymbols(n - 1)) < StoreCap
      <4>1. n - 1 \in Nat /\ Outstanding(sent_store \cup NewSymbols(n - 1)) \in Nat
        <5>1. n - 1 \in Nat
          BY <2>2, <3>1
        <5>2. Outstanding(sent_store \cup NewSymbols(n - 1)) = Monus(next_seq + (n - 1), Covered)
          BY <5>1, OutstandingWith DEF GateInv
        <5>3. next_seq \in Nat /\ Covered \in Nat
          BY OutstandingNow DEF GateInv
        <5>. QED  BY <5>1, <5>2, <5>3 DEF Monus
      <4>2. CASE n = 1
        <5>1. sent_store \cup NewSymbols(n - 1) = sent_store
          <6>1. next_seq \in Nat
            BY OutstandingNow DEF GateInv
          <6>. QED  BY <4>2, <6>1 DEF NewSymbols
        <5>. QED  BY <2>2, <4>1, <5>1
      <4>3. CASE n > 1
        <5>1. n - 1 \in 1 .. n - 1
          BY <2>2, <4>3
        <5>. QED  BY <3>1, <4>1, <5>1
      <4>. QED  BY <2>2, <3>1, <4>2, <4>3
    <3>3. Outstanding(sent_store)' \in Nat
          /\ Outstanding(sent_store)' <= Outstanding(sent_store \cup NewSymbols(n - 1)) + 1
             => CapKept'
      BY <1>1, <2>4, <3>1, <3>2 DEF CapKept, OutstandingBounded
    <3>. QED  BY <1>1, <2>2, <3>1, <3>3, IterationGate
  <2>. QED  BY <2>3, <2>4
<1>4. CASE Flush
  <2>1. PICK resent \in SUBSET sent_store : PackerFlush(resent)
    BY <1>4 DEF Flush
  <2>2. packer_pending /\ packer_pending' = FALSE /\ FinishIteration(1, TaperCopy(1), resent)
    BY <2>1 DEF PackerFlush
  <2>3. Outstanding(sent_store)' \in Nat /\ Outstanding(sent_store)' <= Outstanding(sent_store) + 1
           => CapKept'
    BY <1>1, <2>2 DEF CapKept, OutstandingBounded
  <2>4. 1 \in Nat
    OBVIOUS
  <2>. QED  BY <1>1, <2>2, <2>3, <2>4, IterationGate
<1>5. CASE Nack
  BY <1>2, <1>5 DEF Nack, NackArm
<1>6. CASE Poll
  BY <1>2, <1>6 DEF Poll, PollArm
<1>7. CASE Input
  BY <1>2, <1>7 DEF Input, InputDone
<1>8. CASE Sweep
  BY <1>2, <1>8 DEF Sweep, TailArm
<1>. QED  BY <1>3, <1>4, <1>5, <1>6, <1>7, <1>8

(* The SACK drain folds a report of the higher measure and marks more.     *)
LEMMA DrainGate ==
    ASSUME GateInv, StreamInv', Drain
    PROVE  GateInv'
<1> DEFINE counts == {above_report} \cup
                     {[next_expected |-> r.next_expected,
                       received_above |-> r.received_above] : r \in Queued(sack_rx)}
<1>1. /\ above_report' = CHOOSE r \in counts : \A q \in counts :
                            above_fold(r, q.next_expected, q.received_above) = r
      /\ sack_released \subseteq sack_released'
      /\ sack_rx' = <<>>
      /\ UNCHANGED <<next_seq, packer_pending, sent_store, prev_ack, acks, recvVars>>
  BY DEF Drain, DrainSack, linkVars
<1>2. counts \subseteq Counts
  BY DEF Counts, CountOf
<1>3. /\ LinkTypeOK /\ SenderTypeOK /\ above_report \in counts
      /\ \A c \in Counts : /\ c \in AboveReport
                           /\ c.next_expected \in Nat /\ c.received_above \in Nat
  <2>1. LinkTypeOK /\ SenderTypeOK
    BY DEF GateInv, StreamInv, IInv, TypeOK
  <2>. QED  BY <2>1, CountsTyped
<1>4. /\ above_report' \in counts
      /\ above_fold(above_report', above_report.next_expected, above_report.received_above)
            = above_report'
  <2>1. IsFiniteSet(counts)
    BY <1>3, QueueFinite
  <2>2. counts \in SUBSET AboveReport /\ counts # {}
    BY <1>2, <1>3
  <2>. HIDE DEF counts
  <2>3. \E r \in counts : \A q \in counts :
           above_fold(r, q.next_expected, q.received_above) = r
    BY <2>1, <2>2, NewestReport
  <2>. QED  BY <1>1, <1>3, <2>3
<1>. HIDE DEF counts
<1>5. Measure(above_report) <= Measure(above_report')
  <2>1. above_report \in Counts /\ above_report' \in Counts
    BY <1>2, <1>3, <1>4
  <2>2. /\ above_report.next_expected \in Nat /\ above_report.received_above \in Nat
        /\ above_report'.next_expected \in Nat /\ above_report'.received_above \in Nat
    BY <1>3, <2>1
  <2>3. CASE above_report.next_expected < above_report'.next_expected
    BY <2>1, <2>3 DEF GateInv, CountsTruthful
  <2>4. CASE ~(above_report.next_expected < above_report'.next_expected)
    <3>1. \/ above_report' = [next_expected |-> above_report.next_expected,
                              received_above |-> above_report.received_above]
          \/ /\ ~(above_report.next_expected > above_report'.next_expected)
             /\ ~(/\ above_report.next_expected = above_report'.next_expected
                  /\ above_report.received_above > above_report'.received_above)
      BY <1>4 DEF above_fold
    <3>. QED  BY <2>2, <2>4, <3>1 DEF Measure
  <2>. QED  BY <2>3, <2>4
<1>6. /\ StoreIsInterval' /\ AboveExact'
      /\ Counts' \subseteq Counts
  <2>1. Queued(sack_rx)' = {}
    BY <1>1 DEF Queued
  <2>2. above_report' \in Counts
    BY <1>2, <1>4
  <2>. QED  BY <1>1, <2>1, <2>2 DEF GateInv, StoreIsInterval, AboveExact, Counts, recvVars
<1>7. CountsTruthful'
  BY <1>1, <1>6 DEF GateInv, CountsTruthful, ReceivedMeasure, recvVars, From, Measure
<1>8. Covered <= Covered'
  <2>1. /\ prev_ack \in Nat /\ Cardinality(sack_released) \in Nat
        /\ Measure(above_report) \in Nat /\ Cardinality(sack_released') \in Nat
        /\ Measure(above_report') \in Nat
        /\ Cardinality(sack_released) <= Cardinality(sack_released')
    <3>1. sack_released' \in SUBSET Seqs
      BY DEF StreamInv, IInv, TypeOK, SenderTypeOK
    <3>2. IsFiniteSet(sack_released') /\ Cardinality(sack_released') \in Nat
      BY <3>1, SeqsCount
    <3>3. Measure(above_report') \in Nat
      BY <1>2, <1>3, <1>4 DEF Measure
    <3>4. Cardinality(sack_released) <= Cardinality(sack_released')
      BY <1>1, <3>2, FS_Subset
    <3>. QED  BY <3>2, <3>3, <3>4, SenderPoints DEF GateInv
  <2>2. prev_ack' = prev_ack
    BY <1>1
  <2>3. Covered' = Larger(prev_ack + Cardinality(sack_released'), Measure(above_report'))
    BY <2>2 DEF Covered, Measure
  <2>. QED  BY <1>5, <2>1, <2>3 DEF Covered, Larger
<1>9. CapKept'
  <2>1. /\ Outstanding(sent_store)' \in Nat /\ Outstanding(sent_store) \in Nat
        /\ Outstanding(sent_store)' <= Outstanding(sent_store) + 0
    <3>1. next_seq' = next_seq + 0 /\ 0 \in Nat
      BY <1>1, SenderPoints DEF GateInv
    <3>. QED  BY <1>6, <1>7, <1>8, <3>1, OutstandingGrows
  <2>2. StoreCap \in Nat
    BY SenderAssumption
  <2>. QED  BY <1>1, <2>1, <2>2 DEF GateInv, CapKept, OutstandingBounded
<1>. QED  BY <1>6, <1>7, <1>9 DEF GateInv

(* A receiver's step keeps the reports truthful and the store as it is.    *)
LEMMA ReceiverGate ==
    ASSUME GateInv, StreamInv',
           SourceArrives \/ RepairArrives \/ ReceiverWaits \/ Refresh \/ Reserve \/ Consume
    PROVE  GateInv'
<1>1. IInv /\ IInv' /\ CountsTruthful
  BY DEF GateInv, StreamInv
<1>2. /\ AboveExact' /\ ReportAdded /\ next_expected <= next_expected'
      /\ From(received_seqs, next_expected') \subseteq received_seqs'
  BY <1>1, ReceiverCounts
<1>3. CountsTruthful'
  BY <1>1, <1>2, ReportsStayTruthful
<1>4. UNCHANGED sendVars
  BY DEF SourceArrives, RepairArrives, ReceiverWaits, Refresh, Reserve, Consume
<1>5. StoreIsInterval' /\ CapKept'
  BY <1>4 DEF GateInv, StoreIsInterval, CapKept, OutstandingBounded, Outstanding, sendVars
<1>. QED  BY <1>2, <1>3, <1>5 DEF GateInv

(* A step that leaves the gate's and the receiver's state alone and adds   *)
(* no report.                                                              *)
LEMMA QuietGate ==
    ASSUME GateInv, StreamInv', Counts' \subseteq Counts,
           UNCHANGED <<next_seq, packer_pending, sent_store, sack_released, above_report,
                       prev_ack, recvVars>>
    PROVE  GateInv'
<1>1. AboveExact' /\ CountsTruthful'
  BY DEF GateInv, AboveExact, CountsTruthful, ReceivedMeasure, From, Measure, recvVars
<1>2. StoreIsInterval' /\ CapKept'
  BY DEF GateInv, StoreIsInterval, CapKept, OutstandingBounded, Outstanding
<1>. QED  BY <1>1, <1>2 DEF GateInv

(* An ack that arrives is queued as the report it was on the wire.         *)
LEMMA AckGate ==
    ASSUME GateInv, StreamInv', AckArrives
    PROVE  GateInv'
<1>1. PICK a \in acks, another \in BOOLEAN : ReceiveAck(a, another)
  BY DEF AckArrives
<1>2. /\ acks' \subseteq acks
      /\ UNCHANGED <<next_seq, packer_pending, sent_store, sack_released, above_report,
                     prev_ack, recvVars>>
  BY <1>1 DEF ReceiveAck, TakeAck, AckArrives
<1>3. \A r \in Queued(sack_rx)' : r \in acks \cup Queued(sack_rx)
  <2>1. sack_rx' = sack_rx \/ sack_rx' = Append(sack_rx, a)
    BY <1>1 DEF ReceiveAck, on_window_ack
  <2>2. sack_rx \in Seq(WindowAck) /\ a \in WindowAck
    BY DEF GateInv, StreamInv, IInv, TypeOK, SenderTypeOK, LinkTypeOK
  <2>. QED  BY <2>1, <2>2 DEF Queued
<1>4. Counts' \subseteq Counts
  BY <1>2, <1>3 DEF Counts
<1>. QED  BY <1>2, <1>4, QuietGate

-----------------------------------------------------------------------------
(***************************************************************************)
(* The theorems.                                                           *)
(***************************************************************************)

(* Initially nothing is counted, reported or retained.                     *)
LEMMA InitGate == Init => GateInv
<1> SUFFICES ASSUME Init
             PROVE  GateInv
  OBVIOUS
<1>1. StreamInv
  BY InitStream
<1>2. /\ next_seq = 0 /\ prev_ack = 0 /\ sent_store = {} /\ sack_released = {}
      /\ packer_pending = FALSE /\ acks = {} /\ sack_rx = <<>>
      /\ above_report = [next_expected |-> 0, received_above |-> 0]
      /\ next_expected = 0 /\ received_seqs = {} /\ recv_above = [frontier |-> 0, count |-> 0]
  BY DEF Init, LinkInit, SenderInit, ReceiverInit
<1>3. Cardinality({}) = 0
  BY FS_EmptySet
<1>4. AboveExact
  <2>1. {s \in received_seqs : s >= recv_above.frontier} = {}
    BY <1>2
  <2>. QED  BY <1>2, <1>3, <2>1 DEF AboveExact
<1>5. CountsTruthful
  <2>1. Queued(sack_rx) = {}
    BY <1>2 DEF Queued
  <2>2. Counts = {[next_expected |-> 0, received_above |-> 0]}
    BY <1>2, <2>1 DEF Counts
  <2>3. From(received_seqs, next_expected) = {}
    BY <1>2 DEF From
  <2>4. ReceivedMeasure = 0
    <3>1. next_expected = 0 /\ Cardinality(From(received_seqs, next_expected)) = 0
      BY <1>2, <1>3, <2>3
    <3>. QED  BY <3>1 DEF ReceivedMeasure
  <2>. QED  BY <1>2, <2>2, <2>4 DEF CountsTruthful, Measure
<1>6. StoreIsInterval
  BY <1>2 DEF StoreIsInterval
<1>7. CapKept
  <2>1. Outstanding(sent_store) = Monus(next_seq, Covered) /\ Covered \in Nat
    BY <1>1, <1>5, <1>6, OutstandingNow
  <2>2. Outstanding(sent_store) = 0
    BY <1>2, <2>1 DEF Monus
  <2>. QED  BY <1>2, <2>2, SenderAssumption DEF CapKept, OutstandingBounded
<1>. QED  BY <1>1, <1>4, <1>5, <1>6, <1>7 DEF GateInv

(* Every step preserves the invariant.                                     *)
LEMMA NextGate == GateInv /\ [Next]_vars => GateInv'
<1> SUFFICES ASSUME GateInv, [Next]_vars
             PROVE  GateInv'
  OBVIOUS
<1>1. StreamInv'
  BY NextStream DEF GateInv
<1>2. CASE UNCHANGED vars
  <2>1. Counts' \subseteq Counts
    BY <1>2 DEF Counts, Queued, vars, linkVars, sendVars
  <2>. QED  BY <1>1, <1>2, <2>1, QuietGate DEF vars, sendVars
<1>3. CASE DatagramLost
  <2>1. acks' \subseteq acks
    BY <1>3 DEF DatagramLost, Lose, LoseSource, LoseRepair, LoseAck, TakeRepair, TakeAck
  <2>2. Counts' \subseteq Counts
    BY <1>3, <2>1 DEF DatagramLost, Counts, Queued, sendVars
  <2>. QED  BY <1>1, <1>3, <2>2, QuietGate DEF DatagramLost, sendVars
<1>4. CASE AckArrives
  BY <1>1, <1>4, AckGate
<1>5. CASE Drain
  BY <1>1, <1>5, DrainGate
<1>6. CASE Emit \/ Flush \/ Nack \/ Poll \/ Input \/ Sweep
  BY <1>1, <1>6, SenderGate
<1>7. CASE SourceArrives \/ RepairArrives \/ ReceiverWaits \/ Refresh \/ Reserve \/ Consume
  BY <1>1, <1>7, ReceiverGate
<1>. QED  BY <1>2, <1>3, <1>4, <1>5, <1>6, <1>7 DEF Next

(* The extended invariant holds in every reachable state.                  *)
THEOREM GateInvariance == Spec => []GateInv
BY InitGate, NextGate, PTL DEF Spec

(* AboveExact: through every recovery, prune and frontier move the         *)
(* receiver's incremental count is the number of symbols it has received   *)
(* at or above the frontier it was last moved to.                          *)
THEOREM AboveIsExact == Spec => []AboveExact
<1>1. GateInv => AboveExact
  BY DEF GateInv
<1>. QED  BY <1>1, GateInvariance, PTL

(* OutstandingBounded: the gate, the burst loop and the ungated flush      *)
(* together keep the outstanding count within one symbol of the cap,       *)
(* whatever order the reports and the cumulative acks come in.             *)
THEOREM OutstandingStaysBounded == Spec => []OutstandingBounded
<1>1. GateInv => OutstandingBounded
  BY DEF GateInv, CapKept
<1>. QED  BY <1>1, GateInvariance, PTL

(* GateSound: the gate reuses no more slots than the receiver has retained *)
(* symbols of, however late, reordered or lost the reports are.            *)
THEOREM GateIsSound == Spec => []GateSound
<1>1. GateInv => GateSound
  <2> SUFFICES ASSUME GateInv
               PROVE  GateSound
    OBVIOUS
  <2> DEFINE had == {s \in sent_store : Delivered(s)}
             above == From(received_seqs, next_expected)
             k == Cardinality(sack_released)
  <2>1. /\ prev_ack \in Nat /\ next_seq \in Nat /\ prev_ack <= next_seq
        /\ next_expected \in Nat /\ prev_ack <= next_expected /\ next_expected <= next_seq
        /\ sack_released \in SUBSET Seqs /\ k \in Nat
        /\ above_report \in AboveReport /\ above_report.next_expected <= next_seq
        /\ Measure(above_report) \in Nat
    BY SenderPoints DEF GateInv
  <2>2. /\ sent_store = prev_ack .. next_seq - 1 /\ sent_store \in SUBSET Seqs
        /\ received_seqs \in SUBSET Seqs /\ received_seqs \subseteq Emitted
        /\ MarksSound
    BY DEF GateInv, StoreIsInterval, StreamInv, OnlyEmitted, IInv, TypeOK, SenderTypeOK,
           ReceiverTypeOK
  <2>3. store_gate_released(sent_store, k, above_report) =
           Smaller(next_seq - prev_ack, Larger(k, Monus(Measure(above_report), prev_ack)))
    BY <2>1, <2>2, GateIs DEF Measure
  <2>4. IsFiniteSet(had) /\ Cardinality(had) \in Nat
    <3>1. had \in SUBSET Seqs
      BY <2>2
    <3>. QED  BY <3>1, SeqsCount
  <2>5. k <= Cardinality(had)
    <3>1. sack_released \subseteq had
      BY <2>2 DEF MarksSound
    <3>. QED  BY <2>4, <3>1, FS_Subset
  <2>6. (next_expected - prev_ack) + Cardinality(above) <= Cardinality(had)
    <3> DEFINE low == prev_ack .. next_expected - 1
    <3>1. IsFiniteSet(low) /\ Cardinality(low) = next_expected - prev_ack
      BY <2>1, IntervalCount DEF Monus
    <3>2. IsFiniteSet(above) /\ Cardinality(above) \in Nat
      <4>1. above \in SUBSET Seqs
        BY <2>2 DEF From
      <4>. QED  BY <4>1, SeqsCount
    <3>3. low \cup above \subseteq had /\ low \cap above = {}
      <4>1. ASSUME NEW s \in low
            PROVE  s \in had /\ s \notin above
        <5>1. s \in prev_ack .. next_seq - 1 /\ s < next_expected /\ ~(s >= next_expected)
          BY <2>1
        <5>. QED  BY <2>2, <5>1 DEF Delivered, From
      <4>2. ASSUME NEW s \in above
            PROVE  s \in had
        <5>1. s \in received_seqs /\ s \in 0 .. next_seq - 1 /\ s >= next_expected
          BY <2>2 DEF From, Emitted
        <5>2. s \in prev_ack .. next_seq - 1
          BY <2>1, <5>1
        <5>. QED  BY <2>2, <5>1, <5>2 DEF Delivered
      <4>. QED  BY <4>1, <4>2
    <3>. HIDE DEF low, above, had
    <3>4. Cardinality(low \cup above) = Cardinality(low) + Cardinality(above) - Cardinality({})
      BY <3>1, <3>2, <3>3, FS_Union
    <3>5. Cardinality(low \cup above) <= Cardinality(had)
      BY <2>4, <3>3, FS_Subset
    <3>. QED  BY <2>1, <3>1, <3>2, <3>4, <3>5, FS_EmptySet
  <2>7. Measure(above_report) <= next_expected + Cardinality(above) /\ Cardinality(above) \in Nat
    <3>1. above \in SUBSET Seqs
      BY <2>2 DEF From
    <3>2. above_report \in Counts
      BY DEF Counts
    <3>. QED  BY <3>1, <3>2, SeqsCount DEF GateInv, CountsTruthful, ReceivedMeasure
  <2>. HIDE DEF had, above, k
  <2>8. Smaller(next_seq - prev_ack, Larger(k, Monus(Measure(above_report), prev_ack)))
           <= Cardinality(had)
    BY <2>1, <2>4, <2>5, <2>6, <2>7 DEF Smaller, Larger, Monus
  <2>. QED  BY <2>3, <2>8 DEF GateSound, had, k
<1>. QED  BY <1>1, GateInvariance, PTL
=============================================================================
