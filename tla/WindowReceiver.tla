--------------------------- MODULE WindowReceiver ---------------------------
(***************************************************************************)
(* The receiver task of a reliable window (rho = 1): the decoder's         *)
(* recovered symbols, the in-order hold, the delivery into the consumer's  *)
(* bounded channel, and the WindowAcks it answers with.                    *)
(*                                                                         *)
(* A source symbol carries one TUN packet, or several when the sender      *)
(* packs.  Field algebra is abstracted: a coded symbol is an equation, and *)
(* each equation buffered or arriving may resolve at most one symbol that  *)
(* was emitted and is not yet recovered.                                   *)
(***************************************************************************)
EXTENDS WindowLink, Sequences

CONSTANTS
    PacketCount,    \* packets the N symbols carry, numbered in TUN order
    SymbolOf,       \* the symbol that carries each of them
    ChanCap,        \* capacity of the consumer (TUN inject) channel
    WinCap,         \* recv_win_cap, in symbols
    MaxSackRanges,  \* SACK ranges that fit one datagram
    Ooo,            \* recv_window_ooo: deliver each symbol when it decodes
    AckMerge        \* RWM_ACK_MERGE: one WindowAck for every data message

ASSUME ReceiverAssumption ==
    /\ PacketCount \in Nat
    /\ SymbolOf \in [0 .. PacketCount - 1 -> Seqs]
    /\ \A p, q \in 0 .. PacketCount - 1 : p < q => SymbolOf[p] <= SymbolOf[q]
    /\ \A s \in Seqs : \E p \in 0 .. PacketCount - 1 : SymbolOf[p] = s
    /\ ChanCap \in Nat \ {0}
    /\ WinCap \in Nat
    /\ MaxSackRanges \in Nat \ {0}
    /\ Ooo \in BOOLEAN
    /\ AckMerge \in BOOLEAN

VARIABLES
    waiting,          \* the drained batch is exhausted: at the select!
    received_seqs,    \* also the decoder's output set: both prune together
    decoder_floor,    \* RlcWindowDecoder::floor
    pivots,           \* bound on the equations the decoder buffers
    recv_above,       \* ReceivedAbove [frontier, count]
    highest_seen_seq, \* highest seq recovered (0 before any)
    seen_end,         \* one past it (0 before any)
    reorder_pending,  \* ReorderBuffer::pending, seqs
    next_unreleased,  \* next_deliver_seq of the hold, or ooo_frontier
    held,             \* packets WindowDelivery holds, in queue order
    tun_out,          \* history: packets the consumer channel accepted
    tun_taken,        \* how many of them the consumer has taken
    next_expected,
    last_advertised_ack,
    last_gap_ack_seen

recvVars == <<waiting, received_seqs, decoder_floor, pivots, recv_above,
              highest_seen_seq, seen_end, reorder_pending, next_unreleased,
              held, tun_out, tun_taken, next_expected, last_advertised_ack,
              last_gap_ack_seen>>

Packets == 0 .. PacketCount - 1

PacketsOf(S) == {p \in Packets : SymbolOf[p] \in S}

SeqSet(q) == {q[i] : i \in DOMAIN q}

ReceiverTypeOK ==
    /\ waiting \in BOOLEAN
    /\ received_seqs \subseteq Seqs
    /\ decoder_floor \in 0 .. N
    /\ pivots \in 0 .. MaxRepairs
    /\ recv_above \in [frontier : 0 .. N, count : Nat]
    /\ highest_seen_seq \in Seqs
    /\ seen_end \in 0 .. N
    /\ reorder_pending \subseteq Seqs
    /\ next_unreleased \in 0 .. N
    /\ held \in Seq(Packets)
    /\ tun_out \in Seq(Packets)
    /\ tun_taken \in 0 .. Len(tun_out)
    /\ Len(tun_out) - tun_taken <= ChanCap
    /\ next_expected \in 0 .. N
    /\ last_advertised_ack \in 0 .. N
    /\ last_gap_ack_seen \in Seqs

ReceiverInit ==
    /\ waiting = TRUE
    /\ received_seqs = {}
    /\ decoder_floor = 0
    /\ pivots = 0
    /\ recv_above = [frontier |-> 0, count |-> 0]
    /\ highest_seen_seq = 0
    /\ seen_end = 0
    /\ reorder_pending = {}
    /\ next_unreleased = 0
    /\ held = <<>>
    /\ tun_out = <<>>
    /\ tun_taken = 0
    /\ next_expected = 0
    /\ last_advertised_ack = 0
    /\ last_gap_ack_seen = 0

-----------------------------------------------------------------------------
(* Variant: a packet the consumer took does not give its permit back.      *)
RoomLeaked == Monus(ChanCap, Len(tun_out))

(***************************************************************************)
(* WindowDelivery::offer, flush and flush_with_permit: try_send of the     *)
(* queue's packets in order, until one finds the channel full.  The        *)
(* consumer is another task and may take packets between two try_sends, so *)
(* any number of packets from the room there was up to the whole queue can *)
(* be accepted.                                                            *)
(***************************************************************************)
Room == ChanCap - (Len(tun_out) - tun_taken)

(* Variant: packets are sent whether or not there is room for them.        *)
AcceptUnbounded(queue, k) ==
    /\ k = Len(queue)
    /\ tun_out' = tun_out \o queue
    /\ held' = <<>>
    /\ UNCHANGED tun_taken

Accept(queue, k) ==
    /\ k \in Smaller(Len(queue), Room) .. Len(queue)
    /\ tun_out' = tun_out \o SubSeq(queue, 1, k)
    /\ held' = SubSeq(queue, k + 1, Len(queue))
    /\ tun_taken' = Larger(tun_taken, Len(tun_out) + k - ChanCap)

HeldSeqs(queue) == {SymbolOf[p] : p \in SeqSet(queue)}

(***************************************************************************)
(* The end of the run of members of S that starts at `from`.               *)
(***************************************************************************)
RunEnd(S, from) ==
    CHOOSE e \in from .. N : e \notin S /\ \A s \in from .. e - 1 : s \in S

(***************************************************************************)
(* The packets of the symbols S, each symbol's together and in order, the  *)
(* symbols in any order; and all of them in order.                         *)
(***************************************************************************)
Arrangements(S) ==
    {w \in [1 .. Cardinality(PacketsOf(S)) -> PacketsOf(S)] :
        /\ SeqSet(w) = PacketsOf(S)
        /\ \A i, j \in DOMAIN w :
              SymbolOf[w[i]] = SymbolOf[w[j]] => w[j] - w[i] = j - i}

InSequence(S) ==
    {w \in Arrangements(S) : \A i, j \in DOMAIN w : i < j => w[i] < w[j]}

(***************************************************************************)
(* What the newly recovered symbols R hand to the consumer.  In order: the *)
(* hold releases its contiguous prefix, and a symbol below the prefix is   *)
(* passed on at once.  Out of order: every symbol as it decodes.           *)
(***************************************************************************)
Late(R) == {s \in R : s < next_unreleased}

Pending(R) == reorder_pending \cup (R \ Late(R))

Frontier(R) == RunEnd(IF Ooo THEN received_seqs \cup R ELSE Pending(R), next_unreleased)

Run(R) == next_unreleased .. Frontier(R) - 1

(* Variant: a symbol is handed on as it decodes, also when a hole precedes. *)
DeliverableUnheld(R) == Arrangements(R)

Deliverable(R) ==
    IF Ooo
    THEN Arrangements(R)
    ELSE {late \o run : late \in Arrangements(Late(R)), run \in InSequence(Run(R))}

Recovered(R, packets, k) ==
    LET top      == last_seq(R \cup {highest_seen_seq})
        released == IF packets = <<>> THEN next_expected
                                      ELSE Larger(next_expected, Frontier(R))
    IN  /\ IF packets = <<>>
           THEN k = 0 /\ UNCHANGED <<tun_out, held, tun_taken>>
           ELSE Accept(held \o packets, k)
        /\ received_seqs' = received_seqs \cup R
        /\ highest_seen_seq' = top
        /\ seen_end' = IF R = {} THEN seen_end ELSE top + 1
        /\ next_unreleased' = Frontier(R)
        /\ reorder_pending' = IF Ooo THEN {} ELSE {s \in Pending(R) : s >= Frontier(R)}
        /\ next_expected' =
              IF R = {} THEN next_expected
              ELSE IF Ooo
              THEN Larger(next_expected, delivered_prefix(Frontier(R), HeldSeqs(held')))
              ELSE delivered_prefix(released, HeldSeqs(held'))

(***************************************************************************)
(* The WindowAck of a data message.  `floor_elapsed`: GAP_ACK_MIN_INTERVAL *)
(* has passed since the last gap report.                                   *)
(***************************************************************************)
window_ack_emission(newly_above, floor_elapsed) ==
    LET cumulative_advanced == next_expected' > last_advertised_ack
        gap_report_due == /\ seen_end' > next_expected'
                          /\ highest_seen_seq' > last_gap_ack_seen
                          /\ floor_elapsed
        advertise == cumulative_advanced \/ gap_report_due
        count == recv_above.count + Cardinality(newly_above)
        above == above_sync(received_seqs', recv_above.frontier, count, next_expected')
        sacked == IF advertise
                  THEN received_sack_ranges(received_seqs', next_expected',
                                            highest_seen_seq', MaxSackRanges)
                  ELSE {}
    IN  IF advertise \/ AckMerge
        THEN /\ SendAck([next_expected |-> next_expected',
                         received_above |-> above, sacked |-> sacked])
             /\ recv_above' = [frontier |-> next_expected', count |-> above]
             /\ last_advertised_ack' = Larger(last_advertised_ack, next_expected')
             /\ last_gap_ack_seen' = IF advertise THEN highest_seen_seq'
                                                  ELSE last_gap_ack_seen
        ELSE /\ recv_above' = [recv_above EXCEPT !.count = count]
             /\ UNCHANGED <<acks, last_advertised_ack, last_gap_ack_seen>>

DataMessage(R, floor_elapsed) ==
    /\ \E packets \in Deliverable(R) : \E k \in 0 .. Len(held \o packets) :
          Recovered(R, packets, k)
    /\ window_ack_emission({s \in R \ received_seqs : s >= recv_above.frontier}, floor_elapsed)
    /\ waiting' = FALSE
    /\ UNCHANGED decoder_floor

(* Variants: a retransmitted copy is decoded again; the decoder refuses    *)
(* only what it remembers.                                                 *)
fresh_redecodes(s) == s >= decoder_floor

fresh_forgets(s) == s \notin received_seqs

(***************************************************************************)
(* A source symbol arrives.  The decoder refuses a seq below its floor and *)
(* one it has put out already; a fresh one may also resolve equations it   *)
(* buffers.                                                                *)
(***************************************************************************)
fresh(s) == s >= decoder_floor /\ s \notin received_seqs

ReceiveSource(s, another, C, floor_elapsed) ==
    /\ Cardinality(C) <= pivots
    /\ \A c \in C : fresh(c) /\ c # s
    /\ TakeSource(s, another)
    /\ IF fresh(s)
       THEN DataMessage({s} \cup C, floor_elapsed)
       ELSE C = {} /\ DataMessage({}, floor_elapsed)
    /\ pivots' = pivots - Cardinality(C)

(***************************************************************************)
(* A coded symbol arrives: it and the buffered equations resolve the       *)
(* symbols C, none below the floor, or it is buffered or redundant.        *)
(***************************************************************************)
ReceiveRepair(C, floor_elapsed) ==
    /\ Cardinality(C) <= pivots + 1
    /\ \A c \in C : fresh(c)
    /\ TakeRepair
    /\ DataMessage(C, floor_elapsed)
    /\ pivots' \in {p \in 0 .. MaxRepairs : p <= pivots + 1 - Cardinality(C)}

(***************************************************************************)
(* The top of the loop with the drained batch exhausted: sync the counter, *)
(* then prune what is decode-inert.                                        *)
(***************************************************************************)
PruneTo(point) ==
    LET floor == Larger(decoder_floor, decode_inert_floor(point, WinCap))
    IN  /\ recv_above' = [frontier |-> point,
                          count |-> above_sync(received_seqs, recv_above.frontier,
                                               recv_above.count, point)]
        /\ received_seqs' = {s \in received_seqs : s >= decode_inert_floor(point, WinCap)}
        /\ decoder_floor' = floor

Wait ==
    /\ ~waiting
    /\ waiting' = TRUE
    /\ PruneTo(next_expected)
    /\ UNCHANGED <<pivots, highest_seen_seq, seen_end, reorder_pending, next_unreleased,
                   held, tun_out, tun_taken, next_expected, last_advertised_ack,
                   last_gap_ack_seen, linkVars>>

(***************************************************************************)
(* The hole timer: a hole is never given up on, its gap is advertised      *)
(* again on every live path.                                               *)
(***************************************************************************)
HoleRefresh ==
    /\ waiting
    /\ IF Ooo THEN seen_end > next_expected ELSE reorder_pending # {}
    /\ LET above == above_sync(received_seqs, recv_above.frontier, recv_above.count, next_expected)
       IN  /\ SendAck([next_expected |-> next_expected, received_above |-> above,
                       sacked |-> received_sack_ranges(received_seqs, next_expected,
                                                       highest_seen_seq, MaxSackRanges)])
           /\ recv_above' = [frontier |-> next_expected, count |-> above]
    /\ UNCHANGED <<waiting, received_seqs, decoder_floor, pivots, highest_seen_seq, seen_end,
                   reorder_pending, next_unreleased, held, tun_out, tun_taken, next_expected,
                   last_advertised_ack, last_gap_ack_seen, data, repairs>>

(***************************************************************************)
(* The reserve() wake: the consumer's channel has room for a held packet;  *)
(* the cumulative point it unblocks is advertised at once by a WindowAck   *)
(* without ranges.                                                         *)
(***************************************************************************)
ReserveWake(k) ==
    /\ waiting
    /\ held # <<>>
    /\ Room > 0
    /\ Accept(held, k)
    /\ next_expected' = Larger(next_expected, delivered_prefix(next_unreleased, HeldSeqs(held')))
    /\ PruneTo(next_expected')
    /\ IF next_expected' > last_advertised_ack
       THEN SendAck([next_expected |-> next_expected', received_above |-> recv_above'.count,
                     sacked |-> {}])
       ELSE UNCHANGED acks
    /\ last_advertised_ack' = Larger(last_advertised_ack, next_expected')
    /\ UNCHANGED <<waiting, pivots, highest_seen_seq, seen_end, reorder_pending,
                   next_unreleased, last_gap_ack_seen, data, repairs>>

(***************************************************************************)
(* The consumer, a task of its own, takes a packet off its channel.        *)
(***************************************************************************)
ConsumerTake ==
    /\ tun_taken < Len(tun_out)
    /\ tun_taken' = tun_taken + 1
    /\ UNCHANGED <<waiting, received_seqs, decoder_floor, pivots, recv_above, highest_seen_seq,
                   seen_end, reorder_pending, next_unreleased, held, tun_out, next_expected,
                   last_advertised_ack, last_gap_ack_seen, linkVars>>
=============================================================================
