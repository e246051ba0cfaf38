----------------------------- MODULE SentLedger -----------------------------
(***************************************************************************)
(* The books of a reliable window at the level of its data structures: the *)
(* sender's retention store is a ring, its SACK marks are made through a   *)
(* memo of ranges seen, its per-path accounts follow both; the receiver's  *)
(* set is a bitmap with a running count.  WindowArq has the same window    *)
(* with plain sets and with everything else.  Reports are lost, delayed,   *)
(* repeated and overtake each other.                                       *)
(***************************************************************************)
EXTENDS SackMemo, SeqBits, SackLaws, SequencesExt

CONSTANTS
    LedgerPaths,
    LastSeq,        \* seqs 0 .. LastSeq are sent
    Placement,      \* seq -> the path the scheduler chose for it
    LedgerWinCap,   \* recv_win_cap
    MaxSackRanges,  \* MAX_SACK_RANGES
    SackChan,       \* capacity of sack_tx
    MaxReports      \* reports on the wire at a time

ASSUME LedgerAssumption ==
    /\ Placement \in [0 .. LastSeq -> LedgerPaths]
    /\ None \notin LedgerPaths
    /\ {LastSeq, LedgerWinCap} \subseteq Nat
    /\ {MaxSackRanges, SackChan, MaxReports} \subseteq Nat \ {0}

VARIABLES
    sent_store,     \* ring: seq -> the path it was placed on
    sack_memo,
    sack_released,
    percap_acct, percap_out,
    prev_ack,       \* the cumulative point last processed
    ack_seq,        \* the greatest one received: window_ack_seq
    sack_rx,        \* reports waiting for the sender's loop
    recovered,      \* what the receiver's decoder put out
    received_seqs,  \* its bitmap
    above,          \* its ReceivedAbove counter
    wire,           \* reports in flight
    walked,         \* history: the marks a full walk would have made
    plain           \* history: what a plain set would hold for the bitmap

ledgerVars == <<sent_store, sack_memo, sack_released, percap_acct, percap_out, prev_ack,
                ack_seq, sack_rx, recovered, received_seqs, above, wire, walked, plain>>

senderBooks == <<sent_store, sack_memo, sack_released, percap_acct, percap_out, prev_ack, walked>>

receiverBooks == <<recovered, received_seqs, above, plain>>

cumulative_point == Min({s \in 0 .. LastSeq + 1 : s \notin recovered})

next_seq == IF sent_store.slots = <<>> THEN prev_ack ELSE last_key(sent_store) + 1

LedgerInit ==
    /\ sent_store = EmptyRing
    /\ sack_memo = {}
    /\ sack_released = {}
    /\ percap_acct = <<>>
    /\ percap_out = [p \in LedgerPaths |-> 0]
    /\ prev_ack = 0
    /\ ack_seq = 0
    /\ sack_rx = <<>>
    /\ recovered = {}
    /\ received_seqs = EmptyBits
    /\ above = [frontier |-> 0, count |-> 0]
    /\ wire = {}
    /\ walked = {}
    /\ plain = {}

-----------------------------------------------------------------------------
(***************************************************************************)
(* percap_release_seq and percap_release_cumulative, for the seqs of S     *)
(* still in the account.                                                   *)
(***************************************************************************)
Charged(acct, p, S) == {s \in S \cap DOMAIN acct : acct[s] = p}

(* Variant: a release is taken off the path whether the seq is charged.    *)
percap_release_twice(acct, out, S) ==
    [p \in LedgerPaths |-> Monus(out[p], Cardinality({s \in S : ring_get(sent_store, s) = p}))]

percap_release(acct, out, S) ==
    [p \in LedgerPaths |-> Monus(out[p], Cardinality(Charged(acct, p, S)))]

(***************************************************************************)
(* emit_source: the seq enters the store and its path's account together.  *)
(***************************************************************************)
EmitSource ==
    /\ next_seq <= LastSeq
    /\ LET p == Placement[next_seq]
       IN  /\ sent_store' = ring_insert(sent_store, next_seq, p)
           /\ percap_acct' = [s \in DOMAIN percap_acct \cup {next_seq} |->
                                 IF s = next_seq THEN p ELSE percap_acct[s]]
           /\ percap_out' = [percap_out EXCEPT ![p] = @ + 1]
    /\ UNCHANGED <<sack_memo, sack_released, prev_ack, ack_seq, sack_rx, wire, walked>>
    /\ UNCHANGED receiverBooks

(***************************************************************************)
(* A new symbol at the receiver, and the ack of its message: the counter   *)
(* is brought to the frontier it speaks of, the report is the first runs   *)
(* above it.                                                               *)
(***************************************************************************)
sync(a, bits, point) ==
    [frontier |-> point,
     count    |-> IF point > a.frontier
                  THEN Monus(a.count, count_in(bits, a.frontier, point))
                  ELSE a.count + count_in(bits, point, a.frontier)]

Report(bits, point) ==
    LET runs == each_run(bits, point, LastSeq)
    IN  [next_expected |-> point,
         ranges        |-> SubSeq(runs, 1, Min({Len(runs), MaxSackRanges}))]

AcceptsPlain(seq) ==
    seq >= received_seqs.floor /\ seq - aligned(received_seqs.floor) < BitsSpan

SymbolArrives(seq) ==
    /\ seq < next_seq
    /\ seq \notin recovered
    /\ recovered' = recovered \cup {seq}
    /\ LET done    == bits_insert(received_seqs, seq)
           counted == IF done.newly /\ seq >= above.frontier
                      THEN [above EXCEPT !.count = @ + 1] ELSE above
           report  == Report(done.bits, cumulative_point')
       IN  /\ received_seqs' = done.bits
           /\ above' = sync(counted, done.bits, cumulative_point')
           /\ wire' = wire \cup {report}
    /\ Cardinality(wire') <= MaxReports
    /\ plain' = IF AcceptsPlain(seq) THEN plain \cup {seq} ELSE plain
    /\ UNCHANGED senderBooks
    /\ UNCHANGED <<ack_seq, sack_rx>>

(***************************************************************************)
(* The receiver's prune of what is decode-inert, when its batch is done.   *)
(***************************************************************************)
PruneReceived ==
    LET floor == decode_inert_floor(cumulative_point, LedgerWinCap)
    IN  /\ floor > received_seqs.floor
        /\ above' = sync(above, received_seqs, cumulative_point)
        /\ received_seqs' = bits_prune_below(received_seqs, floor)
        /\ plain' = {s \in plain : s >= floor}
        /\ UNCHANGED senderBooks
        /\ UNCHANGED <<ack_seq, sack_rx, recovered, wire>>

(***************************************************************************)
(* A WindowAck at the sender's end: the cumulative point is merged, its    *)
(* ranges are queued unless the queue is full.  The wire may repeat it.    *)
(***************************************************************************)
AckArrives(report, repeated) ==
    /\ report \in wire
    /\ wire' = IF repeated THEN wire ELSE wire \ {report}
    /\ ack_seq' = Larger(ack_seq, report.next_expected)
    /\ sack_rx' = IF report.ranges # <<>> /\ Len(sack_rx) < SackChan
                  THEN Append(sack_rx, report.ranges) ELSE sack_rx
    /\ UNCHANGED senderBooks
    /\ UNCHANGED receiverBooks

ReportLost == \E report \in wire :
    /\ wire' = wire \ {report}
    /\ UNCHANGED senderBooks
    /\ UNCHANGED receiverBooks
    /\ UNCHANGED <<ack_seq, sack_rx>>

(***************************************************************************)
(* The sender's loop drains the queue: what a range newly marks leaves the *)
(* accounts.                                                               *)
(***************************************************************************)
MarkRange(w, range) ==
    LET m == mark_into(w.memo, sent_store, w.released, range)
    IN  [memo     |-> m.covered,
         released |-> w.released \cup m.newly,
         acct     |-> [s \in DOMAIN w.acct \ m.newly |-> w.acct[s]],
         out      |-> percap_release(w.acct, w.out, m.newly),
         walked   |-> sack_release_mark(sent_store, w.walked, range)]

DrainSack ==
    /\ sack_rx # <<>>
    /\ sack_rx' = <<>>
    /\ LET w == FoldLeft(MarkRange,
                         [memo |-> sack_memo, released |-> sack_released, acct |-> percap_acct,
                          out |-> percap_out, walked |-> walked],
                         FlattenSeq(sack_rx))
       IN  /\ sack_memo' = w.memo
           /\ sack_released' = w.released
           /\ percap_acct' = w.acct
           /\ percap_out' = w.out
           /\ walked' = w.walked
    /\ UNCHANGED <<sent_store, prev_ack, ack_seq, wire>>
    /\ UNCHANGED receiverBooks

(***************************************************************************)
(* on_ack_advance: every book is cut at the same cumulative point.         *)
(***************************************************************************)
OnAckAdvance ==
    LET below == {s \in DOMAIN percap_acct : s < ack_seq}
    IN  /\ ack_seq > prev_ack
        /\ prev_ack' = ack_seq
        /\ sent_store' = prune_below(sent_store, ack_seq)
        /\ sack_released' = {s \in sack_released : s >= ack_seq}
        /\ walked' = {s \in walked : s >= ack_seq}
        /\ sack_memo' = memo_prune(sack_memo, ack_seq)
        /\ percap_out' = percap_release(percap_acct, percap_out, 0 .. ack_seq - 1)
        /\ percap_acct' = [s \in DOMAIN percap_acct \ below |-> percap_acct[s]]
        /\ UNCHANGED <<ack_seq, sack_rx, wire>>
        /\ UNCHANGED receiverBooks

LedgerNext ==
    \/ EmitSource
    \/ \E s \in 0 .. LastSeq : SymbolArrives(s)
    \/ PruneReceived
    \/ \E report \in wire, repeated \in BOOLEAN : AckArrives(report, repeated)
    \/ ReportLost
    \/ DrainSack
    \/ OnAckAdvance

LedgerSpec == LedgerInit /\ [][LedgerNext]_ledgerVars

-----------------------------------------------------------------------------
(***************************************************************************)
(* MemoExact: the marks made through the memo are those of the full walk   *)
(* it saves, whatever order reports and prunes take, and its intervals     *)
(* stay disjoint and apart.                                                *)
(***************************************************************************)
MemoExact ==
    /\ sack_released = walked
    /\ \A i, k \in sack_memo : i # k => i[2] + 1 < k[1] \/ k[2] + 1 < i[1]

(***************************************************************************)
(* AccountsExact: a retained seq is charged to its path until it is        *)
(* released, once, by a mark or by the cumulative point; the marks are of  *)
(* retained seqs; and the store keeps all the receiver has not delivered.  *)
(***************************************************************************)
AccountsExact ==
    /\ WellFormed(sent_store)
    /\ sack_released \subseteq RingKeys(sent_store) \cap recovered
    /\ DOMAIN percap_acct = RingKeys(sent_store) \ sack_released
    /\ \A s \in DOMAIN percap_acct : percap_acct[s] = ring_get(sent_store, s)
    /\ \A p \in LedgerPaths :
          percap_out[p] = Cardinality({s \in DOMAIN percap_acct : percap_acct[s] = p})
    /\ cumulative_point .. next_seq - 1 \subseteq RingKeys(sent_store)

(***************************************************************************)
(* BitsExact: the bitmap is the plain set it replaced, in its members,     *)
(* counts and runs, through growth, refusals and prunes in mid-word.       *)
(***************************************************************************)
BitsExact ==
    LET b == received_seqs
    IN  /\ BitMembers(b) = plain
        /\ b.len = Cardinality(plain)
        /\ above.count = Cardinality({s \in plain : s >= above.frontier})
        /\ \A lo \in 0 .. LastSeq :
              /\ \A hi \in lo .. LastSeq + 1 :
                    count_in(b, lo, hi) = Cardinality({s \in plain : lo <= s /\ s < hi})
              /\ LET runs == each_run(b, lo, LastSeq - 1)
                 IN  /\ Spans(ToSet(runs)) = {s \in plain : lo <= s /\ s < LastSeq}
                     /\ \A i \in 1 .. Len(runs) - 1 : runs[i][2] + 1 < runs[i + 1][1]
=============================================================================
