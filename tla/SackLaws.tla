------------------------------ MODULE SackLaws ------------------------------
(***************************************************************************)
(* The pure laws the two ends of a reliable window share: what a WindowAck *)
(* says of a received set, how the sender reads it back, and how the       *)
(* sender's flow-control gate turns the reports into a count of slots it   *)
(* may reuse.                                                              *)
(*                                                                         *)
(* A list of ascending, disjoint, inclusive sequence ranges is represented *)
(* by the set of sequence numbers it covers; its ranges are the maximal    *)
(* runs of that set.                                                       *)
(***************************************************************************)
EXTENDS Integers, FiniteSets

(***************************************************************************)
(* saturating_sub of the unsigned counters.                                *)
(***************************************************************************)
Monus(a, b) == IF a >= b THEN a - b ELSE 0

Larger(a, b) == IF a >= b THEN a ELSE b

Smaller(a, b) == IF a <= b THEN a ELSE b

(***************************************************************************)
(* The last key of the retention store.                                    *)
(***************************************************************************)
last_seq(store) == CHOOSE h \in store : \A s \in store : s <= h

RunStarts(S) == {s \in S : s - 1 \notin S}

(***************************************************************************)
(* The seqs of S that lie in its first `limit` maximal runs.               *)
(***************************************************************************)
FirstRuns(S, limit) ==
    {s \in S : Cardinality({b \in RunStarts(S) : b <= s}) <= limit}

(* Variant: one range from the cumulative point up, its holes included.    *)
received_sack_hull(received, next_expected, seen, limit) ==
    FirstRuns(next_expected .. seen, limit)

(***************************************************************************)
(* What a SACK-bearing WindowAck reports: the runs of received seqs from   *)
(* the cumulative point to the highest seq seen, a prefix of them when     *)
(* they do not all fit a datagram.                                         *)
(***************************************************************************)
received_sack_ranges(received, next_expected, seen, limit) ==
    FirstRuns({s \in received : next_expected <= s /\ s <= seen}, limit)

(***************************************************************************)
(* The sender's inversion: every seq from the cumulative point up to a     *)
(* sacked range that no range covers; nothing above the last range.        *)
(***************************************************************************)
sack_to_gaps(next_expected, sacked, limit) ==
    IF sacked = {} THEN {}
    ELSE FirstRuns((next_expected .. last_seq(sacked)) \ sacked, limit)

(* Variant: the seq the frontier moves to is taken off the count too.      *)
above_sync_inclusive(received, frontier, count, next_expected) ==
    IF next_expected > frontier
    THEN Monus(count, Cardinality({s \in received :
                          frontier <= s /\ s <= next_expected}))
    ELSE count + Cardinality({s \in received :
                          next_expected <= s /\ s < frontier})

(***************************************************************************)
(* ReceivedAbove::sync: the counter of received seqs at or above the       *)
(* frontier it was last moved to.                                          *)
(***************************************************************************)
above_sync(received, frontier, count, next_expected) ==
    IF next_expected > frontier
    THEN Monus(count, Cardinality({s \in received :
                          frontier <= s /\ s < next_expected}))
    ELSE count + Cardinality({s \in received :
                          next_expected <= s /\ s < frontier})

(***************************************************************************)
(* AboveReport::fold: the lexicographic maximum of the reports so far.     *)
(***************************************************************************)
above_fold(r, next_expected, received_above) ==
    IF \/ next_expected > r.next_expected
       \/ /\ next_expected = r.next_expected
          /\ received_above > r.received_above
    THEN [next_expected |-> next_expected, received_above |-> received_above]
    ELSE r

(* Variant: the count is taken as it is, though the store has outrun it.   *)
above_released_stale(store, report) ==
    IF store = {} THEN 0
    ELSE Cardinality({s \in store : s < report.next_expected}) + report.received_above

(***************************************************************************)
(* store_gate_released, with received_above_released and                   *)
(* store_released_for_gate: how many of the retained slots the sender      *)
(* takes to be received, from its SACK marks and from the newest count     *)
(* report, which the store may have outrun since it was made.              *)
(***************************************************************************)
above_released(store, report) ==
    IF store = {} THEN 0
    ELSE LET f == report.next_expected
             retained_below == Cardinality({s \in store : s < f})
             retained_from == Cardinality(store) - retained_below
             not_retained == Monus(Monus(last_seq(store) + 1, f), retained_from)
         IN  retained_below + Monus(report.received_above, not_retained)

store_gate_released(store, sack_released, report) ==
    Smaller(Cardinality(store), Larger(sack_released, above_released(store, report)))

sack_release_outstanding(store, sack_released, report) ==
    Monus(Cardinality(store), store_gate_released(store, sack_released, report))

(* Variant: what is decoded is acknowledged, held for the consumer or not. *)
decoded_prefix(next_unreleased, held_seqs) == next_unreleased

(***************************************************************************)
(* delivered_prefix: the cumulative point stops below the lowest seq still *)
(* held for the consumer.                                                  *)
(***************************************************************************)
delivered_prefix(next_unreleased, held_seqs) ==
    IF held_seqs = {} THEN next_unreleased
    ELSE Smaller(next_unreleased, CHOOSE l \in held_seqs : \A s \in held_seqs : l <= s)

(***************************************************************************)
(* decode_inert_floor: below it nothing the sender still emits refers to.  *)
(***************************************************************************)
decode_inert_floor(next_expected, win_cap) ==
    Monus(Monus(next_expected, 1), 2 * win_cap)
=============================================================================
