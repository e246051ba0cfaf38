------------------------------ MODULE LatGauge ------------------------------
(***************************************************************************)
(* The delivered-latency gauge: the arrival record of every source symbol  *)
(* is parked until the symbol is delivered, in a ring bounded by the       *)
(* number of insertions (a FIFO of keys) and by the span of its keys.  The *)
(* debug build checks on the way that nothing is delivered twice.          *)
(*                                                                         *)
(* A pending store is a record [ring, order, floor]; the exactly-once      *)
(* check a record [floor, holes, early, ok], in which the skipped          *)
(* intervals are represented by the set of seqs they cover and `ok` says   *)
(* that no assertion has failed.  Latencies are left out.                  *)
(***************************************************************************)
EXTENDS SeqRing

CONSTANTS
    PendingMax,      \* PENDING_MAX
    PendingSpanMax   \* PENDING_SPAN_MAX

ASSUME PendingAssumption == PendingMax \in Nat \ {0} /\ PendingSpanMax \in Nat \ {0}

EmptyPending == [ring |-> EmptyRing, order |-> <<>>, floor |-> 0]

Counted(p, lost) == [p |-> p, lost |-> lost]

(* Variant: what a jump leaves too far behind is kept.                     *)
shed_nothing(r, seq) == [r |-> r, lost |-> 0]

(***************************************************************************)
(* A jump above the live span sheds the oldest records until it fits.      *)
(***************************************************************************)
shed_span(r, seq) ==
    LET low  == {s \in RingKeys(r) : seq - s >= PendingSpanMax}
        kept == RingKeys(r) \ low
    IN  [r    |-> IF kept = {} THEN prune_below(r, RingEnd(r))
                  ELSE prune_below(r, CHOOSE s \in kept : \A q \in kept : s <= q),
         lost |-> Cardinality(low)]

(* Variant: an evicted key's record stays in the ring.                     *)
evict_key_only(p) ==
    IF Len(p.order) <= PendingMax THEN Counted(p, 0)
    ELSE Counted([p EXCEPT !.order = Tail(@)], 0)

(***************************************************************************)
(* The eviction FIFO: one key over the bound takes the oldest key's record *)
(* with it, if the record is still there.                                  *)
(***************************************************************************)
evict(p) ==
    IF Len(p.order) <= PendingMax THEN Counted(p, 0)
    ELSE Counted([p EXCEPT !.order = Tail(@), !.ring = ring_remove(@, Head(p.order))],
                 IF ring_get(p.ring, Head(p.order)) # None THEN 1 ELSE 0)

(***************************************************************************)
(* Pending::insert.                                                        *)
(***************************************************************************)
pending_insert(p, seq, v) ==
    LET lo   == first_key(p.ring)
        hi   == last_key(p.ring)
        fit  == IF lo = -1 \/ seq < lo THEN [r |-> p.ring, lost |-> 0]
                ELSE shed_span(p.ring, seq)
        new  == ring_get(fit.r, seq) = None
        done == evict([p EXCEPT !.ring  = ring_insert(fit.r, seq, v),
                                !.order = IF new THEN Append(@, seq) ELSE @])
    IN  IF seq < p.floor \/ (lo # -1 /\ seq < lo /\ hi - seq >= PendingSpanMax)
        THEN Counted(p, 1)
        ELSE Counted(done.p, fit.lost + done.lost)

(***************************************************************************)
(* Pending::deliver: take the record; a delivery at or above the floor     *)
(* moves the floor past it, and the records below are lost.                *)
(***************************************************************************)
pending_deliver(p, seq) ==
    LET taken == ring_remove(p.ring, seq)
        above == prune_below(taken, seq + 1)
    IN  IF seq >= p.floor
        THEN Counted([p EXCEPT !.ring = above, !.floor = seq + 1], taken.len - above.len)
        ELSE Counted([p EXCEPT !.ring = taken], 0)

-----------------------------------------------------------------------------
NothingDelivered == [floor |-> 0, holes |-> {}, early |-> {}, ok |-> TRUE]

(***************************************************************************)
(* ExactlyOnce::check.  In order: the seqs the delivery skips become       *)
(* holes, but for those filled early.  Late: a hole is filled, once; at or *)
(* above the floor (a hold expiry moved the buffer's frontier unseen) the  *)
(* fill is remembered.                                                     *)
(***************************************************************************)
check(o, seq, late) ==
    IF ~late
    THEN LET skipped == o.floor .. seq - 1
         IN  [floor |-> seq + 1,
              early |-> o.early \ skipped,
              holes |-> {h \in o.holes \cup (skipped \ o.early) :
                            h > seq - PendingSpanMax},
              ok    |-> o.ok /\ seq >= o.floor /\ seq \notin o.early]
    ELSE IF seq >= o.floor
    THEN [o EXCEPT !.early = @ \cup {seq}, !.ok = @ /\ seq \notin o.early]
    ELSE [o EXCEPT !.holes = @ \ {seq},
                   !.ok = @ /\ (seq \in o.holes \/ seq + PendingSpanMax < o.floor)]
=============================================================================
