------------------------------ MODULE SeqRing ------------------------------
(***************************************************************************)
(* A map keyed by a near-contiguous sequence number, kept as a ring: the   *)
(* key of slots[1] is `base`, a slot without a value is a hole, and holes  *)
(* at either end are trimmed so that the first and the last key are those  *)
(* of the end slots.  Stands for the sender's per-seq stores and for the   *)
(* receiver's arrival records.  Values are anything but None.              *)
(***************************************************************************)
EXTENDS Integers, Sequences, FiniteSets

CONSTANT None   \* an empty slot

EmptyRing == [base |-> 0, slots |-> <<>>, len |-> 0]

RingEnd(r) == r.base + Len(r.slots)

Slot(r, seq) == r.slots[seq - r.base + 1]

ring_get(r, seq) == IF r.base <= seq /\ seq < RingEnd(r) THEN Slot(r, seq) ELSE None

RingKeys(r) == {seq \in r.base .. RingEnd(r) - 1 : Slot(r, seq) # None}

Holes(n) == [i \in 1 .. n |-> None]

(* Variant: a prune or a removal leaves holes at the front.                *)
trim_back_only(r) ==
    [r EXCEPT !.slots = SubSeq(@, 1, CHOOSE n \in 0 .. Len(@) :
                                        /\ n > 0 => @[n] # None
                                        /\ \A i \in n + 1 .. Len(@) : @[i] = None)]

(***************************************************************************)
(* SeqRing::trim: drop the holes at both ends.                             *)
(***************************************************************************)
trim(r) ==
    LET full == {i \in DOMAIN r.slots : r.slots[i] # None}
    IN  IF full = {}
        THEN [r EXCEPT !.base = RingEnd(r), !.slots = <<>>]
        ELSE LET a == CHOOSE i \in full : \A j \in full : i <= j
                 b == CHOOSE i \in full : \A j \in full : j <= i
             IN  [r EXCEPT !.base = @ + a - 1, !.slots = SubSeq(@, a, b)]

(***************************************************************************)
(* SeqRing::insert: past the end and below the base the ring is padded     *)
(* with holes; in between the slot is overwritten.                         *)
(***************************************************************************)
ring_insert(r, seq, v) ==
    IF r.slots = <<>>
    THEN [base |-> seq, slots |-> <<v>>, len |-> 1]
    ELSE IF seq >= RingEnd(r)
    THEN [r EXCEPT !.slots = @ \o Holes(seq - RingEnd(r)) \o <<v>>, !.len = @ + 1]
    ELSE IF seq >= r.base
    THEN [r EXCEPT !.slots[seq - r.base + 1] = v,
                   !.len = IF Slot(r, seq) = None THEN @ + 1 ELSE @]
    ELSE [base |-> seq, slots |-> <<v>> \o Holes(r.base - seq - 1) \o r.slots,
          len |-> r.len + 1]

ring_remove(r, seq) ==
    IF ring_get(r, seq) = None THEN r
    ELSE trim([r EXCEPT !.slots[seq - r.base + 1] = None, !.len = @ - 1])

(***************************************************************************)
(* SeqRing::prune_below: pop the slots below the floor, then trim.         *)
(***************************************************************************)
prune_below(r, floor) ==
    LET n == IF floor <= r.base THEN 0
             ELSE IF floor >= RingEnd(r) THEN Len(r.slots) ELSE floor - r.base
    IN  trim([base  |-> r.base + n,
              slots |-> SubSeq(r.slots, n + 1, Len(r.slots)),
              len   |-> r.len - Cardinality({i \in 1 .. n : r.slots[i] # None})])

(***************************************************************************)
(* first (its key) and last_key; the code returns None of an empty ring,   *)
(* no key is negative.                                                     *)
(***************************************************************************)
first_key(r) == IF r.slots = <<>> THEN -1 ELSE r.base

last_key(r) == IF r.slots = <<>> THEN -1 ELSE RingEnd(r) - 1

(* Variant: the fast path is taken whatever holes the ring has.            *)
count_below_dense(r, f) ==
    IF f <= r.base THEN 0
    ELSE IF f - r.base < Len(r.slots) THEN f - r.base ELSE Len(r.slots)

(***************************************************************************)
(* SeqRing::count_below, with its fast path for a ring without holes.      *)
(***************************************************************************)
count_below(r, f) ==
    IF f <= r.base THEN 0
    ELSE LET k == IF f - r.base < Len(r.slots) THEN f - r.base ELSE Len(r.slots)
         IN  IF r.len = Len(r.slots) THEN k
             ELSE Cardinality({i \in 1 .. k : r.slots[i] # None})

(***************************************************************************)
(* SeqRing::range, its keys: the slot interval is computed by saturating   *)
(* subtraction and clipped to the slots.                                   *)
(***************************************************************************)
ring_range(r, lo, hi) ==
    LET n   == Len(r.slots)
        cut(x) == IF x < n THEN x ELSE n
        a   == cut(IF lo > r.base THEN lo - r.base ELSE 0)
        b   == IF hi < r.base \/ hi < lo THEN a
               ELSE IF cut(hi - r.base + 1) > a THEN cut(hi - r.base + 1) ELSE a
    IN  {r.base + i : i \in {j \in a .. b - 1 : r.slots[j + 1] # None}}

-----------------------------------------------------------------------------
(***************************************************************************)
(* The map a ring stands for.                                              *)
(***************************************************************************)
MapOf(r) == [seq \in RingKeys(r) |-> Slot(r, seq)]

(***************************************************************************)
(* A ring in the shape its operations rely on: no hole at either end, and  *)
(* the count of its values.                                                *)
(***************************************************************************)
WellFormed(r) ==
    /\ r.len = Cardinality(RingKeys(r))
    /\ r.slots # <<>> => r.slots[1] # None /\ r.slots[Len(r.slots)] # None
=============================================================================
