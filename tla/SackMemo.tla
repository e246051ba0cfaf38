------------------------------ MODULE SackMemo ------------------------------
(***************************************************************************)
(* The memo of SACK ranges already processed: every report sends all the   *)
(* ranges above a stalled frontier again, and a range is walked only where *)
(* no earlier one was.  The memo is a set of inclusive intervals.          *)
(***************************************************************************)
EXTENDS SeqRing, FiniteSetsExt

(***************************************************************************)
(* sack_release_mark_into, the walk the memo saves: every retained seq of  *)
(* the range is released.                                                  *)
(***************************************************************************)
sack_release_mark(store, released, range) ==
    released \cup ring_range(store, range[1], range[2])

Spans(intervals) == UNION {i[1] .. i[2] : i \in intervals}

(***************************************************************************)
(* SackMemo::prune: what lies below the cumulative point is dropped, the   *)
(* interval across it is cut.                                              *)
(***************************************************************************)
memo_prune(covered, next_expected) ==
    {i \in covered : i[1] >= next_expected}
    \cup {<<next_expected, i[2]>> : i \in {k \in covered : /\ k[1] < next_expected
                                                          /\ k[2] >= next_expected}}

Marked(covered, newly) == [covered |-> covered, newly |-> newly]

(* Variant: an interval that ends one seq short of the range joins it.     *)
mark_into_bridging(covered, store, released, range) ==
    LET start == range[1]
        hi    == Min({range[2], last_key(store)})
        near  == {i \in covered : i[1] <= hi + 1 /\ i[2] + 2 >= start}
        gaps  == {s \in ring_range(store, start, hi) : s \notin Spans(near)}
        union == <<Min({start} \cup {i[1] : i \in near}), Max({hi} \cup {i[2] : i \in near})>>
    IN  IF store.len = 0 \/ start > hi THEN Marked(covered, {})
        ELSE Marked((covered \ near) \cup {union}, gaps \ released)

(***************************************************************************)
(* SackMemo::mark_into: the range, clipped to the highest retained seq, is *)
(* walked where the intervals that touch it leave gaps, and joins them.    *)
(***************************************************************************)
mark_into(covered, store, released, range) ==
    LET start == range[1]
        hi    == Min({range[2], last_key(store)})
        near  == {i \in covered : i[1] <= hi + 1 /\ i[2] + 1 >= start}
        gaps  == {s \in ring_range(store, start, hi) : s \notin Spans(near)}
        union == <<Min({start} \cup {i[1] : i \in near}), Max({hi} \cup {i[2] : i \in near})>>
    IN  IF store.len = 0 \/ start > hi THEN Marked(covered, {})
        ELSE Marked((covered \ near) \cup {union}, gaps \ released)
=============================================================================
