--------------------------- MODULE ReorderBuffer ---------------------------
(***************************************************************************)
(* The in-order hold of a rho < 1 (EVICT) receiver: it waits at a hole for *)
(* a bounded time and with bounded memory, then gives the hole up.         *)
(*                                                                         *)
(* A buffer is a record: `pending`, the buffered seqs in the order they    *)
(* were buffered, and `next`, the next seq to deliver.  Instants are       *)
(* abstracted: the hold timeout follows the round-trip time, so any        *)
(* oldest part of `pending` can have expired.  An operation returns the    *)
(* buffer and the seqs it hands over, in order.                            *)
(***************************************************************************)
EXTENDS Enumerations, SequencesExt, FiniteSetsExt

CONSTANT MaxBuffered    \* max_buffered, in symbols

ASSUME ReorderAssumption == MaxBuffered \in Nat \ {0}

EmptyBuffer == [pending |-> <<>>, next |-> 0]

Released(rb, out) == [rb |-> rb, out |-> out]

(***************************************************************************)
(* drain_contiguous, after `gone` has been handed over.                    *)
(***************************************************************************)
drain_contiguous(rb, gone) ==
    LET P    == ToSet(rb.pending)
        run  == {s \in P : s >= rb.next /\ rb.next .. s \subseteq P}
        stay == P \ run
    IN  Released([pending |-> Kept(rb.pending, stay),
                  next    |-> IF run = {} THEN rb.next ELSE Max(run) + 1],
                 gone \o Ascending(run))

(* Variant: of what is pending below it, only the expired is handed over.  *)
release_lost(rb, S) ==
    drain_contiguous([pending |-> Kept(rb.pending, {s \in ToSet(rb.pending) : s > Max(S)}),
                      next    |-> Max({rb.next, Max(S) + 1})],
                     Ascending(S))

(* Variant: the frontier stops at the last seq handed over.                *)
release_short(rb, S) ==
    LET k  == Max(S)
        up == {s \in ToSet(rb.pending) : s <= k}
    IN  drain_contiguous([pending |-> Kept(rb.pending, ToSet(rb.pending) \ up),
                          next    |-> Max({rb.next, k})],
                         Ascending(up))

(***************************************************************************)
(* Giving up on every hole before a seq hands over what is pending up to   *)
(* it, in order, and the run after it.                                     *)
(***************************************************************************)
release_through(rb, S) ==
    LET k  == Max(S)
        up == {s \in ToSet(rb.pending) : s <= k}
    IN  drain_contiguous([pending |-> Kept(rb.pending, ToSet(rb.pending) \ up),
                          next    |-> Max({rb.next, k + 1})],
                         Ascending(up))

(***************************************************************************)
(* force_drain_oldest: the lowest seqs, until half the capacity is left.   *)
(***************************************************************************)
force_drain_oldest(rb) ==
    LET excess == Len(rb.pending) - MaxBuffered \div 2
        lowest == {s \in ToSet(rb.pending) :
                      Cardinality({q \in ToSet(rb.pending) : q <= s}) <= excess}
    IN  release_through(rb, lowest)

(***************************************************************************)
(* push: what the frontier has passed is handed on at once.                *)
(***************************************************************************)
push(rb, seq) ==
    IF seq < rb.next THEN Released(rb, <<seq>>)
    ELSE LET held == [rb EXCEPT !.pending = Append(@, seq)]
         IN  IF Len(held.pending) > MaxBuffered THEN force_drain_oldest(held)
             ELSE drain_contiguous(held, <<>>)

(***************************************************************************)
(* drain_expired, when the j entries buffered first have expired.          *)
(***************************************************************************)
drain_expired(rb, j) ==
    IF j = 0 THEN Released(rb, <<>>)
    ELSE release_through(rb, ToSet(SubSeq(rb.pending, 1, j)))
=============================================================================
