----------------------------- MODULE PathLedger -----------------------------
(***************************************************************************)
(* The accounts of one path.  The receiver's PathBatchTracker turns gaps   *)
(* in the path's own sequence into running totals; every merged WindowAck  *)
(* carries the totals, and the sender's PathState diffs them to feed its   *)
(* loss estimate and to release the in-flight budget, from which a sweep   *)
(* also takes what is too old and a revival takes everything.              *)
(*                                                                         *)
(* Batches carry one symbol.  They are lost and overtake each other, they  *)
(* are not duplicated (a QUIC datagram arrives once); acks are lost, late, *)
(* and delivered again.  Instants are abstracted: the oldest charges may   *)
(* have expired at any time, a path may be declared dead at any time.      *)
(***************************************************************************)
EXTENDS Integers, Sequences, FiniteSets, SequencesExt, FiniteSetsExt

CONSTANTS
    MaxPathSeq, \* batches sent
    MaxAcks     \* merged acks on the wire at a time

ASSUME PathAssumption == {MaxPathSeq, MaxAcks} \subseteq Nat

VARIABLES
    path_seq,       \* BatchCounter: the next path_seq
    batches,        \* on the wire
    arrived,        \* history: path_seqs that arrived
    first_seq,      \* history: the first of them, or NoSeq
    tracker,        \* PathBatchTracker
    counters,       \* merged acks on the wire: <<cum_expected, cum_received>>
    active,
    in_flight, in_flight_log,
    ack_cum,        \* the sender's cursors: ack_cum_expected, ack_cum_received
    held,           \* LossCredit
    fed,            \* history: what the loss estimator was fed
    forgone         \* history: what the budget may leave out, see LedgerCloses

pathVars == <<path_seq, batches, arrived, first_seq, tracker, counters, active, in_flight,
              in_flight_log, ack_cum, held, fed, forgone>>

NoSeq == -1

Totals(e, r) == [expected |-> e, received |-> r]

PathInit ==
    /\ path_seq = 0
    /\ batches = {}
    /\ arrived = {}
    /\ first_seq = NoSeq
    /\ tracker = [highest_seq |-> NoSeq, expected |-> 0, received |-> 0]
    /\ counters = {}
    /\ active = TRUE
    /\ in_flight = 0
    /\ in_flight_log = <<>>
    /\ ack_cum = Totals(0, 0)
    /\ held = 0
    /\ fed = Totals(0, 0)
    /\ forgone = 0

-----------------------------------------------------------------------------
Less(a, b) == IF a >= b THEN a - b ELSE 0

AtLeast(a, b) == IF a >= b THEN a ELSE b

(***************************************************************************)
(* A batch takes the next path_seq, on whatever path the placement falls   *)
(* back to.  Source symbols, their redundant copies, the coded symbols of  *)
(* the budget and those asked for are charged as they leave.               *)
(***************************************************************************)
Leaves ==
    /\ path_seq < MaxPathSeq
    /\ path_seq' = path_seq + 1
    /\ batches' = batches \cup {path_seq}

charge_in_flight ==
    /\ in_flight' = in_flight + 1
    /\ in_flight_log' = Append(in_flight_log, 1)

SendBatch ==
    /\ Leaves
    /\ charge_in_flight
    /\ UNCHANGED <<arrived, first_seq, tracker, counters, active, ack_cum, held, fed, forgone>>

(***************************************************************************)
(* The SACK-gap retransmit and the repair margin: no charge, unless        *)
(* charge_recovery_active(), which is off by default.                      *)
(***************************************************************************)
SendUncharged ==
    /\ Leaves
    /\ forgone' = forgone + 1
    /\ UNCHANGED <<arrived, first_seq, tracker, counters, active, in_flight, in_flight_log,
                   ack_cum, held, fed>>

BatchLost(s) ==
    /\ s \in batches
    /\ batches' = batches \ {s}
    /\ UNCHANGED <<path_seq, arrived, first_seq, tracker, counters, active, in_flight,
                   in_flight_log, ack_cum, held, fed, forgone>>

(* Variant: a late arrival is charged as a batch of its own.               *)
record_batch_late_charged(t, s) ==
    [highest_seq |-> AtLeast(t.highest_seq, s),
     expected    |-> t.expected + (IF t.highest_seq # NoSeq /\ s > t.highest_seq
                                   THEN s - t.highest_seq ELSE 1),
     received    |-> t.received + 1]

(***************************************************************************)
(* PathBatchTracker::record_batch, for one symbol: the first batch says    *)
(* nothing of a gap, a late one gives back what its absence was charged.   *)
(***************************************************************************)
record_batch(t, s) ==
    [highest_seq |-> AtLeast(t.highest_seq, s),
     expected    |-> t.expected + (IF t.highest_seq = NoSeq THEN 1
                                   ELSE Less(s, t.highest_seq)),
     received    |-> t.received + 1]

(***************************************************************************)
(* A batch arrives; its merged ack carries the totals.                     *)
(***************************************************************************)
BatchArrives(s) ==
    /\ s \in batches
    /\ Cardinality(counters) < MaxAcks
    /\ batches' = batches \ {s}
    /\ arrived' = arrived \cup {s}
    /\ first_seq' = IF first_seq = NoSeq THEN s ELSE first_seq
    /\ tracker' = record_batch(tracker, s)
    /\ counters' = counters \cup {<<tracker'.expected, tracker'.received>>}
    /\ UNCHANGED <<path_seq, active, in_flight, in_flight_log, ack_cum, held, fed, forgone>>

AckLost(c) ==
    /\ c \in counters
    /\ counters' = counters \ {c}
    /\ UNCHANGED <<path_seq, batches, arrived, first_seq, tracker, active, in_flight,
                   in_flight_log, ack_cum, held, fed, forgone>>

-----------------------------------------------------------------------------
(* Variant: the excess of a late arrival is clamped away.                  *)
credit_clamped(expected, received) == [held |-> held, lost |-> Less(expected, received)]

(***************************************************************************)
(* LossCredit::apply: what the pair feeds as lost, and the credit left.    *)
(***************************************************************************)
credit(expected, received) ==
    [held |-> Less(held, Less(expected, received)) + Less(received, expected),
     lost |-> Less(Less(expected, received), held)]

(***************************************************************************)
(* release_in_flight: the oldest charges go first, the last one in part.   *)
(***************************************************************************)
Charges(log) == FoldLeft(LAMBDA sum, n : sum + n, 0, log)

release_log(log, n) ==
    LET gone == {k \in DOMAIN log : Charges(SubSeq(log, 1, k)) <= n}
        rest == SubSeq(log, Cardinality(gone) + 1, Len(log))
        part == n - Charges(SubSeq(log, 1, Cardinality(gone)))
    IN  IF rest = <<>> THEN <<>> ELSE [rest EXCEPT ![1] = @ - part]

(***************************************************************************)
(* touch_path: a dead path is alive again, its budget gone.                *)
(***************************************************************************)
Budget == IF active THEN in_flight ELSE 0

(* Variant: the gauge starts anew, its charge log does not.                *)
Log_kept == in_flight_log

Log == IF active THEN in_flight_log ELSE <<>>

(***************************************************************************)
(* ack_merge_counter_delta: both cursors only move forward.                *)
(***************************************************************************)
counter_cursor(e, r) == Totals(AtLeast(ack_cum.expected, e), AtLeast(ack_cum.received, r))

(***************************************************************************)
(* on_window_ack, its accounts: the delta feeds the estimator through the  *)
(* credit, what was received is released, then what was lost.              *)
(***************************************************************************)
WindowAck(c, repeated) ==
    LET d_expected == Less(c[1], ack_cum.expected)
        d_received == Less(c[2], ack_cum.received)
        w          == credit(d_expected, d_received)
        none       == c[2] = 0 \/ (d_expected = 0 /\ d_received = 0)
    IN  /\ c \in counters
        /\ counters' = IF repeated THEN counters ELSE counters \ {c}
        /\ active' = TRUE
        /\ IF none
           THEN /\ in_flight' = Budget
                /\ in_flight_log' = Log
                /\ UNCHANGED <<ack_cum, held, fed>>
           ELSE /\ ack_cum' = counter_cursor(c[1], c[2])
                /\ held' = w.held
                /\ fed' = Totals(fed.expected + d_expected, fed.received + d_expected - w.lost)
                /\ in_flight' = Less(Less(Budget, d_expected - w.lost), w.lost)
                /\ in_flight_log' = release_log(release_log(Log, d_expected - w.lost), w.lost)
        /\ forgone' = IF ack_cum'.expected = path_seq THEN 0 ELSE forgone + in_flight - Budget
        /\ UNCHANGED <<path_seq, batches, arrived, first_seq, tracker>>

(***************************************************************************)
(* An ack of a timer, or data from the peer: the path is heard of.         *)
(***************************************************************************)
HeardOf ==
    /\ ~active
    /\ active' = TRUE
    /\ in_flight' = Budget
    /\ in_flight_log' = Log
    /\ forgone' = forgone + in_flight
    /\ UNCHANGED <<path_seq, batches, arrived, first_seq, tracker, counters, ack_cum, held, fed>>

(***************************************************************************)
(* expire_in_flight: the j oldest charges have passed the horizon.         *)
(***************************************************************************)
ExpireInFlight(j) ==
    /\ j \in DOMAIN in_flight_log
    /\ in_flight' = Less(in_flight, Charges(SubSeq(in_flight_log, 1, j)))
    /\ in_flight_log' = SubSeq(in_flight_log, j + 1, Len(in_flight_log))
    /\ forgone' = forgone + Charges(SubSeq(in_flight_log, 1, j))
    /\ UNCHANGED <<path_seq, batches, arrived, first_seq, tracker, counters, active, ack_cum,
                   held, fed>>

(***************************************************************************)
(* check_dead_paths.                                                       *)
(***************************************************************************)
PathDies ==
    /\ active
    /\ active' = FALSE
    /\ UNCHANGED <<path_seq, batches, arrived, first_seq, tracker, counters, in_flight,
                   in_flight_log, ack_cum, held, fed, forgone>>

PathNext ==
    \/ SendBatch
    \/ SendUncharged
    \/ \E s \in batches : BatchLost(s)
    \/ \E s \in batches : BatchArrives(s)
    \/ \E c \in counters : AckLost(c)
    \/ \E c \in counters, repeated \in BOOLEAN : WindowAck(c, repeated)
    \/ HeardOf
    \/ \E j \in DOMAIN in_flight_log : ExpireInFlight(j)
    \/ PathDies

PathSpec == PathInit /\ [][PathNext]_pathVars

-----------------------------------------------------------------------------
(***************************************************************************)
(* LossCounted: from the first batch that arrived on, the totals differ by *)
(* the batches below the highest that are missing: reorder is not loss.    *)
(* What arrives late from before the first one is received but was never   *)
(* expected.                                                               *)
(***************************************************************************)
Missing(from) == {s \in from .. tracker.highest_seq : s \notin arrived}

LossCounted ==
    /\ tracker.received = Cardinality(arrived)
    /\ arrived # {} =>
          tracker.expected - tracker.received
              = Cardinality(Missing(first_seq)) - Cardinality({s \in arrived : s < first_seq})

(***************************************************************************)
(* FedExactly: what the estimator is fed adds up to the totals last seen,  *)
(* but for the credit held: no ack lost, late or repeated feeds a loss     *)
(* twice or forgets one, and no pair has more received than expected.      *)
(***************************************************************************)
FedExactly ==
    /\ fed.expected = ack_cum.expected
    /\ fed.expected - fed.received = ack_cum.expected - ack_cum.received + held
    /\ fed.received <= fed.expected
    /\ ack_cum.expected <= tracker.expected
    /\ ack_cum.received <= tracker.received

(***************************************************************************)
(* LedgerCloses: the charge log accounts for the budget; the budget never  *)
(* exceeds what is sent and not yet accounted for by an ack, so it cannot  *)
(* jam the path; and it falls short of that, and of the batches on the     *)
(* wire no arrival has overtaken, by no more than what has left without a  *)
(* charge, was swept or went with a revival since the acks last accounted  *)
(* for all that was sent.  (The acks of uncharged batches do release the   *)
(* charges of others: a shortfall lasts until then.)                       *)
(***************************************************************************)
LedgerCloses ==
    /\ Charges(in_flight_log) = in_flight
    /\ in_flight <= path_seq - ack_cum.expected
    /\ path_seq - ack_cum.expected <= in_flight + forgone
    /\ Cardinality({s \in batches : s > tracker.highest_seq}) <= in_flight + forgone

(***************************************************************************)
(* MissingCounted: what the tracker says of its totals: their difference   *)
(* is the number of sequences below the highest that have not arrived.     *)
(***************************************************************************)
MissingCounted == tracker.expected - tracker.received = Cardinality(Missing(0))
=============================================================================
