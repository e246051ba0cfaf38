----------------------------- MODULE RlcEncoder -----------------------------
(***************************************************************************)
(* The sliding-window encoder and the wire it feeds.  Ordered: a symbol    *)
(* arrives before the next is sent, or never.  Otherwise symbols are lost, *)
(* delayed, overtaken and repeated.                                        *)
(***************************************************************************)
EXTENDS CodedRows

CONSTANT Ordered

ASSUME OrderedAssumption == Ordered \in BOOLEAN

VARIABLES
    next_seq,        \* next source sequence number
    window_start,    \* front of the window; its back is next_seq - 1
    repair_counter,
    wire             \* symbols in flight

encVars == <<next_seq, window_start, repair_counter, wire>>

EncoderTypeOK ==
    /\ next_seq \in 0 .. N
    /\ window_start \in 0 .. next_seq
    /\ repair_counter \in 0 .. MaxRepairs
    /\ wire \subseteq Symbol

EncoderInit ==
    /\ next_seq = 0
    /\ window_start = 0
    /\ repair_counter = 0
    /\ wire = {}

Send(symbol) == wire' = IF Ordered THEN {symbol} ELSE wire \cup {symbol}

Take(symbol) ==
    /\ symbol \in wire
    /\ wire' = IF Ordered THEN {} ELSE wire
    /\ UNCHANGED <<next_seq, window_start, repair_counter>>

add_source ==
    /\ next_seq < N
    /\ next_seq' = next_seq + 1
    /\ Send([is_repair |-> FALSE, start |-> next_seq, count |-> 1, index |-> 0,
             data |-> Unit(next_seq)])
    /\ UNCHANGED <<window_start, repair_counter>>

(***************************************************************************)
(* generate_repair_range, and generate_repair, which is the range of the   *)
(* whole window: every source of the range must be retained.  The payload  *)
(* is the sum of the retained sources, each times its coefficient.         *)
(***************************************************************************)
retained(start, count) == window_start <= start /\ start + count <= next_seq

generate_repair_range(start, count) ==
    /\ repair_counter < MaxRepairs
    /\ retained(start, count)
    /\ repair_counter' = repair_counter + 1
    /\ Send([is_repair |-> TRUE, start |-> start, count |-> count, index |-> repair_counter,
             data |-> CoefficientsOf(start, count, repair_counter)])
    /\ UNCHANGED <<next_seq, window_start>>

(***************************************************************************)
(* advance: the window forgets what is older than the ack, or than its cap.*)
(***************************************************************************)
encoder_advance(oldest_seq) ==
    /\ window_start < oldest_seq
    /\ window_start' = oldest_seq
    /\ UNCHANGED <<next_seq, repair_counter, wire>>

Encode ==
    \/ add_source
    \/ \E start \in Seqs, count \in 1 .. N : generate_repair_range(start, count)
    \/ \E oldest_seq \in 0 .. next_seq : encoder_advance(oldest_seq)
=============================================================================
