----------------------------- MODULE WindowLink -----------------------------
(***************************************************************************)
(* The datagrams between the two ends of a window: source symbols and      *)
(* coded symbols one way, WindowAcks the other way.  QUIC datagrams are    *)
(* lost, reordered and, because retransmissions and acks go out on several *)
(* paths, duplicated.  A sequence number stands for the source symbol that *)
(* carries it.                                                             *)
(***************************************************************************)
EXTENDS SackLaws

CONSTANTS
    N,           \* source symbols the TUN supplies during a behaviour
    AckCap,      \* bound on WindowAcks in flight
    MaxRepairs   \* bound on coded symbols in flight

ASSUME LinkAssumption ==
    /\ N \in Nat \ {0}
    /\ AckCap \in Nat \ {0}
    /\ MaxRepairs \in Nat

VARIABLES
    data,     \* seqs with a source copy in flight
    repairs,  \* number of coded symbols in flight
    acks      \* WindowAcks in flight

linkVars == <<data, repairs, acks>>

Seqs == 0 .. N - 1

WindowAck == [next_expected : 0 .. N, received_above : Nat, sacked : SUBSET Seqs]

LinkTypeOK ==
    /\ data \subseteq Seqs
    /\ repairs \in 0 .. MaxRepairs
    /\ acks \subseteq WindowAck

LinkInit == data = {} /\ repairs = 0 /\ acks = {}

(***************************************************************************)
(* A datagram leaves the network when it is taken, unless another copy of  *)
(* it is still on its way.                                                 *)
(***************************************************************************)
TakeSource(s, another) ==
    /\ s \in data
    /\ data' = IF another THEN data ELSE data \ {s}
    /\ UNCHANGED repairs

TakeRepair ==
    /\ repairs > 0
    /\ repairs' = repairs - 1
    /\ UNCHANGED data

TakeAck(a, another) ==
    /\ a \in acks
    /\ acks' = IF another THEN acks ELSE acks \ {a}

(***************************************************************************)
(* A new WindowAck enters the network; one of those in flight is lost when *)
(* AckCap are there already.                                               *)
(***************************************************************************)
SendAck(a) ==
    \/ /\ a \in acks \/ Cardinality(acks) < AckCap
       /\ acks' = acks \cup {a}
    \/ /\ a \notin acks /\ Cardinality(acks) >= AckCap
       /\ \E b \in acks : acks' = (acks \ {b}) \cup {a}

LoseSource(s) == s \in data /\ data' = data \ {s} /\ UNCHANGED <<repairs, acks>>

LoseRepair == TakeRepair /\ UNCHANGED acks

LoseAck(a) == TakeAck(a, FALSE) /\ UNCHANGED <<data, repairs>>

Lose ==
    \/ \E s \in data : LoseSource(s)
    \/ LoseRepair
    \/ \E a \in acks : LoseAck(a)
=============================================================================
