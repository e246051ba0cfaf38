---------------------------- MODULE Enumerations ----------------------------
(***************************************************************************)
(* Finite sets of numbers and the positions of sequences, enumerated in    *)
(* ascending order by counting, so that TLC evaluates what the proofs      *)
(* reason about.                                                           *)
(***************************************************************************)
EXTENDS Integers, Sequences, FiniteSets

(* The number of members of S up to s.                                     *)
Rank(S, s) == Cardinality({q \in S : q <= s})

(* The members of S in ascending order.                                    *)
Ascending(S) == [k \in 1 .. Cardinality(S) |-> CHOOSE s \in S : Rank(S, s) = k]

(* The elements of a sequence at the positions P, in order.                *)
At(seq, P) == [k \in 1 .. Cardinality(P) |-> seq[Ascending(P)[k]]]

(* What a sequence keeps of its elements when only those of S stay.        *)
Kept(seq, S) == At(seq, {i \in DOMAIN seq : seq[i] \in S})
=============================================================================
