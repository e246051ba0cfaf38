----------------------------- MODULE CodedRows -----------------------------
(***************************************************************************)
(* The coded rows of the window codec: linear equations over the sources   *)
(* 0 .. N-1, with coefficients in a field of characteristic 2.             *)
(*                                                                         *)
(* A payload is the vector of what it is made of: the payload of source s  *)
(* is Unit(s), a coded payload the combination that was computed, so an    *)
(* equation is right exactly when its payload equals its coefficients.     *)
(***************************************************************************)
EXTENDS Enumerations, FiniteSetsExt, SequencesExt

CONSTANTS
    N,                      \* sources of the stream
    MaxRepairs,             \* coded symbols generated in a behaviour
    Field, Nought, One,     \* GF(256) in the code
    Add(_, _), Mul(_, _), Inv(_),
    Coefficient(_, _, _, _) \* of (start, count, index), at an offset

ASSUME SizeAssumption == N \in Nat \ {0} /\ MaxRepairs \in Nat

ASSUME FieldAssumption ==
    /\ {Nought, One} \subseteq Field /\ Nought # One
    /\ \A a, b \in Field :
          /\ Add(a, b) \in Field /\ Add(a, b) = Add(b, a)
          /\ Mul(a, b) \in Field /\ Mul(a, b) = Mul(b, a)
    /\ \A a, b, c \in Field :
          /\ Add(a, Add(b, c)) = Add(Add(a, b), c)
          /\ Mul(a, Mul(b, c)) = Mul(Mul(a, b), c)
          /\ Mul(a, Add(b, c)) = Add(Mul(a, b), Mul(a, c))
    /\ \A a \in Field : Add(a, Nought) = a /\ Mul(a, One) = a /\ Add(a, a) = Nought
    /\ \A a \in Field \ {Nought} : Inv(a) \in Field /\ Mul(a, Inv(a)) = One

Seqs == 0 .. N - 1

ASSUME CoefficientAssumption ==
    \A start, i \in Seqs, count \in 1 .. N, index \in 0 .. MaxRepairs - 1 :
        Coefficient(start, count, index, i) \in Field \ {Nought}

Vec == [Seqs -> Field]

Zero == [s \in Seqs |-> Nought]

Unit(s) == [Zero EXCEPT ![s] = One]

mul_acc(v, f, w) == [s \in Seqs |-> Add(v[s], Mul(f, w[s]))]

(***************************************************************************)
(* A row: coefficients and payload.                                        *)
(***************************************************************************)
Row == [c : Vec, d : Vec]

Support(row) == {s \in Seqs : row.c[s] # Nought}

lead(row) == CHOOSE s \in Support(row) : \A q \in Support(row) : s <= q

(* Variant: the row is subtracted unscaled.                                *)
sub_unscaled(row, f, other) ==
    [c |-> mul_acc(row.c, One, other.c), d |-> mul_acc(row.d, One, other.d)]

sub_scaled(row, f, other) ==
    [c |-> mul_acc(row.c, f, other.c), d |-> mul_acc(row.d, f, other.d)]

scale(row, f) == [c |-> mul_acc(Zero, f, row.c), d |-> mul_acc(Zero, f, row.d)]

normalized(row) == scale(row, Inv(row.c[lead(row)]))

(* Variant: the column is cleared, its payload stays in the sum.           *)
substitute_half(row, s, data) == [row EXCEPT !.c[s] = Nought]

(***************************************************************************)
(* The row without column s, whose payload is known to be `data`; without  *)
(* every column of the function `known`; and reduced, left to right, by    *)
(* the rows that `table` keeps for the pivots `cols`.                      *)
(***************************************************************************)
substitute(row, s, data) ==
    [c |-> [row.c EXCEPT ![s] = Nought], d |-> mul_acc(row.d, row.c[s], data)]

eliminate_known(row, known) ==
    FoldLeft(LAMBDA r, s : substitute(r, s, known[s]), row, Ascending(DOMAIN known))

reduce(row, table, cols) ==
    FoldLeft(LAMBDA r, s : sub_scaled(r, r.c[s], table[s]), row, Ascending(cols))

(* An equation that holds.                                                 *)
RowSound(row) == row.d = row.c

(* The combinations of the vectors G.                                      *)
Span(G) ==
    FoldSet(LAMBDA g, S : {mul_acc(v, f, g) : v \in S, f \in Field}, {Zero}, G)

(* A map with an entry put in.                                             *)
insert(map, k, v) == [x \in DOMAIN map \cup {k} |-> IF x = k THEN v ELSE map[x]]

-----------------------------------------------------------------------------
(***************************************************************************)
(* What travels: a source symbol, or a coded one over [start, start+count).*)
(***************************************************************************)
Symbol == [is_repair : BOOLEAN, start : Seqs, count : 1 .. N,
           index : 0 .. MaxRepairs, data : Vec]

SpanOf(symbol) == symbol.start .. symbol.start + symbol.count - 1

(* Variant: the key names one past the end of the span.                    *)
RepairKeyEnd(symbol) == <<symbol.start + symbol.count, symbol.index>>

RepairKey(symbol) == <<symbol.start + symbol.count - 1, symbol.index>>

CoefficientsOf(start, count, index) ==
    [s \in Seqs |-> IF s \in start .. start + count - 1
                    THEN Coefficient(start, count, index, s - start) ELSE Nought]

(* The equation a coded symbol stands for.                                 *)
WireRow(symbol) ==
    [c |-> CoefficientsOf(symbol.start, symbol.count, symbol.index), d |-> symbol.data]
=============================================================================
