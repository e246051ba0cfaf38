--------------------------- MODULE UnifiedDecoder ---------------------------
(***************************************************************************)
(* The decoder of the window: known payloads, and the coded rows kept in   *)
(* reduced row echelon form.  A call puts its symbol on the worklist       *)
(* (add_symbol) and runs assimilate until the list is empty, a column of   *)
(* an equation or a known payload a step; the next call comes when it is.  *)
(***************************************************************************)
EXTENDS CodedRows

VARIABLES
    recovered,    \* known payloads: seq -> data
    delivered,    \* seqs returned to the caller
    rows,         \* pivot seq -> row
    src_seen,     \* source seqs seen on the wire
    repairs_seen, \* keys of the coded symbols seen
    floor,        \* highest advance frontier
    work,         \* assimilate's worklist
    given         \* history: how often each seq reached the caller

unifiedVars == <<recovered, delivered, rows, src_seen, repairs_seen, floor, work, given>>

Known(s, data) == [kind |-> "known", seq |-> s, data |-> data]

(* An equation, and one whose known columns are gone already.              *)
Eq(row) == [kind |-> "eq", row |-> row]

Unknowns(row) == [kind |-> "row", row |-> row]

Item == [kind : {"known"}, seq : Seqs, data : Vec] \cup [kind : {"eq", "row"}, row : Row]

UnifiedInit ==
    /\ recovered = <<>>
    /\ delivered = {}
    /\ rows = <<>>
    /\ src_seen = {}
    /\ repairs_seen = {}
    /\ floor = 0
    /\ work = <<>>
    /\ given = [s \in Seqs |-> 0]

Idle == work = <<>>

(* A unit row; the pivots of those of `table` among P, in order; and what  *)
(* they deliver.                                                           *)
IsUnit(row) == \E s \in Seqs : Support(row) = {s}

Units(table, P) == {p \in P : IsUnit(table[p])}

InOrderOf(P) ==
    {q \in [1 .. Cardinality(P) -> P] : \A i, j \in DOMAIN q : i < j => q[i] < q[j]}

Deliveries(table, q) == [i \in DOMAIN q |-> Known(lead(table[q[i]]), table[q[i]].d)]

-----------------------------------------------------------------------------
(***************************************************************************)
(* add_symbol of a source symbol.                                          *)
(***************************************************************************)
FeedSource(symbol) ==
    LET s == symbol.start
    IN  /\ Idle
        /\ ~symbol.is_repair
        /\ IF s < floor \/ s \in src_seen
           THEN UNCHANGED <<src_seen, work>>
           ELSE /\ src_seen' = src_seen \cup {s}
                /\ work' = IF s \in DOMAIN recovered THEN <<>>
                                                     ELSE <<Known(s, symbol.data)>>
        /\ UNCHANGED <<recovered, delivered, rows, repairs_seen, floor, given>>

(* Variant: one known source of the span is enough to call it redundant.   *)
inert_partly_known(symbol) == SpanOf(symbol) \cap DOMAIN recovered # {}

(***************************************************************************)
(* add_symbol of a coded symbol: one whose span lies below the floor or is *)
(* wholly known has nothing to say.                                        *)
(***************************************************************************)
inert(symbol) == SpanOf(symbol) \subseteq DOMAIN recovered

FeedRepair(symbol) ==
    /\ Idle
    /\ symbol.is_repair
    /\ IF RepairKey(symbol) \in repairs_seen \/ symbol.start + symbol.count <= floor
       THEN UNCHANGED <<repairs_seen, work>>
       ELSE /\ repairs_seen' = repairs_seen \cup {RepairKey(symbol)}
            /\ work' = IF inert(symbol) THEN <<>> ELSE <<Eq(WireRow(symbol))>>
    /\ UNCHANGED <<recovered, delivered, rows, src_seen, floor, given>>

(* Variant: the row that pivots at a source that arrives late is dropped.  *)
displaced_dropped(s, data) == <<>>

(***************************************************************************)
(* A payload became known.  The row that pivots at it is an equation over  *)
(* its other columns, to be assimilated again; every other row loses the   *)
(* column, and delivers its pivot when nothing else is left.               *)
(***************************************************************************)
displaced(s, data) ==
    LET row == substitute(rows[s], s, data)
    IN  IF s \in DOMAIN rows /\ Support(row) # {} THEN <<Eq(row)>> ELSE <<>>

KnownAlready ==
    /\ ~Idle
    /\ Head(work).kind = "known"
    /\ Head(work).seq \in DOMAIN recovered
    /\ work' = Tail(work)
    /\ UNCHANGED <<recovered, delivered, rows, src_seen, repairs_seen, floor, given>>

AssimilateKnown ==
    /\ ~Idle
    /\ Head(work).kind = "known"
    /\ LET s        == Head(work).seq
           data     == Head(work).data
           table    == [p \in DOMAIN rows \ {s} |-> substitute(rows[p], s, data)]
           units    == Units(table, {p \in DOMAIN table : rows[p].c[s] # Nought})
       IN  /\ s \notin DOMAIN recovered
           /\ recovered' = insert(recovered, s, data)
           /\ delivered' = delivered \cup {s}
           /\ given' = IF s \in delivered \/ s < floor
                       THEN given ELSE [given EXCEPT ![s] = @ + 1]
           /\ rows' = Restrict(table, DOMAIN table \ units)
           /\ \E q \in InOrderOf(units) :
                 work' = Tail(work) \o displaced(s, data) \o Deliveries(table, q)
    /\ UNCHANGED <<src_seen, repairs_seen, floor>>

(***************************************************************************)
(* An equation at the head of the list, one column a step: first the known *)
(* columns leave it, then it is reduced by the stored rows, left to right. *)
(***************************************************************************)
AtEquation == ~Idle /\ Head(work).kind \in {"eq", "row"}

KnownColumns ==
    IF Head(work).kind = "eq" THEN Support(Head(work).row) \cap DOMAIN recovered ELSE {}

PivotColumns == Support(Head(work).row) \cap DOMAIN rows

Leftmost(S) == {s \in S : \A q \in S : s <= q}

EliminateKnown ==
    /\ AtEquation
    /\ \E s \in Leftmost(KnownColumns) :
          work' = <<Eq(substitute(Head(work).row, s, recovered[s]))>> \o Tail(work)
    /\ UNCHANGED <<recovered, delivered, rows, src_seen, repairs_seen, floor, given>>

ReduceByPivot ==
    /\ AtEquation
    /\ KnownColumns = {}
    /\ \E s \in Leftmost(PivotColumns) :
          work' = <<Unknowns(sub_scaled(Head(work).row, Head(work).row.c[s], rows[s]))>>
                  \o Tail(work)
    /\ UNCHANGED <<recovered, delivered, rows, src_seen, repairs_seen, floor, given>>

(* Variant: the new pivot stays in the rows stored before.                 *)
cleared_not(p, row) == rows[p]

(***************************************************************************)
(* What is left of it, scaled, is nothing, a delivery, or a row with a new *)
(* pivot, which is cleared from the others (Gauss-Jordan).                 *)
(***************************************************************************)
cleared(p, row) == sub_scaled(rows[p], rows[p].c[lead(row)], row)

Reduced == AtEquation /\ KnownColumns = {} /\ PivotColumns = {}

Dependent ==
    /\ Reduced
    /\ Support(Head(work).row) = {}
    /\ work' = Tail(work)
    /\ UNCHANGED <<recovered, delivered, rows, src_seen, repairs_seen, floor, given>>

Solved ==
    /\ Reduced
    /\ IsUnit(Head(work).row)
    /\ LET row == normalized(Head(work).row)
       IN  work' = Append(Tail(work), Known(lead(row), row.d))
    /\ UNCHANGED <<recovered, delivered, rows, src_seen, repairs_seen, floor, given>>

StoreRow ==
    /\ Reduced
    /\ Support(Head(work).row) # {}
    /\ ~IsUnit(Head(work).row)
    /\ LET row     == normalized(Head(work).row)
           touched == {p \in DOMAIN rows : rows[p].c[lead(row)] # Nought}
           others  == [p \in DOMAIN rows |-> IF p \in touched THEN cleared(p, row) ELSE rows[p]]
           table   == insert(others, lead(row), row)
           units   == Units(table, touched)
       IN  /\ rows' = Restrict(table, DOMAIN table \ units)
           /\ \E q \in InOrderOf(units) : work' = Tail(work) \o Deliveries(table, q)
    /\ UNCHANGED <<recovered, delivered, src_seen, repairs_seen, floor, given>>

Assimilate ==
    \/ KnownAlready \/ AssimilateKnown
    \/ EliminateKnown \/ ReduceByPivot
    \/ Dependent \/ Solved \/ StoreRow

(* Variant: the floor itself is forgotten with what lies below it.         *)
kept_strictly(f) == {s \in Seqs : s > f}

(***************************************************************************)
(* advance: the floor rises and everything below it is dropped.            *)
(***************************************************************************)
kept(f) == {s \in Seqs : s >= f}

Advance(oldest_seq) ==
    LET f == IF oldest_seq > floor THEN oldest_seq ELSE floor
    IN  /\ Idle
        /\ floor' = f
        /\ rows' = Restrict(rows, DOMAIN rows \cap kept(f))
        /\ recovered' = Restrict(recovered, DOMAIN recovered \cap kept(f))
        /\ delivered' = delivered \cap kept(f)
        /\ src_seen' = src_seen \cap kept(f)
        /\ repairs_seen' = {k \in repairs_seen : k[1] \in kept(f)}
        /\ UNCHANGED <<work, given>>
=============================================================================
