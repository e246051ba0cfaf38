------------------------- MODULE GenerationDecoder -------------------------
(***************************************************************************)
(* The sparse decoder of generation coding.  Each (anchor, width) has a    *)
(* linear system of its own: its known columns, and coded rows in reduced  *)
(* echelon form over the others.  Payloads are in one store that known     *)
(* columns refer to.  What one system delivers is injected in the others,  *)
(* one seq a step (propagate); the next call comes when that is done.      *)
(***************************************************************************)
EXTENDS CodedRows

VARIABLES
    gens,        \* (anchor, width) -> its system
    recovered,   \* seq -> payload
    src_seen, repairs_seen,
    floor,
    queue,       \* propagate's queue
    given        \* history: how often each seq reached the caller

decoderVars == <<gens, recovered, src_seen, repairs_seen, floor, queue, given>>

Solving(known, pivots) == [done |-> FALSE, known |-> known, pivots |-> pivots]

Done == [done |-> TRUE, known |-> {}, pivots |-> <<>>]

SlotSpan(slot) == slot[1] .. slot[1] + slot[2] - 1

Live == {slot \in DOMAIN gens : ~gens[slot].done}

DecoderInit ==
    /\ gens = <<>>
    /\ recovered = <<>>
    /\ src_seen = {}
    /\ repairs_seen = {}
    /\ floor = 0
    /\ queue = <<>>
    /\ given = [s \in Seqs |-> 0]

Idle == queue = <<>>

-----------------------------------------------------------------------------
(* Variant: a fresh system starts with no column known.                    *)
fresh_blank(w, slot) == Solving({}, <<>>)

(* A system not seen before knows what is recovered of its span.           *)
fresh(w, slot) == Solving(SlotSpan(slot) \cap DOMAIN w.recovered, <<>>)

SystemOf(w, slot) == IF slot \in DOMAIN w.gens THEN w.gens[slot] ELSE fresh(w, slot)

(* The coded rows once the reduced row is a pivot among them.              *)
WithPivot(pivots, row) ==
    insert([p \in DOMAIN pivots |-> sub_scaled(pivots[p], pivots[p].c[lead(row)], row)],
           lead(row), row)

IsUnit(row) == Cardinality(Support(row)) = 1

(* The system when its unit rows are known columns: whole, or less.        *)
Settled(slot, known, pivots) ==
    IF known = SlotSpan(slot) THEN Done ELSE Solving(known, pivots)

(***************************************************************************)
(* insert_equation, on the store w = [gens, recovered]: the known columns  *)
(* leave the row by the store's payloads, the coded rows reduce it, what   *)
(* is left is a new pivot, and rows that have become unit are delivered.   *)
(***************************************************************************)
insert_equation(w, slot, equation) ==
    LET system  == SystemOf(w, slot)
        unknown == eliminate_known(equation, Restrict(w.recovered, system.known))
        reduced == reduce(unknown, system.pivots, DOMAIN system.pivots)
        pivots  == WithPivot(system.pivots, normalized(reduced))
        units   == {p \in DOMAIN pivots : IsUnit(pivots[p])}
        found   == [p \in units \ DOMAIN w.recovered |-> pivots[p].d]
        idle    == system.done \/ (slot \notin DOMAIN w.gens /\ system.known = SlotSpan(slot))
    IN  CASE idle -> [w EXCEPT !.out = {}]
          [] ~idle /\ Support(reduced) = {} ->
               [w EXCEPT !.gens = insert(w.gens, slot, system), !.out = {}]
          [] OTHER ->
               [gens      |-> insert(w.gens, slot,
                                     Settled(slot, system.known \cup units,
                                             Restrict(pivots, DOMAIN pivots \ units))),
                recovered |-> [s \in DOMAIN w.recovered \cup DOMAIN found |->
                                  IF s \in DOMAIN found THEN found[s] ELSE w.recovered[s]],
                out       |-> DOMAIN found]

Store == [gens |-> gens, recovered |-> recovered, out |-> {}]

(* Variant: only the systems anchored at the seq's own generation hear it. *)
covering_first(w, seq) ==
    LET live == {slot \in DOMAIN w.gens : ~w.gens[slot].done /\ seq \in SlotSpan(slot)
                                             /\ seq \notin w.gens[slot].known}
    IN  {slot \in live : \A other \in live : slot[1] <= other[1]}

(***************************************************************************)
(* inject_source_into_active_gens: the systems over the seq that do not    *)
(* know it get it as a unit equation, in the order of their keys.          *)
(***************************************************************************)
covering(w, seq) ==
    {slot \in DOMAIN w.gens : ~w.gens[slot].done /\ seq \in SlotSpan(slot)
                                  /\ seq \notin w.gens[slot].known}

KeyOrder(a, b) == a[1] < b[1] \/ (a[1] = b[1] /\ a[2] < b[2])

(* The slots S in that order.                                              *)
Place(S, slot) == Cardinality({other \in S : other = slot \/ KeyOrder(other, slot)})

InKeyOrder(S) == [k \in 1 .. Cardinality(S) |-> CHOOSE slot \in S : Place(S, slot) = k]

hear(w, slot, seq, data) ==
    LET done == insert_equation(w, slot, [c |-> Unit(seq), d |-> data])
    IN  [done EXCEPT !.out = @ \cup w.out]

inject(w, seq, data) ==
    FoldLeft(LAMBDA v, slot : hear(v, slot, seq, data),
             [w EXCEPT !.out = {}],
             InKeyOrder(covering(w, seq)))

(***************************************************************************)
(* A call's outcome: what it found is queued for the other systems, and    *)
(* reaches the caller unless it lies below the floor.                      *)
(***************************************************************************)
Outcome(w, rest, extra) ==
    /\ gens' = w.gens
    /\ recovered' = w.recovered
    /\ queue' = rest \o Ascending(w.out)
    /\ given' = [s \in Seqs |-> IF s \in w.out \cup extra /\ s >= floor
                                THEN given[s] + 1 ELSE given[s]]

(***************************************************************************)
(* add_symbol of a source.                                                 *)
(***************************************************************************)
FeedSource(symbol) ==
    LET s == symbol.start
    IN  /\ Idle
        /\ ~symbol.is_repair
        /\ src_seen' = IF s < floor THEN src_seen ELSE src_seen \cup {s}
        /\ IF s < floor \/ s \in src_seen \/ s \in DOMAIN recovered
           THEN UNCHANGED <<gens, recovered, queue, given>>
           ELSE Outcome(inject([Store EXCEPT !.recovered = insert(@, s, symbol.data)],
                               s, symbol.data), <<>>, {s})
        /\ UNCHANGED <<repairs_seen, floor>>

RepairRow(symbol) ==
    [c |-> [s \in Seqs |-> IF s \in symbol.start .. symbol.start + symbol.coded - 1
                           THEN Coefficient(symbol.start, symbol.count, symbol.index,
                                            s - symbol.start)
                           ELSE Nought],
     d |-> symbol.data]

(***************************************************************************)
(* add_symbol of a repair.                                                 *)
(***************************************************************************)
FeedRepair(symbol) ==
    /\ Idle
    /\ symbol.is_repair
    /\ repairs_seen' = repairs_seen \cup {RepairKey(symbol)}
    /\ IF RepairKey(symbol) \in repairs_seen
       THEN UNCHANGED <<gens, recovered, queue, given>>
       ELSE Outcome(insert_equation(Store, <<symbol.start, symbol.count>>, RepairRow(symbol)),
                    <<>>, {})
    /\ UNCHANGED <<src_seen, floor>>

(***************************************************************************)
(* propagate, one seq.                                                     *)
(***************************************************************************)
Propagate ==
    /\ ~Idle
    /\ Outcome(inject(Store, Head(queue), recovered[Head(queue)]), Tail(queue), {})
    /\ UNCHANGED <<src_seen, repairs_seen, floor>>

(* Variant: payloads go with the floor, whatever system needs them.        *)
prune_to_floor(oldest_seq, live) == oldest_seq

(***************************************************************************)
(* advance: systems that end at or below the point go; payloads stay from  *)
(* the lowest anchor of a system still solving.                            *)
(***************************************************************************)
prune_to(oldest_seq, live) ==
    CHOOSE m \in {oldest_seq} \cup {slot[1] : slot \in live} :
        \A k \in {oldest_seq} \cup {slot[1] : slot \in live} : m <= k

Advance(oldest_seq) ==
    LET kept  == {slot \in DOMAIN gens : slot[1] + slot[2] > oldest_seq}
        raised == IF oldest_seq > floor THEN oldest_seq ELSE floor
    IN  /\ Idle
        /\ floor' = raised
        /\ gens' = Restrict(gens, kept)
        /\ recovered' = Restrict(recovered, {s \in DOMAIN recovered :
                                             s >= prune_to(oldest_seq, Live \cap kept)})
        /\ src_seen' = {s \in src_seen : s >= raised}
        /\ repairs_seen' = {k \in repairs_seen : k[1] >= raised}
        /\ UNCHANGED <<queue, given>>

(***************************************************************************)
(* rank_in, of the generation of that width.                               *)
(***************************************************************************)
rank_in(slot) ==
    CASE slot \in DOMAIN gens /\ gens[slot].done -> slot[2]
      [] slot \in Live -> Cardinality(gens[slot].known) + Cardinality(DOMAIN gens[slot].pivots)
      [] OTHER         -> Cardinality(SlotSpan(slot) \cap DOMAIN recovered)
=============================================================================
