--------------------------- MODULE SlidingDecoder ---------------------------
(***************************************************************************)
(* The older decoder (RWM_UNIFIED=0): known payloads and pivot rows, which *)
(* are not kept reduced.  A call inserts an equation or a source and runs  *)
(* cascade_from_recovered until its queue is empty, one seq a step.        *)
(***************************************************************************)
EXTENDS CodedRows

VARIABLES
    recovered,    \* known payloads: seq -> data
    pivots,       \* pivot seq -> row
    output,       \* seqs returned to the caller
    src_seen, repairs_seen, floor,
    queue,        \* the cascade's queue
    given         \* history: what reached the caller

slidingVars == <<recovered, pivots, output, src_seen, repairs_seen, floor, queue, given>>

SlidingInit ==
    /\ recovered = <<>>
    /\ pivots = <<>>
    /\ output = {}
    /\ src_seen = {}
    /\ repairs_seen = {}
    /\ floor = 0
    /\ queue = <<>>
    /\ given = {}

Idle == queue = <<>>

(* The payloads `found` are known, and reach the caller if they are new.   *)
Recover(found) ==
    /\ recovered' = [s \in DOMAIN found \cup DOMAIN recovered |->
                        IF s \in DOMAIN found THEN found[s] ELSE recovered[s]]
    /\ output' = output \cup DOMAIN found
    /\ given' = given \cup {s \in DOMAIN found \ output : s >= floor}

-----------------------------------------------------------------------------
FeedSource(symbol) ==
    LET s == symbol.start
    IN  /\ Idle
        /\ ~symbol.is_repair
        /\ IF s < floor \/ s \in src_seen
           THEN UNCHANGED <<recovered, output, src_seen, queue, given>>
           ELSE /\ src_seen' = src_seen \cup {s}
                /\ Recover([x \in {s} |-> symbol.data])
                /\ queue' = <<s>>
        /\ UNCHANGED <<pivots, repairs_seen, floor>>

(***************************************************************************)
(* insert_equation: which pivots to eliminate is settled before the first  *)
(* of them is, from the columns the equation has then.                     *)
(***************************************************************************)
insert_equation(equation) ==
    LET unknown == eliminate_known(equation, recovered)
        reduced == reduce(unknown, pivots, Support(unknown) \cap DOMAIN pivots)
        row     == normalized(reduced)
    IN  CASE Support(reduced) = {} ->
               UNCHANGED <<recovered, pivots, output, queue, given>>
          [] Cardinality(Support(reduced)) = 1 ->
               /\ Recover([x \in {lead(row)} |-> row.d])
               /\ queue' = <<lead(row)>>
               /\ UNCHANGED pivots
          [] OTHER ->
               /\ pivots' = insert(pivots, lead(row), row)
               /\ UNCHANGED <<recovered, output, queue, given>>

FeedRepair(symbol) ==
    /\ Idle
    /\ symbol.is_repair
    /\ IF RepairKey(symbol) \in repairs_seen
       THEN UNCHANGED <<recovered, pivots, output, repairs_seen, queue, given>>
       ELSE /\ repairs_seen' = repairs_seen \cup {RepairKey(symbol)}
            /\ insert_equation(WireRow(symbol))
    /\ UNCHANGED <<src_seen, floor>>

(***************************************************************************)
(* cascade_from_recovered, for one seq: its own pivot row is dropped, the  *)
(* other rows lose its column, and those with nothing else left are solved.*)
(***************************************************************************)
Cascade ==
    /\ ~Idle
    /\ LET s        == Head(queue)
           table    == [p \in DOMAIN pivots \ {s} |-> substitute(pivots[p], s, recovered[s])]
           resolved == {p \in DOMAIN table : pivots[p].c[s] # Nought /\ Support(table[p]) = {p}}
       IN  /\ Recover([p \in resolved |-> table[p].d])
           /\ pivots' = Restrict(table, DOMAIN table \ resolved)
           /\ queue' = Tail(queue) \o Ascending(resolved)
    /\ UNCHANGED <<src_seen, repairs_seen, floor>>

Advance(oldest_seq) ==
    LET f    == IF oldest_seq > floor THEN oldest_seq ELSE floor
        kept == {s \in Seqs : s >= f}
    IN  /\ Idle
        /\ floor' = f
        /\ pivots' = Restrict(pivots, DOMAIN pivots \cap kept)
        /\ recovered' = Restrict(recovered, DOMAIN recovered \cap kept)
        /\ output' = output \cap kept
        /\ src_seen' = src_seen \cap kept
        /\ repairs_seen' = {k \in repairs_seen : k[1] \in kept}
        /\ UNCHANGED <<queue, given>>
=============================================================================
