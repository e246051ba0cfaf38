----------------------------- MODULE SuccGauge -----------------------------
(***************************************************************************)
(* The receiver's record of holes: each one is detected when a higher seq  *)
(* arrives before it, and ends in the first of three outcomes: its own     *)
(* symbol arrives (the original or a copy), the decoder reconstructs it,   *)
(* or the in-order frontier passes it.                                     *)
(*                                                                         *)
(* A gauge is a record: `open`, the seqs of the open holes, the high-water *)
(* mark and the outcome counters.  Durations, paths and stamps, and so the *)
(* split of `orig` into originals and copies, are left out.                *)
(***************************************************************************)
EXTENDS Integers, FiniteSets, FiniteSetsExt

CONSTANTS
    MaxOpen,    \* MAX_OPEN: holes tracked at a time
    MaxSpan     \* MAX_SPAN: holes one arrival may open

ASSUME GaugeAssumption == MaxOpen \in Nat /\ MaxSpan \in Nat

Unseen == -1    \* the high-water mark before the first arrival

EmptyGauge == [open |-> {}, hi |-> Unseen, det |-> 0, orig |-> 0, rep |-> 0, aban |-> 0,
               over |-> 0]

(***************************************************************************)
(* resolve_at, for every seq of one arrival: those that are open holes     *)
(* close.  `own` is the arriving symbol's own seq when it carries one.     *)
(***************************************************************************)
resolve_at(g, recovered, own) ==
    LET closed == recovered \cap g.open
    IN  [g EXCEPT !.open = @ \ closed,
                  !.orig = @ + Cardinality(closed \cap own),
                  !.rep  = @ + Cardinality(closed \ own)]

(* Variant: the holes the bound on tracking cuts off are not counted.      *)
observe_high_uncut(g, seq) ==
    IF g.hi = Unseen \/ seq <= g.hi THEN [g EXCEPT !.hi = Max({@, seq})]
    ELSE LET holes == g.hi + 1 .. seq - 1
             wide  == Cardinality(holes) > MaxSpan
             room  == IF wide THEN 0 ELSE MaxOpen - Cardinality(g.open)
             kept  == {s \in holes : s - g.hi <= room}
         IN  [g EXCEPT !.hi   = seq,
                       !.det  = @ + Cardinality(holes),
                       !.over = IF wide THEN @ + Cardinality(holes) ELSE @,
                       !.open = @ \cup kept]

(***************************************************************************)
(* observe_high_at: the seqs an arrival jumps over become open holes; what *)
(* a bound refuses to track is counted in `over`.  The first arrival of    *)
(* all only sets the mark.                                                 *)
(***************************************************************************)
observe_high_at(g, seq) ==
    IF g.hi = Unseen \/ seq <= g.hi THEN [g EXCEPT !.hi = Max({@, seq})]
    ELSE LET holes == g.hi + 1 .. seq - 1
             wide  == Cardinality(holes) > MaxSpan
             room  == IF wide THEN 0 ELSE MaxOpen - Cardinality(g.open)
             kept  == {s \in holes : s - g.hi <= room}
         IN  [g EXCEPT !.hi   = seq,
                       !.det  = @ + Cardinality(holes),
                       !.over = @ + Cardinality(holes \ kept),
                       !.open = @ \cup kept]

(***************************************************************************)
(* abandon_below: the holes the frontier has passed.                       *)
(***************************************************************************)
Abandoned(g, frontier) == {s \in g.open : s < frontier}

abandon_below(g, frontier) ==
    LET gone == Abandoned(g, frontier)
    IN  [g EXCEPT !.open = @ \ gone, !.aban = @ + Cardinality(gone)]
=============================================================================
