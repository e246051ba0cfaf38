---------------------------- MODULE WindowCodec ----------------------------
(***************************************************************************)
(* The encoder, the wire and the unified decoder.                          *)
(***************************************************************************)
EXTENDS RlcEncoder, UnifiedDecoder

vars == <<encVars, unifiedVars>>

Init == EncoderInit /\ UnifiedInit

EncoderStep == Encode /\ UNCHANGED unifiedVars

Receive(symbol) == Take(symbol) /\ (FeedSource(symbol) \/ FeedRepair(symbol))

(***************************************************************************)
(* The receiver raises the floor to a point of its frontier: below it all  *)
(* was handed on, or given up (rho < 1).                                   *)
(***************************************************************************)
RaiseFloor == (\E f \in 0 .. next_seq : Advance(f)) /\ UNCHANGED encVars

DecoderStep == Assimilate /\ UNCHANGED encVars

Next ==
    \/ EncoderStep
    \/ \E symbol \in wire : Receive(symbol)
    \/ RaiseFloor
    \/ DecoderStep

Spec == Init /\ [][Next]_vars

(* A call runs to its end.                                                 *)
FairSpec == Spec /\ WF_vars(DecoderStep)

-----------------------------------------------------------------------------
(* The decoder's variables have their types.                               *)
TypeOK ==
    /\ EncoderTypeOK
    /\ DOMAIN recovered \subseteq Seqs
    /\ \A s \in DOMAIN recovered : recovered[s] \in Vec
    /\ delivered \subseteq Seqs
    /\ DOMAIN rows \subseteq Seqs
    /\ \A p \in DOMAIN rows : rows[p] \in Row
    /\ src_seen \subseteq Seqs
    /\ repairs_seen \subseteq Seqs \X (0 .. MaxRepairs)
    /\ floor \in 0 .. N
    /\ work \in Seq(Item)
    /\ given \in [Seqs -> Nat]

(* Every payload the decoder knows is the source's own, and every row it   *)
(* stores or has still to assimilate is an equation that holds, whatever   *)
(* arrived in which order and whatever was forgotten.                      *)
PayloadsTrue ==
    /\ \A s \in DOMAIN recovered : recovered[s] = Unit(s)
    /\ \A p \in DOMAIN rows : RowSound(rows[p])
    /\ \A i \in DOMAIN work :
          IF work[i].kind = "known" THEN work[i].data = Unit(work[i].seq)
                                    ELSE RowSound(work[i].row)

(* The rows are in reduced echelon form at every step of the worklist: a   *)
(* row leads with 1 at its pivot, has another column, and is zero at every *)
(* known source and at every other pivot.  (One left-to-right pass reduces *)
(* an equation only because of this.)                                      *)
ReducedEchelon ==
    \A p \in DOMAIN rows :
        /\ rows[p].c[p] = One
        /\ \A s \in Support(rows[p]) : p <= s
        /\ Support(rows[p]) # {p}
        /\ Support(rows[p]) \cap (DOMAIN recovered \cup DOMAIN rows) = {p}

(* No source reaches the caller twice, although what lies below the floor  *)
(* is forgotten and copies and equations over it still arrive.             *)
OnlyOnce == \A s \in Seqs : given[s] <= 1

(* The worklist runs empty: re-assimilating displaced rows and reducing by *)
(* rows that change does not go on for ever.                               *)
CallReturns == []<>Idle

(***************************************************************************)
(* The equations the decoder stands for.                                   *)
(***************************************************************************)
Space ==
    Span({Unit(s) : s \in DOMAIN recovered} \cup {rows[p].c : p \in DOMAIN rows} \cup
         {IF work[i].kind = "known" THEN Unit(work[i].seq) ELSE work[i].row.c :
             i \in DOMAIN work})

Code == INSTANCE ErasureCode WITH space <- Space

(* The decoder implements the abstract one: no step of the elimination     *)
(* gains or loses an equation, the next symbol is taken only when every    *)
(* source the equations determine was handed on, and raising the floor     *)
(* forgets only what concerns the sources below it.                        *)
ImplementsCode == Code!Spec
=============================================================================
