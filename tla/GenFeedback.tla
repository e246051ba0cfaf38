---------------------------- MODULE GenFeedback ----------------------------
(***************************************************************************)
(* The deficit loop of generation coding.  The receiver reports how many   *)
(* coded symbols each generation still needs; the sender takes off what it *)
(* believes in flight and emits the rest.  Reports are lost, late, out of  *)
(* order, and dropped by a full channel; coded symbols are lost and late.  *)
(*                                                                         *)
(* A coded symbol that arrives adds a degree of freedom until the          *)
(* generation is whole.  Of the counters gen_emitted and                   *)
(* gen_emitted_at_report only the difference is kept.                      *)
(***************************************************************************)
EXTENDS Integers, Sequences, FiniteSets, Functions

CONSTANTS
    Gens,       \* generations 0 .. Gens - 1; the last may be partial
    Width,      \* K_g
    Budget,     \* proactive symbols of a generation
    ReactCap,   \* react_cap_on: one deficit acted on per round trip
    DeficitChan,\* capacity of deficit_tx
    GenReports, \* reports on the wire at a time
    GenFlight   \* coded symbols of a generation in flight at a time

ASSUME GenAssumption ==
    /\ {Gens, Width, DeficitChan, GenReports, GenFlight} \subseteq Nat \ {0}
    /\ Budget \in Nat
    /\ ReactCap \in BOOLEAN

VARIABLES
    gen_want,    \* generation -> symbols still to emit; absent: none
    gen_sent,    \* generation -> emitted since the last report acted on
    gen_recent,  \* generations recovered less than react_space ago
    proactive,   \* generation -> symbols of its budget emitted
    gen_base,    \* the encoder retains the generations from here
    gen_flight,  \* generation -> coded symbols in flight
    gen_rank,    \* generation -> rank_in
    gen_widths,  \* generations whose width the receiver knows
    gen_reports, \* reports in flight
    deficit_rx   \* reports waiting for the sender's loop

genVars == <<gen_want, gen_sent, gen_recent, proactive, gen_base, gen_flight,
             gen_rank, gen_widths, gen_reports, deficit_rx>>

Gen == 0 .. Gens - 1

Decoded == {g \in Gen : gen_rank[g] = Width}

(* The in-order frontier, in generations.                                  *)
GenFrontier == CHOOSE f \in 0 .. Gens : f \notin Decoded /\ 0 .. f - 1 \subseteq Decoded

(***************************************************************************)
(* Any sources of a generation may be lost.  A generation below the        *)
(* highest seq seen is provably full and its width seeded; of the last     *)
(* one the receiver learns from a repair.                                  *)
(***************************************************************************)
GenInit ==
    /\ gen_want = <<>>
    /\ gen_sent = <<>>
    /\ gen_recent = {}
    /\ proactive = [g \in Gen |-> 0]
    /\ gen_base = 0
    /\ gen_flight = [g \in Gen |-> 0]
    /\ gen_rank \in [Gen -> 0 .. Width]
    /\ gen_widths = 0 .. Gens - 2
    /\ gen_reports = {}
    /\ deficit_rx = <<>>

-----------------------------------------------------------------------------
(***************************************************************************)
(* A coded symbol of generation g leaves; it counts against the next       *)
(* report when there is a baseline.                                        *)
(***************************************************************************)
Leaves(g) ==
    /\ gen_flight[g] < GenFlight
    /\ gen_flight' = [gen_flight EXCEPT ![g] = @ + 1]
    /\ gen_sent' = [h \in DOMAIN gen_sent |-> gen_sent[h] + (IF h = g THEN 1 ELSE 0)]

(***************************************************************************)
(* The proactive phase provisions a retained generation with its budget.   *)
(***************************************************************************)
EmitProactive(g) ==
    /\ g >= gen_base
    /\ proactive[g] < Budget
    /\ proactive' = [proactive EXCEPT ![g] = @ + 1]
    /\ Leaves(g)
    /\ UNCHANGED <<gen_want, gen_recent, gen_base, gen_rank, gen_widths, gen_reports, deficit_rx>>

Without(f, g) == Restrict(f, DOMAIN f \ {g})

(***************************************************************************)
(* The recovery phase: a want of a generation no longer retained is        *)
(* dropped, else it falls by the symbol that leaves.                       *)
(***************************************************************************)
EmitRecovery(g) ==
    /\ g \in DOMAIN gen_want
    /\ g >= gen_base
    /\ gen_want' = IF gen_want[g] = 1 THEN Without(gen_want, g)
                   ELSE [gen_want EXCEPT ![g] = @ - 1]
    /\ gen_recent' = IF ReactCap THEN gen_recent \cup {g} ELSE gen_recent
    /\ Leaves(g)
    /\ UNCHANGED <<proactive, gen_base, gen_rank, gen_widths, gen_reports, deficit_rx>>

DropWant(g) ==
    /\ g \in DOMAIN gen_want
    /\ g < gen_base
    /\ gen_want' = Without(gen_want, g)
    /\ UNCHANGED <<gen_sent, gen_recent, proactive, gen_base, gen_flight, gen_rank,
                   gen_widths, gen_reports, deficit_rx>>

(* Time passes: react_space is over for a generation.                      *)
SpacingPasses(g) ==
    /\ g \in gen_recent
    /\ gen_recent' = gen_recent \ {g}
    /\ UNCHANGED <<gen_want, gen_sent, proactive, gen_base, gen_flight, gen_rank,
                   gen_widths, gen_reports, deficit_rx>>

(***************************************************************************)
(* What is believed in flight; without a baseline, nothing.                *)
(***************************************************************************)
in_flight_of(g) == IF g \in DOMAIN gen_sent THEN gen_sent[g] ELSE 0

(* Variant: the baseline stays where the first report put it.              *)
baseline_kept(acted) ==
    [g \in acted \cup DOMAIN gen_sent |-> IF g \in DOMAIN gen_sent THEN gen_sent[g] ELSE 0]

(* The baseline is reset by every report acted on.                         *)
baseline(acted) ==
    [g \in acted \cup DOMAIN gen_sent |-> IF g \in acted THEN 0 ELSE gen_sent[g]]

(***************************************************************************)
(* deficit_rx.recv(): the report replaces the wants.                       *)
(***************************************************************************)
OnDeficits ==
    /\ deficit_rx # <<>>
    /\ deficit_rx' = Tail(deficit_rx)
    /\ LET report == Head(deficit_rx)
           acted  == DOMAIN report \ gen_recent
           short  == {g \in acted : report[g] > in_flight_of(g)}
       IN  /\ gen_want' = [g \in short |-> report[g] - in_flight_of(g)]
           /\ gen_sent' = baseline(acted)
    /\ UNCHANGED <<gen_recent, proactive, gen_base, gen_flight, gen_rank, gen_widths, gen_reports>>

(***************************************************************************)
(* The cumulative ack has passed generations: the encoder and the books    *)
(* forget them.                                                            *)
(***************************************************************************)
AckGenerations(f) ==
    /\ gen_base < f
    /\ f <= GenFrontier
    /\ gen_base' = f
    /\ gen_want' = Restrict(gen_want, {g \in DOMAIN gen_want : g >= f})
    /\ gen_sent' = Restrict(gen_sent, {g \in DOMAIN gen_sent : g >= f})
    /\ gen_recent' = {g \in gen_recent : g >= f}
    /\ UNCHANGED <<proactive, gen_flight, gen_rank, gen_widths, gen_reports, deficit_rx>>

-----------------------------------------------------------------------------
(***************************************************************************)
(* The wire and the receiver.                                              *)
(***************************************************************************)
CodedLost(g) ==
    /\ gen_flight[g] > 0
    /\ gen_flight' = [gen_flight EXCEPT ![g] = @ - 1]
    /\ UNCHANGED <<gen_want, gen_sent, gen_recent, proactive, gen_base, gen_rank,
                   gen_widths, gen_reports, deficit_rx>>

CodedArrives(g) ==
    /\ gen_flight[g] > 0
    /\ gen_flight' = [gen_flight EXCEPT ![g] = @ - 1]
    /\ gen_rank' = [gen_rank EXCEPT ![g] = IF @ < Width THEN @ + 1 ELSE @]
    /\ gen_widths' = gen_widths \cup {g}
    /\ UNCHANGED <<gen_want, gen_sent, gen_recent, proactive, gen_base, gen_reports, deficit_rx>>

(***************************************************************************)
(* collect_gen_deficits: every generation in doubt, in one report.         *)
(***************************************************************************)
Deficits == [g \in gen_widths \ Decoded |-> Width - gen_rank[g]]

SendDeficits ==
    /\ gen_reports' = gen_reports \cup {Deficits}
    /\ Cardinality(gen_reports') <= GenReports
    /\ gen_widths' = {g \in gen_widths : g >= GenFrontier}
    /\ UNCHANGED <<gen_want, gen_sent, gen_recent, proactive, gen_base, gen_flight,
                   gen_rank, deficit_rx>>

(* on_generation_deficit: try_send, so a full channel drops the report.    *)
DeficitsArrive(report) ==
    /\ report \in gen_reports
    /\ gen_reports' = gen_reports \ {report}
    /\ deficit_rx' = IF Len(deficit_rx) < DeficitChan THEN Append(deficit_rx, report)
                                                      ELSE deficit_rx
    /\ UNCHANGED <<gen_want, gen_sent, gen_recent, proactive, gen_base, gen_flight,
                   gen_rank, gen_widths>>

DeficitsLost(report) ==
    /\ report \in gen_reports
    /\ gen_reports' = gen_reports \ {report}
    /\ UNCHANGED <<gen_want, gen_sent, gen_recent, proactive, gen_base, gen_flight,
                   gen_rank, gen_widths, deficit_rx>>

GenNext ==
    \/ \E g \in Gen : EmitProactive(g)
    \/ \E g \in Gen : EmitRecovery(g)
    \/ \E g \in Gen : DropWant(g)
    \/ \E g \in Gen : SpacingPasses(g)
    \/ OnDeficits
    \/ \E f \in 1 .. Gens : AckGenerations(f)
    \/ \E g \in Gen : CodedLost(g)
    \/ \E g \in Gen : CodedArrives(g)
    \/ SendDeficits
    \/ \E report \in gen_reports : DeficitsArrive(report)
    \/ \E report \in gen_reports : DeficitsLost(report)

GenSpec == GenInit /\ [][GenNext]_genVars

(***************************************************************************)
(* The report timer and the sender's loop never stop, a symbol and a       *)
(* report that are sent again and again arrive.                            *)
(***************************************************************************)
GenFairness ==
    /\ WF_genVars(SendDeficits)
    /\ WF_genVars(OnDeficits)
    /\ \A g \in Gen :
          /\ WF_genVars(SpacingPasses(g))
          /\ SF_genVars(EmitRecovery(g))
          /\ SF_genVars(CodedArrives(g))
    /\ SF_genVars(\E report \in gen_reports : DeficitsArrive(report))

FairGenSpec == GenSpec /\ GenFairness

-----------------------------------------------------------------------------
(***************************************************************************)
(* GenDecodes: a generation whose width the receiver knows is decoded,     *)
(* whatever is lost: the wrong belief of what is in flight corrects        *)
(* itself.                                                                 *)
(***************************************************************************)
GenDecodes == \A g \in Gen : g \in gen_widths ~> g \in Decoded
=============================================================================
