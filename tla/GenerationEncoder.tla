------------------------- MODULE GenerationEncoder -------------------------
(***************************************************************************)
(* The generation encoder: sources fall into fixed generations of G, and a *)
(* coded symbol covers one of them: its whole span once it is sealed, its  *)
(* present prefix while it fills (at the full matrix width), or any range. *)
(* Which generation the round robin reaches first is left open.            *)
(***************************************************************************)
EXTENDS CodedRows

CONSTANTS
    G,          \* gen_size
    Pipeline,   \* generations coded at a time
    Overhead,   \* r, in percent
    MaxSources  \* sources sent

ASSUME GenerationAssumption ==
    /\ {G, Pipeline, MaxSources} \subseteq Nat \ {0} /\ Overhead \in Nat
    /\ G * ((MaxSources + G - 1) \div G) <= N

VARIABLES
    systematic,  \* the sources travel too
    next_seq,
    base_gen,    \* retention floor
    code_base,   \* proactive floor
    coded_index,
    emitted,     \* generation -> coded symbols
    intake_idle,
    wire

encoderVars == <<systematic, next_seq, base_gen, code_base, coded_index, emitted,
                 intake_idle, wire>>

Generations == 0 .. (N \div G) - 1

EncoderInit ==
    /\ systematic \in BOOLEAN
    /\ next_seq = 0
    /\ base_gen = 0
    /\ code_base = 0
    /\ coded_index = 0
    /\ emitted = [g \in Generations |-> 0]
    /\ intake_idle = FALSE
    /\ wire = {}

gen_of(seq) == seq \div G

SpanOfGen(g) == g * G .. g * G + G - 1

sources == base_gen * G .. next_seq - 1

gen_len(g) == Cardinality(SpanOfGen(g) \cap sources)

top_gen == IF sources = {} THEN base_gen ELSE gen_of(next_seq - 1)

gen_budget(g) ==
    (gen_len(g) * (IF systematic THEN Overhead ELSE 100 + Overhead) + 99) \div 100

codeable_filling(g) == g * G \in sources /\ emitted[g] < gen_budget(g)

sealed(g) == g * G \in sources /\ (gen_len(g) >= G \/ intake_idle)

(* The window of the round robin.                                          *)
Active ==
    LET from == IF code_base > base_gen THEN code_base ELSE base_gen
    IN  {g \in from .. from + Pipeline - 1 : g <= top_gen}

-----------------------------------------------------------------------------
(***************************************************************************)
(* What travels.  `coded` is the width summed, `count` that of the matrix. *)
(***************************************************************************)
Coefs(start, count, index, coded) ==
    [s \in Seqs |-> IF s \in start .. start + coded - 1
                    THEN Coefficient(start, count, index, s - start) ELSE Nought]

Source(seq) == [is_repair |-> FALSE, start |-> seq, count |-> 1, index |-> 0, coded |-> 1,
                data |-> Unit(seq)]

Coded(start, count, coded) ==
    [is_repair |-> TRUE, start |-> start, count |-> count, index |-> coded_index,
     coded |-> coded, data |-> Coefs(start, count, coded_index, coded)]

add_source ==
    /\ next_seq < MaxSources
    /\ next_seq' = next_seq + 1
    /\ wire' = IF systematic THEN wire \cup {Source(next_seq)} ELSE wire
    /\ intake_idle' = FALSE
    /\ UNCHANGED <<systematic, base_gen, code_base, coded_index, emitted>>

Emit(symbol) ==
    /\ coded_index < MaxRepairs
    /\ wire' = wire \cup {symbol}
    /\ coded_index' = coded_index + 1
    /\ UNCHANGED <<systematic, next_seq, base_gen, code_base, intake_idle>>

EmitOf(g, symbol) == Emit(symbol) /\ emitted' = [emitted EXCEPT ![g] = @ + 1]

(* generate_repair, when wants_coding.                                     *)
generate_repair == \E g \in Active :
    /\ sealed(g) /\ codeable_filling(g)
    /\ EmitOf(g, Coded(g * G, gen_len(g), gen_len(g)))

filling_width(g) == G

generate_repair_filling == \E g \in Active :
    /\ codeable_filling(g)
    /\ EmitOf(g, Coded(g * G, filling_width(g), gen_len(g)))

(* Deficit recovery: no budget.                                            *)
generate_repair_for(g) ==
    /\ sealed(g)
    /\ EmitOf(g, Coded(g * G, gen_len(g), gen_len(g)))

generate_repair_range(start, count) ==
    /\ start .. start + count - 1 \subseteq sources
    /\ Emit(Coded(start, count, count))
    /\ UNCHANGED emitted

(***************************************************************************)
(* advance, aligned to a generation; its caller's points only rise.        *)
(***************************************************************************)
encoder_advance(oldest_seq) ==
    /\ base_gen' = gen_of(oldest_seq)
    /\ code_base' = IF code_base < gen_of(oldest_seq) THEN gen_of(oldest_seq) ELSE code_base
    /\ emitted' = [g \in Generations |-> IF g < gen_of(oldest_seq) THEN 0 ELSE emitted[g]]
    /\ UNCHANGED <<systematic, next_seq, coded_index, intake_idle, wire>>

set_code_base(anchor) ==
    LET g    == gen_of(anchor)
        want == IF g < base_gen THEN base_gen ELSE IF g > top_gen THEN top_gen ELSE g
    IN  /\ want > code_base
        /\ code_base' = want
        /\ UNCHANGED <<systematic, next_seq, base_gen, coded_index, emitted, intake_idle, wire>>

(* No source for a while: the last generation counts as sealed.            *)
set_intake_idle ==
    /\ sources # {}
    /\ ~intake_idle
    /\ intake_idle' = TRUE
    /\ UNCHANGED <<systematic, next_seq, base_gen, code_base, coded_index, emitted, wire>>

Encode ==
    \/ add_source
    \/ generate_repair
    \/ generate_repair_filling
    \/ \E g \in Generations : generate_repair_for(g)
    \/ \E start \in Seqs, count \in 1 .. G + 1 : generate_repair_range(start, count)
    \/ \E anchor \in sources : set_code_base(anchor)
    \/ set_intake_idle
=============================================================================
