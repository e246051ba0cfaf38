------------------------------ MODULE SeqBits ------------------------------
(***************************************************************************)
(* The receiver's set of received seqs: a bitmap of words from `base` on,  *)
(* with a floor below which nothing is recorded and a span beyond which an *)
(* insert is refused.  A word is the set of its bit positions.             *)
(***************************************************************************)
EXTENDS Integers, Sequences, FiniteSets, FiniteSetsExt

CONSTANTS
    WordBits,   \* bits of a word
    BitsSpan    \* max_span

ASSUME BitsAssumption == WordBits \in Nat \ {0} /\ BitsSpan \in Nat

EmptyBits == [base |-> 0, floor |-> 0, words |-> <<>>, len |-> 0]

bits_end(b) == b.base + WordBits * Len(b.words)

aligned(seq) == seq - (seq % WordBits)

WordOf(b, seq) == 1 + (seq - b.base) \div WordBits

BitOf(b, seq) == (seq - b.base) % WordBits

contains(b, seq) ==
    /\ seq \in b.base .. bits_end(b) - 1
    /\ BitOf(b, seq) \in b.words[WordOf(b, seq)]

Recorded(b, newly) == [bits |-> b, newly |-> newly]

(***************************************************************************)
(* SeqBits::insert; `newly` is its answer.                                 *)
(***************************************************************************)
bits_insert(b, seq) ==
    LET at    == IF b.words = <<>> THEN [b EXCEPT !.base = aligned(b.floor)] ELSE b
        w     == WordOf(at, seq)
        grown == [i \in 1 .. Max({w, Len(at.words)}) |->
                     IF i <= Len(at.words) THEN at.words[i] ELSE {}]
        newly == BitOf(at, seq) \notin grown[w]
    IN  IF seq < b.floor THEN Recorded(b, FALSE)
        ELSE IF seq - at.base >= BitsSpan THEN Recorded(at, FALSE)
        ELSE Recorded([at EXCEPT !.words = [grown EXCEPT ![w] = @ \cup {BitOf(at, seq)}],
                                 !.len   = IF newly THEN @ + 1 ELSE @],
                      newly)

(* Variant: only whole words are dropped.                                  *)
bits_prune_words(b, x) ==
    LET n    == (x - b.base) \div WordBits
        rest == SubSeq(b.words, n + 1, Len(b.words))
        gone == MapThenSumSet(LAMBDA i : Cardinality(b.words[i]), 1 .. n)
    IN  IF x <= b.floor THEN b
        ELSE IF x >= bits_end(b)
        THEN [base |-> aligned(x), floor |-> x, words |-> <<>>, len |-> 0]
        ELSE [base |-> b.base + WordBits * n, floor |-> x, words |-> rest,
              len  |-> b.len - gone]

(***************************************************************************)
(* SeqBits::prune_below: whole words, then the low bits of the first one   *)
(* left.                                                                   *)
(***************************************************************************)
bits_prune_below(b, x) ==
    LET n    == (x - b.base) \div WordBits
        off  == (x - b.base) % WordBits
        low  == {k \in b.words[n + 1] : k < off}
        rest == SubSeq(b.words, n + 1, Len(b.words))
        gone == MapThenSumSet(LAMBDA i : Cardinality(b.words[i]), 1 .. n)
    IN  IF x <= b.floor THEN b
        ELSE IF x >= bits_end(b)
        THEN [base |-> aligned(x), floor |-> x, words |-> <<>>, len |-> 0]
        ELSE [base |-> b.base + WordBits * n, floor |-> x,
              words |-> [rest EXCEPT ![1] = @ \ low],
              len  |-> b.len - gone - Cardinality(low)]

(* Variant: an interval within one word is cut at its low end only.        *)
count_in_untailed(b, from, to) ==
    LET lo   == Max({from, b.base})
        hi   == Min({to, bits_end(b)})
        wa   == WordOf(b, lo)
        wb   == WordOf(b, hi - 1)
        head == {k \in 0 .. WordBits - 1 : k >= BitOf(b, lo)}
        tail == {k \in 0 .. WordBits - 1 : k <= BitOf(b, hi - 1)}
    IN  IF lo >= hi THEN 0
        ELSE IF wa = wb THEN Cardinality(b.words[wa] \cap head)
        ELSE Cardinality(b.words[wa] \cap head) + Cardinality(b.words[wb] \cap tail)
             + MapThenSumSet(LAMBDA i : Cardinality(b.words[i]), wa + 1 .. wb - 1)

(***************************************************************************)
(* count_in: members in from .. to - 1, a masked popcount a word.          *)
(***************************************************************************)
count_in(b, from, to) ==
    LET lo   == Max({from, b.base})
        hi   == Min({to, bits_end(b)})
        wa   == WordOf(b, lo)
        wb   == WordOf(b, hi - 1)
        head == {k \in 0 .. WordBits - 1 : k >= BitOf(b, lo)}
        tail == {k \in 0 .. WordBits - 1 : k <= BitOf(b, hi - 1)}
    IN  IF lo >= hi THEN 0
        ELSE IF wa = wb THEN Cardinality(b.words[wa] \cap head \cap tail)
        ELSE Cardinality(b.words[wa] \cap head) + Cardinality(b.words[wb] \cap tail)
             + MapThenSumSet(LAMBDA i : Cardinality(b.words[i]), wa + 1 .. wb - 1)

(***************************************************************************)
(* each_run: the maximal runs of members in lo .. hi, each found by        *)
(* next_set and next_clear from the end of the one before.                 *)
(***************************************************************************)
next_clear(b, from) == Min({s \in from .. bits_end(b) : ~contains(b, s)})

each_run(b, lo, hi) ==
    LET runs[at \in 0 .. hi + 1] ==
            LET members == {s \in at .. hi : contains(b, s)}
                start   == Min(members)
                end     == Min({next_clear(b, start) - 1, hi})
            IN  IF members = {} THEN <<>> ELSE <<<<start, end>>>> \o runs[end + 1]
    IN  IF lo > hi THEN <<>> ELSE runs[lo]

-----------------------------------------------------------------------------
BitMembers(b) == {s \in b.base .. bits_end(b) - 1 : contains(b, s)}
=============================================================================
