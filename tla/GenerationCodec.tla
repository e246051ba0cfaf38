--------------------------- MODULE GenerationCodec ---------------------------
(***************************************************************************)
(* The generation encoder, the wire and the sparse generation decoder.     *)
(* Symbols are lost, repeated and overtake each other; the acks that move  *)
(* the encoder's floor come late.                                          *)
(***************************************************************************)
EXTENDS GenerationEncoder, GenerationDecoder

codecVars == <<encoderVars, decoderVars>>

CodecInit == EncoderInit /\ DecoderInit

Send == Idle /\ Encode /\ UNCHANGED decoderVars

Arrive(symbol) == (FeedSource(symbol) \/ FeedRepair(symbol)) /\ UNCHANGED encoderVars

(***************************************************************************)
(* The receiver's point: all below it was handed on.                       *)
(***************************************************************************)
RaiseFloor(f) ==
    /\ \A s \in 0 .. f - 1 : given[s] > 0
    /\ Advance(f)
    /\ UNCHANGED encoderVars

AckArrives ==
    /\ Idle
    /\ gen_of(floor) > base_gen
    /\ encoder_advance(floor)
    /\ UNCHANGED decoderVars

CodecNext ==
    \/ Send
    \/ \E symbol \in wire : Arrive(symbol)
    \/ \E f \in floor + 1 .. next_seq : RaiseFloor(f)
    \/ AckArrives
    \/ Propagate /\ UNCHANGED encoderVars

CodecSpec == CodecInit /\ [][CodecNext]_codecVars

-----------------------------------------------------------------------------
(***************************************************************************)
(* PayloadsRetained: every payload and every coded row is true, and the    *)
(* payload of a column some live system knows is in the store (the expect  *)
(* of insert_equation), whatever the floor has pruned; no source reaches   *)
(* the caller twice, although the two grids find it both.                  *)
(***************************************************************************)
PayloadsRetained ==
    /\ \A s \in DOMAIN recovered : recovered[s] = Unit(s)
    /\ \A slot \in Live :
          /\ gens[slot].known \subseteq DOMAIN recovered
          /\ \A p \in DOMAIN gens[slot].pivots : gens[slot].pivots[p].d = gens[slot].pivots[p].c
    /\ \A s \in Seqs : given[s] <= 1

(***************************************************************************)
(* DeficitHonest: between two calls every live system knows all that is    *)
(* recovered of its span, whichever grid found it, and its coded rows are  *)
(* independent equations over the rest, none of them solved; so its rank   *)
(* is below its width and the deficit reported is what it needs.           *)
(***************************************************************************)
DeficitHonest == Idle =>
    \A slot \in Live :
        LET known == gens[slot].known
            rows  == gens[slot].pivots
        IN  /\ known = SlotSpan(slot) \cap DOMAIN recovered
            /\ \A p \in DOMAIN rows :
                  /\ rows[p].c[p] = One
                  /\ Support(rows[p]) # {p}
                  /\ Support(rows[p]) \subseteq SlotSpan(slot) \ known
                  /\ \A s \in Support(rows[p]) : p <= s
                  /\ Support(rows[p]) \cap DOMAIN rows = {p}
            /\ rank_in(slot) < slot[2]
=============================================================================
