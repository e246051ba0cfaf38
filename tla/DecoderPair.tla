---------------------------- MODULE DecoderPair ----------------------------
(***************************************************************************)
(* The two decoders fed the same symbols and the same floor, as the        *)
(* differential tests of the unified decoder feed them.                    *)
(***************************************************************************)
EXTENDS WindowCodec

VARIABLES sl_recovered, sl_pivots, sl_output, sl_src_seen, sl_repairs_seen, sl_floor,
          sl_queue, sl_given

Sliding == INSTANCE SlidingDecoder WITH
    recovered <- sl_recovered, pivots <- sl_pivots, output <- sl_output,
    src_seen <- sl_src_seen, repairs_seen <- sl_repairs_seen, floor <- sl_floor,
    queue <- sl_queue, given <- sl_given

slVars == <<sl_recovered, sl_pivots, sl_output, sl_src_seen, sl_repairs_seen, sl_floor,
            sl_queue, sl_given>>

pairVars == <<vars, slVars>>

PairInit == Init /\ Sliding!SlidingInit

BothReceive(symbol) ==
    /\ Receive(symbol)
    /\ Sliding!FeedSource(symbol) \/ Sliding!FeedRepair(symbol)

BothAdvance(f) ==
    /\ Advance(f)
    /\ Sliding!Advance(f)
    /\ UNCHANGED encVars

BothIdle == Idle /\ Sliding!Idle

PairNext ==
    \/ EncoderStep /\ BothIdle /\ UNCHANGED slVars
    \/ \E symbol \in wire : BothReceive(symbol)
    \/ \E f \in 0 .. next_seq : BothAdvance(f)
    \/ DecoderStep /\ UNCHANGED slVars
    \/ Sliding!Cascade /\ Idle /\ UNCHANGED vars

PairSpec == PairInit /\ [][PairNext]_pairVars

(* A call of the unified decoder runs to its end.                          *)
FairPairSpec == PairSpec /\ WF_pairVars(DecoderStep /\ UNCHANGED slVars)

-----------------------------------------------------------------------------
(* Between two calls the unified decoder has handed on every source the    *)
(* sliding decoder has, with the same payload, under any order, loss and   *)
(* repetition of the symbols, as long as nothing was forgotten.            *)
Superset ==
    BothIdle /\ floor = 0 =>
        /\ \A s \in sl_given : given[s] > 0
        /\ \A s \in DOMAIN sl_recovered \cap DOMAIN recovered : sl_recovered[s] = recovered[s]

(* Where symbols arrive in the order they were sent, the two decoders hand *)
(* on the same sources at every call.                                      *)
SameInOrder == BothIdle /\ floor = 0 => sl_given = {s \in Seqs : given[s] > 0}
=============================================================================
