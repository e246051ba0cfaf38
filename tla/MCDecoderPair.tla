--------------------------- MODULE MCDecoderPair ---------------------------
(* Instances of the pair of decoders for TLC.                              *)
EXTENDS DecoderPair, SmallField
=============================================================================
