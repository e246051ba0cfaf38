----------------------------- MODULE MCPathOwner -----------------------------
(* Instances of PathOwner for TLC: the loads.                              *)
EXTENDS PathOwner

L(rx, tx, uni, data, tick) ==
    [rx |-> rx, tx |-> tx, uni |-> uni, staged |-> data, ticks |-> tick]

MCLoads ==
    {L(2, 1, 0, 0, 0), L(1, 1, 1, 0, 0), L(0, 2, 0, 2, 0), L(0, 0, 0, 1, 1), L(1, 0, 0, 0, 1),
     L(3, 0, 0, 1, 0), L(5, 0, 0, 0, 0)}
=============================================================================
