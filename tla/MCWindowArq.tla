----------------------------- MODULE MCWindowArq -----------------------------
(***************************************************************************)
(* Instances of WindowArq for TLC: the packets the symbols carry.          *)
(***************************************************************************)
EXTENDS WindowArq

(* The sender does not pack: one packet per symbol. *)
MCOneEach == [p \in 0 .. PacketCount - 1 |-> p]

(* The sender packs: symbol 1 carries two packets, the others one. *)
MCPacked == [p \in 0 .. PacketCount - 1 |-> IF p < 2 THEN p ELSE p - 1]
==============================================================================
