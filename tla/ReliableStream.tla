--------------------------- MODULE ReliableStream ---------------------------
(***************************************************************************)
(* What a reliable window promises to the two programs at its ends: every  *)
(* packet handed to the sender reaches the consumer once, in order unless  *)
(* the out-of-order corner was asked for, and the sender keeps each symbol *)
(* until the consumer has all of it.                                       *)
(***************************************************************************)
EXTENDS Integers, Sequences

CONSTANTS
    N,           \* symbols
    PacketCount, \* packets they carry
    SymbolOf,    \* the symbol that carries each packet
    Ooo          \* the consumer takes the packets in any order

VARIABLES
    emitted,    \* how many symbols the sender has made of the TUN's packets
    retained,   \* the symbols whose payload the sender keeps
    delivered   \* the packets the consumer was given

streamVars == <<emitted, retained, delivered>>

StreamInit == emitted = 0 /\ retained = {} /\ delivered = <<>>

Given == {delivered[i] : i \in DOMAIN delivered}

Packets == 0 .. PacketCount - 1

WhollyGiven(s) == \A p \in Packets : SymbolOf[p] = s => p \in Given

(***************************************************************************)
(* New symbols are retained; a symbol is let go only when all of it was    *)
(* given to the consumer.                                                  *)
(***************************************************************************)
SenderMoves ==
    /\ emitted' \in emitted .. N
    /\ retained' \subseteq retained \cup (emitted .. emitted' - 1)
    /\ \A s \in (retained \cup (emitted .. emitted' - 1)) \ retained' : WhollyGiven(s)
    /\ UNCHANGED delivered

(***************************************************************************)
(* The consumer is given packets it did not have, of emitted symbols.      *)
(***************************************************************************)
ConsumerIsGiven ==
    /\ Len(delivered') >= Len(delivered)
    /\ \A i \in DOMAIN delivered : delivered'[i] = delivered[i]
    /\ \A i \in Len(delivered) + 1 .. Len(delivered') :
          /\ delivered'[i] \in Packets
          /\ SymbolOf[delivered'[i]] < emitted
          /\ \A j \in 1 .. i - 1 : delivered'[j] # delivered'[i]
          /\ ~Ooo => delivered'[i] = i - 1
    /\ UNCHANGED <<emitted, retained>>

StreamNext == SenderMoves \/ ConsumerIsGiven

StreamSpec == StreamInit /\ [][StreamNext]_streamVars
=============================================================================
