------------------------------- MODULE MCBooks -------------------------------
(***************************************************************************)
(* The books of the two ends, for TLC: the EVICT receiver's hold and       *)
(* gauges, the reliable window's ledgers, the accounts of one path, and    *)
(* the records by which gap reports are answered.                          *)
(* They share no state, so a behaviour is about one of them, its subject.  *)
(***************************************************************************)
EXTENDS EvictReceiver, SentLedger, PathLedger, MCGapServer

VARIABLE subject

booksVars == <<evictVars, ledgerVars, pathVars, gapVars, subject>>

MCPlacement == [s \in 0 .. LastSeq |-> 1 + (s % 2)]

BooksInit ==
    /\ subject \in {"evict", "ledger", "path", "gaps"}
    /\ EvictInit
    /\ LedgerInit
    /\ PathInit
    /\ GapInit
    /\ law = IF subject = "gaps" THEN "several" ELSE "age"

EvictTurn ==
    subject = "evict" /\ EvictNext /\ UNCHANGED <<ledgerVars, pathVars, gapVars, subject>>

LedgerTurn ==
    subject = "ledger" /\ LedgerNext /\ UNCHANGED <<evictVars, pathVars, gapVars, subject>>

PathTurn ==
    subject = "path" /\ PathNext /\ UNCHANGED <<evictVars, ledgerVars, gapVars, subject>>

GapTurn ==
    subject = "gaps" /\ GapNext /\ UNCHANGED <<evictVars, ledgerVars, pathVars, subject>>

BooksNext == EvictTurn \/ LedgerTurn \/ PathTurn \/ GapTurn

BooksSpec == BooksInit /\ [][BooksNext]_booksVars
=============================================================================
