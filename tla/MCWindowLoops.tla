---------------------------- MODULE MCWindowLoops ----------------------------
(***************************************************************************)
(* The liveness of the reliable window, for TLC: the window with a sweep   *)
(* that sends the blocker again and again, and the gap loop, which decides *)
(* what a sweep sends.  They share no state, so a behaviour is about one   *)
(* of them, its subject.                                                   *)
(***************************************************************************)
EXTENDS MCWindowArq, MCGapServer

VARIABLE subject

loopVars == <<vars, gapVars, subject>>

LoopInit ==
    /\ subject \in {"window", "gaps"}
    /\ Init
    /\ GapInit
    /\ subject = "window" => law = "age"

Window(A) == subject = "window" /\ A /\ UNCHANGED <<gapVars, subject>>

Gaps(A) == subject = "gaps" /\ A /\ UNCHANGED <<vars, subject>>

LoopNext == Window(Next) \/ Gaps(GapNext)

(***************************************************************************)
(* The fairness of both.  The subject never changes, so a condition on two *)
(* actions of the two subjects is the condition on the one of the          *)
(* behaviour's subject.                                                    *)
(***************************************************************************)
LoopFairness ==
    /\ WF_loopVars(Window(Drain) \/ Gaps(ServeReport))
    /\ WF_loopVars(Window(Input) \/ Gaps(AdvanceAck))
    /\ SF_loopVars(Window(SweepSends) \/ Gaps(SweepArm(<<GapRepairs, GapRepairs>>)))
    /\ WF_loopVars(Window(ReceiverWaits) \/ Gaps(SendWindowAck))
    /\ SF_loopVars(Window(CurrentAckArrives) \/ Gaps(\E a \in gap_acks : OnWindowAck(a)))
    /\ SF_loopVars(Window(Reserve)) /\ WF_loopVars(Window(Consume))
    /\ \A s \in Seqs \cup GapSeqs :
          /\ SF_loopVars(Window(s \in Seqs /\ SymbolArrives(s)) \/ Gaps(CopyArrives(s)))
          /\ WF_loopVars(Gaps(Ripens(s))) /\ WF_loopVars(Gaps(Cools(s)))

LoopSpec == LoopInit /\ [][LoopNext]_loopVars /\ LoopFairness
==============================================================================
