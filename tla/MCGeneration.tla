---------------------------- MODULE MCGeneration ----------------------------
(***************************************************************************)
(* Generation coding, for TLC: the codec, and the deficit loop around it.  *)
(* They share no state, so a behaviour is about one of them, its subject;  *)
(* the other is where nothing is left to do.                               *)
(***************************************************************************)
EXTENDS GenerationCodec, GenFeedback, SmallField

VARIABLE subject

generationVars == <<codecVars, genVars, subject>>

GenerationInit ==
    /\ subject \in {"codec", "feedback"}
    /\ CodecInit
    /\ GenInit
    /\ subject = "codec" => gen_rank = [g \in Gen |-> Width]
    /\ subject = "feedback" => systematic

CodecTurn == subject = "codec" /\ CodecNext /\ UNCHANGED <<genVars, subject>>

Feedback(A) == subject = "feedback" /\ A /\ UNCHANGED <<codecVars, subject>>

GenerationNext == CodecTurn \/ Feedback(GenNext)

(***************************************************************************)
(* GenFairness, of the behaviours about the feedback.                      *)
(***************************************************************************)
GenerationFairness ==
    /\ WF_generationVars(Feedback(SendDeficits))
    /\ WF_generationVars(Feedback(OnDeficits))
    /\ \A g \in Gen :
          /\ WF_generationVars(Feedback(SpacingPasses(g)))
          /\ SF_generationVars(Feedback(EmitRecovery(g)))
          /\ SF_generationVars(Feedback(CodedArrives(g)))
    /\ SF_generationVars(Feedback(\E report \in gen_reports : DeficitsArrive(report)))

GenerationSpec ==
    GenerationInit /\ [][GenerationNext]_generationVars /\ GenerationFairness
=============================================================================
