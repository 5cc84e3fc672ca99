---------------------------- MODULE MCEvaluation ----------------------------
(* Small instances of Evaluation.                                          *)
EXTENDS Evaluation

CONSTANTS w1, w2, golden

MCVersions == {1, 2}
MCWorkers == {w1, w2}
MCEvalSets == {golden}
MCRecordsOf == [e \in MCEvalSets |-> {"q"}]
FirstHasLoss == {1}
FirstTwice == <<2, 1>>
=============================================================================
