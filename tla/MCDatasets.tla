----------------------------- MODULE MCDatasets -----------------------------
(* Small instances of Datasets.                                            *)
EXTENDS Datasets, FiniteSets, TLC

CONSTANTS clean, spotty, f1, r1, r2

MCContents == {clean, spotty}
MCRequests == {r1, r2}

\* spotty has one invalid record in twenty: it needs review.
MCRecordCount == [c \in MCContents |-> 20]
MCInvalidCount == [c \in MCContents |-> IF c = spotty THEN 1 ELSE 0]

\* The sidecars that intake/commit writes.
MCSidecarNames == {"validation_report.json", "schema.json"}

AnyBackend == BackendKinds
DefaultBackend == {"local"}

UnslothRunner == {"unsloth"}
EntryPoint == {"provider"}
AnyFile == MCContents \cup {None}

FewRuns == Cardinality(runs) <= MaxRuns

\* Bound: feedback and evaluation sets meet one upload, not two.
OneUploadBeside ==
    \/ uploads <= 1
    \/ evalSet = {} /\ \A f \in Feedbacks : feedback[f] = None

Bounds == FewRuns /\ OneUploadBeside

Symmetry == Permutations(MCRequests)
=============================================================================
