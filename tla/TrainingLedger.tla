--------------------------- MODULE TrainingLedger ---------------------------
(***************************************************************************)
(* What the training queue promises: every run ends at most once, and a    *)
(* run that completes leaves one model version under the next number, with *)
(* no trace of workers, locks, transactions or heartbeats.                 *)
(***************************************************************************)
EXTENDS Integers

CONSTANTS Runs, Numbers

VARIABLES
    outcome,   \* outcome[r]: "open", or how r ended
    versions   \* the registered model versions: run and number

vars == <<outcome, versions>>

Init == outcome = [r \in Runs |-> "open"] /\ versions = {}

End(r, how) ==
    /\ outcome[r] = "open"
    /\ outcome' = [outcome EXCEPT ![r] = how]

\* Numbers are given out without a gap.
Follows(n) ==
    /\ \A v \in versions : v.number < n
    /\ n = 1 \/ \E v \in versions : v.number = n - 1

Complete(r, n) ==
    /\ End(r, "COMPLETED")
    /\ Follows(n)
    /\ versions' = versions \cup {[run |-> r, number |-> n]}

Fail(r) ==
    /\ End(r, "FAILED")
    /\ UNCHANGED versions

Next == \E r \in Runs : Fail(r) \/ \E n \in Numbers : Complete(r, n)

Spec == Init /\ [][Next]_vars
=============================================================================
