--------------------------- MODULE PointerHistory ---------------------------
(***************************************************************************)
(* What the registry promises about one model_id: a deployment pointer     *)
(* (the `prod` alias), the versions retired from it and an append-only     *)
(* deployment history, with no trace of transactions, locks or adapters.   *)
(* Of the requests it knows only which versions are being decided on.      *)
(***************************************************************************)
CONSTANTS Versions, Environments, None

VARIABLES
    pointer,   \* the version that the prod alias resolves to, or None
    retired,   \* the versions that a deploy has superseded
    history,   \* the deployments recorded so far
    deciding   \* the versions with a decision that was started and not written

vars == <<pointer, retired, history, deciding>>

Row(v, env) == [version |-> v, env |-> env]

\* The versions that a deployment is recorded for.
DeployedOnce == {row.version : row \in history}

Init == pointer = None /\ retired = {} /\ history = {} /\ deciding = {}

(* A deploy, a promotion or a rollback moves the pointer in one step, from *)
(* one version straight to the next, which retires the old one, and        *)
(* records it.  If the pointer was off, or on v already, the version that  *)
(* it saw there before is retired, if it saw one.                          *)
Deploy(v, env) ==
    /\ pointer' = v
    /\ history' = history \cup {Row(v, env)}
    /\ \E old \in IF pointer \in {v, None} THEN DeployedOnce \cup {None} ELSE {pointer} :
           retired' = (retired \cup {old}) \ {v, None}
    /\ UNCHANGED deciding

(* A staging deploy is recorded too and retires nothing.  It leaves the    *)
(* pointer alone, unless the staged version had become the production      *)
(* version meanwhile, or the pointer had been taken off: then it may leave *)
(* it off, or put it back on another version that was deployed before.     *)
Stage(v) ==
    /\ history' = history \cup {Row(v, "staging")}
    /\ IF pointer \in {v, None}
         THEN pointer' \in (DeployedOnce \ {v}) \cup {None}
         ELSE UNCHANGED pointer
    /\ retired' = retired \ {v, pointer'}
    /\ UNCHANGED deciding

\* Nobody starts to decide on the production version or on a retired one.
StartDecision(v) ==
    /\ v \notin retired \cup {pointer}
    /\ deciding' = deciding \cup {v}
    /\ UNCHANGED <<pointer, retired, history>>

\* Another decision on the version may still be open.
EndDecision(v) == v \in deciding /\ deciding' \in {deciding, deciding \ {v}}

(* What was started before the deploy of its version may be written after  *)
(* it.  Then, and only then, a decision takes the pointer off the version, *)
(* which is not retired by that, or the version out of the retired ones.   *)
Decide(v) ==
    /\ EndDecision(v)
    /\ pointer' = IF pointer = v THEN None ELSE pointer
    /\ retired' = retired \ {v}
    /\ UNCHANGED history

GiveUp(v) == EndDecision(v) /\ UNCHANGED <<pointer, retired, history>>

Next ==
    \/ \E v \in Versions, env \in Environments : Deploy(v, env)
    \/ \E v \in Versions : Stage(v) \/ StartDecision(v) \/ Decide(v) \/ GiveUp(v)

Spec == Init /\ [][Next]_vars
=============================================================================
