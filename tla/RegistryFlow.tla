---------------------------- MODULE RegistryFlow ----------------------------
(* Two flows through Registry; each behaviour keeps to one of them.        *)
(*   ladder: every kind of request, for the versions LadderVersions and in *)
(*           the request slots LadderRequests.                              *)
(*   legacy: decisions, deploys and rollbacks of the default environment,  *)
(*           where no two administrators decide on the same version at the *)
(*           same time.                                                    *)
(* Only what may arrive is restricted, never how it goes on.               *)
EXTENDS Registry

CONSTANTS
    LadderVersions,   \* the versions that requests of the ladder flow may name
    LadderRequests    \* the slots that the ladder flow uses

VARIABLE flow

FlowInit == Init /\ flow \in {"ladder", "legacy"}

LegacyArrival(r) ==
    /\ job'[r].op # "stage" /\ job'[r].env = "default"
    /\ job'[r].op \in Decisions =>
           \A q \in Requests \ {r} : job[q] # None => Target(q) # job'[r].target

InFlow(r) ==
    \/ /\ flow = "ladder"
       /\ r \in LadderRequests
       /\ job'[r].target \in LadderVersions
    \/ flow = "legacy" /\ LegacyArrival(r)

Admitted ==
    /\ \A r \in Requests : job[r] = None /\ job'[r] # None => InFlow(r)
    /\ flow = "ladder" =>
           \A v \in Versions \ LadderVersions : status'[v] = "REGISTERED"

FlowNext == Next /\ Admitted /\ UNCHANGED flow

flowVars == <<vars, flow>>

FlowSpec == FlowInit /\ [][FlowNext]_flowVars /\ Fairness

(* Once nothing runs, exactly the adapter of the production version is     *)
(* resident: OnlyPointerResident, which a staging deploy to the same host  *)
(* breaks.                                                                 *)
LegacyOnlyPointerResident == flow = "legacy" => OnlyPointerResident
=============================================================================
