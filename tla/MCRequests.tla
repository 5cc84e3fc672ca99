----------------------------- MODULE MCRequests -----------------------------
(* Accounts and Idempotency share no state.  One run checks both: each     *)
(* behaviour is a behaviour of one of them.                                *)
EXTENDS Accounts, Idempotency

CONSTANTS r1, r2, c1, c2, c3, c4, ann, bob, k1, k2

VARIABLE flow

MCNames == {ann, bob}
MCRequests == {r1, r2}
MCCalls == {c1, c2, c3, c4}
MCKeys == {k1, k2}

\* The calls of the first flow never start: their keys do not matter.
FlowInit ==
    /\ flow \in {"accounts", "keys"}
    /\ Init /\ KeysInit
    /\ flow = "accounts" => \A c \in Calls : call[c].key = k1

FlowNext ==
    /\ flow' = flow
    /\ \/ flow = "accounts" /\ Next /\ UNCHANGED keyVars
       \/ flow = "keys" /\ KeysNext /\ UNCHANGED vars

FlowSpec == FlowInit /\ [][FlowNext]_<<flow, vars, keyVars>>
=============================================================================
