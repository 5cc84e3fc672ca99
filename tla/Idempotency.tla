---------------------------- MODULE Idempotency -----------------------------
(***************************************************************************)
(* X-Idempotency-Key: app/services/idempotency_service.py and its use in   *)
(* the endpoints, as in deploy_model_version of app/api/deployment.py.     *)
(*                                                                         *)
(* An endpoint looks for the stored response of the key, does its work and *)
(* commits it, and then stores the response with a commit of its own.  The *)
(* key is the primary key of its table.  The lookup reads a row and, when  *)
(* it has expired, sends DELETE ... WHERE key = ? with a statement of its  *)
(* own, in the transaction of the work: the row it deletes stays locked    *)
(* until the work is committed or rolled back.                             *)
(***************************************************************************)
EXTENDS Naturals

CONSTANTS
    Calls,       \* the calls of clients, retries included
    Keys,        \* keys, with the endpoint and the resource of the call
    MaxExpiries, \* bound: how often a stored response expires
    NoResponse

ASSUME KeysAssumption == NoResponse \notin Nat /\ MaxExpiries \in Nat

VARIABLES
    stored,    \* the committed response of each key, or NoResponse
    expired,   \* the keys whose response has passed its time to live
    epoch,     \* how many responses of each key expired
    call,      \* where each call is
    done,      \* how many times the work of some call was committed
    answers,   \* the responses that clients got
    expiries   \* how many responses expired

keyVars == <<stored, expired, epoch, call, done, answers, expiries>>

Response == Nat \cup {NoResponse}

\* deletes: its DELETE found a row; response: of its work.
Call == [pc : {"new", "deleting", "working", "storing", "ended"}, key : Keys,
         deletes : BOOLEAN, response : Response]

KeysTypeOK ==
    /\ stored \in [Keys -> Response]
    /\ expired \subseteq {k \in Keys : stored[k] # NoResponse}
    /\ epoch \in [Keys -> Nat]
    /\ call \in [Calls -> Call]
    /\ done \in Nat
    /\ answers \subseteq [key : Keys, epoch : Nat, response : Nat]
    /\ expiries \in 0..MaxExpiries

KeysInit ==
    /\ stored = [k \in Keys |-> NoResponse]
    /\ expired = {}
    /\ epoch = [k \in Keys |-> 0]
    /\ call \in [Calls -> [pc : {"new"}, key : Keys, deletes : {FALSE},
                           response : {NoResponse}]]
    /\ done = 0
    /\ answers = {}
    /\ expiries = 0

Answer(c, response) ==
    answers' = answers \cup {[key |-> call[c].key, epoch |-> epoch[call[c].key],
                              response |-> response]}

Finish(c) == call' = [call EXCEPT ![c].pc = "ended"]

\* A live response is stored under k.
Live(k) == stored[k] # NoResponse /\ k \notin expired

\* Mutant of Replay: a missing row is not told from a live one.
ReplayMissing(c) ==
    /\ call[c].pc = "new"
    /\ call[c].key \notin expired
    /\ Answer(c, stored[call[c].key])
    /\ Finish(c)
    /\ UNCHANGED <<stored, expired, epoch, done, expiries>>

(* get_cached_response: a live response is replayed.                       *)
Replay(c) ==
    LET k == call[c].key IN
    /\ call[c].pc = "new"
    /\ Live(k)
    /\ Answer(c, stored[k])
    /\ Finish(c)
    /\ UNCHANGED <<stored, expired, epoch, done, expiries>>

\* The row of k is locked by a call whose transaction has deleted it.
Locked(k) ==
    \E c \in Calls : call[c].pc = "working" /\ call[c].deletes /\ call[c].key = k

(* Without a live response the work is done, after an expired row has been *)
(* deleted ...                                                             *)
Miss(c) ==
    LET k == call[c].key IN
    /\ call[c].pc = "new"
    /\ ~Live(k)
    /\ call' = [call EXCEPT ![c].pc = IF k \in expired THEN "deleting" ELSE "working"]
    /\ UNCHANGED <<stored, expired, epoch, done, answers, expiries>>

(* ... by its key: whatever row the key has by now, or none.               *)
DeleteExpired(c) ==
    LET k == call[c].key IN
    /\ call[c].pc = "deleting"
    /\ ~Locked(k)
    /\ call' = [call EXCEPT ![c].pc = "working",
                            ![c].deletes = (stored[k] # NoResponse)]
    /\ UNCHANGED <<stored, expired, epoch, done, answers, expiries>>

(* The work and the deletion are committed together.                       *)
Work(c) ==
    LET gone == {k \in {call[c].key} : call[c].deletes} IN
    /\ call[c].pc = "working"
    /\ done' = done + 1
    /\ call' = [call EXCEPT ![c].pc = "storing", ![c].response = done + 1]
    /\ stored' = [k \in Keys |-> IF k \in gone THEN NoResponse ELSE stored[k]]
    /\ expired' = expired \ gone
    /\ UNCHANGED <<epoch, answers, expiries>>

(* The work is refused, or the process dies before or after its commit:    *)
(* a deletion that was not committed is rolled back, nothing is stored and *)
(* the client gets no response.                                            *)
Fail(c) ==
    /\ call[c].pc \in {"deleting", "working", "storing"}
    /\ Finish(c)
    /\ UNCHANGED <<stored, expired, epoch, done, answers, expiries>>

\* Mutant of StoreResponse: the row is merged instead of inserted.
StoreMerged(c) ==
    LET k == call[c].key IN
    /\ call[c].pc = "storing"
    /\ stored' = [stored EXCEPT ![k] = call[c].response]
    /\ expired' = expired \ {k}
    /\ Answer(c, call[c].response)
    /\ Finish(c)
    /\ UNCHANGED <<epoch, done, expiries>>

(* store_response: the key must not have a row, also not an expired one.   *)
(* The INSERT waits until nobody is deleting it.                           *)
StoreResponse(c) ==
    LET k == call[c].key IN
    /\ call[c].pc = "storing"
    /\ ~Locked(k)
    /\ IF stored[k] = NoResponse
       THEN /\ stored' = [stored EXCEPT ![k] = call[c].response]
            /\ Answer(c, call[c].response)
       ELSE UNCHANGED <<stored, answers>>
    /\ Finish(c)
    /\ UNCHANGED <<expired, epoch, done, expiries>>

Expire(k) ==
    /\ Live(k)
    /\ expiries < MaxExpiries
    /\ expired' = expired \cup {k}
    /\ epoch' = [epoch EXCEPT ![k] = @ + 1]
    /\ expiries' = expiries + 1
    /\ UNCHANGED <<stored, call, done, answers>>

KeysNext ==
    \/ \E c \in Calls :
           \/ Replay(c) \/ Miss(c) \/ DeleteExpired(c)
           \/ Work(c) \/ Fail(c) \/ StoreResponse(c)
    \/ \E k \in Keys : Expire(k)

KeysSpec == KeysInit /\ [][KeysNext]_keyVars

-----------------------------------------------------------------------------
\* Nobody stores a response between the SELECT and the DELETE of a lookup
\* that read the expired one before it: nothing in the code sees to that.
PromptDeletes == \A c \in Calls : call[c].pc = "deleting" => ~Live(call[c].key)

(* Calls that overlap under one key may each do the work, but every client *)
(* that gets a response gets the same one until it expires.                *)
AnswersAgree ==
    \A a, b \in answers :
        a.key = b.key /\ a.epoch = b.epoch => a.response = b.response
=============================================================================
