------------------------------ MODULE Sessions ------------------------------
(***************************************************************************)
(* What the refresh tokens promise, with no trace of requests, commits or  *)
(* rows: a login opens a session with one live token, every refresh puts   *)
(* the next token in the place of the live one, and a session that is      *)
(* closed (by a logout, or because a used token was presented) moves on at *)
(* most once, by a refresh that was underway.                              *)
(***************************************************************************)
EXTENDS Naturals

VARIABLES
    live,     \* the live token of each session; late: issued after the closing
    closed,   \* the sessions that are closed
    last      \* the number of the token that was issued last

vars == <<live, closed, last>>

Opened == {s.session : s \in live}

Init ==
    /\ live = {}
    /\ closed = {}
    /\ last = 0

(* A session has the number of its first token.                            *)
Open ==
    /\ live' = live \cup {[session |-> last + 1, token |-> last + 1, late |-> FALSE]}
    /\ last' = last + 1
    /\ UNCHANGED closed

Advance(s) ==
    /\ ~s.late
    /\ live' = (live \ {s}) \cup
           {[session |-> s.session, token |-> last + 1, late |-> s.session \in closed]}
    /\ last' = last + 1
    /\ UNCHANGED closed

Close(session) ==
    /\ closed' = closed \cup {session}
    /\ UNCHANGED <<live, last>>

Next ==
    \/ Open
    \/ \E s \in live : Advance(s)
    \/ \E session \in Opened : Close(session)

Spec == Init /\ [][Next]_vars

(* A session has one live token: whoever holds another one of the session  *)
(* can only close it.                                                      *)
OneLiveToken == \A s, t \in live : s.session = t.session => s = t
=============================================================================
