------------------------------ MODULE Accounts ------------------------------
(***************************************************************************)
(* Accounts and sessions: app/services/auth_service.py, app/api/auth.py    *)
(* and app/api/users.py.                                                   *)
(*                                                                         *)
(* A login starts a family of refresh tokens.  A refresh uses its token up *)
(* and issues the next one of the family; a token that is presented after  *)
(* it was used revokes the family, and so does a logout.  Both facts are   *)
(* rows of one table with a unique jti.  A request reads with one step and *)
(* commits with another, so that requests overlap.                         *)
(***************************************************************************)
EXTENDS Naturals, FiniteSets

CONSTANTS
    Names,        \* usernames
    Requests,     \* requests that may be underway at the same time
    MaxAccounts,  \* bound: how many accounts are created
    MaxTokens,    \* bound: how many refresh tokens are issued
    None

Roles == {"admin", "user"}

ASSUME AccountsAssumption ==
    /\ {MaxAccounts, MaxTokens} \subseteq Nat
    /\ None \notin Nat

VARIABLES
    users,     \* the committed accounts
    lastId,    \* the id that was given last
    tokens,    \* the refresh tokens that clients hold
    lastJti,   \* the jti that was given last
    revoked,   \* the committed rows of revoked_refresh_tokens
    request    \* what each request read and is about to commit, or None

vars == <<users, lastId, tokens, lastJti, revoked, request>>

User == [id : Nat, username : Names, role : Roles]

\* late: its family was revoked when it was issued.
Token == [jti : Nat, family : Nat, sub : Nat, parent : Nat \cup {None}, late : BOOLEAN]

\* A token that was used, or a family that was revoked.
Row == [what : {"jti", "family"}, of : Nat]

Pending ==
    [op : {"register"}, username : Names, role : Roles]
    \cup [op : {"rotate"}, token : Token]
    \cup [op : {"revoke"}, family : Nat]
    \cup [op : {"delete"}, user : User]

TypeOK ==
    /\ users \subseteq User
    /\ lastId \in Nat
    /\ tokens \subseteq Token
    /\ lastJti \in Nat
    /\ revoked \subseteq Row
    /\ request \in [Requests -> Pending \cup {None}]

Init ==
    /\ users = {}
    /\ lastId = 0
    /\ tokens = {}
    /\ lastJti = 0
    /\ revoked = {}
    /\ request = [r \in Requests |-> None]

Begin(r, pending) ==
    /\ request[r] = None
    /\ request' = [request EXCEPT ![r] = pending]
    /\ UNCHANGED <<users, lastId, tokens, lastJti, revoked>>

End(r) == request' = [request EXCEPT ![r] = None]

Exists(id) == \E u \in users : u.id = id

-----------------------------------------------------------------------------
\* Mutant of RoleFor: the role of the request is taken.
RoleAsRequested(requested) == requested

\* The first account is the administrator, whatever was requested.
RoleFor(requested) == IF users = {} THEN "admin" ELSE "user"

(* POST /auth/register.                                                    *)
Register(r, name, requested) ==
    /\ lastId < MaxAccounts
    /\ \A u \in users : u.username # name
    /\ Begin(r, [op |-> "register", username |-> name, role |-> RoleFor(requested)])

\* The username is unique: the second of two that overlap fails.
CommitRegister(r) ==
    LET p == request[r] IN
    /\ p # None /\ p.op = "register"
    /\ IF \E u \in users : u.username = p.username
       THEN UNCHANGED <<users, lastId>>
       ELSE /\ users' = users \cup
                  {[id |-> lastId + 1, username |-> p.username, role |-> p.role]}
            /\ lastId' = lastId + 1
    /\ End(r)
    /\ UNCHANGED <<tokens, lastJti, revoked>>

(* DELETE /users/{user_id}, by an administrator.                           *)
Delete(r, user) ==
    /\ \E u \in users : u.role = "admin"
    /\ user \in users
    /\ Begin(r, [op |-> "delete", user |-> user])

CommitDelete(r) ==
    /\ request[r] # None /\ request[r].op = "delete"
    /\ users' = users \ {request[r].user}
    /\ End(r)
    /\ UNCHANGED <<lastId, tokens, lastJti, revoked>>

-----------------------------------------------------------------------------
\* Mutant of NewFamily: a login gets no family.
NoFamily == None

NewFamily == lastJti + 1

IssueTokenPair(id, family, parent) ==
    /\ lastJti < MaxTokens
    /\ tokens' = tokens \cup
           {[jti |-> lastJti + 1, family |-> family, sub |-> id, parent |-> parent,
             late |-> [what |-> "family", of |-> family] \in revoked]}
    /\ lastJti' = lastJti + 1

(* POST /auth/login with the right password.                               *)
Login(user) ==
    /\ user \in users
    /\ IssueTokenPair(user.id, NewFamily, None)
    /\ UNCHANGED <<users, lastId, revoked, request>>

\* Mutant of FamilyRevoked: only tokens are looked up.
FamilyNeverRevoked(family) == FALSE

FamilyRevoked(family) == [what |-> "family", of |-> family] \in revoked

Used(jti) == [what |-> "jti", of |-> jti] \in revoked

(* POST /auth/refresh: a token that was used before revokes its family.    *)
Refresh(r, t) ==
    /\ Exists(t.sub)
    /\ ~FamilyRevoked(t.family)
    /\ Begin(r, IF Used(t.jti) THEN [op |-> "revoke", family |-> t.family]
                ELSE [op |-> "rotate", token |-> t])

\* Mutant of Insertable: nothing makes a jti unique.
AlwaysInsertable(row) == TRUE

\* The unique constraint on jti.
Insertable(row) == row \notin revoked

\* The second of two rotations of one token fails on the constraint, and no
\* tokens are issued.
CommitRotate(r) ==
    LET t == request[r].token
        row == [what |-> "jti", of |-> t.jti] IN
    /\ request[r] # None /\ request[r].op = "rotate"
    /\ IF Insertable(row)
       THEN /\ revoked' = revoked \cup {row}
            /\ IssueTokenPair(t.sub, t.family, t.jti)
       ELSE UNCHANGED <<revoked, tokens, lastJti>>
    /\ End(r)
    /\ UNCHANGED <<users, lastId>>

(* POST /auth/logout with an access token of the family.                   *)
Logout(r, t) ==
    /\ Exists(t.sub)
    /\ ~FamilyRevoked(t.family)
    /\ Begin(r, [op |-> "revoke", family |-> t.family])

CommitRevoke(r) ==
    /\ request[r] # None /\ request[r].op = "revoke"
    /\ revoked' = revoked \cup {[what |-> "family", of |-> request[r].family]}
    /\ End(r)
    /\ UNCHANGED <<users, lastId, tokens, lastJti>>

-----------------------------------------------------------------------------
Next ==
    \/ \E r \in Requests :
           \/ \E n \in Names, role \in Roles : Register(r, n, role)
           \/ \E u \in users : Delete(r, u)
           \/ \E t \in tokens : Refresh(r, t) \/ Logout(r, t)
           \/ CommitRegister(r) \/ CommitDelete(r)
           \/ CommitRotate(r) \/ CommitRevoke(r)
    \/ \E u \in users : Login(u)

Spec == Init /\ [][Next]_vars

-----------------------------------------------------------------------------
(* A refresh token has at most one successor, although several requests    *)
(* may have found it unused: a session never forks into two.               *)
RotationIsLinear ==
    \A t, u \in tokens : t.parent # None /\ t.parent = u.parent => t = u

(* A rotation that overlaps a logout, or the detection of a reuse, may     *)
(* still issue a token after the family was revoked; that token has no     *)
(* successor, so the session ends with it.                                 *)
RevokedFamilyEnds ==
    \A t, u \in tokens : t.late => u.parent # t.jti

(* While no account is deleted there is an administrator as soon as there  *)
(* is an account, whatever registrations overlapped and asked for.         *)
AdministratorExists ==
    users # {} /\ Cardinality(users) = lastId => \E u \in users : u.role = "admin"

(* The tokens that were not used yet and the revoked families, as the live *)
(* tokens and the closed sessions of Sessions.                             *)
LiveTokens ==
    {[session |-> t.family, token |-> t.jti, late |-> t.late] :
        t \in {u \in tokens : ~Used(u.jti)}}

ClosedFamilies == {row.of : row \in {x \in revoked : x.what = "family"}}

Session == INSTANCE Sessions
             WITH live <- LiveTokens, closed <- ClosedFamilies, last <- lastJti

(* Overlapping refreshes and logouts implement Sessions: the look at the   *)
(* family, the look at the token and the commit of a rotation act as one   *)
(* step that replaces the one live token of its session, or as none        *)
(* (auth_service.rotate_refresh_token).                                    *)
ImplementsSessions == Session!Spec
=============================================================================
