--------------------------- MODULE RequestsProofs ---------------------------
(* Sessions and accounts of Accounts, its refinement of Sessions, and the  *)
(* replays of Idempotency, for any number of requests, accounts, tokens,   *)
(* calls and keys.                                                         *)
EXTENDS Accounts, Idempotency, FiniteSetTheorems, TLAPS

\* A jti belongs to one token, and the successors of a token are younger.
TokensNumbered ==
    /\ \A t \in tokens : t.jti <= lastJti /\ (t.parent # None => t.parent <= lastJti)
    /\ \A t, u \in tokens : t.jti = u.jti => t = u

\* A token with a successor is used.
ParentsUsed == \A t \in tokens : t.parent # None => Used(t.parent)

\* A token that was issued late is in a revoked family.
LateIsRevoked == \A t \in tokens : t.late => FamilyRevoked(t.family)

\* What is about to be rotated was issued before its family was revoked.
RotatesLive ==
    \A r \in Requests : request[r] # None /\ request[r].op = "rotate" =>
        request[r].token \in tokens /\ ~request[r].token.late

SInv ==
    /\ TypeOK /\ TokensNumbered /\ ParentsUsed /\ LateIsRevoked /\ RotatesLive
    /\ RotationIsLinear /\ RevokedFamilyEnds

sessions == <<tokens, lastJti, revoked>>

LEMMA InitSInv == Init => SInv
  BY DEF Init, SInv, TypeOK, TokensNumbered, ParentsUsed, LateIsRevoked, RotatesLive,
         RotationIsLinear, RevokedFamilyEnds

\* A pending request has the fields of its operation.
LEMMA PendingTyped ==
  ASSUME TypeOK, NEW r \in Requests, request[r] # None
  PROVE  /\ request[r].op = "register" => request[r].username \in Names /\ request[r].role \in Roles
         /\ request[r].op = "rotate" => request[r].token \in Token
         /\ request[r].op = "revoke" => request[r].family \in Nat
         /\ request[r].op = "delete" => request[r].user \in User
  BY DEF TypeOK, Pending

-----------------------------------------------------------------------------
(* Steps that leave the sessions alone.                                    *)
LEMMA SessionsKept ==
  ASSUME SInv, UNCHANGED sessions, TypeOK', RotatesLive'
  PROVE  SInv'
  BY DEF SInv, sessions, TokensNumbered, ParentsUsed, LateIsRevoked, RotationIsLinear,
         RevokedFamilyEnds, Used, FamilyRevoked

LEMMA BeginStep ==
  ASSUME SInv, NEW r \in Requests, NEW p \in Pending, Begin(r, p),
         p.op = "rotate" => p.token \in tokens /\ ~p.token.late
  PROVE  SInv'
  <1>1. TypeOK'  BY DEF SInv, TypeOK, Begin
  <1>2. RotatesLive'  BY DEF SInv, TypeOK, RotatesLive, Begin
  <1> QED  BY <1>1, <1>2, SessionsKept DEF Begin, sessions

LEMMA AccountSteps ==
  ASSUME SInv, NEW r \in Requests,
         \/ \E n \in Names, role \in Roles : Register(r, n, role)
         \/ \E u \in users : Delete(r, u)
         \/ CommitRegister(r)
         \/ CommitDelete(r)
  PROVE  SInv'
  <1>1. TypeOK  BY DEF SInv
  <1>2. ASSUME NEW n \in Names, NEW role \in Roles, Register(r, n, role) PROVE SInv'
    <2>1. RoleFor(role) \in Roles  BY DEF RoleFor, Roles
    <2> DEFINE p == [op |-> "register", username |-> n, role |-> RoleFor(role)]
    <2>2. p \in Pending /\ p.op # "rotate"  BY <2>1 DEF Pending
    <2>3. Begin(r, p)  BY <1>2 DEF Register
    <2> HIDE DEF p
    <2> QED  BY <2>2, <2>3, BeginStep
  <1>3. ASSUME NEW u \in users, Delete(r, u) PROVE SInv'
    <2> DEFINE p == [op |-> "delete", user |-> u]
    <2>1. p \in Pending /\ p.op # "rotate"  BY <1>1, <1>3 DEF Pending, TypeOK
    <2>2. Begin(r, p)  BY <1>3 DEF Delete
    <2> HIDE DEF p
    <2> QED  BY <2>1, <2>2, BeginStep
  <1>4. CASE CommitRegister(r) \/ CommitDelete(r)
    <2>1. UNCHANGED sessions /\ request' = [request EXCEPT ![r] = None]
      BY <1>4 DEF CommitRegister, CommitDelete, End, sessions
    <2>2. users' \subseteq User /\ lastId' \in Nat
      BY <1>1, <1>4, PendingTyped DEF CommitRegister, CommitDelete, TypeOK, User
    <2>3. TypeOK'  BY <1>1, <2>1, <2>2 DEF TypeOK, sessions
    <2>4. RotatesLive'  BY <1>1, <2>1 DEF SInv, TypeOK, RotatesLive, sessions
    <2> QED  BY <2>1, <2>3, <2>4, SessionsKept
  <1> QED  BY <1>2, <1>3, <1>4

\* A new token, of a new family or the only successor of its parent.
LEMMA IssueStep ==
  ASSUME SInv, NEW id \in Nat, NEW family \in Nat, NEW parent,
         IssueTokenPair(id, family, parent),
         \/ parent = None
         \/ \E t \in tokens : parent = t.jti /\ ~t.late /\ ~Used(parent) /\ Used(parent)',
         revoked \subseteq revoked', revoked' \subseteq Row
  PROVE  /\ tokens' \subseteq Token /\ lastJti' \in Nat
         /\ TokensNumbered' /\ ParentsUsed' /\ LateIsRevoked'
         /\ RotationIsLinear' /\ RevokedFamilyEnds'
         /\ tokens \subseteq tokens'
  <1> DEFINE new == [jti |-> lastJti + 1, family |-> family, sub |-> id, parent |-> parent,
                     late |-> [what |-> "family", of |-> family] \in revoked]
  <1>1. TypeOK /\ lastJti \in Nat /\ tokens \subseteq Token  BY DEF SInv, TypeOK
  <1>2. parent \in Nat \cup {None} /\ (parent # None => parent <= lastJti)
    BY <1>1 DEF SInv, TokensNumbered, Token
  <1>3. new \in Token  BY <1>1, <1>2 DEF Token
  <1>4. /\ new.jti = lastJti + 1 /\ new.family = family /\ new.parent = parent
        /\ new.late => FamilyRevoked(family)
    BY DEF FamilyRevoked
  <1>5. tokens' = tokens \cup {new} /\ lastJti' = lastJti + 1
    BY DEF IssueTokenPair
  <1> HIDE DEF new
  <1>6. TokensNumbered'
    BY <1>1, <1>2, <1>4, <1>5, AccountsAssumption DEF SInv, TokensNumbered, Token
  <1>7. ParentsUsed'
    BY <1>4, <1>5 DEF SInv, ParentsUsed, Used
  <1>8. LateIsRevoked'
    BY <1>4, <1>5 DEF SInv, LateIsRevoked, FamilyRevoked
  <1>9. RotationIsLinear'
    BY <1>4, <1>5 DEF SInv, RotationIsLinear, ParentsUsed, Used
  <1>10. RevokedFamilyEnds'
    <2> SUFFICES ASSUME NEW t \in tokens', NEW u \in tokens', t.late PROVE u.parent # t.jti
      BY DEF RevokedFamilyEnds
    <2>1. CASE t \in tokens /\ u \in tokens
      BY <2>1 DEF SInv, RevokedFamilyEnds
    <2>2. CASE t = new
      <3>1. u.parent = None \/ u.parent <= lastJti
        BY <1>2, <1>4, <1>5 DEF SInv, TokensNumbered
      <3>2. u.parent \in Nat \cup {None}  BY <1>1, <1>3, <1>5 DEF Token
      <3> QED  BY <1>1, <1>4, <2>2, <3>1, <3>2, AccountsAssumption
    <2>3. CASE t \in tokens /\ u = new
      <3>1. t.jti \in Nat  BY <1>1, <2>3 DEF Token
      <3> QED  BY <1>4, <2>3, <3>1, AccountsAssumption DEF SInv, TokensNumbered
    <2> QED  BY <1>5, <2>1, <2>2, <2>3
  <1> QED  BY <1>1, <1>3, <1>5, <1>6, <1>7, <1>8, <1>9, <1>10

LEMMA LoginStep == ASSUME SInv, NEW u \in users, Login(u) PROVE SInv'
  <1>1. TypeOK /\ u.id \in Nat /\ NewFamily \in Nat
    BY DEF SInv, TypeOK, User, NewFamily
  <1>2. IssueTokenPair(u.id, NewFamily, None) /\ UNCHANGED <<users, lastId, revoked, request>>
    BY DEF Login
  <1>3. /\ tokens' \subseteq Token /\ lastJti' \in Nat /\ TokensNumbered' /\ ParentsUsed'
        /\ LateIsRevoked' /\ RotationIsLinear' /\ RevokedFamilyEnds' /\ tokens \subseteq tokens'
    BY <1>1, <1>2, IssueStep DEF TypeOK
  <1>4. TypeOK' /\ RotatesLive'
    BY <1>1, <1>2, <1>3 DEF SInv, TypeOK, RotatesLive
  <1> QED  BY <1>3, <1>4 DEF SInv

LEMMA PresentStep ==
  ASSUME SInv, NEW r \in Requests, NEW t \in tokens, Refresh(r, t) \/ Logout(r, t)
  PROVE  SInv'
  <1> DEFINE revoke == [op |-> "revoke", family |-> t.family]
             rotate == [op |-> "rotate", token |-> t]
  <1>1. t \in Token  BY DEF SInv, TypeOK
  <1>2. revoke \in Pending /\ revoke.op # "rotate"  BY <1>1 DEF Pending, Token
  <1>3. rotate \in Pending /\ rotate.token = t  BY <1>1 DEF Pending
  <1>4. ~t.late  BY DEF SInv, LateIsRevoked, Refresh, Logout
  <1>5. Begin(r, revoke) \/ Begin(r, rotate)  BY DEF Refresh, Logout
  <1> HIDE DEF revoke, rotate
  <1> QED  BY <1>2, <1>3, <1>4, <1>5, BeginStep

LEMMA CommitRotateStep == ASSUME SInv, NEW r \in Requests, CommitRotate(r) PROVE SInv'
  <1>1. PICK t \in tokens : t = request[r].token /\ ~t.late
    BY DEF SInv, RotatesLive, CommitRotate
  <1> DEFINE row == [what |-> "jti", of |-> t.jti]
  <1>2. TypeOK /\ t \in Token  BY DEF SInv, TypeOK
  <1>3. request' = [request EXCEPT ![r] = None] /\ UNCHANGED <<users, lastId>>
    BY DEF CommitRotate, End
  <1>4. CASE ~Insertable(row)
    <2>1. UNCHANGED sessions  BY <1>1, <1>4 DEF CommitRotate, sessions
    <2>2. TypeOK' /\ RotatesLive'
      BY <1>2, <1>3, <2>1 DEF SInv, TypeOK, RotatesLive, sessions
    <2> QED  BY <2>1, <2>2, SessionsKept
  <1>5. CASE Insertable(row)
    <2>1. revoked' = revoked \cup {row} /\ IssueTokenPair(t.sub, t.family, t.jti)
      BY <1>1, <1>5 DEF CommitRotate
    <2>2. row \in Row /\ t.jti \in Nat /\ t.sub \in Nat /\ t.family \in Nat
      BY <1>2 DEF Row, Token
    <2>3. ~Used(t.jti) /\ Used(t.jti)'
      BY <1>5, <2>1 DEF Insertable, Used
    <2>4. revoked \subseteq revoked' /\ revoked' \subseteq Row
      BY <1>2, <2>1, <2>2 DEF TypeOK
    <2>5. /\ tokens' \subseteq Token /\ lastJti' \in Nat /\ TokensNumbered' /\ ParentsUsed'
          /\ LateIsRevoked' /\ RotationIsLinear' /\ RevokedFamilyEnds' /\ tokens \subseteq tokens'
      BY <1>1, <2>1, <2>2, <2>3, <2>4, IssueStep
    <2>6. TypeOK'  BY <1>2, <1>3, <2>4, <2>5 DEF TypeOK
    <2>7. RotatesLive'  BY <1>2, <1>3, <2>5 DEF SInv, TypeOK, RotatesLive
    <2> QED  BY <2>5, <2>6, <2>7 DEF SInv
  <1> QED  BY <1>4, <1>5

LEMMA CommitRevokeStep == ASSUME SInv, NEW r \in Requests, CommitRevoke(r) PROVE SInv'
  <1>1. TypeOK /\ request[r].family \in Nat
    BY PendingTyped DEF SInv, CommitRevoke
  <1>2. /\ revoked' = revoked \cup {[what |-> "family", of |-> request[r].family]}
        /\ request' = [request EXCEPT ![r] = None]
        /\ UNCHANGED <<users, lastId, tokens, lastJti>>
    BY DEF CommitRevoke, End
  <1>3. TypeOK'  BY <1>1, <1>2 DEF TypeOK, Row
  <1>4. RotatesLive'  BY <1>1, <1>2 DEF SInv, TypeOK, RotatesLive
  <1>5. TokensNumbered' /\ ParentsUsed' /\ LateIsRevoked' /\ RotationIsLinear' /\ RevokedFamilyEnds'
    BY <1>2 DEF SInv, TokensNumbered, ParentsUsed, LateIsRevoked, RotationIsLinear,
                RevokedFamilyEnds, Used, FamilyRevoked
  <1> QED  BY <1>3, <1>4, <1>5 DEF SInv

LEMMA NextSInv == SInv /\ [Next]_vars => SInv'
  <1> SUFFICES ASSUME SInv, [Next]_vars PROVE SInv'  OBVIOUS
  <1>1. CASE UNCHANGED vars
    BY <1>1, SessionsKept DEF vars, sessions, SInv, TypeOK, RotatesLive
  <1>2. CASE Next
    BY <1>2, AccountSteps, LoginStep, PresentStep, CommitRotateStep, CommitRevokeStep DEF Next
  <1> QED  BY <1>1, <1>2

LEMMA SessionInvariance == Spec => []SInv
  BY InitSInv, NextSInv, PTL DEF Spec

(* Every reachable state of accounts and sessions is well typed.           *)
THEOREM AccountsTypeCorrect == Spec => []TypeOK
  <1>1. SInv => TypeOK  BY DEF SInv
  <1> QED  BY <1>1, SessionInvariance, PTL

(* A refresh token has at most one successor, however many requests found  *)
(* it unused (uq_revoked_refresh_tokens_jti).                              *)
THEOREM SessionsDoNotFork == Spec => []RotationIsLinear
  <1>1. SInv => RotationIsLinear  BY DEF SInv
  <1> QED  BY <1>1, SessionInvariance, PTL

(* A token that a rotation issued after the logout it overlapped is the    *)
(* last of its session (rotate_refresh_token's look at the family).        *)
THEOREM LogoutEndsSession == Spec => []RevokedFamilyEnds
  <1>1. SInv => RevokedFamilyEnds  BY DEF SInv
  <1> QED  BY <1>1, SessionInvariance, PTL

-----------------------------------------------------------------------------
\* No row is about a number that was not given, and neither is a token.
NumbersGiven ==
    /\ \A row \in revoked : row.of <= lastJti
    /\ \A t \in tokens : t.family <= lastJti

\* A session always has a token that was not used.
SessionsLive ==
    \A t \in tokens : \E u \in tokens : u.family = t.family /\ ~Used(u.jti)

\* What is about to be revoked is the family of a token.
RevokesOpened ==
    \A r \in Requests : request[r] # None /\ request[r].op = "revoke" =>
        \E t \in tokens : t.family = request[r].family

LiveInv == NumbersGiven /\ SessionsLive /\ RevokesOpened

LEMMA InitLiveInv == Init => LiveInv
  BY DEF Init, LiveInv, NumbersGiven, SessionsLive, RevokesOpened

\* A step that leaves the sessions alone and plans no new revocation.
LEMMA LiveKept ==
  ASSUME LiveInv, UNCHANGED sessions, RevokesOpened'
  PROVE  LiveInv'
  BY DEF LiveInv, sessions, NumbersGiven, SessionsLive, Used

\* What a step that issues a token adds.
LEMMA IssuedToken ==
  ASSUME TypeOK, NEW id, NEW family, NEW parent, IssueTokenPair(id, family, parent)
  PROVE  \E new : /\ tokens' = tokens \cup {new} /\ lastJti' = lastJti + 1
                  /\ new.jti = lastJti + 1 /\ new.family = family
                  /\ new.late = ([what |-> "family", of |-> family] \in revoked)
  <1> DEFINE n == [jti |-> lastJti + 1, family |-> family, sub |-> id, parent |-> parent,
                   late |-> [what |-> "family", of |-> family] \in revoked]
  <1>1. tokens' = tokens \cup {n} /\ lastJti' = lastJti + 1
    BY DEF IssueTokenPair
  <1>2. n.jti = lastJti + 1 /\ n.family = family
    OBVIOUS
  <1>3. n.late = ([what |-> "family", of |-> family] \in revoked)
    OBVIOUS
  <1> HIDE DEF n
  <1> QED  BY <1>1, <1>2, <1>3

LEMMA NextLiveInv == SInv /\ LiveInv /\ [Next]_vars => LiveInv'
  <1> SUFFICES ASSUME SInv, LiveInv, [Next]_vars PROVE LiveInv'  OBVIOUS
  <1>0. /\ TypeOK /\ lastJti \in Nat
        /\ \A t \in tokens : t \in Token /\ t.jti \in Nat /\ t.family \in Nat
        /\ \A row \in revoked : row.of \in Nat
    BY DEF SInv, TypeOK, Token, Row
  <1>1. ASSUME NEW r \in Requests, NEW p \in Pending, Begin(r, p),
               p.op = "revoke" => \E t \in tokens : t.family = p.family
        PROVE  LiveInv'
    <2>1. RevokesOpened'
      BY <1>0, <1>1 DEF LiveInv, RevokesOpened, Begin, TypeOK
    <2> QED  BY <1>1, <2>1, LiveKept DEF Begin, sessions
  <1>2. ASSUME NEW r \in Requests, NEW n \in Names, NEW role \in Roles, Register(r, n, role)
        PROVE  LiveInv'
    <2> DEFINE p == [op |-> "register", username |-> n, role |-> RoleFor(role)]
    <2>1. p \in Pending /\ p.op # "revoke"  BY DEF Pending, RoleFor, Roles
    <2>2. Begin(r, p)  BY <1>2 DEF Register
    <2> HIDE DEF p
    <2> QED  BY <1>1, <2>1, <2>2
  <1>3. ASSUME NEW r \in Requests, NEW u \in users, Delete(r, u) PROVE LiveInv'
    <2> DEFINE p == [op |-> "delete", user |-> u]
    <2>1. p \in Pending /\ p.op # "revoke"  BY <1>0 DEF Pending, TypeOK
    <2>2. Begin(r, p)  BY <1>3 DEF Delete
    <2> HIDE DEF p
    <2> QED  BY <1>1, <2>1, <2>2
  <1>4. ASSUME NEW r \in Requests, NEW t \in tokens, Refresh(r, t) \/ Logout(r, t)
        PROVE  LiveInv'
    <2> DEFINE revoke == [op |-> "revoke", family |-> t.family]
               rotate == [op |-> "rotate", token |-> t]
    <2>1. revoke \in Pending /\ revoke.family = t.family  BY <1>0 DEF Pending
    <2>2. rotate \in Pending /\ rotate.op # "revoke"  BY <1>0 DEF Pending
    <2>3. Begin(r, revoke) \/ Begin(r, rotate)  BY <1>4 DEF Refresh, Logout
    <2> HIDE DEF revoke, rotate
    <2> QED  BY <1>1, <2>1, <2>2, <2>3
  <1>5. ASSUME NEW r \in Requests, CommitRegister(r) \/ CommitDelete(r) PROVE LiveInv'
    <2>1. UNCHANGED sessions /\ request' = [request EXCEPT ![r] = None]
      BY <1>5 DEF CommitRegister, CommitDelete, End, sessions
    <2>2. RevokesOpened'
      BY <1>0, <2>1 DEF LiveInv, RevokesOpened, TypeOK, sessions
    <2> QED  BY <2>1, <2>2, LiveKept
  <1>6. ASSUME NEW u \in users, Login(u) PROVE LiveInv'
    <2>1. IssueTokenPair(u.id, lastJti + 1, None) /\ UNCHANGED <<revoked, request>>
      BY <1>6 DEF Login, NewFamily
    <2>2. PICK new : /\ tokens' = tokens \cup {new} /\ lastJti' = lastJti + 1
                     /\ new.jti = lastJti + 1 /\ new.family = lastJti + 1
      BY <1>0, <2>1, IssuedToken
    <2>3. ~Used(new.jti)
      BY <1>0, <2>2 DEF LiveInv, NumbersGiven, Used
    <2>4. NumbersGiven'
      BY <1>0, <2>1, <2>2 DEF LiveInv, NumbersGiven
    <2>5. SessionsLive'
      BY <2>1, <2>2, <2>3 DEF LiveInv, SessionsLive, Used
    <2>6. RevokesOpened'
      BY <2>1, <2>2 DEF LiveInv, RevokesOpened
    <2> QED  BY <2>4, <2>5, <2>6 DEF LiveInv
  <1>7. ASSUME NEW r \in Requests, CommitRotate(r) PROVE LiveInv'
    <2>1. PICK t \in tokens : t = request[r].token /\ ~t.late
      BY <1>7 DEF SInv, RotatesLive, CommitRotate
    <2> DEFINE row == [what |-> "jti", of |-> t.jti]
    <2>2. request' = [request EXCEPT ![r] = None]
      BY <1>7 DEF CommitRotate, End
    <2>3. CASE ~Insertable(row)
      <3>1. UNCHANGED sessions  BY <1>7, <2>1, <2>3 DEF CommitRotate, sessions
      <3>2. RevokesOpened'
        BY <1>0, <2>2, <3>1 DEF LiveInv, RevokesOpened, TypeOK, sessions
      <3> QED  BY <3>1, <3>2, LiveKept
    <2>4. CASE Insertable(row)
      <3>1. revoked' = revoked \cup {row} /\ IssueTokenPair(t.sub, t.family, t.jti)
        BY <1>7, <2>1, <2>4 DEF CommitRotate
      <3>2. PICK new : /\ tokens' = tokens \cup {new} /\ lastJti' = lastJti + 1
                       /\ new.jti = lastJti + 1 /\ new.family = t.family
        BY <1>0, <3>1, IssuedToken
      <3>3. t.jti <= lastJti /\ row.of = t.jti /\ row.what = "jti"
        BY DEF SInv, TokensNumbered
      <3>4. NumbersGiven'
        BY <1>0, <3>1, <3>2, <3>3 DEF LiveInv, NumbersGiven
      <3>5. ~Used(lastJti + 1) /\ t.jti # lastJti + 1
        BY <1>0, <3>3 DEF LiveInv, NumbersGiven, Used
      <3>6. \A j : [what |-> "jti", of |-> j] \in revoked' => Used(j) \/ j = t.jti
        BY <3>1 DEF Used
      <3>7. SessionsLive'
        <4> SUFFICES ASSUME NEW x \in tokens'
                     PROVE  \E u \in tokens' :
                                u.family = x.family /\ [what |-> "jti", of |-> u.jti] \notin revoked'
          BY DEF SessionsLive, Used
        <4>1. CASE x.family = t.family
          BY <3>2, <3>5, <3>6, <4>1
        <4>2. CASE x.family # t.family
          <5>1. PICK u \in tokens : u.family = x.family /\ ~Used(u.jti)
            BY <3>2, <4>2 DEF LiveInv, SessionsLive
          <5>2. u.jti # t.jti
            BY <4>2, <5>1 DEF SInv, TokensNumbered
          <5> QED  BY <3>2, <3>6, <5>1, <5>2
        <4> QED  BY <4>1, <4>2
      <3>8. RevokesOpened'
        BY <1>0, <2>2, <3>2 DEF LiveInv, RevokesOpened, TypeOK
      <3> QED  BY <3>4, <3>7, <3>8 DEF LiveInv
    <2> QED  BY <2>3, <2>4
  <1>8. ASSUME NEW r \in Requests, CommitRevoke(r) PROVE LiveInv'
    <2>1. /\ revoked' = revoked \cup {[what |-> "family", of |-> request[r].family]}
          /\ request' = [request EXCEPT ![r] = None] /\ UNCHANGED <<tokens, lastJti>>
      BY <1>8 DEF CommitRevoke, End
    <2>2. request[r].family <= lastJti
      BY <1>8 DEF LiveInv, NumbersGiven, RevokesOpened, CommitRevoke
    <2>3. NumbersGiven'
      BY <2>1, <2>2 DEF LiveInv, NumbersGiven
    <2>4. SessionsLive'
      BY <2>1 DEF LiveInv, SessionsLive, Used
    <2>5. RevokesOpened'
      BY <1>0, <2>1 DEF LiveInv, RevokesOpened, TypeOK
    <2> QED  BY <2>3, <2>4, <2>5 DEF LiveInv
  <1>9. CASE UNCHANGED vars
    BY <1>9, LiveKept DEF vars, sessions, LiveInv, RevokesOpened
  <1> QED
    BY <1>2, <1>3, <1>4, <1>5, <1>6, <1>7, <1>8, <1>9 DEF Next

-----------------------------------------------------------------------------
(* Sessions, step by step.                                                 *)
Shown(t) == [session |-> t.family, token |-> t.jti, late |-> t.late]

LEMMA LiveTokensAre ==
  /\ LiveTokens = {Shown(t) : t \in {u \in tokens : ~Used(u.jti)}}
  /\ LiveTokens' = {Shown(t) : t \in {u \in tokens' : [what |-> "jti", of |-> u.jti] \notin revoked'}}
  BY DEF LiveTokens, Shown, Used

\* A step that leaves the sessions alone is a stutter of Sessions.
LEMMA SessionsStutter ==
  ASSUME UNCHANGED sessions
  PROVE  UNCHANGED Session!vars
  BY DEF sessions, Session!vars, LiveTokens, ClosedFamilies, Used

LEMMA LoginOpens ==
  ASSUME SInv, LiveInv, NEW u \in users, Login(u)
  PROVE  Session!Open
  <1>1. /\ TypeOK /\ lastJti \in Nat
        /\ \A t \in tokens : t.jti \in Nat /\ t.jti <= lastJti
        /\ \A row \in revoked : row.of \in Nat /\ row.of <= lastJti
    BY DEF SInv, TypeOK, TokensNumbered, Token, LiveInv, NumbersGiven, Row
  <1>2. IssueTokenPair(u.id, lastJti + 1, None) /\ UNCHANGED revoked
    BY DEF Login, NewFamily
  <1>3. PICK new : /\ tokens' = tokens \cup {new} /\ lastJti' = lastJti + 1
                   /\ new.jti = lastJti + 1 /\ new.family = lastJti + 1
                   /\ new.late = ([what |-> "family", of |-> lastJti + 1] \in revoked)
    BY <1>1, <1>2, IssuedToken
  <1>4. [what |-> "family", of |-> lastJti + 1] \notin revoked
        /\ [what |-> "jti", of |-> lastJti + 1] \notin revoked
    BY <1>1
  <1>5. Shown(new) = [session |-> lastJti + 1, token |-> lastJti + 1, late |-> FALSE]
    <2>1. ([what |-> "family", of |-> lastJti + 1] \in revoked) = FALSE
      BY <1>4
    <2>2. new.late = FALSE
      BY Zenon, <1>3, <2>1
    <2> QED  BY <1>3, <2>2 DEF Shown
  <1>6. LiveTokens' = LiveTokens \cup {Shown(new)}
    BY <1>2, <1>3, <1>4, LiveTokensAre DEF Used
  <1>7. UNCHANGED ClosedFamilies
    BY <1>2 DEF ClosedFamilies
  <1> QED  BY <1>3, <1>5, <1>6, <1>7 DEF Session!Open

LEMMA RotateAdvances ==
  ASSUME SInv, LiveInv, NEW r \in Requests, CommitRotate(r)
  PROVE  (\E s \in LiveTokens : Session!Advance(s)) \/ UNCHANGED Session!vars
  <1>1. PICK t \in tokens : t = request[r].token /\ ~t.late
    BY DEF SInv, RotatesLive, CommitRotate
  <1> DEFINE row == [what |-> "jti", of |-> t.jti]
  <1>2. /\ TypeOK /\ lastJti \in Nat
        /\ \A u \in tokens : u.jti \in Nat /\ u.jti <= lastJti /\ (u.jti = t.jti => u = t)
        /\ \A x \in revoked : x.of \in Nat /\ x.of <= lastJti
    BY DEF SInv, TypeOK, TokensNumbered, Token, LiveInv, NumbersGiven, Row
  <1>3. CASE ~Insertable(row)
    BY <1>1, <1>3, SessionsStutter DEF CommitRotate, sessions
  <1>4. CASE Insertable(row)
    <2>1. revoked' = revoked \cup {row} /\ IssueTokenPair(t.sub, t.family, t.jti)
      BY <1>1, <1>4 DEF CommitRotate
    <2>2. PICK new : /\ tokens' = tokens \cup {new} /\ lastJti' = lastJti + 1
                     /\ new.jti = lastJti + 1 /\ new.family = t.family
                     /\ new.late = ([what |-> "family", of |-> t.family] \in revoked)
      BY <1>2, <2>1, IssuedToken
    <2>3. ~Used(t.jti) /\ Shown(t) \in LiveTokens
      BY <1>4, LiveTokensAre DEF Insertable, Used
    <2>4. \A j : [what |-> "jti", of |-> j] \in revoked' <=> Used(j) \/ j = t.jti
      BY <2>1 DEF Used
    <2>5. ~Used(new.jti) /\ new.jti # t.jti
      BY <1>2, <2>2 DEF Used
    <2>6. {u \in tokens' : [what |-> "jti", of |-> u.jti] \notin revoked'}
              = ({u \in tokens : ~Used(u.jti)} \ {t}) \cup {new}
      BY <1>2, <2>2, <2>4, <2>5
    <2>7. \A u \in tokens : Shown(u) = Shown(t) => u = t
      BY <1>2 DEF Shown
    <2>8. LiveTokens' = (LiveTokens \ {Shown(t)}) \cup {Shown(new)}
      <3> HIDE DEF row
      <3> DEFINE unused == {u \in tokens : ~Used(u.jti)}
      <3>1. LiveTokens' = {Shown(u) : u \in (unused \ {t}) \cup {new}}
        BY <2>6, LiveTokensAre
      <3>2. LiveTokens = {Shown(u) : u \in unused} /\ unused \subseteq tokens
        BY LiveTokensAre
      <3> HIDE DEF unused
      <3>3. {Shown(u) : u \in (unused \ {t}) \cup {new}}
                = ({Shown(u) : u \in unused} \ {Shown(t)}) \cup {Shown(new)}
        BY <2>7, <3>2
      <3> QED  BY <3>1, <3>2, <3>3
    <2>9. [what |-> "family", of |-> t.family] \in revoked <=> t.family \in ClosedFamilies
      BY <1>2 DEF ClosedFamilies, TypeOK, Row
    <2>10. Shown(new) = [session |-> t.family, token |-> lastJti + 1,
                         late |-> t.family \in ClosedFamilies]
      BY <2>2, <2>9 DEF Shown
    <2>11. UNCHANGED ClosedFamilies
      BY <2>1 DEF ClosedFamilies
    <2>12. Shown(t).session = t.family /\ ~Shown(t).late
      BY <1>1 DEF Shown
    <2>13. Session!Advance(Shown(t))
      BY <2>2, <2>8, <2>10, <2>11, <2>12 DEF Session!Advance
    <2> QED  BY <2>3, <2>13
  <1> QED  BY <1>3, <1>4

LEMMA RevokeCloses ==
  ASSUME SInv, LiveInv, NEW r \in Requests, CommitRevoke(r)
  PROVE  \E f \in Session!Opened : Session!Close(f)
  <1> DEFINE f == request[r].family
  <1>1. /\ revoked' = revoked \cup {[what |-> "family", of |-> f]}
        /\ UNCHANGED <<tokens, lastJti>>
    BY DEF CommitRevoke
  <1>2. PICK t \in tokens : t.family = f
    BY DEF CommitRevoke, LiveInv, RevokesOpened
  <1>3. PICK u \in tokens : u.family = f /\ ~Used(u.jti)
    BY <1>2 DEF LiveInv, SessionsLive
  <1>4. Shown(u) \in LiveTokens /\ Shown(u).session = f
    BY <1>3, LiveTokensAre DEF Shown
  <1>5. f \in Session!Opened
    BY <1>4 DEF Session!Opened
  <1>6. \A j : [what |-> "jti", of |-> j] \in revoked' <=> Used(j)
    BY <1>1 DEF Used
  <1>7. LiveTokens' = LiveTokens
    BY <1>1, <1>6, LiveTokensAre
  <1>8. ClosedFamilies' = ClosedFamilies \cup {f}
    <2> DEFINE row == [what |-> "family", of |-> f]
               rows == {x \in revoked : x.what = "family"}
    <2>1. row.what = "family" /\ row.of = f
      OBVIOUS
    <2>2. {x \in revoked' : x.what = "family"} = rows \cup {row}
      BY <1>1, <2>1
    <2>3. ClosedFamilies = {x.of : x \in rows} /\ ClosedFamilies' = {x.of : x \in rows \cup {row}}
      BY <2>2 DEF ClosedFamilies
    <2> HIDE DEF row, rows
    <2> QED  BY <2>1, <2>3
  <1> QED  BY <1>1, <1>5, <1>7, <1>8 DEF Session!Close

LEMMA NextSessions ==
  SInv /\ LiveInv /\ [Next]_vars => [Session!Next]_(Session!vars)
  <1> SUFFICES ASSUME SInv, LiveInv, [Next]_vars PROVE [Session!Next]_(Session!vars)
    OBVIOUS
  <1>1. ASSUME NEW r \in Requests, NEW p, Begin(r, p) PROVE UNCHANGED Session!vars
    BY <1>1, SessionsStutter DEF Begin, sessions
  <1>2. ASSUME NEW r \in Requests,
               \/ \E n \in Names, role \in Roles : Register(r, n, role)
               \/ \E u \in users : Delete(r, u)
               \/ \E t \in tokens : Refresh(r, t) \/ Logout(r, t)
        PROVE  UNCHANGED Session!vars
    BY <1>1, <1>2 DEF Register, Delete, Refresh, Logout
  <1>3. ASSUME NEW r \in Requests, CommitRegister(r) \/ CommitDelete(r)
        PROVE  UNCHANGED Session!vars
    BY <1>3, SessionsStutter DEF CommitRegister, CommitDelete, sessions
  <1>4. CASE UNCHANGED vars
    BY <1>4, SessionsStutter DEF vars, sessions
  <1> QED
    BY <1>2, <1>3, <1>4, LoginOpens, RotateAdvances, RevokeCloses
       DEF Next, Session!Next

(* Accounts implements Sessions: the reads of overlapping refreshes and    *)
(* logouts and their commits act as single steps on the one live token of  *)
(* a session.                                                              *)
THEOREM AccountsImplementSessions == Spec => ImplementsSessions
  <1>1. Init => Session!Init
    BY DEF Init, Session!Init, LiveTokens, ClosedFamilies
  <1>2. Spec => []LiveInv
    BY SessionInvariance, InitLiveInv, NextLiveInv, PTL DEF Spec
  <1> QED  BY <1>1, <1>2, NextSessions, SessionInvariance, PTL
           DEF Spec, ImplementsSessions, Session!Spec

-----------------------------------------------------------------------------
(* A session never has two tokens that can be used.                        *)
OneUsableToken == Session!OneLiveToken

(* What every implementation of Sessions has.  The numbers of the sessions *)
(* and tokens were given before.                                           *)
SessionsNumbered ==
    /\ lastJti \in Nat
    /\ \A s \in LiveTokens : s.session \in Nat /\ s.session <= lastJti

LEMMA SessionsKeepOne ==
  SessionsNumbered /\ OneUsableToken /\ [Session!Next]_(Session!vars)
      => SessionsNumbered' /\ OneUsableToken'
  <1> SUFFICES ASSUME SessionsNumbered, OneUsableToken, [Session!Next]_(Session!vars)
               PROVE  SessionsNumbered' /\ OneUsableToken'
    OBVIOUS
  <1> USE DEF SessionsNumbered, OneUsableToken, Session!OneLiveToken
  <1>1. CASE Session!Open
    <2> DEFINE s == [session |-> lastJti + 1, token |-> lastJti + 1, late |-> FALSE]
    <2>1. LiveTokens' = LiveTokens \cup {s} /\ lastJti' = lastJti + 1
      BY <1>1 DEF Session!Open
    <2>2. s.session = lastJti + 1
      OBVIOUS
    <2> HIDE DEF s
    <2> QED  BY <2>1, <2>2
  <1>2. ASSUME NEW s \in LiveTokens, Session!Advance(s)
        PROVE  SessionsNumbered' /\ OneUsableToken'
    <2> DEFINE n == [session |-> s.session, token |-> lastJti + 1,
                     late |-> s.session \in ClosedFamilies]
    <2>1. LiveTokens' = (LiveTokens \ {s}) \cup {n} /\ lastJti' = lastJti + 1
      BY <1>2 DEF Session!Advance
    <2>2. n.session = s.session
      OBVIOUS
    <2> HIDE DEF n
    <2> QED  BY <2>1, <2>2
  <1>3. ASSUME NEW f, Session!Close(f)
        PROVE  SessionsNumbered' /\ OneUsableToken'
    BY <1>3 DEF Session!Close
  <1>4. CASE UNCHANGED Session!vars
    BY <1>4 DEF Session!vars
  <1> QED  BY <1>1, <1>2, <1>3, <1>4 DEF Session!Next

(* A session never has two tokens that can be used, however many requests  *)
(* found its token unused: it follows from Sessions alone.                 *)
THEOREM OneTokenPerSession == Spec => []OneUsableToken
  <1>1. Session!Init => SessionsNumbered /\ OneUsableToken
    BY DEF Session!Init, SessionsNumbered, OneUsableToken, Session!OneLiveToken
  <1>2. Session!Spec => [](SessionsNumbered /\ OneUsableToken)
    BY <1>1, SessionsKeepOne, PTL DEF Session!Spec
  <1> QED  BY <1>2, AccountsImplementSessions, PTL DEF ImplementsSessions

-----------------------------------------------------------------------------
(* Accounts are counted by the ids that were given; before the first       *)
(* account everyone who registers does so as the administrator.            *)
AccountsCounted ==
    /\ IsFiniteSet(users)
    /\ Cardinality(users) <= lastId
    /\ lastId = 0 => \A r \in Requests :
           request[r] # None /\ request[r].op = "register" => request[r].role = "admin"

CountInv == TypeOK /\ AccountsCounted /\ AdministratorExists

LEMMA InitCountInv == Init => CountInv
  <1> SUFFICES ASSUME Init PROVE CountInv  OBVIOUS
  <1>1. IsFiniteSet({}) /\ Cardinality({}) = 0
    BY FS_EmptySet
  <1>2. TypeOK
    BY InitSInv DEF SInv
  <1> QED  BY <1>1, <1>2 DEF Init, CountInv, AccountsCounted, AdministratorExists

\* A step that creates and deletes no account, and starts no registration.
LEMMA CountKept ==
  ASSUME CountInv, TypeOK', UNCHANGED <<users, lastId>>,
         \A r \in Requests : request'[r] # None /\ request'[r].op = "register" =>
             request'[r] = request[r] \/ (users = {} => request'[r].role = "admin")
  PROVE  CountInv'
  <1>1. lastId = 0 => users = {}
    BY FS_CardinalityType, FS_EmptySet DEF CountInv, AccountsCounted
  <1>2. AccountsCounted'
    BY <1>1 DEF CountInv, AccountsCounted
  <1> QED  BY <1>2 DEF CountInv, AdministratorExists

LEMMA NextCountInv == SInv /\ SInv' /\ CountInv /\ [Next]_vars => CountInv'
  <1> SUFFICES ASSUME SInv, SInv', CountInv, [Next]_vars PROVE CountInv'  OBVIOUS
  <1>0. /\ TypeOK /\ TypeOK' /\ lastId \in Nat
        /\ IsFiniteSet(users) /\ Cardinality(users) \in Nat /\ Cardinality(users) <= lastId
    BY FS_CardinalityType DEF SInv, TypeOK, CountInv, AccountsCounted
  <1>1. ASSUME NEW r \in Requests, NEW p, Begin(r, p),
               p.op = "register" => (users = {} => p.role = "admin")
        PROVE  CountInv'
    <2>1. /\ request'[r] = p /\ UNCHANGED <<users, lastId>>
          /\ \A q \in Requests \ {r} : request'[q] = request[q]
      BY <1>0, <1>1 DEF Begin, TypeOK
    <2> QED  BY <1>0, <1>1, <2>1, CountKept
  <1>2. ASSUME NEW r \in Requests, NEW n \in Names, NEW role \in Roles, Register(r, n, role)
        PROVE  CountInv'
    <2> DEFINE p == [op |-> "register", username |-> n, role |-> RoleFor(role)]
    <2>1. users = {} => p.role = "admin"  BY DEF RoleFor
    <2>2. Begin(r, p)  BY <1>2 DEF Register
    <2> HIDE DEF p
    <2> QED  BY <1>1, <2>1, <2>2
  <1>3. ASSUME NEW r \in Requests, NEW u \in users, Delete(r, u) PROVE CountInv'
    <2> DEFINE p == [op |-> "delete", user |-> u]
    <2>1. p.op # "register"  OBVIOUS
    <2>2. Begin(r, p)  BY <1>3 DEF Delete
    <2> HIDE DEF p
    <2> QED  BY <1>1, <2>1, <2>2
  <1>4. ASSUME NEW r \in Requests, NEW t \in tokens, Refresh(r, t) \/ Logout(r, t)
        PROVE  CountInv'
    <2> DEFINE revoke == [op |-> "revoke", family |-> t.family]
               rotate == [op |-> "rotate", token |-> t]
    <2>1. revoke.op # "register" /\ rotate.op # "register"  OBVIOUS
    <2>2. Begin(r, revoke) \/ Begin(r, rotate)  BY <1>4 DEF Refresh, Logout
    <2> HIDE DEF revoke, rotate
    <2> QED  BY <1>1, <2>1, <2>2
  <1>5. ASSUME NEW r \in Requests, CommitRegister(r) PROVE CountInv'
    <2> DEFINE p == request[r]
               new == [id |-> lastId + 1, username |-> p.username, role |-> p.role]
    <2>1. /\ p # None /\ p.op = "register"
          /\ request' = [request EXCEPT ![r] = None]
          /\ \/ UNCHANGED <<users, lastId>>
             \/ users' = users \cup {new} /\ lastId' = lastId + 1
      BY ZenonT(30), <1>5 DEF CommitRegister, End
    <2>2. CASE UNCHANGED <<users, lastId>>
      BY <1>0, <2>1, <2>2, CountKept DEF TypeOK
    <2>3. CASE users' = users \cup {new} /\ lastId' = lastId + 1
      <3>1. /\ IsFiniteSet(users')
            /\ Cardinality(users') = IF new \in users THEN Cardinality(users)
                                      ELSE Cardinality(users) + 1
        BY <1>0, <2>3, FS_AddElement
      <3>2. AccountsCounted'
        BY <1>0, <2>3, <3>1 DEF AccountsCounted
      <3>3. ASSUME Cardinality(users') = lastId' PROVE \E u \in users' : u.role = "admin"
        <4>1. Cardinality(users) = lastId
          BY <1>0, <2>3, <3>1, <3>3
        <4>2. CASE users = {}
          <5>1. lastId = 0  BY <4>1, <4>2, FS_EmptySet
          <5>2. new.role = "admin"
            BY <2>1, <5>1 DEF CountInv, AccountsCounted
          <5> QED  BY <2>3, <5>2
        <4>3. CASE users # {}
          BY <2>3, <4>1, <4>3 DEF CountInv, AdministratorExists
        <4> QED  BY <4>2, <4>3
      <3> QED  BY <1>0, <3>2, <3>3 DEF CountInv, AdministratorExists
    <2> QED  BY <2>1, <2>2, <2>3
  <1>6. ASSUME NEW r \in Requests, CommitDelete(r) PROVE CountInv'
    <2> DEFINE gone == request[r].user
    <2>1. /\ users' = users \ {gone} /\ UNCHANGED lastId
          /\ request' = [request EXCEPT ![r] = None]
      BY <1>6 DEF CommitDelete, End
    <2>2. CASE gone \notin users
      <3>1. UNCHANGED users  BY <2>1, <2>2
      <3> QED  BY <1>0, <2>1, <3>1, CountKept DEF TypeOK
    <2>3. CASE gone \in users
      <3>1. IsFiniteSet(users') /\ Cardinality(users') = Cardinality(users) - 1
        BY <1>0, <2>1, <2>3, FS_RemoveElement
      <3>2. AccountsCounted' /\ Cardinality(users') # lastId'
        BY <1>0, <2>1, <3>1 DEF CountInv, AccountsCounted, TypeOK
      <3> QED  BY <1>0, <3>2 DEF CountInv, AdministratorExists
    <2> QED  BY <2>2, <2>3
  <1>7. ASSUME NEW r \in Requests, CommitRotate(r) \/ CommitRevoke(r) PROVE CountInv'
    <2>1. UNCHANGED <<users, lastId>> /\ request' = [request EXCEPT ![r] = None]
      BY <1>7 DEF CommitRotate, CommitRevoke, End
    <2> QED  BY <1>0, <2>1, CountKept DEF TypeOK
  <1>8. CASE (\E u \in users : Login(u)) \/ UNCHANGED vars
    <2>1. UNCHANGED <<users, lastId, request>>  BY <1>8 DEF Login, vars
    <2> QED  BY <1>0, <2>1, CountKept
  <1> QED
    BY <1>2, <1>3, <1>4, <1>5, <1>6, <1>7, <1>8 DEF Next

(* While no account was deleted there is an administrator as soon as there *)
(* is an account: of any number of registrations that overlap, those that  *)
(* counted no account get the administrator's role (auth.register).        *)
THEOREM FirstIsAdministrator == Spec => []AdministratorExists
  <1>1. CountInv => AdministratorExists  BY DEF CountInv
  <1> QED
    BY InitCountInv, NextCountInv, SessionInvariance, <1>1, PTL DEF Spec

-----------------------------------------------------------------------------
\* The answers since the last expiry are the stored response, which is live.
StoredAnswers ==
    \A a \in answers :
        /\ a.epoch <= epoch[a.key]
        /\ a.epoch = epoch[a.key] => stored[a.key] = a.response /\ a.key \notin expired

\* A call that stores has done its work.
WorkDone == \A c \in Calls : call[c].pc = "storing" => call[c].response \in Nat

Deletes(c) == call[c].pc = "working" /\ call[c].deletes

\* While nobody stores a response between a SELECT and its DELETE, a row that
\* a call is deleting has expired, and no other call is deleting it.
DeletesExpired ==
    /\ \A c \in Calls : call[c].pc \in {"new", "deleting"} => ~call[c].deletes
    /\ \A c \in Calls : Deletes(c) => call[c].key \in expired
    /\ \A c, d \in Calls : Deletes(c) /\ Deletes(d) /\ call[c].key = call[d].key => c = d

KInv == KeysTypeOK /\ WorkDone /\ DeletesExpired /\ StoredAnswers /\ AnswersAgree

LEMMA InitKInv == KeysInit => KInv
  <1> SUFFICES ASSUME KeysInit PROVE KInv  OBVIOUS
  <1>1. /\ call \in [Calls -> Call]
        /\ \A c \in Calls : call[c].pc = "new" /\ call[c].deletes = FALSE
    BY DEF KeysInit, Call, Response
  <1>2. KeysTypeOK
    BY <1>1, KeysAssumption DEF KeysInit, KeysTypeOK, Response
  <1>3. WorkDone /\ DeletesExpired
    BY <1>1 DEF WorkDone, DeletesExpired, Deletes
  <1>4. StoredAnswers /\ AnswersAgree
    BY DEF KeysInit, StoredAnswers, AnswersAgree
  <1> QED  BY <1>2, <1>3, <1>4 DEF KInv

\* A new answer is the stored response.
LEMMA AnswerStep ==
  ASSUME KInv, NEW c \in Calls, NEW response \in Nat, Answer(c, response), epoch' = epoch,
         stored'[call[c].key] = response, stored' \in [Keys -> Response],
         call[c].key \notin expired, expired' = expired,
         \A k \in Keys : stored[k] # NoResponse => stored'[k] = stored[k]
  PROVE  answers' \subseteq [key : Keys, epoch : Nat, response : Nat]
         /\ StoredAnswers' /\ AnswersAgree'
  <1> DEFINE new == [key |-> call[c].key, epoch |-> epoch[call[c].key], response |-> response]
  <1>1. KeysTypeOK /\ call[c].key \in Keys /\ epoch[call[c].key] \in Nat
    BY DEF KInv, KeysTypeOK, Call
  <1>2. /\ new \in [key : Keys, epoch : Nat, response : Nat]
        /\ new.key = call[c].key /\ new.epoch = epoch[call[c].key] /\ new.response = response
    BY <1>1
  <1>3. answers' = answers \cup {new}  BY DEF Answer
  <1> HIDE DEF new
  <1>4. \A a \in answers : a.key \in Keys /\ a.response \in Nat /\ a.epoch \in Nat
    BY <1>1 DEF KeysTypeOK
  <1>5. StoredAnswers'
    BY <1>1, <1>2, <1>3, <1>4, KeysAssumption DEF KInv, StoredAnswers
  <1>6. AnswersAgree'
    BY <1>2, <1>3, <1>5 DEF KInv, AnswersAgree, StoredAnswers
  <1> QED  BY <1>1, <1>2, <1>3, <1>5, <1>6 DEF KeysTypeOK

\* A call keeps its key, and the others stand still.
Advances(c, step, deletes, response) ==
    /\ call' \in [Calls -> Call] /\ call'[c].key = call[c].key /\ call'[c].pc = step
    /\ call'[c].deletes = deletes /\ call'[c].response = response
    /\ \A d \in Calls : d # c => call'[d] = call[d]

LEMMA CallStep ==
  ASSUME KeysTypeOK, NEW c \in Calls,
         NEW step \in {"new", "deleting", "working", "storing", "ended"},
         NEW deletes \in BOOLEAN, NEW response \in Response,
         \/ /\ call' = [call EXCEPT ![c].pc = step]
            /\ deletes = call[c].deletes /\ response = call[c].response
         \/ /\ call' = [call EXCEPT ![c].pc = step, ![c].deletes = deletes]
            /\ response = call[c].response
         \/ /\ call' = [call EXCEPT ![c].pc = step, ![c].response = response]
            /\ deletes = call[c].deletes
  PROVE  Advances(c, step, deletes, response)
  <1>1. call[c] \in Call  BY DEF KeysTypeOK
  <1>2. /\ call'[c].key = call[c].key /\ call'[c].pc = step
        /\ call'[c].deletes = deletes /\ call'[c].response = response
        /\ call'[c] \in Call
    <2>1. CASE call' = [call EXCEPT ![c].pc = step]
               /\ deletes = call[c].deletes /\ response = call[c].response
      BY <1>1, <2>1 DEF KeysTypeOK, Call
    <2>2. CASE call' = [call EXCEPT ![c].pc = step, ![c].deletes = deletes]
               /\ response = call[c].response
      BY <1>1, <2>2 DEF KeysTypeOK, Call
    <2>3. CASE call' = [call EXCEPT ![c].pc = step, ![c].response = response]
               /\ deletes = call[c].deletes
      BY <1>1, <2>3 DEF KeysTypeOK, Call
    <2> QED  BY <2>1, <2>2, <2>3
  <1>3. \A d \in Calls : d # c => call'[d] = call[d]
    BY DEF KeysTypeOK
  <1>4. call' = [d \in Calls |-> call'[d]]
    BY DEF KeysTypeOK
  <1>5. call' \in [Calls -> Call]  BY <1>2, <1>3, <1>4 DEF KeysTypeOK
  <1> QED  BY <1>2, <1>3, <1>5 DEF Advances

\* What the calls rely on, when a call moves on and nothing is deleted.
LEMMA CallsKept ==
  ASSUME KInv, NEW c \in Calls, call'[c].key = call[c].key,
         \A d \in Calls : d # c => call'[d] = call[d], expired' = expired,
         call'[c].pc = "storing" => call'[c].response \in Nat,
         call'[c].pc \in {"new", "deleting"} => ~call'[c].deletes,
         call'[c].pc = "working" /\ call'[c].deletes =>
             call[c].key \in expired /\ ~Locked(call[c].key)
  PROVE  WorkDone' /\ DeletesExpired'
  <1>1. WorkDone'  BY DEF KInv, WorkDone
  <1>2. \A d \in Calls : d # c => call'[d] = call[d]
    OBVIOUS
  <1>3. \A d \in Calls : call'[d].key = call[d].key
    OBVIOUS
  <1>4. \A d \in Calls : d # c => (Deletes(d)' <=> Deletes(d))
    BY <1>2 DEF Deletes
  <1>5. Deletes(c)' => call[c].key \in expired /\ ~Locked(call[c].key)
    BY DEF Deletes
  <1>6. \A d \in Calls : Deletes(c)' /\ d # c /\ Deletes(d) => call[d].key # call[c].key
    BY <1>5 DEF Deletes, Locked
  <1>7. \A d \in Calls : call'[d].pc \in {"new", "deleting"} => ~call'[d].deletes
    BY DEF KInv, DeletesExpired
  <1>8. \A d \in Calls : Deletes(d)' => call'[d].key \in expired'
    BY <1>3, <1>4, <1>5 DEF KInv, DeletesExpired
  <1>9. \A d, e \in Calls :
            Deletes(d)' /\ Deletes(e)' /\ call'[d].key = call'[e].key => d = e
    BY <1>3, <1>4, <1>6 DEF KInv, DeletesExpired
  <1> QED  BY <1>1, <1>7, <1>8, <1>9 DEF DeletesExpired

LEMMA FinishStep ==
  ASSUME KInv, NEW c \in Calls, Finish(c), expired' = expired
  PROVE  call' \in [Calls -> Call] /\ WorkDone' /\ DeletesExpired'
  <1>1. KeysTypeOK /\ call[c].deletes \in BOOLEAN /\ call[c].response \in Response
    BY DEF KInv, KeysTypeOK, Call
  <1>2. Advances(c, "ended", call[c].deletes, call[c].response)
    BY <1>1, CallStep DEF Finish
  <1> QED  BY <1>2, CallsKept DEF Advances

\* A call that gives no answer and commits nothing.
LEMMA QuietStep ==
  ASSUME KInv, call' \in [Calls -> Call], WorkDone', DeletesExpired',
         UNCHANGED <<stored, expired, epoch, done, answers, expiries>>
  PROVE  KInv'
  BY DEF KInv, KeysTypeOK, StoredAnswers, AnswersAgree

LEMMA ReplayStep == ASSUME KInv, NEW c \in Calls, Replay(c) PROVE KInv'
  <1>1. KeysTypeOK /\ call[c].key \in Keys  BY DEF KInv, KeysTypeOK, Call
  <1>2. stored[call[c].key] \in Nat /\ call[c].key \notin expired
    BY <1>1 DEF KeysTypeOK, Response, Replay, Live
  <1>3. answers' \subseteq [key : Keys, epoch : Nat, response : Nat]
        /\ StoredAnswers' /\ AnswersAgree'
    BY <1>1, <1>2, AnswerStep DEF Replay, KeysTypeOK
  <1>4. call' \in [Calls -> Call] /\ WorkDone' /\ DeletesExpired'
    BY FinishStep DEF Replay
  <1>5. KeysTypeOK'
    BY <1>1, <1>3, <1>4 DEF Replay, KeysTypeOK
  <1> QED  BY <1>3, <1>4, <1>5 DEF KInv

LEMMA StoreStep == ASSUME KInv, NEW c \in Calls, StoreResponse(c) PROVE KInv'
  <1> DEFINE k == call[c].key
             response == call[c].response
  <1>1. KeysTypeOK /\ k \in Keys /\ response \in Nat
    BY DEF KInv, KeysTypeOK, Call, WorkDone, StoreResponse
  <1>2. call' \in [Calls -> Call] /\ WorkDone' /\ DeletesExpired'
    BY FinishStep DEF StoreResponse
  <1>3. CASE stored[k] # NoResponse
    BY <1>1, <1>2, <1>3, QuietStep DEF StoreResponse
  <1>4. CASE stored[k] = NoResponse
    <2>1. /\ stored' = [stored EXCEPT ![k] = response] /\ Answer(c, response)
          /\ UNCHANGED <<expired, epoch, done, expiries>>
      BY <1>4 DEF StoreResponse
    <2>2. /\ stored' \in [Keys -> Response] /\ stored'[k] = response /\ k \notin expired
          /\ \A n \in Keys : stored[n] # NoResponse => stored'[n] = stored[n]
      BY <1>1, <1>4, <2>1 DEF KeysTypeOK, Response
    <2>3. answers' \subseteq [key : Keys, epoch : Nat, response : Nat]
          /\ StoredAnswers' /\ AnswersAgree'
      BY <1>1, <2>1, <2>2, AnswerStep
    <2>4. KeysTypeOK'
      BY <1>1, <1>2, <2>1, <2>2, <2>3 DEF KeysTypeOK
    <2> QED  BY <1>2, <2>3, <2>4 DEF KInv
  <1> QED  BY <1>3, <1>4

LEMMA DeleteStep ==
  ASSUME KInv, PromptDeletes, NEW c \in Calls, DeleteExpired(c) PROVE KInv'
  <1> DEFINE deletes == stored[call[c].key] # NoResponse
  <1>1. KeysTypeOK /\ call[c].response \in Response /\ deletes \in BOOLEAN
    BY DEF KInv, KeysTypeOK, Call
  <1>2. Advances(c, "working", deletes, call[c].response)
    BY <1>1, CallStep DEF DeleteExpired
  <1>3. deletes => call[c].key \in expired
    BY DEF DeleteExpired, PromptDeletes, Live
  <1>4. ~Locked(call[c].key) /\ expired' = expired
    BY DEF DeleteExpired
  <1>5. /\ call'[c].key = call[c].key /\ call'[c].pc = "working"
        /\ \A d \in Calls : d # c => call'[d] = call[d]
        /\ call'[c].deletes => call[c].key \in expired
    BY <1>2, <1>3 DEF Advances
  <1>6. WorkDone' /\ DeletesExpired'
    BY <1>4, <1>5, CallsKept
  <1> QED  BY <1>2, <1>6, QuietStep DEF DeleteExpired, Advances

LEMMA WorkStep == ASSUME KInv, NEW c \in Calls, Work(c) PROVE KInv'
  <1> DEFINE k == call[c].key
             gone == {n \in {k} : call[c].deletes}
  <1>1. KeysTypeOK /\ k \in Keys /\ done + 1 \in Nat /\ call[c].deletes \in BOOLEAN
    BY DEF KInv, KeysTypeOK, Call
  <1>2. Advances(c, "storing", call[c].deletes, done + 1)
    BY <1>1, CallStep DEF Work, Response
  <1>3. /\ stored' = [n \in Keys |-> IF n \in gone THEN NoResponse ELSE stored[n]]
        /\ expired' = expired \ gone /\ done' = done + 1
        /\ UNCHANGED <<epoch, answers, expiries>>
    BY DEF Work
  <1>4. gone \subseteq expired
    BY <1>1 DEF KInv, DeletesExpired, Deletes, Work
  <1>5. WorkDone'  BY <1>1, <1>2 DEF KInv, WorkDone, Advances
  <1>6. DeletesExpired'
    <2>1. \A d \in Calls : Deletes(d)' => Deletes(d) /\ d # c /\ call'[d].key = call[d].key
      BY <1>2 DEF Deletes, Advances
    <2>2. \A d \in Calls : Deletes(d)' => call[d].key \notin gone
      BY <2>1 DEF KInv, DeletesExpired, Deletes, Work
    <2>3. \A d \in Calls : call'[d].pc \in {"new", "deleting"} => ~call'[d].deletes
      BY <1>2 DEF KInv, DeletesExpired, Advances
    <2>4. \A d \in Calls : Deletes(d)' => call'[d].key \in expired'
      BY <1>3, <2>1, <2>2 DEF KInv, DeletesExpired
    <2>5. \A d, e \in Calls :
              Deletes(d)' /\ Deletes(e)' /\ call'[d].key = call'[e].key => d = e
      BY <2>1 DEF KInv, DeletesExpired
    <2> QED  BY <2>3, <2>4, <2>5 DEF DeletesExpired
  <1>7. KeysTypeOK'
    BY <1>1, <1>2, <1>3 DEF KeysTypeOK, Response, Advances
  <1>8. \A a \in answers : a.key \in Keys
    BY <1>1 DEF KeysTypeOK
  <1>9. StoredAnswers'
    BY <1>3, <1>4, <1>8 DEF KInv, StoredAnswers
  <1>10. AnswersAgree'  BY <1>3 DEF KInv, AnswersAgree
  <1> QED  BY <1>5, <1>6, <1>7, <1>9, <1>10 DEF KInv

LEMMA ExpireStep == ASSUME KInv, NEW k \in Keys, Expire(k) PROVE KInv'
  <1>1. KeysTypeOK  BY DEF KInv
  <1>2. KeysTypeOK'
    BY <1>1, KeysAssumption DEF Expire, Live, KeysTypeOK
  <1>3. \A a \in answers : a.key \in Keys /\ a.epoch \in Nat /\ epoch[a.key] \in Nat
    BY <1>1 DEF KeysTypeOK
  <1>4. StoredAnswers'
    BY <1>1, <1>3 DEF KInv, StoredAnswers, Expire, KeysTypeOK
  <1> QED
    BY <1>2, <1>4 DEF KInv, WorkDone, DeletesExpired, Deletes, AnswersAgree, Expire

LEMMA NextKInv == PromptDeletes /\ KInv /\ [KeysNext]_keyVars => KInv'
  <1> SUFFICES ASSUME PromptDeletes, KInv, [KeysNext]_keyVars PROVE KInv'  OBVIOUS
  <1>1. KeysTypeOK  BY DEF KInv
  <1>2. ASSUME NEW c \in Calls, Miss(c) PROVE KInv'
    <2> DEFINE step == IF call[c].key \in expired THEN "deleting" ELSE "working"
    <2>1. call[c].deletes \in BOOLEAN /\ call[c].response \in Response
      BY <1>1 DEF KeysTypeOK, Call
    <2>2. Advances(c, step, call[c].deletes, call[c].response)
      BY <1>1, <1>2, <2>1, CallStep DEF Miss
    <2>3. ~call[c].deletes
      BY <1>2 DEF KInv, DeletesExpired, Miss
    <2>4. WorkDone' /\ DeletesExpired'
      BY <1>2, <2>2, <2>3, CallsKept DEF Miss
    <2> QED  BY <1>2, <2>2, <2>4, QuietStep DEF Miss, Advances
  <1>3. ASSUME NEW c \in Calls, Fail(c) PROVE KInv'
    <2>1. call' \in [Calls -> Call] /\ WorkDone' /\ DeletesExpired'
      BY <1>3, FinishStep DEF Fail
    <2> QED  BY <1>3, <2>1, QuietStep DEF Fail
  <1>4. CASE UNCHANGED keyVars
    BY <1>1, <1>4, QuietStep
       DEF keyVars, KInv, WorkDone, DeletesExpired, Deletes, KeysTypeOK
  <1> QED
    BY <1>2, <1>3, <1>4, ReplayStep, StoreStep, DeleteStep, WorkStep, ExpireStep DEF KeysNext

(* However many calls of one key overlap, fail or die between their work   *)
(* and its answer, those that get a response get the same one until it     *)
(* expires (the primary key of idempotency_keys), if no call stores one    *)
(* between the SELECT and the DELETE of another call's lookup.             *)
THEOREM ReplaysAgree == KeysSpec /\ []PromptDeletes => []AnswersAgree
  <1>1. KeysSpec /\ []PromptDeletes => []KInv
    BY InitKInv, NextKInv, PTL DEF KeysSpec
  <1>2. KInv => AnswersAgree  BY DEF KInv
  <1> QED  BY <1>1, <1>2, PTL

\* Typing alone, which does not depend on when the calls delete.
LEMMA NextTyped == KeysTypeOK /\ WorkDone /\ [KeysNext]_keyVars => (KeysTypeOK /\ WorkDone)'
  <1> SUFFICES ASSUME KeysTypeOK, WorkDone, [KeysNext]_keyVars
               PROVE  (KeysTypeOK /\ WorkDone)'
    OBVIOUS
  <1>1. \A c \in Calls :
            call[c].key \in Keys /\ call[c].response \in Response /\ call[c].deletes \in BOOLEAN
    BY DEF KeysTypeOK, Call
  <1>2. ASSUME NEW c \in Calls,
               Replay(c) \/ Miss(c) \/ DeleteExpired(c) \/ Work(c) \/ Fail(c) \/ StoreResponse(c)
        PROVE  call' \in [Calls -> Call] /\ WorkDone'
    <2>1. PICK step \in {"deleting", "working", "storing", "ended"},
               deletes \in BOOLEAN, response \in Response :
             /\ Advances(c, step, deletes, response)
             /\ step = "storing" => response \in Nat
      <3>1. ASSUME Finish(c) PROVE Advances(c, "ended", call[c].deletes, call[c].response)
        BY <1>1, <3>1, CallStep DEF Finish
      <3>2. CASE Replay(c) \/ Fail(c) \/ StoreResponse(c)
        BY <1>1, <3>1, <3>2 DEF Replay, Fail, StoreResponse
      <3>3. CASE Miss(c)
        <4> DEFINE step == IF call[c].key \in expired THEN "deleting" ELSE "working"
        <4>1. Advances(c, step, call[c].deletes, call[c].response)
          BY <1>1, <3>3, CallStep DEF Miss
        <4> QED  BY <1>1, <4>1
      <3>4. CASE DeleteExpired(c)
        <4> DEFINE deletes == stored[call[c].key] # NoResponse
        <4>1. Advances(c, "working", deletes, call[c].response)
          BY <1>1, <3>4, CallStep DEF DeleteExpired
        <4> QED  BY <1>1, <4>1
      <3>5. CASE Work(c)
        <4>1. done + 1 \in Nat  BY DEF KeysTypeOK
        <4>2. Advances(c, "storing", call[c].deletes, done + 1)
          BY <1>1, <3>5, <4>1, CallStep DEF Work, Response
        <4> QED  BY <1>1, <4>1, <4>2 DEF Response
      <3> QED  BY <1>2, <3>2, <3>3, <3>4, <3>5
    <2> QED  BY <2>1 DEF Advances, WorkDone
  <1>3. ASSUME NEW c \in Calls, Replay(c) \/ Miss(c) \/ DeleteExpired(c) \/ Fail(c)
        PROVE  (KeysTypeOK /\ WorkDone)'
    <2>1. UNCHANGED <<stored, expired, epoch, done, expiries>>
      BY <1>3 DEF Replay, Miss, DeleteExpired, Fail
    <2>2. answers' \subseteq [key : Keys, epoch : Nat, response : Nat]
      BY <1>1, <1>3, KeysAssumption
         DEF Replay, Miss, DeleteExpired, Fail, Answer, Live, KeysTypeOK, Response
    <2> QED  BY <1>2, <1>3, <2>1, <2>2 DEF KeysTypeOK
  <1>4. ASSUME NEW c \in Calls, Work(c) PROVE (KeysTypeOK /\ WorkDone)'
    <2>1. stored' \in [Keys -> Response] /\ done' \in Nat /\ UNCHANGED <<epoch, answers, expiries>>
      BY <1>4 DEF Work, KeysTypeOK, Response
    <2>2. expired' \subseteq {k \in Keys : stored'[k] # NoResponse}
      BY <1>1, <1>4 DEF Work, KeysTypeOK
    <2> QED  BY <1>2, <1>4, <2>1, <2>2 DEF KeysTypeOK
  <1>5. ASSUME NEW c \in Calls, StoreResponse(c) PROVE (KeysTypeOK /\ WorkDone)'
    <2>1. call[c].response \in Nat  BY <1>5 DEF WorkDone, StoreResponse
    <2>2. /\ UNCHANGED <<expired, epoch, done, expiries>>
          /\ stored' \in [Keys -> Response]
          /\ \A k \in Keys : stored[k] # NoResponse => stored'[k] = stored[k]
      BY <1>1, <1>5, <2>1 DEF StoreResponse, KeysTypeOK, Response
    <2>3. answers' \subseteq [key : Keys, epoch : Nat, response : Nat]
      BY <1>1, <1>5, <2>1 DEF StoreResponse, Answer, KeysTypeOK
    <2> QED  BY <1>2, <1>5, <2>2, <2>3 DEF KeysTypeOK
  <1>6. ASSUME NEW k \in Keys, Expire(k) PROVE (KeysTypeOK /\ WorkDone)'
    BY <1>6, KeysAssumption DEF Expire, Live, KeysTypeOK, WorkDone
  <1>7. CASE UNCHANGED keyVars
    BY <1>7 DEF keyVars, KeysTypeOK, WorkDone
  <1> QED  BY <1>3, <1>4, <1>5, <1>6, <1>7 DEF KeysNext

(* Calls, keys and stored responses are well typed.                        *)
THEOREM KeysTypeCorrect == KeysSpec => []KeysTypeOK
  <1>1. KInv => KeysTypeOK /\ WorkDone  BY DEF KInv
  <1> QED  BY InitKInv, NextTyped, <1>1, PTL DEF KeysSpec
=============================================================================
