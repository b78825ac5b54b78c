--------------------------- MODULE AuthSessionProofs ---------------------------
(***************************************************************************)
(* Proofs about AuthSession for every number of accounts, sessions and     *)
(* requests.  The sessions table changes in three ways only: rows are      *)
(* revoked, a login adds a row, a refresh replaces one; the accounts table *)
(* changes by whole rows whose rank is below the administrator's.          *)
(***************************************************************************)
EXTENDS AuthSession, TLAPS

-----------------------------------------------------------------------------
(* The inductive invariant.                                                *)

\* A session in the history of secured accounts is not only unusable, which
\* the clock might undo in a model of it, but revoked.
CutRevoked == \A s \in cut : session[s].revoked

\* The first session of a login is still there: rows are never deleted.
LoginRecorded == \A s \in Recorded : session[s].login \in Recorded

\* Of the sessions of a login all but one are revoked.
OneUnrevoked ==
    \A s, t \in Recorded : s # t /\ session[s].login = session[t].login => session[s].revoked \/ session[t].revoked

\* What a request remembers of its account is below the administrator too.
CopiesBelow == \A c \in Calls : call[c].user \notin Builtin => call[c].row.rank < MaxRank

SessionsInv ==
    /\ session \in [Sessions -> SessionRow \cup {NoSession}]
    /\ cut \subseteq Recorded
    /\ CutRevoked
    /\ LoginRecorded
    /\ OneUnrevoked
    /\ RotationKeepsDeadline

\* A request being served has an account.
CallsBound == \A c \in Calls : call[c].pc # "idle" => call[c].user \in Users

AccountsInv ==
    /\ user \in [Users -> Account]
    /\ call \in [Calls -> CallState]
    /\ CallsBound
    /\ deleted \subseteq Users
    /\ BelowAdmin
    /\ CopiesBelow
    /\ DeletedStaysDeleted

IInv == SessionsInv /\ AccountsInv /\ now \in 0..MaxTime

-----------------------------------------------------------------------------
(* The sessions table.                                                     *)

\* No row looks like the missing one.
LEMMA RowIsNotMissing ==
    ASSUME NEW r \in SessionRow
    PROVE  r # NoSession
BY AuthConstants DEF SessionRow, NoSession

\* Rows may only be revoked, and everything added to the history is revoked.
OnlyRevokes ==
    /\ session' \in [Sessions -> SessionRow \cup {NoSession}]
    /\ \A s \in Sessions :
          /\ session'[s] = NoSession <=> session[s] = NoSession
          /\ session[s] # NoSession =>
                /\ session'[s].login = session[s].login
                /\ session'[s].expires = session[s].expires
                /\ session[s].revoked => session'[s].revoked
    /\ cut \subseteq cut'
    /\ \A s \in cut' \ cut : s \in Recorded /\ session'[s].revoked

\* Revoking rows keeps the invariant of the table.
LEMMA RevokingKeeps ==
    ASSUME SessionsInv, OnlyRevokes
    PROVE  SessionsInv'
<1>1. Recorded' = Recorded
  BY DEF OnlyRevokes, Recorded
<1>2. (cut \subseteq Recorded)' /\ CutRevoked'
  BY <1>1 DEF SessionsInv, OnlyRevokes, CutRevoked, Recorded
<1>3. LoginRecorded'
  BY <1>1 DEF SessionsInv, OnlyRevokes, LoginRecorded, Recorded
<1>4. OneUnrevoked'
  BY <1>1 DEF SessionsInv, OnlyRevokes, OneUnrevoked, Recorded
<1>5. RotationKeepsDeadline'
  BY <1>1 DEF SessionsInv, OnlyRevokes, RotationKeepsDeadline, LoginRecorded, Recorded
<1> QED
  BY <1>2, <1>3, <1>4, <1>5 DEF SessionsInv, OnlyRevokes

\* RevokeUserSessions revokes the rows of the account and touches no other.
LEMMA RevokedTable ==
    ASSUME NEW u, session \in [Sessions -> SessionRow \cup {NoSession}]
    PROVE  /\ Revoked(session, u) \in [Sessions -> SessionRow \cup {NoSession}]
           /\ \A s \in Sessions :
                 /\ Revoked(session, u)[s] = NoSession <=> session[s] = NoSession
                 /\ session[s] # NoSession =>
                       /\ Revoked(session, u)[s].login = session[s].login
                       /\ Revoked(session, u)[s].expires = session[s].expires
                       /\ session[s].revoked => Revoked(session, u)[s].revoked
           /\ \A s \in SessionsOf(u) : Revoked(session, u)[s].revoked
<1> DEFINE R == Revoked(session, u)
<1>1. ASSUME NEW s \in Sessions, session[s] # NoSession, session[s].user = u
      PROVE  /\ R[s] = [session[s] EXCEPT !.revoked = TRUE]
             /\ R[s] \in SessionRow
             /\ R[s].login = session[s].login /\ R[s].expires = session[s].expires /\ R[s].revoked
  <2>1. session[s] \in SessionRow /\ R[s] = [session[s] EXCEPT !.revoked = TRUE]
    BY <1>1 DEF Revoked
  <2> QED
    BY <2>1 DEF SessionRow
<1>2. ASSUME NEW s \in Sessions, ~(session[s] # NoSession /\ session[s].user = u)
      PROVE  R[s] = session[s]
  BY <1>2 DEF Revoked
<1>3. R \in [Sessions -> SessionRow \cup {NoSession}]
  <2>1. R = [s \in Sessions |-> R[s]]
    BY DEF Revoked
  <2>2. \A s \in Sessions : R[s] \in SessionRow \cup {NoSession}
    BY <1>1, <1>2
  <2> QED
    BY <2>1, <2>2
<1>4. \A s \in Sessions : R[s] = NoSession <=> session[s] = NoSession
  BY <1>1, <1>2, RowIsNotMissing
<1>5. \A s \in SessionsOf(u) : R[s].revoked
  BY <1>1 DEF SessionsOf, Recorded
<1> QED
  BY <1>1, <1>2, <1>3, <1>4, <1>5

\* A login adds a row that starts a login of its own.
LEMMA OpenSessionKeeps ==
    ASSUME SessionsInv, AccountsInv, now \in 0..MaxTime,
           NEW c \in Calls, NEW s \in Sessions, NEW remember \in BOOLEAN, OpenSession(c, s, remember),
           call[c].user \in Users
    PROVE  SessionsInv'
<1> DEFINE new == [user |-> call[c].user, revoked |-> FALSE, login |-> s,
                   expires |-> now + (IF remember THEN 2 * TTL ELSE TTL)]
<1>1. new \in SessionRow
  <2>1. now + (IF remember THEN 2 * TTL ELSE TTL) \in Nat
    BY AuthConstants
  <2> QED
    BY <2>1 DEF SessionRow
<1>2. new # NoSession
  BY <1>1, RowIsNotMissing
<1>3. /\ s \notin Recorded
      /\ session' = [session EXCEPT ![s] = new]
      /\ cut' = cut
  BY DEF OpenSession
<1>4. session' \in [Sessions -> SessionRow \cup {NoSession}]
  BY <1>1, <1>3 DEF SessionsInv
<1>5. session'[s] = new /\ \A t \in Sessions \ {s} : session'[t] = session[t]
  BY <1>3 DEF SessionsInv
<1>6. Recorded' = Recorded \cup {s}
  BY <1>2, <1>5 DEF Recorded
<1>7. new.login = s /\ new.expires = new.expires /\ new.revoked = FALSE
  OBVIOUS
<1>8. (cut \subseteq Recorded)' /\ CutRevoked'
  BY <1>3, <1>5, <1>6 DEF SessionsInv, CutRevoked, Recorded
<1>9. LoginRecorded'
  BY <1>5, <1>6, <1>7 DEF SessionsInv, LoginRecorded, Recorded
<1>10. \A t \in Recorded : session[t].login # s
  BY <1>3 DEF SessionsInv, LoginRecorded
<1>11. OneUnrevoked'
  BY <1>3, <1>5, <1>6, <1>7, <1>10 DEF SessionsInv, OneUnrevoked, Recorded
<1>12. RotationKeepsDeadline'
  BY <1>3, <1>5, <1>6, <1>7, <1>10 DEF SessionsInv, RotationKeepsDeadline, LoginRecorded, Recorded
<1> QED
  BY <1>4, <1>8, <1>9, <1>11, <1>12 DEF SessionsInv

\* A refresh revokes the row it is given and adds one of the same login with the
\* same expiry; the row it is given was not revoked, so no history inherits.
LEMMA RefreshKeeps ==
    ASSUME SessionsInv, NEW s \in Sessions, NEW t \in Sessions, Refresh(s, t)
    PROVE  SessionsInv'
<1> DEFINE old == [session[s] EXCEPT !.revoked = TRUE]
<1>1. /\ s \in Recorded /\ ~session[s].revoked
      /\ t \notin Recorded
      /\ session' = [session EXCEPT ![s] = old, ![t] = session[s]]
  BY DEF Refresh, Usable, Rotated
<1>2. s # t /\ session[s] \in SessionRow
  BY <1>1 DEF SessionsInv, Recorded
<1>3. /\ old \in SessionRow
      /\ old.login = session[s].login /\ old.expires = session[s].expires /\ old.revoked
  BY <1>2 DEF SessionRow
<1>4. old # NoSession
  BY <1>3, RowIsNotMissing
<1>5. s \notin cut /\ cut' = cut
  BY <1>1 DEF SessionsInv, CutRevoked, Refresh
<1>6. session' \in [Sessions -> SessionRow \cup {NoSession}]
  BY <1>1, <1>2, <1>3 DEF SessionsInv
<1>7. /\ session'[s] = old /\ session'[t] = session[s]
      /\ \A k \in Sessions \ {s, t} : session'[k] = session[k]
  BY <1>1, <1>2 DEF SessionsInv
<1>8. Recorded' = Recorded \cup {t}
  BY <1>1, <1>2, <1>4, <1>7, RowIsNotMissing DEF Recorded
<1>9. (cut \subseteq Recorded)' /\ CutRevoked'
  BY <1>1, <1>5, <1>7, <1>8 DEF SessionsInv, CutRevoked, Recorded
<1>10. \A k \in Recorded : session'[k].login = session[k].login /\ session'[k].expires = session[k].expires
  BY <1>1, <1>3, <1>7 DEF Recorded
<1>11. session[s].login \in Recorded
  BY <1>1 DEF SessionsInv, LoginRecorded
<1>12. LoginRecorded'
  BY <1>7, <1>8, <1>10, <1>11 DEF SessionsInv, LoginRecorded
<1>13. \A k \in Recorded : k # s /\ session[k].login = session[s].login => session'[k].revoked
  <2>1. SUFFICES ASSUME NEW k \in Recorded, k # s, session[k].login = session[s].login
                 PROVE  session'[k].revoked
    OBVIOUS
  <2>2. session[k].revoked
    BY <1>1, <2>1 DEF SessionsInv, OneUnrevoked
  <2>3. k # t /\ k \in Sessions
    BY <1>1 DEF Recorded
  <2> QED
    BY <1>7, <2>1, <2>2, <2>3
<1>14. \A k \in Recorded : session[k].revoked => session'[k].revoked
  BY <1>1, <1>3, <1>7 DEF Recorded
<1>15. session'[s].revoked
  BY <1>3, <1>7
<1>16. session'[t].login = session[s].login
  BY <1>7
<1>17. ASSUME NEW k \in Recorded, session'[k].login = session'[t].login
       PROVE  session'[k].revoked
  <2>1. session[k].login = session[s].login
    BY <1>10, <1>16, <1>17
  <2>2. CASE k = s
    BY <1>15, <2>2
  <2>3. CASE k # s
    BY <1>13, <2>1, <2>3
  <2> QED
    BY <2>2, <2>3
<1>18. OneUnrevoked'
  <2>1. SUFFICES ASSUME NEW j \in Recorded', NEW k \in Recorded', j # k, session'[j].login = session'[k].login
                 PROVE  session'[j].revoked \/ session'[k].revoked
    BY DEF OneUnrevoked
  <2>2. CASE j \in Recorded /\ k \in Recorded
    <3>1. session[j].login = session[k].login
      BY <1>10, <2>1, <2>2
    <3>2. session[j].revoked \/ session[k].revoked
      BY <2>1, <2>2, <3>1 DEF SessionsInv, OneUnrevoked
    <3> QED
      BY <1>14, <2>2, <3>2
  <2>3. CASE j = t
    <3>1. k \in Recorded
      BY <1>8, <2>1, <2>3
    <3>2. session'[k].login = session'[t].login
      BY <2>1, <2>3
    <3> QED
      BY <1>17, <3>1, <3>2
  <2>4. CASE k = t
    <3>1. j \in Recorded
      BY <1>8, <2>1, <2>4
    <3>2. session'[j].login = session'[t].login
      BY <2>1, <2>4
    <3> QED
      BY <1>17, <3>1, <3>2
  <2> QED
    BY <1>8, <2>2, <2>3, <2>4
<1>19. RotationKeepsDeadline'
  <2>1. SUFFICES ASSUME NEW k \in Recorded'
                 PROVE  session'[k].expires = session'[session'[k].login].expires
    BY DEF RotationKeepsDeadline
  <2>2. CASE k \in Recorded
    BY <1>10, <2>2 DEF SessionsInv, RotationKeepsDeadline, LoginRecorded
  <2>3. CASE k = t
    BY <1>1, <1>7, <1>10, <1>11, <2>3 DEF SessionsInv, RotationKeepsDeadline
  <2> QED
    BY <1>8, <2>2, <2>3
<1> QED
  BY <1>6, <1>9, <1>12, <1>18, <1>19 DEF SessionsInv

\* Revoking the sessions of an account and remembering them.
LEMMA AccountSecured ==
    ASSUME SessionsInv, NEW u, session' = Revoked(session, u), cut' \in {cut, cut \cup SessionsOf(u)}
    PROVE  SessionsInv'
<1>1. OnlyRevokes
  BY RevokedTable DEF SessionsInv, OnlyRevokes, SessionsOf
<1> QED
  BY <1>1, RevokingKeeps

\* Nothing happens to the sessions.
LEMMA SessionsUntouched ==
    ASSUME SessionsInv, session' = session, cut' = cut
    PROVE  SessionsInv'
<1>1. OnlyRevokes
  BY DEF SessionsInv, OnlyRevokes
<1> QED
  BY <1>1, RevokingKeeps

\* RevokeSession revokes one row.
LEMMA RevokeOneKeeps ==
    ASSUME SessionsInv, NEW s \in Sessions, RevokeOne(s)
    PROVE  SessionsInv'
<1> DEFINE old == [session[s] EXCEPT !.revoked = TRUE]
<1>1. session[s] \in SessionRow /\ session' = [session EXCEPT ![s] = old] /\ cut' = cut \cup {s} /\ s \in Recorded
  BY DEF SessionsInv, RevokeOne, Recorded
<1>2. /\ old \in SessionRow
      /\ old.login = session[s].login /\ old.expires = session[s].expires /\ old.revoked
  BY <1>1 DEF SessionRow
<1>3. old # NoSession /\ session[s] # NoSession
  BY <1>1, <1>2, RowIsNotMissing
<1>4. session'[s] = old /\ \A t \in Sessions \ {s} : session'[t] = session[t]
  BY <1>1 DEF SessionsInv
<1>5. session' \in [Sessions -> SessionRow \cup {NoSession}]
  BY <1>1, <1>2 DEF SessionsInv
<1>6. OnlyRevokes
  BY <1>1, <1>2, <1>3, <1>4, <1>5 DEF OnlyRevokes
<1> QED
  BY <1>6, RevokingKeeps

-----------------------------------------------------------------------------
(* The accounts table.                                                     *)

\* The request slot that is not in use.
LEMMA IdleCallType == IdleCall \in CallState /\ IdleCall.pc = "idle" /\ IdleCall.row.rank = 0
BY AuthConstants DEF IdleCall, CallState, NoAccount, Account

\* A request that ends leaves nothing behind.
LEMMA EndedCalls ==
    ASSUME AccountsInv, NEW c \in Calls, Ends(c)
    PROVE  call' \in [Calls -> CallState] /\ CallsBound' /\ CopiesBelow'
<1>1. call' \in [Calls -> CallState]
  BY IdleCallType DEF AccountsInv, Ends
<1>2. call'[c] = IdleCall /\ \A d \in Calls \ {c} : call'[d] = call[d]
  BY DEF AccountsInv, Ends
<1>3. CallsBound'
  BY <1>2, IdleCallType DEF AccountsInv, CallsBound
<1>4. CopiesBelow'
  BY <1>2, IdleCallType, AuthConstants DEF AccountsInv, CopiesBelow
<1> QED
  BY <1>1, <1>3, <1>4

\* A request that reads an account takes a copy that is below the administrator.
LEMMA CopiedCalls ==
    ASSUME AccountsInv, NEW c \in Calls, NEW u \in Users, NEW pc \in {"caller", "verified"},
           call' = [call EXCEPT ![c] = [pc |-> pc, user |-> u, row |-> user[u]]],
           user' = user, deleted' = deleted
    PROVE  AccountsInv'
<1> DEFINE new == [pc |-> pc, user |-> u, row |-> user[u]]
<1>1. new \in CallState /\ new.user = u /\ new.row = user[u]
  BY DEF AccountsInv, CallState
<1>2. call' \in [Calls -> CallState]
  BY <1>1 DEF AccountsInv
<1>3. call'[c] = new /\ \A d \in Calls \ {c} : call'[d] = call[d]
  BY DEF AccountsInv
<1>4. CallsBound' /\ CopiesBelow'
  BY <1>1, <1>3 DEF AccountsInv, CallsBound, CopiesBelow, BelowAdmin
<1>5. BelowAdmin' /\ DeletedStaysDeleted'
  BY DEF AccountsInv, BelowAdmin, DeletedStaysDeleted
<1> QED
  BY <1>2, <1>4, <1>5 DEF AccountsInv

\* The end of a request that writes one account: the row is below the
\* administrator, and that of a deleted account only if it is taken from the history.
LEMMA RowWritten ==
    ASSUME AccountsInv, NEW c \in Calls, Ends(c),
           NEW u \in Users, NEW new \in Account, user' = [user EXCEPT ![u] = new],
           u \notin Builtin => new.rank < MaxRank,
           deleted' \subseteq Users,
           deleted' \ {u} \subseteq deleted,
           u \in deleted' => new.status = "deleted"
    PROVE  AccountsInv'
<1>1. user' \in [Users -> Account]
  BY DEF AccountsInv
<1>2. user'[u] = new /\ \A v \in Users \ {u} : user'[v] = user[v]
  BY DEF AccountsInv
<1>3. BelowAdmin'
  BY <1>2 DEF AccountsInv, BelowAdmin
<1>4. DeletedStaysDeleted'
  BY <1>2 DEF AccountsInv, DeletedStaysDeleted
<1> QED
  BY <1>1, <1>3, <1>4, EndedCalls DEF AccountsInv

\* A caller's rank is at most the administrator's, so what it may hand out is below.
LEMMA GrantableBelow ==
    ASSUME AccountsInv, NEW c \in Calls, NEW rank, NEW grants, Grantable(c, rank, grants)
    PROVE  rank \in 0..MaxRank /\ rank < MaxRank
<1>1. call[c].row.rank \in 0..MaxRank
  BY DEF AccountsInv, CallState, Account
<1> QED
  BY <1>1, AuthConstants DEF Grantable

-----------------------------------------------------------------------------
(* The steps.                                                              *)

\* Login: a copy is taken, a session opened, the copy written back.
LEMMA LoginStepKeeps ==
    ASSUME IInv, NEW c \in Calls, LoginStep(c)
    PROVE  IInv'
<1> USE DEF IInv
<1>1. CASE \E u \in Clients, p \in Passwords : Verify(c, u, p)
  <2>1. PICK u \in Clients : \E p \in Passwords : Verify(c, u, p)
    BY <1>1
  <2>2. u \in Users
    BY AuthConstants
  <2>3. AccountsInv'
    BY <2>1, <2>2, CopiedCalls DEF Verify
  <2> QED
    BY <2>1, <2>3, SessionsUntouched DEF Verify
<1>2. CASE \E s \in Sessions, remember \in BOOLEAN : OpenSession(c, s, remember)
  <2>1. PICK s \in Sessions, remember \in BOOLEAN : OpenSession(c, s, remember)
    BY <1>2
  <2>2. call[c].user \in Users
    BY <2>1 DEF AccountsInv, CallsBound, OpenSession
  <2>3. SessionsInv'
    BY <2>1, <2>2, OpenSessionKeeps
  <2>4. call' = [call EXCEPT ![c].pc = "opened"] /\ user' = user /\ deleted' = deleted /\ now' = now
    BY <2>1 DEF OpenSession
  <2>5. call' \in [Calls -> CallState]
    BY <2>4 DEF AccountsInv, CallState
  <2>6. \A d \in Calls : call'[d].user = call[d].user /\ call'[d].row = call[d].row /\ (d # c => call'[d] = call[d])
    BY <2>4 DEF AccountsInv, CallState
  <2>7. CallsBound' /\ CopiesBelow'
    BY <2>2, <2>6 DEF AccountsInv, CallsBound, CopiesBelow
  <2>8. AccountsInv'
    BY <2>4, <2>5, <2>7 DEF AccountsInv, BelowAdmin, DeletedStaysDeleted
  <2> QED
    BY <2>3, <2>4, <2>8
<1>3. CASE WriteBack(c)
  <2> DEFINE u == call[c].user
  <2>1. u \in Users /\ call[c].row \in Account
    BY <1>3 DEF AccountsInv, CallsBound, CallState, WriteBack
  <2>2. u \notin Builtin => call[c].row.rank < MaxRank
    BY DEF AccountsInv, CopiesBelow
  <2>3. AccountsInv'
    BY <1>3, <2>1, <2>2, RowWritten DEF WriteBack, AccountsInv
  <2> QED
    BY <1>3, <2>3, SessionsUntouched DEF WriteBack
<1> QED
  BY <1>1, <1>2, <1>3 DEF LoginStep

\* ChangePassword writes the caller's own account.
LEMMA ChangePasswordKeeps ==
    ASSUME IInv, NEW c \in Calls, NEW p \in Passwords, NEW q \in Passwords, ChangePassword(c, p, q)
    PROVE  IInv'
<1> DEFINE u   == call[c].user
           new == [user[u] EXCEPT !.password = q]
<1>1. u \in Users /\ user[u] \in Account
  BY DEF IInv, AccountsInv, CallsBound, ChangePassword
<1>2. new \in Account /\ new.rank = user[u].rank
  BY <1>1 DEF Account
<1>3. u \notin deleted
  BY DEF IInv, AccountsInv, DeletedStaysDeleted, ChangePassword, Found
<1>4. user' = [user EXCEPT ![u] = new]
  BY DEF ChangePassword
<1>5. Ends(c) /\ deleted' = deleted
  BY DEF ChangePassword
<1>6. u \notin Builtin => new.rank < MaxRank
  BY <1>1, <1>2 DEF IInv, AccountsInv, BelowAdmin
<1>7. AccountsInv'
  BY <1>1, <1>2, <1>3, <1>4, <1>5, <1>6, RowWritten DEF IInv, AccountsInv
<1>8. SessionsInv'
  BY AccountSecured DEF IInv, ChangePassword
<1> QED
  BY <1>7, <1>8 DEF IInv, ChangePassword

\* CreateUser writes a row for a name that has none.
LEMMA CreateUserKeeps ==
    ASSUME IInv, NEW c \in Calls, NEW u \in Users, NEW status \in {"active", "disabled"},
           NEW rank \in 1..MaxRank, NEW grants \in SUBSET Grants, NEW p \in Passwords,
           CreateUser(c, u, status, rank, grants, p)
    PROVE  IInv'
<1> DEFINE new == [status |-> status, rank |-> rank, grants |-> grants, password |-> p]
<1>1. rank \in 0..MaxRank /\ rank < MaxRank
  BY GrantableBelow DEF IInv, CreateUser
<1>2. new \in Account /\ new.rank = rank
  BY <1>1 DEF Account
<1>3. u \notin deleted
  BY DEF IInv, AccountsInv, DeletedStaysDeleted, CreateUser
<1>4. user' = [user EXCEPT ![u] = new] /\ Ends(c) /\ deleted' = deleted
  BY DEF CreateUser
<1>5. AccountsInv'
  BY <1>1, <1>2, <1>3, <1>4, RowWritten DEF IInv, AccountsInv
<1>6. SessionsInv'
  BY SessionsUntouched DEF IInv, CreateUser
<1> QED
  BY <1>5, <1>6 DEF IInv, CreateUser

\* UpdateUser writes a row whose rank is the old one or one the caller may give.
LEMMA UpdateUserKeeps ==
    ASSUME IInv, NEW c \in Calls, NEW u \in Users, NEW status \in {"active", "disabled"},
           NEW rank \in 1..MaxRank, NEW grants \in SUBSET Grants, NEW p \in Passwords, NEW named \in BOOLEAN,
           UpdateUser(c, u, status, rank, grants, p, named)
    PROVE  IInv'
<1> DEFINE new == [status |-> status, rank |-> rank, grants |-> grants, password |-> p]
<1>1. new \in Account /\ new.rank = rank
  BY AuthConstants DEF Account
<1>2. u \notin deleted
  BY DEF IInv, AccountsInv, DeletedStaysDeleted, UpdateUser, Found
<1>3. user' = [user EXCEPT ![u] = new] /\ Ends(c) /\ deleted' = deleted /\ now' = now
  BY DEF UpdateUser
<1>4. rank < MaxRank
  <2>1. CASE rank = user[u].rank
    BY <2>1 DEF IInv, AccountsInv, BelowAdmin, UpdateUser, CanManageUser
  <2>2. CASE Grantable(c, rank, {})
    BY <2>2, GrantableBelow DEF IInv
  <2> QED
    BY <2>1, <2>2 DEF UpdateUser, Granted
<1>5. AccountsInv'
  BY <1>1, <1>2, <1>3, <1>4, RowWritten DEF IInv, AccountsInv
<1>6. SessionsInv'
  <2>1. CASE Secures(u, status, p, named)
    <3>1. session' = Revoked(session, u) /\ cut' \in {cut, cut \cup SessionsOf(u)}
      BY <2>1 DEF UpdateUser
    <3> QED
      BY <3>1, AccountSecured DEF IInv
  <2>2. CASE ~Secures(u, status, p, named)
    <3>1. session' = session /\ cut' = cut
      BY <2>2 DEF UpdateUser, Secures
    <3> QED
      BY <3>1, SessionsUntouched DEF IInv
  <2> QED
    BY <2>1, <2>2
<1> QED
  BY <1>3, <1>5, <1>6 DEF IInv

\* DeleteUser keeps the row, and everything in it but the status.
LEMMA DeleteUserKeeps ==
    ASSUME IInv, NEW c \in Calls, NEW u \in Users, DeleteUser(c, u)
    PROVE  IInv'
<1> DEFINE new == [user[u] EXCEPT !.status = "deleted"]
<1>1. user[u] \in Account
  BY DEF IInv, AccountsInv
<1>2. new \in Account /\ new.rank = user[u].rank /\ new.status = "deleted"
  BY <1>1 DEF Account
<1>3. user' = [user EXCEPT ![u] = new] /\ Ends(c) /\ deleted' = deleted \cup {u}
  BY DEF DeleteUser
<1>4. AccountsInv'
  BY <1>1, <1>2, <1>3, RowWritten DEF IInv, AccountsInv, BelowAdmin
<1>5. SessionsInv'
  BY AccountSecured DEF IInv, DeleteUser
<1> QED
  BY <1>4, <1>5 DEF IInv, DeleteUser

\* The requests of an authenticated caller.
LEMMA CallerStepKeeps ==
    ASSUME IInv, NEW c \in Calls, CallerStep(c)
    PROVE  IInv'
<1>1. CASE \E u \in Users : Authenticate(c, u)
  <2>1. PICK u \in Users : Authenticate(c, u)
    BY <1>1
  <2>2. AccountsInv'
    BY <2>1, CopiedCalls DEF Authenticate, IInv
  <2> QED
    BY <2>1, <2>2, SessionsUntouched DEF Authenticate, IInv
<1>2. CASE LogoutAll(c)
  <2>1. AccountsInv'
    BY <1>2, EndedCalls DEF LogoutAll, IInv, AccountsInv, BelowAdmin, DeletedStaysDeleted
  <2>2. SessionsInv'
    BY <1>2, AccountSecured DEF LogoutAll, IInv
  <2> QED
    BY <1>2, <2>1, <2>2 DEF LogoutAll, IInv
<1>3. CASE \E p, q \in Passwords : ChangePassword(c, p, q)
  BY <1>3, ChangePasswordKeeps
<1>4. CASE \E u \in Users, rank \in 1..MaxRank, grants \in SUBSET Grants, p \in Passwords :
              \/ \E status \in {"active", "disabled"} : CreateUser(c, u, status, rank, grants, p)
              \/ \E status \in {"active", "disabled"}, named \in BOOLEAN :
                    UpdateUser(c, u, status, rank, grants, p, named)
  BY <1>4, CreateUserKeeps, UpdateUserKeeps
<1>5. CASE \E u \in Users : DeleteUser(c, u)
  BY <1>5, DeleteUserKeeps
<1> QED
  BY <1>1, <1>2, <1>3, <1>4, <1>5 DEF CallerStep

-----------------------------------------------------------------------------
(* The theorems.                                                           *)

\* A freshly seeded system satisfies the invariant.
LEMMA InitInv == Init => IInv
<1> SUFFICES ASSUME Init PROVE IInv
  OBVIOUS
<1>1. Recorded = {}
  BY DEF Init, Recorded
<1>2. SessionsInv
  BY <1>1 DEF Init, SessionsInv, CutRevoked, LoginRecorded, OneUnrevoked, RotationKeepsDeadline
<1>3. NoAccount \in Account /\ NoAccount.rank = 0
  BY AuthConstants DEF NoAccount, Account
<1>4. \A p \in Passwords : [status |-> "active", rank |-> MaxRank, grants |-> Grants, password |-> p] \in Account
  BY AuthConstants DEF Account
<1>5. user \in [Users -> Account] /\ BelowAdmin
  BY <1>3, <1>4, AuthConstants DEF Init, BelowAdmin
<1>6. call \in [Calls -> CallState] /\ CallsBound /\ CopiesBelow
  BY IdleCallType, AuthConstants DEF Init, CallsBound, CopiesBelow
<1>7. deleted \subseteq Users /\ DeletedStaysDeleted /\ now \in 0..MaxTime
  BY AuthConstants DEF Init, DeletedStaysDeleted
<1> QED
  BY <1>2, <1>5, <1>6, <1>7 DEF IInv, AccountsInv

\* Every step, and every stuttering step, keeps it.
LEMMA StepInv == IInv /\ [Next]_vars => IInv'
<1> SUFFICES ASSUME IInv, [Next]_vars PROVE IInv'
  OBVIOUS
<1>1. ASSUME NEW c \in Calls, LoginStep(c) PROVE IInv'
  BY <1>1, LoginStepKeeps
<1>2. ASSUME NEW c \in Calls, CallerStep(c) PROVE IInv'
  BY <1>2, CallerStepKeeps
<1>3. ASSUME NEW c \in Calls, GiveUp(c) PROVE IInv'
  <2>1. AccountsInv'
    BY <1>3, EndedCalls DEF GiveUp, IInv, AccountsInv, BelowAdmin, DeletedStaysDeleted
  <2> QED
    BY <1>3, <2>1, SessionsUntouched DEF GiveUp, IInv
<1>4. ASSUME user' = user, call' = call, deleted' = deleted PROVE AccountsInv'
  BY <1>4 DEF IInv, AccountsInv, BelowAdmin, DeletedStaysDeleted, CallsBound, CopiesBelow
<1>5. ASSUME NEW s \in Sessions, NEW t \in Sessions, Refresh(s, t) PROVE IInv'
  BY <1>4, <1>5, RefreshKeeps DEF Refresh, IInv
<1>6. ASSUME NEW s \in Sessions, RevokeOne(s) PROVE IInv'
  BY <1>4, <1>6, RevokeOneKeeps DEF RevokeOne, IInv
<1>7. ASSUME Tick PROVE IInv'
  <2>1. now' \in 0..MaxTime
    BY <1>7, AuthConstants DEF Tick, IInv
  <2> QED
    BY <1>4, <1>7, <2>1, SessionsUntouched DEF Tick, IInv
<1>8. ASSUME UNCHANGED vars PROVE IInv'
  BY <1>4, <1>8, SessionsUntouched DEF vars, IInv
<1> QED
  BY <1>1, <1>2, <1>3, <1>5, <1>6, <1>7, <1>8 DEF Next

\* The invariant holds in every reachable state.
THEOREM AuthInvariance == Spec => []IInv
<1> QED
  BY InitInv, StepInv, PTL DEF Spec

\* Type correctness for every instance.
THEOREM AuthTypes == Spec => []TypeOK
<1>1. IInv => TypeOK
  BY DEF IInv, SessionsInv, AccountsInv, TypeOK
<1> QED
  BY <1>1, AuthInvariance, PTL

\* A new password, disabling or deleting an account, or logging out, everywhere or
\* with a token, ends the sessions there were, and those rotated out of them, for good.
THEOREM RevocationIsFinal == Spec => []RevocationHolds
<1>1. IInv => RevocationHolds
  BY DEF IInv, SessionsInv, CutRevoked, RevocationHolds, Usable
<1> QED
  BY <1>1, AuthInvariance, PTL

\* However many clients refresh, a login has one usable refresh token at most.
THEOREM LoginsDoNotMultiply == Spec => []OneTokenPerLogin
<1>1. IInv => OneTokenPerLogin
  BY DEF IInv, SessionsInv, OneUnrevoked, OneTokenPerLogin, Usable
<1> QED
  BY <1>1, AuthInvariance, PTL

\* No rotation extends a login past the expiry it was opened with.
THEOREM RotationNeverExtends == Spec => []RotationKeepsDeadline
<1>1. IInv => RotationKeepsDeadline
  BY DEF IInv, SessionsInv
<1> QED
  BY <1>1, AuthInvariance, PTL

\* Nobody reaches the administrator's rank, whoever manages whom on whatever
\* authority they had when their request came in.
THEOREM AdminStaysOnTop == Spec => []BelowAdmin
<1>1. IInv => BelowAdmin
  BY DEF IInv, AccountsInv
<1> QED
  BY <1>1, AuthInvariance, PTL

\* A deleted account stays deleted but for a login that had read it before.
THEOREM DeletionIsFinal == Spec => []DeletedStaysDeleted
<1>1. IInv => DeletedStaysDeleted
  BY DEF IInv, AccountsInv
<1> QED
  BY <1>1, AuthInvariance, PTL
=============================================================================
