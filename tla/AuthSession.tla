------------------------------ MODULE AuthSession ------------------------------
(***************************************************************************)
(* Accounts and their refresh sessions (internal/biz/auth.go,              *)
(* internal/biz/user.go, internal/data/user.go): login, token rotation,    *)
(* logout, password change and the management of other accounts.           *)
(*                                                                         *)
(* A handler works for the Caller that Authenticate built when the request *)
(* came in, so its authority is a copy that may be stale when its          *)
(* transaction runs.  Login is three steps: it reads the account, records  *)
(* the session and, in a transaction of its own, writes the whole account  *)
(* row back to note the login time.  Profile fields (UpdateSelf) and       *)
(* the last login time are left out; a role is one more thing to grant.    *)
(***************************************************************************)
EXTENDS Integers, FiniteSets

CONSTANTS
    Users,      \* account names
    Builtin,    \* the accounts the deployment is configured with
    Sessions,   \* rows of refresh_sessions: none is ever deleted
    Calls,      \* requests being served
    None,
    Passwords,
    Clients,    \* the accounts somebody tries to log in to
    Grants,     \* permission bits, and the role "admin"
    MaxRank,    \* biz.RankAdmin, the rank of the built-in administrator
    TTL,        \* auth.refresh_token_ttl
    MaxTime     \* the clock stops there

UserManage == "user_manage"
RoleAdmin  == "role_admin"

ASSUME AuthConstants ==
    /\ Builtin \subseteq Users
    /\ Clients \subseteq Users
    /\ None \notin Users \cup Sessions
    /\ UserManage \in Grants
    /\ MaxRank \in Nat \ {0}
    /\ TTL \in Nat \ {0}
    /\ MaxTime \in Nat

VARIABLES
    user,     \* the users table
    session,  \* the refresh_sessions table
    call,     \* requests between their steps
    now,      \* the clock
    cut,      \* history: sessions that were ended, alone or with their account, and what was rotated out of them
    deleted   \* history: deleted accounts no login has written back since

vars == <<user, session, call, now, cut, deleted>>

-----------------------------------------------------------------------------
Account == [status : {"absent", "active", "disabled", "deleted"}, rank : 0..MaxRank,
            grants : SUBSET Grants, password : Passwords \cup {None}]
NoAccount == [status |-> "absent", rank |-> 0, grants |-> {}, password |-> None]

\* login: the session the login itself opened, the first of the rotated ones.
SessionRow == [user : Users, expires : Nat, revoked : BOOLEAN, login : Sessions]
NoSession  == [user |-> None]

\* row: the account as read when the request came in.
CallState == [pc : {"idle", "caller", "verified", "opened"}, user : Users \cup {None}, row : Account]
IdleCall  == [pc |-> "idle", user |-> None, row |-> NoAccount]

\* The seeded administrator; everybody else is created.
Init ==
    /\ \E p \in Passwords :
          user = [u \in Users |-> IF u \in Builtin
                    THEN [status |-> "active", rank |-> MaxRank, grants |-> Grants, password |-> p]
                    ELSE NoAccount]
    /\ session = [s \in Sessions |-> NoSession]
    /\ call = [c \in Calls |-> IdleCall]
    /\ now = 0
    /\ cut = {}
    /\ deleted = {}

Recorded == { s \in Sessions : session[s] # NoSession }

\* Session.Active.
Usable(s) == s \in Recorded /\ ~session[s].revoked /\ now < session[s].expires

\* Mutant: deleted rows are found too.
Found_anyRow(u) == user[u].status # "absent"

\* FindUserByID: a deleted row is reported as missing.
Found(u) == user[u].status \in {"active", "disabled"}

SessionsOf(u) == { s \in Recorded : session[s].user = u }

\* RevokeUserSessions on a sessions table.
Revoked(table, u) ==
    [s \in Sessions |-> IF table[s] # NoSession /\ table[s].user = u
                        THEN [table[s] EXCEPT !.revoked = TRUE] ELSE table[s]]

Ends(c) == call' = [call EXCEPT ![c] = IdleCall]

-----------------------------------------------------------------------------
(* Login.                                                                  *)

\* Login up to the checks of the account it read.
Verify(c, u, plain) ==
    /\ call[c].pc = "idle"
    /\ user[u].password = plain
    /\ user[u].status = "active"
    /\ call' = [call EXCEPT ![c] = [pc |-> "verified", user |-> u, row |-> user[u]]]
    /\ UNCHANGED <<user, session, now, cut, deleted>>

\* openSession of a login: TTL is doubled for a client to be remembered.
OpenSession(c, s, remember) ==
    /\ call[c].pc = "verified"
    /\ s \notin Recorded
    /\ session' = [session EXCEPT ![s] =
                     [user |-> call[c].user, revoked |-> FALSE, login |-> s,
                      expires |-> now + (IF remember THEN 2 * TTL ELSE TTL)]]
    /\ call' = [call EXCEPT ![c].pc = "opened"]
    /\ UNCHANGED <<user, now, cut, deleted>>

\* The end of Login: UpdateUser with the row read at its start.
WriteBack(c) ==
    /\ call[c].pc = "opened"
    /\ user' = [user EXCEPT ![call[c].user] = call[c].row]
    /\ deleted' = deleted \ {call[c].user}
    /\ Ends(c)
    /\ UNCHANGED <<session, now, cut>>

-----------------------------------------------------------------------------
(* Sessions.                                                               *)

\* Mutant: the presented token is not revoked.
Rotated_keepsOld(s, t) ==
    [session EXCEPT ![t] = [session[s] EXCEPT !.revoked = FALSE]]

\* Mutant: time.Since instead of time.Until.
Rotated_since(s, t) ==
    [session EXCEPT ![s].revoked = TRUE, ![t] = [session[s] EXCEPT !.expires = now + (now - @)]]

\* Mutant: the new session lives for the full TTL again.
Rotated_fullTTL(s, t) ==
    [session EXCEPT ![s].revoked = TRUE, ![t] = [session[s] EXCEPT !.expires = now + TTL]]

\* Refresh replaces session s by t, which inherits the rest of its lifetime.
Rotated(s, t) ==
    [session EXCEPT ![s].revoked = TRUE, ![t] = session[s]]

\* Refresh, one transaction.
Refresh(s, t) ==
    /\ Usable(s)
    /\ user[session[s].user].status = "active"
    /\ t \notin Recorded
    /\ session' = Rotated(s, t)
    /\ cut' = IF s \in cut THEN cut \cup {t} ELSE cut
    /\ UNCHANGED <<user, call, now, deleted>>

\* Logout with a refresh token and RevokeSession: what they look up before the
\* transaction, the user of a session, never changes.  A Refresh in between has
\* replaced the session by one that stays usable.
RevokeOne(s) ==
    /\ s \in Recorded
    /\ session' = [session EXCEPT ![s].revoked = TRUE]
    /\ cut' = cut \cup {s}
    /\ UNCHANGED <<user, call, now, deleted>>

-----------------------------------------------------------------------------
(* Requests of an authenticated caller.                                    *)

\* Authenticate.  Access tokens are not recorded: any account may hold one.
Authenticate(c, u) ==
    /\ call[c].pc = "idle"
    /\ user[u].status = "active"
    /\ call' = [call EXCEPT ![c] = [pc |-> "caller", user |-> u, row |-> user[u]]]
    /\ UNCHANGED <<user, session, now, cut, deleted>>

\* Logout with revoke_all, or without a token.
LogoutAll(c) ==
    /\ call[c].pc = "caller"
    /\ session' = Revoked(session, call[c].user)
    /\ cut' = cut \cup SessionsOf(call[c].user)
    /\ Ends(c)
    /\ UNCHANGED <<user, now, deleted>>

ChangePassword(c, current, next) ==
    LET u == call[c].user IN
    /\ call[c].pc = "caller"
    /\ Found(u)
    /\ user[u].password = current
    /\ user' = [user EXCEPT ![u].password = next]
    /\ session' = Revoked(session, u)
    /\ cut' = cut \cup SessionsOf(u)
    /\ Ends(c)
    /\ UNCHANGED <<now, deleted>>

\* CallerHas(c, g): Caller.Require.
CallerHas(c, g) == call[c].pc = "caller" /\ g \in call[c].row.grants

\* CanManageUser, and the built-in accounts out of reach.
CanManageUser(c, u) ==
    /\ u \notin Builtin
    /\ u # call[c].user
    /\ user[u].rank < call[c].row.rank

\* Mutant: a rank up to the caller's own.
Grantable_own(c, rank, grants) ==
    rank \in 1..call[c].row.rank /\ grants \subseteq call[c].row.grants

\* What a caller may hand out: ranks below its own, and grants it holds.
Grantable(c, rank, grants) ==
    /\ rank \in 1..(call[c].row.rank - 1)
    /\ grants \subseteq call[c].row.grants

\* CreateUser: a name is free only if no row, not even a deleted one, has it.
CreateUser(c, u, status, rank, grants, password) ==
    /\ CallerHas(c, UserManage)
    /\ Grantable(c, rank, grants)
    /\ user[u].status = "absent"
    /\ user' = [user EXCEPT ![u] = [status |-> status, rank |-> rank, grants |-> grants, password |-> password]]
    /\ Ends(c)
    /\ UNCHANGED <<session, now, cut, deleted>>

\* The fields of UpdateUser that are not named keep their value: the rank, the
\* role and the permissions are each kept or given.
Granted(c, u, rank, grants) ==
    /\ rank = user[u].rank \/ Grantable(c, rank, {})
    /\ RoleAdmin \in grants => RoleAdmin \in user[u].grants \cup call[c].row.grants
    /\ LET permissions(g) == g \ {RoleAdmin} IN
       permissions(grants) = permissions(user[u].grants) \/ Grantable(c, 1, permissions(grants))

\* Mutant: only a new password revokes.
Secures_password(u, status, password, named) == password # user[u].password \/ named

\* Does UpdateUser revoke the sessions of u: a password was named, or a status
\* other than active.
Secures(u, status, password, named) ==
    \/ password # user[u].password
    \/ status # user[u].status /\ status # "active"
    \/ named

\* UpdateUser, SetPermissions and ResetUserPassword.  named: a password or a
\* status was named that the account already had.
UpdateUser(c, u, status, rank, grants, password, named) ==
    /\ CallerHas(c, UserManage)
    /\ Found(u)
    /\ CanManageUser(c, u)
    /\ Granted(c, u, rank, grants)
    /\ status \in {"active", "disabled"}
    /\ user' = [user EXCEPT ![u] = [status |-> status, rank |-> rank, grants |-> grants, password |-> password]]
    /\ session' = IF Secures(u, status, password, named) THEN Revoked(session, u) ELSE session
    /\ cut' = IF password # user[u].password \/ (status # user[u].status /\ status = "disabled")
              THEN cut \cup SessionsOf(u) ELSE cut
    /\ Ends(c)
    /\ UNCHANGED <<now, deleted>>

DeleteUser(c, u) ==
    /\ CallerHas(c, UserManage)
    /\ Found(u)
    /\ CanManageUser(c, u)
    /\ session' = Revoked(session, u)
    /\ user' = [user EXCEPT ![u].status = "deleted"]
    /\ cut' = cut \cup SessionsOf(u)
    /\ deleted' = deleted \cup {u}
    /\ Ends(c)
    /\ UNCHANGED now

-----------------------------------------------------------------------------
\* The client goes away, or a transaction is refused: what was done stays.
GiveUp(c) ==
    /\ call[c].pc # "idle"
    /\ Ends(c)
    /\ UNCHANGED <<user, session, now, cut, deleted>>

Tick ==
    /\ now < MaxTime
    /\ now' = now + 1
    /\ UNCHANGED <<user, session, call, cut, deleted>>

LoginStep(c) ==
    \/ \E u \in Clients, p \in Passwords : Verify(c, u, p)
    \/ \E s \in Sessions, remember \in BOOLEAN : OpenSession(c, s, remember)
    \/ WriteBack(c)

CallerStep(c) ==
    \/ \E u \in Users : Authenticate(c, u)
    \/ LogoutAll(c)
    \/ \E p, q \in Passwords : ChangePassword(c, p, q)
    \/ \E u \in Users, rank \in 1..MaxRank, grants \in SUBSET Grants, p \in Passwords :
          \/ \E status \in {"active", "disabled"} : CreateUser(c, u, status, rank, grants, p)
          \/ \E status \in {"active", "disabled"}, named \in BOOLEAN :
                UpdateUser(c, u, status, rank, grants, p, named)
    \/ \E u \in Users : DeleteUser(c, u)

Next ==
    \/ \E c \in Calls : LoginStep(c) \/ CallerStep(c) \/ GiveUp(c)
    \/ \E s, t \in Sessions : Refresh(s, t)
    \/ \E s \in Sessions : RevokeOne(s)
    \/ Tick

Spec == Init /\ [][Next]_vars

-----------------------------------------------------------------------------
(* Properties.                                                             *)

\* Types: the tables hold rows, and a recorded session belongs to an account.
TypeOK ==
    /\ user \in [Users -> Account]
    /\ session \in [Sessions -> SessionRow \cup {NoSession}]
    /\ call \in [Calls -> CallState]
    /\ now \in 0..MaxTime
    /\ cut \subseteq Recorded
    /\ deleted \subseteq Users

\* Securing an account (a new password, disabling, deleting it, logging out
\* everywhere) ends its sessions for good, and logging out with a token ends that
\* one: no session that existed then works any more, and neither does one that
\* is rotated out of it later.
RevocationHolds == \A s \in cut : ~Usable(s)

\* A login has one usable refresh token at most, however often and by however
\* many clients it is rotated (Refresh revokes the token it is given).
OneTokenPerLogin ==
    \A s, t \in Recorded : s # t /\ session[s].login = session[t].login => ~(Usable(s) /\ Usable(t))

\* Rotation hands on the remaining lifetime: a login cannot be kept alive past
\* the expiry its first session was given.
RotationKeepsDeadline ==
    \A s \in Recorded : session[s].expires = session[session[s].login].expires

\* A deleted account stays deleted, whatever its managers do with it, unless a
\* login that had read the account before writes it back.
DeletedStaysDeleted == \A u \in deleted : user[u].status = "deleted"

\* Nobody comes to equal the built-in administrator, by whatever chain of
\* managers raising each other, on authority that has been taken from them too.
BelowAdmin ==
    \A u \in Users \ Builtin : user[u].rank < MaxRank

=============================================================================
