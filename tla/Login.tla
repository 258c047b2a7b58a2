-------------------------------- MODULE Login --------------------------------
(***************************************************************************)
(* Signing in to the console: the lock that failed attempts put on a name, *)
(* sessions, and changes of passwords that end the sessions of their user. *)
(*                                                                         *)
(* A login looks at the lock, reads the user's row, and answers, in three  *)
(* steps. Passwords are numbered as they are written, so that a session    *)
(* can be compared with the password it was given for.                     *)
(***************************************************************************)
EXTENDS Directory, Clock

CONSTANTS
    Browsers,
    FailureThreshold,   \* loginFailureThreshold
    LockFor             \* loginLockDuration

ASSUME LoginAssumption ==
    /\ IsFiniteSet(Browsers) /\ FailureThreshold \in Nat \ {0} /\ LockFor \in Nat \ {0}

VARIABLES
    password,       \* users.password_hash
    session,        \* of each browser: the user, and the password it was given for
    signin,         \* logins in progress
    locker,         \* FailureLocker.entries
    excused,        \* history: browsers whose session outlived its password
    failed          \* history: failed checks since a success

loginVars == <<password, session, signin, locker, excused, failed>>

NoSession == [user |-> 0, secret |-> 0]
NoSignin == [stage |-> "", user |-> 0, secret |-> 0, enabled |-> FALSE]
NoEntry == [failures |-> 0, last |-> -LockFor, until |-> 0]

-----------------------------------------------------------------------------
(* FailureLocker *)

Locked(u) == clock < locker[u].until

\* Mutant: one failure more than the threshold.
CountedAfterThreshold(entry) ==
    LET old == clock - entry.last > LockFor
        failures == IF old THEN 1 ELSE entry.failures + 1
        until == IF old THEN 0 ELSE entry.until
    IN  IF failures > FailureThreshold
        THEN [failures |-> 0, last |-> clock, until |-> clock + LockFor]
        ELSE [failures |-> failures, last |-> clock, until |-> until]

\* An old count starts anew; a full one locks.
Counted(entry) ==
    LET old == clock - entry.last > LockFor
        failures == IF old THEN 1 ELSE entry.failures + 1
        until == IF old THEN 0 ELSE entry.until
    IN  IF failures >= FailureThreshold
        THEN [failures |-> 0, last |-> clock, until |-> clock + LockFor]
        ELSE [failures |-> failures, last |-> clock, until |-> until]

\* Entries that have been idle for twice as long may be removed meanwhile.
Sweepable == {u \in UserIds : locker[u].last < clock - 2 * LockFor /\ clock > locker[u].until}

RecordFailure(u) ==
    \E swept \in {{}, Sweepable} :
        locker' = [v \in UserIds |->
            IF v = u THEN Counted(IF u \in swept THEN NoEntry ELSE locker[u])
            ELSE IF v \in swept THEN NoEntry ELSE locker[v]]

\* A lock in force stays.
Reset(u) ==
    locker' = [locker EXCEPT ![u] = IF Locked(u) THEN [@ EXCEPT !.failures = 0] ELSE NoEntry]

-----------------------------------------------------------------------------
(* handleLogin, handleLogout *)

\* An attempt with the password as it is now, or with a wrong one.
BeginLogin(b, u, right) ==
    /\ "login" \in script.ops /\ script.left > 0 /\ signin[b] = NoSignin
    /\ ~Locked(u)
    /\ signin' = [signin EXCEPT ![b] = [stage |-> "begun", user |-> u, enabled |-> FALSE,
                                        secret |-> IF right THEN password[u] ELSE -1]]
    /\ script' = [script EXCEPT !.left = @ - 1]
    /\ UNCHANGED <<tables, record, req, crossed, revived, lateTokens, clock,
                   password, session, locker, excused, failed>>

\* The row is read; an account of an integration has no password.
CheckPassword(b) ==
    /\ signin[b].stage = "begun"
    /\ LET u == signin[b].user
           ok == Live(user[u]) /\ user[u].integration = 0 /\ signin[b].secret = password[u]
       IN  signin' = [signin EXCEPT ![b].stage = IF ok THEN "verified" ELSE "refused",
                                    ![b].enabled = user[u].status = "enabled"]
    /\ UNCHANGED <<directoryVars, clock, password, session, locker, excused, failed>>

RefuseLogin(b) ==
    /\ signin[b].stage = "refused"
    /\ LET u == signin[b].user
       IN  /\ RecordFailure(u)
           /\ failed' = [failed EXCEPT ![u] = @ \cup {<<clock, Cardinality(@)>>}]
    /\ signin' = [signin EXCEPT ![b] = NoSignin]
    /\ UNCHANGED <<directoryVars, clock, password, session, excused>>

\* The session, with its number, of a request that has it written at its end.
Commit(b, u, secret) ==
    /\ session' = [session EXCEPT ![b] = [user |-> u, secret |-> secret]]
    /\ excused' = IF secret = password[u] THEN excused \ {b} ELSE excused \cup {b}

\* The status is the one that was read with the password.
AcceptLogin(b) ==
    /\ signin[b].stage = "verified"
    /\ LET u == signin[b].user
       IN  /\ Reset(u)
           /\ failed' = [failed EXCEPT ![u] = {}]
           /\ IF signin[b].enabled THEN Commit(b, u, signin[b].secret)
              ELSE UNCHANGED <<session, excused>>
    /\ signin' = [signin EXCEPT ![b] = NoSignin]
    /\ UNCHANGED <<directoryVars, clock, password>>

Logout(b) ==
    /\ session[b].user # 0
    /\ session' = [session EXCEPT ![b] = NoSession] /\ excused' = excused \ {b}
    /\ UNCHANGED <<directoryVars, clock, password, signin, locker, failed>>

-----------------------------------------------------------------------------
(* handleChangePassword, handleAdminResetPassword *)

\* With a session and the password that was read with it.
ChangePassword(r, a, b) ==
    /\ session[b].user = a /\ Live(user[a])
    /\ Begin(r, a, "user", [Idle EXCEPT !.op = "password", !.target = a, !.todo = {b}])
    /\ UNCHANGED <<clock, loginVars>>

\* Accounts without a password stay without. A root may reset his own.
ResetPassword(r, a, u, b) ==
    /\ CanManage(user[a].role, ScopeOf(a), u) /\ user[u].integration = 0
    /\ u = a => session[b].user = a
    /\ Begin(r, a, "managed", [Idle EXCEPT !.op = "password", !.target = u,
                                           !.todo = IF u = a THEN {b} ELSE {}])
    /\ UNCHANGED <<clock, loginVars>>

\* ref is the number of the password that was written.
WritePassword(r) ==
    /\ At(r, "password")
    /\ LET u == req[r].target
       IN  \/ /\ password' = [password EXCEPT ![u] = @ + 1]
              /\ req' = [req EXCEPT ![r].op = "destroy", ![r].ref = password[u] + 1]
           \/ Done(r) /\ UNCHANGED password
    /\ UNCHANGED <<tables, record, script, crossed, revived, lateTokens, clock,
                   session, signin, locker, excused, failed>>

SessionsOf(u) == {b \in Browsers : session[b].user = u}

\* Mutant: only the session of the request itself is ended.
DestroyOwnSession(r) == SessionsOf(req[r].target) \cap req[r].todo

\* The sessions found in the store.
DestroyedSessions(r) == SessionsOf(req[r].target)

\* A failure ends the iteration and is logged, and the handler goes on.
DestroyUserSessions(r) ==
    /\ At(r, "destroy")
    /\ \E ended \in SUBSET DestroyedSessions(r) :
        /\ session' = [b \in Browsers |-> IF b \in ended THEN NoSession ELSE session[b]]
        /\ excused' = (excused \ ended) \cup (DestroyedSessions(r) \ ended)
    /\ IF req[r].todo = {} THEN Done(r) ELSE req' = [req EXCEPT ![r].op = "renew"]
    /\ UNCHANGED <<tables, record, script, crossed, revived, lateTokens, clock,
                   password, signin, locker, failed>>

\* The user who changed his own password stays signed in, if that succeeds.
RenewSession(r) ==
    /\ At(r, "renew") /\ Done(r)
    /\ \/ \E b \in req[r].todo : Commit(b, req[r].target, req[r].ref)
       \/ UNCHANGED <<session, excused>>
    /\ UNCHANGED <<tables, record, script, crossed, revived, lateTokens, clock,
                   password, signin, locker, failed>>

-----------------------------------------------------------------------------
LoginInit ==
    /\ password = [u \in UserIds |-> 0] /\ session = [b \in Browsers |-> NoSession]
    /\ signin = [b \in Browsers |-> NoSignin] /\ locker = [u \in UserIds |-> NoEntry]
    /\ excused = {} /\ failed = [u \in UserIds |-> {}]

LoginRequest(r, a) ==
    \E b \in Browsers :
        ChangePassword(r, a, b) \/ \E u \in UserIds : ResetPassword(r, a, u, b)

PasswordWrite(r) == WritePassword(r) \/ DestroyUserSessions(r) \/ RenewSession(r)

LoginStep(b) ==
    \/ \E u \in UserIds, right \in BOOLEAN : BeginLogin(b, u, right)
    \/ CheckPassword(b) \/ RefuseLogin(b) \/ AcceptLogin(b) \/ Logout(b)

\* The process stops: the lock is forgotten, sessions are not.
LoginLost ==
    /\ signin' = [b \in Browsers |-> NoSignin] /\ locker' = [u \in UserIds |-> NoEntry]
    /\ excused' = excused \cup {b \in Browsers : \E r \in Requests :
                                  At(r, "destroy") /\ req[r].target = session[b].user}
    /\ failed' = [u \in UserIds |-> {}]
    /\ UNCHANGED <<password, session>>

-----------------------------------------------------------------------------
(* Properties *)

\* After a change of the password no session given for an older one is left
\* (DestroyUserSessions), whoever changed it, also when changes overlap; but
\* for one whose request had verified the older password and was overtaken by
\* the change, and for what a failed or interrupted destruction left behind.
SessionsKnowPassword ==
    \A b \in Browsers :
        LET u == session[b].user
        IN  u # 0 /\ session[b].secret # password[u] =>
                b \in excused \/ \E r \in Requests : At(r, "destroy") /\ req[r].target = u

\* Without a success a name is tried in vain at most FailureThreshold times
\* within any LockFor, and by the attempts that were under way when it was
\* locked.
GuessesBounded ==
    \A u \in UserIds : \A t \in 0..MaxClock :
        Cardinality({x \in failed[u] : t <= x[1] /\ x[1] < t + LockFor})
            <= FailureThreshold + Cardinality(Browsers) - 1
=============================================================================
