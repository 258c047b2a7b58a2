-------------------------- MODULE OrganizationProofs --------------------------
(***************************************************************************)
(* Proofs about Organization for any rows, scenarios, times and number of  *)
(* overlapping requests and logins, each result by an invariant of its     *)
(* own: somebody can always administer the system (RootInv), the copy of a *)
(* setting settles (SettingInv), sessions end with their password          *)
(* (SessionInv), a disabled key stays disabled (KeyTableInv), a disabled   *)
(* integration is silent (SilentInv), quotas hold (QuotaInv), a retry      *)
(* issues one key (IssuedInv), references hold (DirectoryRefs, KeyRefs),   *)
(* and failed logins are bounded (GuessInv).                               *)
(***************************************************************************)
EXTENDS Organization, FiniteSetTheorems, TLAPS

\* What a handler has made sure of about itself and its target, and what of it
\* stays true while others act. A root has no integration, since the accounts
\* of integrations authenticate as service accounts only, which are managed.
RequestOK(r) ==
    /\ DOMAIN req[r] = DOMAIN Idle
    /\ req[r].by = "root" =>
          /\ req[r].actor \in UserIds /\ user[req[r].actor].status # "none"
          /\ user[req[r].actor].integration = 0
    /\ req[r].op \in {"status", "delete_user"} => req[r].target # req[r].actor
    /\ req[r].op = "update_user" /\ req[r].role # "" => req[r].target # req[r].actor
    /\ req[r].op \in {"status", "batch"} => req[r].value \in Status
    /\ req[r].op = "batch" /\ req[r].target # 0 /\ req[r].value = "disabled"
       => req[r].target # req[r].actor
    /\ req[r].op = "disable" => req[r].target # 0

TablesOK ==
    /\ DOMAIN user = UserIds /\ DOMAIN req = Requests
    /\ \A u \in UserIds : DOMAIN user[u] = DOMAIN NoUser

RootInv == TablesOK /\ (\A r \in Requests : RequestOK(r)) /\ RootRemains

\* Users are never forgotten, and never change their integration.
UsersKept ==
    /\ DOMAIN user' = UserIds /\ \A u \in UserIds : DOMAIN user'[u] = DOMAIN NoUser
    /\ \A u \in UserIds : user[u].status # "none" =>
          user'[u].status # "none" /\ user'[u].integration = user[u].integration

\* Nothing happens to anybody's status or role.
RanksKept ==
    /\ UsersKept
    /\ \A u \in UserIds : user[u].status # "none" =>
          user'[u].status = user[u].status /\ user'[u].role = user[u].role
    /\ crossed => crossed'

\* A step of the induction.
RootStep == UsersKept /\ RootInv'

RequestsKept(r) == DOMAIN req' = Requests /\ \A s \in Requests \ {r} : req'[s] = req[s]

-----------------------------------------------------------------------------
(* Steps in general *)

LEMMA RanksKeepRoot ==
    ASSUME RootInv, RanksKept PROVE RootRemains'
  BY DEF RootInv, RanksKept, UsersKept, RootRemains

LEMMA RequestStays ==
    ASSUME RootInv, UsersKept, NEW r \in Requests, req'[r] = req[r]
    PROVE  RequestOK(r)'
  BY DEF RootInv, RequestOK, UsersKept

LEMMA OneRequestSteps ==
    ASSUME RootInv, UsersKept, NEW r \in Requests, RequestsKept(r), RequestOK(r)', RootRemains'
    PROVE  RootStep
<1>1. \A s \in Requests : RequestOK(s)'
  BY RequestStays DEF RequestsKept
<1>2. TablesOK'
  BY DEF RootInv, TablesOK, UsersKept, RequestsKept, NoUser
<1> QED BY <1>1, <1>2 DEF RootInv, RootStep

LEMMA IdleFields ==
    DOMAIN Idle = {"op", "actor", "by", "scope", "target", "ref", "value", "name", "role",
                   "idem", "todo"}
  BY DEF Idle

LEMMA UserFields ==
    DOMAIN NoUser = {"status", "role", "dept", "integration", "name", "billed"}
  BY DEF NoUser

\* A handler that is done, or goes on to something without a target to rank.
LEMMA DoneIsOK ==
    ASSUME RootInv, NEW r \in Requests, Done(r)
    PROVE  RequestsKept(r) /\ RequestOK(r)'
<1>1. req'[r] = Idle /\ RequestsKept(r)
  BY DEF Done, RootInv, TablesOK, RequestsKept
<1>2. DOMAIN req'[r] = DOMAIN Idle
  BY <1>1
<1>3. req'[r].op = "idle" /\ req'[r].by = "user"
  <2>1. Idle.op = "idle" /\ Idle.by = "user"
    BY DEF Idle
  <2> QED BY <1>1, <2>1
<1>4. RequestOK(r)'
  BY <1>2, <1>3 DEF RequestOK
<1> QED BY <1>1, <1>4

GoesOn(r) ==
    /\ RequestsKept(r) /\ DOMAIN req'[r] = DOMAIN Idle
    /\ req'[r].actor = req[r].actor /\ req'[r].by = req[r].by
    /\ req'[r].op \notin {"status", "delete_user", "update_user", "batch", "disable"}

LEMMA GoesOnIsOK ==
    ASSUME RootInv, UsersKept, NEW r \in Requests, GoesOn(r)
    PROVE  RequestOK(r)'
  BY DEF RootInv, RequestOK, UsersKept, GoesOn

-----------------------------------------------------------------------------
(* Beginnings *)

LEMMA RootsHavePasswords ==
    ASSUME NEW a \in UserIds, NEW min, Authenticated(a, min), user[a].role = "root"
    PROVE  user[a].integration = 0 /\ user[a].status = "enabled"
  BY DEF Authenticated, TokenAuthenticates, IsServiceAccount

LEMMA BeginStep ==
    ASSUME RootInv, NEW r \in Requests, NEW a \in UserIds, NEW min, NEW x,
           Begin(r, a, min, x), DOMAIN x = DOMAIN Idle,
           x.op \in {"status", "delete_user"} => x.target # a,
           x.op = "update_user" /\ x.role # "" => x.target # a,
           x.op \in {"status", "batch"} => x.value \in Status,
           x.op = "batch" => x.target = 0,
           x.op = "disable" => x.target # 0
    PROVE  RootStep
<1>1. /\ Authenticated(a, min) /\ UNCHANGED <<user, crossed>>
      /\ req' = [req EXCEPT ![r] = [x EXCEPT !.actor = a, !.by = user[a].role,
                                             !.scope = ScopeOf(a)]]
  BY DEF Begin, tables
<1>2. UsersKept /\ RootRemains'
  BY <1>1 DEF RootInv, TablesOK, UsersKept, RootRemains
<1>3. RequestsKept(r) /\ req'[r] = [x EXCEPT !.actor = a, !.by = user[a].role, !.scope = ScopeOf(a)]
  BY <1>1 DEF RootInv, TablesOK, RequestsKept
<1>4. /\ DOMAIN req'[r] = DOMAIN Idle
      /\ req'[r].actor = a /\ req'[r].by = user[a].role /\ req'[r].op = x.op
      /\ req'[r].target = x.target /\ req'[r].role = x.role /\ req'[r].value = x.value
  BY <1>3, IdleFields
<1>5. user[a].role = "root" => user[a].integration = 0 /\ user[a].status = "enabled"
  BY <1>1, RootsHavePasswords
<1>6. RequestOK(r)'
  BY <1>1, <1>4, <1>5 DEF RequestOK
<1> QED BY <1>2, <1>3, <1>6, OneRequestSteps

LEMMA ReadingRequests ==
    ASSUME RootInv, NEW r \in Requests, NEW a \in UserIds,
           UserRequest(r, a) \/ DepartmentRequest(r, a) \/ IntegrationRequest(r, a)
    PROVE  RootStep
<1> USE IdleFields
<1>1. ASSUME NEW name, NEW role, NEW d, NEW credits, NEW idem,
             CreateUser(r, a, name, role, d, credits, idem)
      PROVE  RootStep
  BY <1>1, BeginStep DEF CreateUser, Idle
<1>2. ASSUME NEW names, NEW d, ImportUsers(r, a, names, d) PROVE RootStep
  BY <1>2, BeginStep DEF ImportUsers, Idle
<1>3. ASSUME NEW u, NEW role, NEW d, UpdateUser(r, a, u, role, d) PROVE RootStep
  BY <1>3, BeginStep DEF UpdateUser, Idle
<1>4. ASSUME NEW u, NEW s \in Status, SetUserStatus(r, a, u, s) PROVE RootStep
  BY <1>4, BeginStep DEF SetUserStatus, Idle
<1>5. ASSUME NEW ids, NEW s \in Status, BatchSetStatus(r, a, ids, s) PROVE RootStep
  BY <1>5, BeginStep DEF BatchSetStatus, Idle
<1>6. ASSUME NEW d, NEW s \in Status, BatchSetDepartment(r, a, d, s) PROVE RootStep
  BY <1>6, BeginStep DEF BatchSetDepartment, Idle
<1>7. ASSUME NEW u, DeleteUser(r, a, u) PROVE RootStep
  BY <1>7, BeginStep DEF DeleteUser, Idle
<1>8. ASSUME NEW ids, BatchGrant(r, a, ids) PROVE RootStep
  BY <1>8, BeginStep DEF BatchGrant, Idle
<1>9. ASSUME NEW d, BatchGrantDepartment(r, a, d) PROVE RootStep
  BY <1>9, BeginStep DEF BatchGrantDepartment, Idle
<1>10. ASSUME NEW idem, CreateDepartment(r, a, idem) PROVE RootStep
  BY <1>10, BeginStep DEF CreateDepartment, Idle
<1>11. ASSUME NEW d, NEW s, NEW owner, UpdateDepartment(r, a, d, s, owner) PROVE RootStep
  BY <1>11, BeginStep DEF UpdateDepartment, Idle
<1>12. ASSUME NEW d, DeleteDepartment(r, a, d) PROVE RootStep
  BY <1>12, BeginStep DEF DeleteDepartment, Idle
<1>13. ASSUME NEW d, NEW ids, NEW remove, SetDepartmentMembers(r, a, d, ids, remove)
       PROVE  RootStep
  BY <1>13, BeginStep DEF SetDepartmentMembers, Idle
<1>14. ASSUME NEW name, CreateIntegration(r, a, name) PROVE RootStep
  BY <1>14, BeginStep DEF CreateIntegration, Idle
<1>15. ASSUME NEW i, CreateServiceToken(r, a, i) PROVE RootStep
  BY <1>15, BeginStep DEF CreateServiceToken, Idle
<1>16. ASSUME NEW i \in IntegrationIds, DisableIntegration(r, a, i) PROVE RootStep
  BY <1>16, BeginStep, DirectoryAssumption DEF DisableIntegration, Idle
<1>17. ASSUME NEW t, NEW s, SetServiceTokenStatus(r, a, t, s) PROVE RootStep
  BY <1>17, BeginStep DEF SetServiceTokenStatus, Idle
<1> QED
  BY <1>1, <1>2, <1>3, <1>4, <1>5, <1>6, <1>7, <1>8, <1>9, <1>10, <1>11, <1>12, <1>13, <1>14,
     <1>15, <1>16, <1>17 DEF UserRequest, DepartmentRequest, IntegrationRequest

LEMMA KeyRequests ==
    ASSUME RootInv, NEW r \in Requests, NEW a \in UserIds, KeyRequest(r, a) \/ LoginRequest(r, a)
    PROVE  RootStep
<1> USE IdleFields
<1>1. ASSUME NEW u, NEW p, NEW idem, IssueKey(r, a, u, p, idem) PROVE RootStep
  BY <1>1, BeginStep DEF IssueKey, Idle
<1>2. ASSUME NEW p, CreateOwnKey(r, a, p) PROVE RootStep
  BY <1>2, BeginStep DEF CreateOwnKey, Idle
<1>3. ASSUME NEW k, DeleteKey(r, a, k) PROVE RootStep
  BY <1>3, BeginStep DEF DeleteKey, Idle
<1>4. ASSUME NEW k, NEW s, NEW p, NEW limit, UpdateKey(r, a, k, s, p, limit) PROVE RootStep
  BY <1>4, BeginStep DEF UpdateKey, Idle
<1>5. ASSUME CreateProject(r, a) PROVE RootStep
  BY <1>5, BeginStep DEF CreateProject, Idle
<1>6. ASSUME NEW p, DeleteProject(r, a, p) PROVE RootStep
  BY <1>6, BeginStep DEF DeleteProject, Idle
<1>7. ASSUME NEW b \in Browsers, ChangePassword(r, a, b) PROVE RootStep
  BY <1>7, BeginStep DEF ChangePassword, Idle
<1>8. ASSUME NEW u, NEW b \in Browsers, ResetPassword(r, a, u, b) PROVE RootStep
  BY <1>8, BeginStep DEF ResetPassword, Idle
<1> QED
  BY <1>1, <1>2, <1>3, <1>4, <1>5, <1>6, <1>7, <1>8 DEF KeyRequest, LoginRequest

-----------------------------------------------------------------------------
(* Writes that leave everybody's rank alone *)

LEMMA QuietStep ==
    ASSUME RootInv, RanksKept, NEW r \in Requests, Done(r) \/ GoesOn(r)
    PROVE  RootStep
<1>1. RequestsKept(r) /\ RequestOK(r)'
  BY DoneIsOK, GoesOnIsOK DEF GoesOn, RanksKept
<1> QED BY <1>1, RanksKeepRoot, OneRequestSteps DEF RanksKept

LEMMA SameUsers ==
    ASSUME RootInv, UNCHANGED <<user, crossed>> PROVE RanksKept
  BY DEF RootInv, TablesOK, RanksKept, UsersKept

LEMMA RecordedKeeps ==
    ASSUME NEW r, Recorded(r) PROVE crossed => crossed'
  BY Zenon DEF Recorded

LEMMA RememberGoesOn ==
    ASSUME RootInv, NEW r \in Requests, AfterRemember(r) PROVE Done(r) \/ GoesOn(r)
<1>1. req[r].value = "credits" \/ Done(r)
  BY DEF AfterRemember, Done
<1>2. CASE req[r].value = "credits"
  <2>1. req' = [req EXCEPT ![r] = [@ EXCEPT !.op = "grant"]]
    BY <1>2 DEF AfterRemember
  <2> QED BY <2>1, IdleFields DEF GoesOn, RequestsKept, RootInv, TablesOK, RequestOK
<1> QED BY <1>1, <1>2

LEMMA CreateGoesOn ==
    ASSUME RootInv, NEW r \in Requests, NEW id, AfterCreate(r, id) PROVE Done(r) \/ GoesOn(r)
<1>1. CASE req[r].idem # ""
  <2>1. req' = [req EXCEPT ![r] = [@ EXCEPT !.op = "remember", !.name = req[r].op, !.target = id]]
    BY <1>1 DEF AfterCreate
  <2> QED BY <2>1, IdleFields DEF GoesOn, RequestsKept, RootInv, TablesOK, RequestOK
<1>2. CASE req[r].idem = "" /\ req[r].value = "credits"
  <2>1. req' = [req EXCEPT ![r] = [@ EXCEPT !.op = "grant", !.target = id]]
    BY <1>2 DEF AfterCreate
  <2> QED BY <2>1, IdleFields DEF GoesOn, RequestsKept, RootInv, TablesOK, RequestOK
<1>3. CASE req[r].idem = "" /\ req[r].value # "credits"
  BY <1>3 DEF AfterCreate, Done
<1> QED BY <1>1, <1>2, <1>3

\* Members are assigned, credits granted.
LEMMA AccountWrites ==
    ASSUME RootInv, NEW r \in Requests, Grant(r) \/ GrantOneUser(r) \/ AssignMembers(r)
    PROVE  RootStep
<1>1. ASSUME Grant(r) PROVE RootStep
  <2>1. RanksKept
    BY <1>1, UserFields DEF Grant, RootInv, TablesOK, RanksKept, UsersKept
  <2> QED BY <1>1, <2>1, QuietStep DEF Grant
<1>2. ASSUME GrantOneUser(r) PROVE RootStep
  <2>1. RanksKept
    BY <1>2, UserFields DEF GrantOneUser, RootInv, TablesOK, RanksKept, UsersKept
  <2>2. PICK u \in req[r].todo :
          req' = [req EXCEPT ![r] = IF @.todo = {u} THEN Idle ELSE [req[r] EXCEPT !.todo = @ \ {u}]]
    BY <1>2 DEF GrantOneUser
  <2>3. CASE req[r].todo = {u}
    BY <2>1, <2>2, <2>3, QuietStep DEF Done
  <2>4. CASE req[r].todo # {u}
    <3>1. req' = [req EXCEPT ![r] = [req[r] EXCEPT !.todo = @ \ {u}]]
      BY <2>2, <2>4
    <3>2. GoesOn(r)
      BY <1>2, <3>1, IdleFields
      DEF GoesOn, RequestsKept, RootInv, TablesOK, RequestOK, GrantOneUser, At
    <3> QED BY <2>1, <3>2, QuietStep
  <2> QED BY <2>3, <2>4
<1>3. ASSUME AssignMembers(r) PROVE RootStep
  <2>1. RanksKept
    BY <1>3, UserFields, RecordedKeeps
    DEF AssignMembers, UserWrite, RootInv, TablesOK, RanksKept, UsersKept
  <2> QED BY <1>3, <2>1, QuietStep DEF AssignMembers
<1> QED BY <1>1, <1>2, <1>3

LEMMA OtherTableWrites ==
    ASSUME RootInv, NEW r \in Requests,
           Remember(r) \/ WriteDepartment(r) \/ WriteDeptUpdate(r) \/ WriteDeptDelete(r)
               \/ WriteToken(r) \/ WriteTokenStatus(r)
    PROVE  RootStep
<1>1. UNCHANGED <<user, crossed>>
  BY DEF Remember, WriteDepartment, WriteDeptUpdate, WriteDeptDelete, WriteToken,
         WriteTokenStatus, tables
<1>2. AfterRemember(r) \/ (\E d : AfterCreate(r, d)) \/ Done(r)
  BY DEF Remember, WriteDepartment, WriteDeptUpdate, WriteDeptDelete, WriteToken,
         WriteTokenStatus
<1> QED BY <1>1, <1>2, SameUsers, RememberGoesOn, CreateGoesOn, QuietStep

LEMMA KeyWrites ==
    ASSUME RootInv, NEW r \in Requests, KeyWrite(r) PROVE RootStep
<1> USE DEF KeyWrite, WriteKey, RecordFails, WriteKeyUpdate, RestoreDepleted, WriteKeyDelete,
            WriteProject, WriteProjectDelete
<1>1. RanksKept
  BY SameUsers DEF tables
<1>2. CASE WriteKeyUpdate(r)
  <2>1. CASE req[r].todo = {} \/ Done(r)
    BY <1>1, <1>2, <2>1, QuietStep DEF Done
  <2>2. CASE req[r].todo # {} /\ ~Done(r)
    <3>1. req' = [req EXCEPT ![r] = [@ EXCEPT !.op = "restore"]]
      BY <1>2, <2>2
    <3>2. GoesOn(r)
      BY <3>1, IdleFields DEF GoesOn, RequestsKept, RootInv, TablesOK, RequestOK
    <3> QED BY <1>1, <3>2, QuietStep
  <2> QED BY <2>1, <2>2
<1>3. CASE ~WriteKeyUpdate(r)
  <2>1. AfterRemember(r) \/ (\E k : AfterCreate(r, k)) \/ Done(r)
    BY <1>3
  <2> QED BY <1>1, <2>1, RememberGoesOn, CreateGoesOn, QuietStep
<1> QED BY <1>2, <1>3

LEMMA PasswordWrites ==
    ASSUME RootInv, NEW r \in Requests, PasswordWrite(r) PROVE RootStep
<1>1. RanksKept
  BY SameUsers DEF PasswordWrite, WritePassword, DestroyUserSessions, RenewSession, tables
<1>2. CASE WritePassword(r)
  <2>1. CASE Done(r)
    BY <1>1, <2>1, QuietStep
  <2>2. CASE ~Done(r)
    <3>1. req' = [req EXCEPT ![r].op = "destroy", ![r].ref = password[req[r].target] + 1]
      BY <1>2, <2>2 DEF WritePassword
    <3>2. GoesOn(r)
      BY <3>1, IdleFields DEF GoesOn, RequestsKept, RootInv, TablesOK, RequestOK
    <3> QED BY <1>1, <3>2, QuietStep
  <2> QED BY <2>1, <2>2
<1>3. CASE DestroyUserSessions(r)
  <2>1. CASE Done(r)
    BY <1>1, <2>1, QuietStep
  <2>2. CASE ~Done(r)
    <3>1. req' = [req EXCEPT ![r].op = "renew"]
      BY <1>3, <2>2 DEF DestroyUserSessions
    <3>2. GoesOn(r)
      BY <3>1, IdleFields DEF GoesOn, RequestsKept, RootInv, TablesOK, RequestOK
    <3> QED BY <1>1, <3>2, QuietStep
  <2> QED BY <2>1, <2>2
<1>4. CASE RenewSession(r)
  BY <1>1, <1>4, QuietStep DEF RenewSession
<1> QED BY <1>2, <1>3, <1>4 DEF PasswordWrite

-----------------------------------------------------------------------------
(* Users are created *)

LEMMA Insertion ==
    ASSUME RootInv, NEW u \in Fresh(user), NEW row, DOMAIN row = DOMAIN NoUser,
           user' = [user EXCEPT ![u] = row], crossed => crossed'
    PROVE  RanksKept
  BY DEF RootInv, TablesOK, Fresh, RanksKept, UsersKept

LEMMA NewUserFields ==
    ASSUME NEW name, NEW role, NEW d, NEW i
    PROVE  DOMAIN NewUser(name, role, d, i) = DOMAIN NoUser
  BY UserFields DEF NewUser

LEMMA Creations ==
    ASSUME RootInv, NEW r \in Requests, WriteUser(r) \/ ImportOneUser(r) \/ WriteIntegration(r)
    PROVE  RootStep
<1> USE NewUserFields
<1>1. ASSUME WriteUser(r) PROVE RootStep
  <2>1. CASE NameTaken(req[r].name) \/ ~Exists(dept, req[r].ref)
    BY <1>1, <2>1, SameUsers, QuietStep DEF WriteUser
  <2>2. CASE ~(NameTaken(req[r].name) \/ ~Exists(dept, req[r].ref))
    <3>1. PICK u \in Fresh(user) :
            /\ UserWrite(r, [user EXCEPT ![u] =
                   NewUser(req[r].name, req[r].role, req[r].ref, req[r].scope)])
            /\ AfterCreate(r, u)
      BY <1>1, <2>2 DEF WriteUser
    <3>2. RanksKept
      BY <3>1, Insertion, RecordedKeeps DEF UserWrite
    <3> QED BY <3>1, <3>2, CreateGoesOn, QuietStep
  <2> QED BY <2>1, <2>2
<1>2. ASSUME ImportOneUser(r) PROVE RootStep
  <2>1. PICK name \in req[r].todo :
          /\ IF NameTaken(name) \/ ~Exists(dept, req[r].ref)
             THEN UNCHANGED <<user, crossed, revived, integration, token, script, lateTokens>>
             ELSE \E u \in Fresh(user), billed \in BOOLEAN :
                    UserWrite(r, [user EXCEPT ![u] =
                        [NewUser(name, "user", req[r].ref, 0) EXCEPT !.billed = billed]])
          /\ req' = [req EXCEPT ![r] = IF @.todo = {name} THEN Idle
                                       ELSE [req[r] EXCEPT !.todo = @ \ {name}]]
    BY <1>2 DEF ImportOneUser
  <2>2. RanksKept
    <3>1. CASE NameTaken(name) \/ ~Exists(dept, req[r].ref)
      BY <2>1, <3>1, SameUsers
    <3>2. CASE ~(NameTaken(name) \/ ~Exists(dept, req[r].ref))
      <4>1. PICK u \in Fresh(user), billed \in BOOLEAN :
              UserWrite(r, [user EXCEPT ![u] =
                  [NewUser(name, "user", req[r].ref, 0) EXCEPT !.billed = billed]])
        BY <2>1, <3>2
      <4> QED BY <4>1, Insertion, RecordedKeeps DEF UserWrite
    <3> QED BY <3>1, <3>2
  <2>3. CASE req[r].todo = {name}
    BY <2>1, <2>2, <2>3, QuietStep DEF Done
  <2>4. CASE req[r].todo # {name}
    <3>1. req' = [req EXCEPT ![r] = [req[r] EXCEPT !.todo = @ \ {name}]]
      BY <2>1, <2>4
    <3>2. GoesOn(r)
      BY <1>2, <3>1, IdleFields
      DEF GoesOn, RequestsKept, RootInv, TablesOK, RequestOK, ImportOneUser, At
    <3> QED BY <2>2, <3>2, QuietStep
  <2> QED BY <2>3, <2>4
<1>3. ASSUME WriteIntegration(r) PROVE RootStep
  <2>1. RanksKept
    <3>1. CASE NameTaken(req[r].name)
      BY <1>3, <3>1, SameUsers DEF WriteIntegration
    <3>2. CASE ~NameTaken(req[r].name)
      <4>1. PICK i \in Fresh(integration), u \in Fresh(user) :
              user' = [user EXCEPT ![u] = NewUser(req[r].name, "managed", 0, i)] /\ Recorded(r)
        BY <1>3, <3>2 DEF WriteIntegration
      <4> QED BY <4>1, Insertion, RecordedKeeps
    <3> QED BY <3>1, <3>2
  <2> QED BY <1>3, <2>1, QuietStep DEF WriteIntegration
<1> QED BY <1>1, <1>2, <1>3

-----------------------------------------------------------------------------
(* Ranks change *)

\* The one who takes a root's rank is a root himself, and somebody else.
LEMMA RankWrite ==
    ASSUME RootInv, NEW r \in Requests, NEW u, Live(user[u]), Recorded(r),
           DOMAIN user' = UserIds, \A v \in UserIds : DOMAIN user'[v] = DOMAIN NoUser,
           \A v \in UserIds \ {u} : user'[v] = user[v],
           u \in UserIds => user'[u].status # "none" /\ user'[u].integration = user[u].integration,
           \/ u # req[r].actor
           \/ user'[u].status = "enabled" /\ user'[u].role = user[u].role
    PROVE  UsersKept /\ RootRemains'
<1>1. UsersKept
  BY DEF UsersKept
<1>2. crossed => crossed'
  BY RecordedKeeps
<1>3. PICK w \in {v \in UserIds : /\ user[v].status = "enabled" /\ user[v].role = "root"
                                 /\ user[v].integration = 0} \cup {0} :
        crossed \/ w \in {v \in UserIds : /\ user[v].status = "enabled" /\ user[v].role = "root"
                                         /\ user[v].integration = 0}
  BY DEF RootInv, RootRemains
<1>4. CASE crossed
  BY <1>1, <1>2, <1>4 DEF RootRemains
<1>5. CASE /\ w \in UserIds /\ user[w].status = "enabled" /\ user[w].role = "root"
           /\ user[w].integration = 0
  <2>1. CASE w # u
    BY <1>1, <1>5, <2>1 DEF RootRemains
  <2>2. CASE w = u /\ user'[u].status = "enabled" /\ user'[u].role = user[u].role
    BY <1>1, <1>5, <2>2 DEF RootRemains
  <2>3. CASE w = u /\ ~(user'[u].status = "enabled" /\ user'[u].role = user[u].role)
    <3>1. Demoted(u)
      BY <1>5, <2>3 DEF Demoted
    <3>2. CASE crossed'
      BY <1>1, <3>2 DEF RootRemains
    <3>3. CASE ~crossed'
      <4>1. /\ user[req[r].actor].status = "enabled" /\ user[req[r].actor].role = req[r].by
            /\ CanManage(req[r].by, req[r].scope, u)
        <5>1. ~(crossed \/ user[req[r].actor].status # "enabled"
                        \/ user[req[r].actor].role # req[r].by
                        \/ \E v \in UserIds : /\ Demoted(v)
                                             /\ ~CanManage(req[r].by, req[r].scope, v))
          BY <3>3, Zenon DEF Recorded
        <5> QED BY <1>5, <2>3, <3>1, <5>1
      <4>2. req[r].by = "root"
        BY <1>5, <2>3, <4>1 DEF CanManage
      <4>3. req[r].actor \in UserIds /\ user[req[r].actor].integration = 0
        BY <4>2 DEF RootInv, RequestOK
      <4>4. req[r].actor # u
        BY <2>3
      <4> QED BY <1>1, <4>1, <4>2, <4>3, <4>4 DEF RootRemains
    <3> QED BY <3>2, <3>3
  <2> QED BY <2>1, <2>2, <2>3
<1> QED BY <1>3, <1>4, <1>5

LEMMA SameUsersRoot ==
    ASSUME RootInv, UNCHANGED <<user, crossed>> PROVE UsersKept /\ RootRemains'
  BY SameUsers, RanksKeepRoot DEF RanksKept

\* One user is changed, disabled, or deleted with his keys.
LEMMA OneUserWrites ==
    ASSUME RootInv, NEW r \in Requests, WriteUpdate(r) \/ WriteStatus(r) \/ WriteDelete(r)
    PROVE  RootStep
<1> DEFINE u == req[r].target
<1> USE UserFields
<1>1. ASSUME WriteUpdate(r) PROVE UsersKept /\ RootRemains'
  <2> DEFINE d == IF req[r].ref = -1 THEN user[u].dept ELSE req[r].ref
  <2> DEFINE role == IF req[r].role = "" THEN user[u].role ELSE req[r].role
  <2>1. CASE Live(user[u]) /\ Exists(dept, d)
    <3>1. /\ user' = [user EXCEPT ![u].dept = d, ![u].role = role] /\ Recorded(r)
      BY <1>1, <2>1 DEF WriteUpdate, UserWrite
    <3>2. u # req[r].actor \/ role = user[u].role
      BY <1>1 DEF WriteUpdate, At, RootInv, RequestOK
    <3>3. CASE u # req[r].actor
      BY <2>1, <3>1, <3>3, RankWrite DEF RootInv, TablesOK, Live
    <3>4. CASE role = user[u].role
      <4>1. RanksKept
        BY <3>1, <3>4, RecordedKeeps DEF RanksKept, UsersKept, RootInv, TablesOK
      <4> QED BY <4>1, RanksKeepRoot DEF RanksKept
    <3> QED BY <3>2, <3>3, <3>4
  <2>2. CASE ~(Live(user[u]) /\ Exists(dept, d))
    BY <1>1, <2>2, SameUsersRoot DEF WriteUpdate
  <2> QED BY <2>1, <2>2
<1>2. ASSUME WriteStatus(r) PROVE UsersKept /\ RootRemains'
  <2>1. CASE Live(user[u])
    <3>1. user' = [user EXCEPT ![u].status = req[r].value] /\ Recorded(r)
      BY <1>2, <2>1 DEF WriteStatus, UserWrite
    <3>2. u # req[r].actor /\ req[r].value \in Status
      BY <1>2 DEF WriteStatus, At, RootInv, RequestOK
    <3> QED BY <2>1, <3>1, <3>2, RankWrite DEF RootInv, TablesOK, Live, Status
  <2>2. CASE ~Live(user[u])
    BY <1>2, <2>2, SameUsersRoot DEF WriteStatus
  <2> QED BY <2>1, <2>2
<1>3. ASSUME WriteDelete(r) PROVE UsersKept /\ RootRemains'
  <2>1. CASE Live(user[u]) /\ ~user[u].billed
    <3>1. user' = [user EXCEPT ![u].status = "deleted", ![u].dept = 0] /\ Recorded(r)
      BY <1>3, <2>1 DEF WriteDelete, UserWrite
    <3>2. u # req[r].actor
      BY <1>3 DEF WriteDelete, At, RootInv, RequestOK
    <3> QED BY <2>1, <3>1, <3>2, RankWrite DEF RootInv, TablesOK, Live
  <2>2. CASE ~(Live(user[u]) /\ ~user[u].billed)
    BY <1>3, <2>2, SameUsersRoot DEF WriteDelete, tables
  <2> QED BY <2>1, <2>2
<1>4. Done(r)
  BY DEF WriteUpdate, WriteStatus, WriteDelete
<1> QED BY <1>1, <1>2, <1>3, <1>4, DoneIsOK, OneRequestSteps

LEMMA BatchSteps ==
    ASSUME RootInv, NEW r \in Requests, SetOneUserStatus(r) \/ WriteOneStatus(r)
    PROVE  RootStep
<1> DEFINE t == req[r].target
<1> USE UserFields, IdleFields
<1>1. ASSUME SetOneUserStatus(r) PROVE RootStep
  <2>1. UNCHANGED <<user, crossed>> /\ req[r].op = "batch"
    BY <1>1 DEF SetOneUserStatus, tables, At
  <2>2. UsersKept /\ RootRemains'
    BY <2>1, SameUsersRoot
  <2>3. PICK u \in req[r].todo :
          LET rest == [req[r] EXCEPT !.todo = @ \ {u}]
          IN  req' = [req EXCEPT ![r] =
                IF /\ CanManage(req[r].by, req[r].scope, u) /\ user[u].status # req[r].value
                   /\ ~(u = req[r].actor /\ req[r].value = "disabled")
                THEN [rest EXCEPT !.target = u]
                ELSE IF rest.todo = {} THEN Idle ELSE rest]
    BY <1>1 DEF SetOneUserStatus
  <2> DEFINE rest == [req[r] EXCEPT !.todo = @ \ {u}]
  <2>4. CASE Done(r)
    BY <2>2, <2>4, DoneIsOK, OneRequestSteps
  <2>5. CASE ~Done(r)
    <3>1. RequestsKept(r)
      BY <2>3 DEF RequestsKept, RootInv, TablesOK
    <3>2. \/ /\ req'[r] = [rest EXCEPT !.target = u]
             /\ ~(u = req[r].actor /\ req[r].value = "disabled")
          \/ req'[r] = rest
      BY <2>3, <2>5 DEF Done, RootInv, TablesOK
    <3>3. RequestOK(r)
      BY DEF RootInv
    <3>4. /\ DOMAIN req'[r] = DOMAIN Idle /\ req'[r].op = req[r].op
          /\ req'[r].actor = req[r].actor /\ req'[r].by = req[r].by
          /\ req'[r].value = req[r].value
          /\ req'[r].target = req[r].target
             \/ ~(req'[r].target = req[r].actor /\ req[r].value = "disabled")
      BY <3>2, <3>3 DEF RequestOK
    <3>5. RequestOK(r)'
      BY <2>1, <3>3, <3>4 DEF RequestOK
    <3> QED BY <2>2, <3>1, <3>5, OneRequestSteps
  <2> QED BY <2>4, <2>5
<1>2. ASSUME WriteOneStatus(r) PROVE RootStep
  <2>1. UsersKept /\ RootRemains'
    <3>1. CASE Live(user[t])
      <4>1. user' = [user EXCEPT ![t].status = req[r].value] /\ Recorded(r)
        BY <1>2, <3>1 DEF WriteOneStatus, UserWrite
      <4>2. req[r].value \in Status /\ (t # req[r].actor \/ req[r].value = "enabled")
        BY <1>2 DEF WriteOneStatus, At, RootInv, RequestOK, Status
      <4>3. CASE t \in UserIds
        <5>1. t # req[r].actor \/ (user'[t].status = "enabled" /\ user'[t].role = user[t].role)
          BY <4>1, <4>2, <4>3 DEF RootInv, TablesOK
        <5> QED BY <3>1, <4>1, <4>2, <4>3, <5>1, RankWrite DEF RootInv, TablesOK, Live, Status
      <4>4. CASE t \notin UserIds
        <5>1. RanksKept
          BY <4>1, <4>4, RecordedKeeps DEF RanksKept, UsersKept, RootInv, TablesOK
        <5> QED BY <5>1, RanksKeepRoot DEF RanksKept
      <4> QED BY <4>3, <4>4
    <3>2. CASE ~Live(user[t])
      BY <1>2, <3>2, SameUsersRoot DEF WriteOneStatus
    <3> QED BY <3>1, <3>2
  <2>2. CASE req[r].todo = {}
    BY <1>2, <2>1, <2>2, DoneIsOK, OneRequestSteps DEF WriteOneStatus, Done
  <2>3. CASE req[r].todo # {}
    <3>1. req' = [req EXCEPT ![r] = [@ EXCEPT !.target = 0]] /\ req[r].op = "batch"
      BY <1>2, <2>3 DEF WriteOneStatus, At
    <3>2. RequestOK(r)
      BY DEF RootInv
    <3>3. /\ RequestsKept(r)
          /\ DOMAIN req'[r] = DOMAIN Idle /\ req'[r].op = req[r].op
          /\ req'[r].actor = req[r].actor /\ req'[r].by = req[r].by
          /\ req'[r].value = req[r].value /\ req'[r].target = 0
      BY <3>1, <3>2 DEF RequestOK, RequestsKept, RootInv, TablesOK
    <3>4. RequestOK(r)'
      BY <2>1, <3>1, <3>2, <3>3 DEF RequestOK, UsersKept
    <3> QED BY <2>1, <3>3, <3>4, OneRequestSteps
  <2> QED BY <2>2, <2>3
<1> QED BY <1>1, <1>2

\* The users of an integration are no roots with a password.
LEMMA Disabling ==
    ASSUME RootInv, NEW r \in Requests, WriteDisable(r) PROVE RootStep
<1> DEFINE i == req[r].target
<1>1. i # 0
  BY DEF WriteDisable, At, RootInv, RequestOK
<1>2. /\ user' = [u \in UserIds |-> IF user[u].integration = i /\ Live(user[u])
                            THEN [user[u] EXCEPT !.status = "disabled"] ELSE user[u]]
      /\ UNCHANGED crossed /\ Done(r)
  BY DEF WriteDisable
<1>3. UsersKept
  BY <1>2, UserFields DEF UsersKept, RootInv, TablesOK
<1>4. RootRemains'
  BY <1>1, <1>2, UserFields DEF RootRemains, RootInv
<1> QED BY <1>2, <1>3, <1>4, DoneIsOK, OneRequestSteps

-----------------------------------------------------------------------------
(* The rest *)

\* Requests stay where they are.
LEMMA Elsewhere ==
    ASSUME RootInv, RanksKept, UNCHANGED req PROVE RootStep
<1>1. \A r \in Requests : RequestOK(r)'
  BY RequestStays DEF RanksKept
<1>2. TablesOK'
  BY DEF RootInv, TablesOK, RanksKept, UsersKept, NoUser
<1> QED BY <1>1, <1>2, RanksKeepRoot DEF RootInv, RootStep, RanksKept

LEMMA RelaySteps ==
    ASSUME RootInv, NEW q \in Relays, RelayStep(q) PROVE RootStep
<1> USE DEF RelayStep, RefuseRelay, AuthenticateKey, SettleKey, PrechargeKey, directoryVars, tables
<1>1. UNCHANGED <<req, crossed>>
  OBVIOUS
<1>2. RanksKept
  <2>1. CASE UNCHANGED user
    BY <1>1, <2>1, SameUsers
  <2>2. CASE ~UNCHANGED user
    <3>1. user' = [user EXCEPT ![key[relay[q].key].owner].billed = TRUE]
      BY <2>2
    <3> QED BY <1>1, <3>1, UserFields DEF RanksKept, UsersKept, RootInv, TablesOK
  <2> QED BY <2>1, <2>2
<1> QED BY <1>1, <1>2, Elsewhere

LEMMA LoginSteps ==
    ASSUME RootInv, NEW b \in Browsers, LoginStep(b) PROVE RootStep
<1>1. UNCHANGED <<user, crossed, req>>
  BY DEF LoginStep, BeginLogin, CheckPassword, RefuseLogin, AcceptLogin, Logout,
         directoryVars, tables
<1> QED BY <1>1, SameUsers, Elsewhere

LEMMA SettingSteps ==
    ASSUME RootInv, NEW r \in Requests, SettingStep(r) PROVE RootStep
<1>1. UNCHANGED <<user, crossed, req>>
  BY DEF SettingStep, Get, ReadRow, ReadFails, Put, Save, SaveFails, Invalidate,
         directoryVars, tables
<1> QED BY <1>1, SameUsers, Elsewhere

LEMMA CrashStep ==
    ASSUME RootInv, Crash PROVE RootStep
<1>1. UNCHANGED <<user, crossed>> /\ req' = [r \in Requests |-> Idle]
  BY DEF Crash, tables
<1>2. RanksKept
  BY <1>1, SameUsers
<1>3. ASSUME NEW r \in Requests PROVE RequestOK(r)'
  <2>1. Idle.op = "idle" /\ Idle.by = "user"
    BY DEF Idle
  <2>2. DOMAIN req'[r] = DOMAIN Idle /\ req'[r].op = "idle" /\ req'[r].by = "user"
    BY <1>1, <2>1
  <2> QED BY <2>2 DEF RequestOK
<1>4. TablesOK'
  BY <1>1, <1>2 DEF TablesOK, RanksKept, UsersKept, NoUser
<1> QED BY <1>2, <1>3, <1>4, RanksKeepRoot DEF RootInv, RootStep, RanksKept

LEMMA TickStep ==
    ASSUME RootInv, Tick PROVE RootStep
  BY SameUsers, Elsewhere DEF Tick, directoryVars, tables

LEMMA InitRoot ==
    ASSUME Init PROVE RootInv
<1>1. PICK s \in Scenarios : user = Rows(UserIds, s.users, NoUser)
  BY DEF Init
<1>2. req = [r \in Requests |-> Idle]
  BY DEF Init
<1>3. TablesOK
  <2>1. \A u \in UserIds : u \in DOMAIN s.users => DOMAIN s.users[u] = DOMAIN NoUser
    BY UserFields, OrganizationAssumption DEF UserRow
  <2> QED BY <1>1, <1>2, <2>1 DEF TablesOK, Rows
<1>4. ASSUME NEW r \in Requests PROVE RequestOK(r)
  <2>1. Idle.op = "idle" /\ Idle.by = "user"
    BY DEF Idle
  <2>2. DOMAIN req[r] = DOMAIN Idle /\ req[r].op = "idle" /\ req[r].by = "user"
    BY <1>2, <2>1
  <2> QED BY <2>2 DEF RequestOK
<1>5. RootRemains
  <2>1. PICK u \in UserIds \cap DOMAIN s.users :
          /\ s.users[u].status = "enabled" /\ s.users[u].role = "root"
          /\ s.users[u].integration = 0
    BY OrganizationAssumption
  <2>2. user[u] = s.users[u]
    BY <1>1, <2>1 DEF Rows
  <2> QED BY <2>1, <2>2 DEF RootRemains
<1> QED BY <1>3, <1>4, <1>5 DEF RootInv

LEMMA NextUsers ==
    ASSUME RootInv, [Next]_vars PROVE RootStep
<1>1. ASSUME NEW r \in Requests, DirectoryWrite(r) PROVE RootStep
  BY <1>1, AccountWrites, OtherTableWrites, Creations, OneUserWrites, BatchSteps, Disabling
  DEF DirectoryWrite
<1>2. ASSUME NEW r \in Requests, DeleteWithKeys(r) PROVE RootStep
  BY <1>2, OneUserWrites DEF DeleteWithKeys
<1>3. CASE UNCHANGED vars
  BY <1>3, SameUsers, Elsewhere DEF vars, directoryVars, tables
<1> QED
  BY <1>1, <1>2, <1>3, ReadingRequests, KeyRequests, KeyWrites, PasswordWrites, RelaySteps,
     LoginSteps, SettingSteps, CrashStep, TickStep
  DEF Next

LEMMA NextRoot ==
    ASSUME RootInv, [Next]_vars PROVE RootInv'
  BY NextUsers DEF RootStep

\* An enabled root with a password remains, whatever administrators do at
\* once, unless a request was carried out that could no longer have begun.
THEOREM SomebodyAdministers == Spec => []RootRemains
<1>1. RootInv => RootRemains
  BY DEF RootInv
<1> QED BY <1>1, InitRoot, NextRoot, PTL DEF Spec

-----------------------------------------------------------------------------
(* Settings *)

SettingTypes ==
    /\ clock \in Nat /\ since \in Nat
    /\ DOMAIN cached = {"value", "expires"} /\ cached.expires \in Int
    /\ DOMAIN query = Requests
    /\ \A r \in Requests : DOMAIN query[r] = DOMAIN NoQuery /\ query[r].at \in Nat

\* Every copy was put at most now, and what differs from the row was read before
\* the row was last changed, less than ReadTime before it was put.
CopyOK ==
    /\ cached.expires <= clock + TTL
    /\ cached.value # saved => cached.expires <= since + ReadTime + TTL
    /\ \A r \in Requests : query[r].stage = "read" =>
          /\ query[r].at <= clock /\ clock <= query[r].at + ReadTime
          /\ query[r].value # saved => query[r].at <= since

\* Somebody accounts for a stale copy: its next update, or the reader of old.
StaleOK == Stale => overtaken \/ \E r \in Requests : query[r].stage = "saved"

SettingInv == SettingTypes /\ CopyOK /\ StaleOK

LEMMA QueryFields == DOMAIN NoQuery = {"stage", "value", "next", "at"}
  BY DEF NoQuery

LEMMA AfterGetFields ==
    ASSUME NEW next
    PROVE  /\ DOMAIN AfterGet(next) = DOMAIN NoQuery /\ AfterGet(next).at = 0
           /\ AfterGet(next).stage \notin {"read", "saved"}
<1>1. CASE next = ""
  BY <1>1 DEF AfterGet, NoQuery
<1>2. CASE next # ""
  BY <1>2 DEF AfterGet, NoQuery
<1> QED BY <1>1, <1>2

\* A query goes on to something that neither holds a value nor has saved one.
Passes(r) ==
    /\ DOMAIN query' = Requests /\ \A s \in Requests \ {r} : query'[s] = query[s]
    /\ DOMAIN query'[r] = DOMAIN NoQuery /\ query'[r].at = 0
    /\ query'[r].stage \notin {"read", "saved"} /\ query[r].stage # "saved"
    /\ clock' = clock /\ saved' = saved /\ cached' = cached /\ since' = since
    /\ overtaken' = overtaken

LEMMA QueryPasses ==
    ASSUME SettingInv, NEW r \in Requests, Passes(r) PROVE SettingInv'
  BY DEF Passes, SettingInv, SettingTypes, CopyOK, StaleOK, Stale, Cached

LEMMA Blanks ==
    /\ DOMAIN NoCopy = {"value", "expires"} /\ NoCopy.expires = -1
    /\ NoQuery.stage \notin {"read", "saved"} /\ NoQuery.at = 0
<1>1. NoQuery.stage \notin {"read", "saved"} /\ NoQuery.at = 0
  BY Zenon DEF NoQuery
<1>2. DOMAIN NoCopy = {"value", "expires"} /\ NoCopy.expires = -1
  BY Zenon DEF NoCopy
<1> QED BY <1>1, <1>2

LEMMA SettingBegins ==
    ASSUME SettingsInit, clock = 0 PROVE SettingInv
<1>1. /\ cached = NoCopy /\ since = 0 /\ DOMAIN query = Requests
      /\ \A r \in Requests : query[r] = NoQuery
  BY DEF SettingsInit
<1>2. SettingTypes
  BY <1>1, Blanks DEF SettingTypes
<1>3. CopyOK
  BY <1>1, Blanks, SettingsAssumption DEF CopyOK
<1>4. StaleOK
  BY <1>1, Blanks DEF StaleOK, Stale, Cached
<1> QED BY <1>2, <1>3, <1>4 DEF SettingInv

LEMMA GetStep ==
    ASSUME SettingInv, NEW r \in Requests, NEW next, Get(r, next) PROVE SettingInv'
<1>1. /\ query[r] = NoQuery /\ UNCHANGED <<clock, saved, cached, since, overtaken>>
      /\ query' = [query EXCEPT ![r] =
            IF Cached THEN AfterGet(next) ELSE [NoQuery EXCEPT !.stage = "missed", !.next = next]]
  BY DEF Get, CopyRead
<1>2. CASE Cached
  BY <1>1, <1>2, Blanks, AfterGetFields, QueryPasses DEF Passes, SettingInv, SettingTypes
<1>3. CASE ~Cached
  <2> DEFINE q == [NoQuery EXCEPT !.stage = "missed", !.next = next]
  <2>1. DOMAIN q = DOMAIN NoQuery /\ q.at = 0 /\ q.stage = "missed"
    BY DEF NoQuery
  <2>2. query' = [query EXCEPT ![r] = q]
    BY <1>1, <1>3
  <2> HIDE DEF q
  <2> QED BY <1>1, <2>1, <2>2, Blanks, QueryPasses DEF Passes, SettingInv, SettingTypes
<1> QED BY <1>2, <1>3

LEMMA ReadRowStep ==
    ASSUME SettingInv, NEW r \in Requests, ReadRow(r) PROVE SettingInv'
<1>1. /\ DOMAIN query' = Requests /\ DOMAIN query'[r] = DOMAIN NoQuery
      /\ query'[r].stage = "read" /\ query'[r].value = saved /\ query'[r].at = clock
      /\ \A s \in Requests \ {r} : query'[s] = query[s]
  BY QueryFields DEF ReadRow, SettingInv, SettingTypes
<1> QED
  BY <1>1, SettingsAssumption
  DEF ReadRow, SettingInv, SettingTypes, CopyOK, StaleOK, Stale, Cached

LEMMA PutStep ==
    ASSUME SettingInv, NEW r \in Requests, Put(r) PROVE SettingInv'
<1>1. /\ DOMAIN query' = Requests /\ DOMAIN query'[r] = DOMAIN NoQuery
      /\ query'[r].at = 0 /\ query'[r].stage \notin {"read", "saved"}
      /\ \A s \in Requests \ {r} : query'[s] = query[s]
  BY AfterGetFields DEF Put, SettingInv, SettingTypes
<1>2. /\ cached'.value = query[r].value /\ cached'.expires = clock + TTL
      /\ DOMAIN cached' = {"value", "expires"}
      /\ overtaken' = (query[r].value # saved) /\ UNCHANGED <<clock, saved, since>>
      /\ query[r].stage = "read"
  BY DEF Put
<1>3. SettingTypes'
  BY <1>1, <1>2, SettingsAssumption DEF SettingInv, SettingTypes
<1>4. StaleOK'
  BY <1>2 DEF StaleOK, Stale
<1>5. CopyOK'
  BY <1>1, <1>2, SettingsAssumption DEF SettingInv, SettingTypes, CopyOK
<1> QED BY <1>3, <1>4, <1>5 DEF SettingInv

LEMMA SaveStep ==
    ASSUME SettingInv, NEW r \in Requests, Save(r) PROVE SettingInv'
<1>1. /\ query[r].stage = "known" /\ UNCHANGED <<clock, cached>>
      /\ since' = (IF saved' = saved THEN since ELSE clock)
      /\ overtaken' = (overtaken \/ (query'[r] = NoQuery /\ cached.value # saved'))
  BY DEF Save
<1>2. /\ DOMAIN query' = Requests /\ DOMAIN query'[r] = DOMAIN NoQuery /\ query'[r].at \in Nat
      /\ query'[r] = NoQuery \/ query'[r].stage = "saved"
      /\ query'[r].stage # "read"
      /\ \A s \in Requests \ {r} : query'[s] = query[s]
  <2>1. CASE query' = [query EXCEPT ![r].stage = "saved"]
    BY <2>1, QueryFields DEF SettingInv, SettingTypes
  <2>2. CASE query' = [query EXCEPT ![r] = NoQuery]
    BY <2>2 DEF SettingInv, SettingTypes, NoQuery
  <2> QED BY <2>1, <2>2 DEF Save
<1>3. SettingTypes'
  BY <1>1, <1>2 DEF SettingInv, SettingTypes
<1>4. CopyOK'
  BY <1>1, <1>2, SettingsAssumption DEF SettingInv, SettingTypes, CopyOK
<1>5. StaleOK'
  BY <1>1, <1>2 DEF SettingInv, StaleOK, Stale, Cached
<1> QED BY <1>3, <1>4, <1>5 DEF SettingInv

\* The copy is dropped, by an update or with the process.
LEMMA DroppedStep ==
    ASSUME SettingInv, cached' = NoCopy, UNCHANGED <<clock, saved, since>>,
           DOMAIN query' = Requests,
           \A r \in Requests : query'[r] = query[r] \/ query'[r] = NoQuery
    PROVE  SettingInv'
<1>1. SettingTypes'
  BY Blanks DEF SettingInv, SettingTypes
<1>2. CopyOK'
  BY Blanks, SettingsAssumption DEF SettingInv, SettingTypes, CopyOK
<1>3. StaleOK'
  BY Blanks DEF SettingInv, SettingTypes, StaleOK, Stale, Cached
<1> QED BY <1>1, <1>2, <1>3 DEF SettingInv

LEMMA SettingStepKeeps ==
    ASSUME SettingInv, NEW r \in Requests, SettingStep(r) PROVE SettingInv'
<1>1. ASSUME ReadFails(r) PROVE SettingInv'
  <2>1. Passes(r)
    BY <1>1, AfterGetFields DEF ReadFails, Passes, SettingInv, SettingTypes
  <2> QED BY <2>1, QueryPasses
<1>2. ASSUME SaveFails(r) PROVE SettingInv'
  <2>1. Passes(r)
    BY <1>2, Blanks DEF SaveFails, Passes, SettingInv, SettingTypes
  <2> QED BY <2>1, QueryPasses
<1>3. ASSUME Invalidate(r) PROVE SettingInv'
  BY <1>3, DroppedStep DEF Invalidate, SettingInv, SettingTypes
<1> QED BY <1>1, <1>2, <1>3, GetStep, ReadRowStep, PutStep, SaveStep DEF SettingStep

LEMMA TimeForSettings ==
    ASSUME SettingInv, Tick PROVE SettingInv'
<1>1. /\ clock' = clock + 1 /\ UNCHANGED <<saved, cached, query, since, overtaken>>
      /\ ReadersKeepUp
  BY DEF Tick, settingVars
<1> QED
  BY <1>1, SettingsAssumption
  DEF ReadersKeepUp, SettingInv, SettingTypes, CopyOK, StaleOK, Stale, Cached

LEMMA SettingElsewhere ==
    ASSUME SettingInv, UNCHANGED <<clock, settingVars>> PROVE SettingInv'
  BY DEF settingVars, SettingInv, SettingTypes, CopyOK, StaleOK, Stale, Cached

LEMMA NextSetting ==
    ASSUME SettingInv, [Next]_vars PROVE SettingInv'
<1>1. ASSUME NEW r \in Requests, NEW a \in UserIds, LoginRequest(r, a)
      PROVE  UNCHANGED clock
  BY <1>1 DEF LoginRequest, ChangePassword, ResetPassword
<1>2. ASSUME NEW r \in Requests, PasswordWrite(r) PROVE UNCHANGED clock
  BY <1>2 DEF PasswordWrite, WritePassword, DestroyUserSessions, RenewSession
<1>3. ASSUME NEW b \in Browsers, LoginStep(b) PROVE UNCHANGED clock
  BY <1>3 DEF LoginStep, BeginLogin, CheckPassword, RefuseLogin, AcceptLogin, Logout
<1>4. ASSUME Crash PROVE SettingInv'
  BY <1>4, DroppedStep DEF Crash, SettingsLost
<1> QED
  BY <1>1, <1>2, <1>3, <1>4, SettingStepKeeps, TimeForSettings, SettingElsewhere
  DEF Next, vars, console

\* A setting's change takes effect: its copy is stale only while the update has
\* still to drop it or after a reader was overtaken, and never for longer than
\* reading and keeping a copy take.
THEOREM SettingsTakeEffect == Spec => []SettingsSettle
<1>1. Init => SettingInv
  BY SettingBegins DEF Init
<1>2. SettingInv => SettingsSettle
  BY SettingsAssumption
  DEF SettingInv, SettingTypes, CopyOK, StaleOK, Stale, Cached, SettingsSettle
<1> QED BY <1>1, <1>2, NextSetting, PTL DEF Spec

-----------------------------------------------------------------------------
(* Passwords and sessions *)

SessionOps == {"password", "destroy", "renew"}

\* A write of a request at work on the directory or the keys, and what it goes
\* on with.
LaterOps == {"idle", "grant", "remember", "restore", "import", "grant_batch", "batch"}

Moves(r) ==
    /\ RequestsKept(r) /\ req[r].op \notin SessionOps /\ req'[r].op \in LaterOps
    /\ req'[r].op = "import" => req[r].op = "import" /\ req'[r].ref = req[r].ref
    /\ req'[r].op = "remember" =>
          req'[r].name = req[r].op /\ req'[r].idem = req[r].idem /\ req'[r].scope = req[r].scope

LEMMA OtherMoves ==
    ASSUME RootInv, NEW r \in Requests, DirectoryWrite(r) \/ DeleteWithKeys(r) \/ KeyWrite(r)
    PROVE  Moves(r)
<1> USE IdleFields DEF SessionOps, LaterOps, Moves, At
<1>1. DOMAIN req = Requests /\ DOMAIN req[r] = DOMAIN Idle
  BY DEF RootInv, TablesOK, RequestOK
<1>2. Idle.op = "idle"
  BY DEF Idle
<1>3. ASSUME Done(r), req[r].op \notin SessionOps PROVE Moves(r)
  BY <1>1, <1>2, <1>3 DEF Done, RequestsKept
<1>4. ASSUME NEW x, req' = [req EXCEPT ![r] = x], x.op \in LaterOps,
             x.op \notin {"import", "remember"}, req[r].op \notin SessionOps
      PROVE  Moves(r)
  BY <1>1, <1>4 DEF RequestsKept
<1>5. ASSUME NEW id, AfterCreate(r, id), req[r].op \notin SessionOps
      PROVE  Moves(r)
  <2>1. CASE req[r].idem # ""
    BY <1>1, <1>5, <2>1 DEF AfterCreate, RequestsKept
  <2>2. CASE req[r].idem = "" /\ req[r].value = "credits"
    BY <1>1, <1>5, <2>2 DEF AfterCreate, RequestsKept
  <2>3. CASE req[r].idem = "" /\ req[r].value # "credits"
    BY <1>3, <1>5, <2>3 DEF AfterCreate, Done
  <2> QED BY <2>1, <2>2, <2>3
<1>6. ASSUME AfterRemember(r), req[r].op \notin SessionOps
      PROVE  Moves(r)
  <2>1. CASE req[r].value = "credits"
    BY <1>1, <1>6, <2>1 DEF AfterRemember, RequestsKept
  <2>2. CASE req[r].value # "credits"
    BY <1>3, <1>6, <2>2 DEF AfterRemember, Done
  <2> QED BY <2>1, <2>2
<1>7. CASE ImportOneUser(r)
  <2>1. PICK name : req' = [req EXCEPT ![r] = IF @.todo = {name} THEN Idle
                                              ELSE [req[r] EXCEPT !.todo = @ \ {name}]]
    BY <1>7 DEF ImportOneUser
  <2>2. CASE req[r].todo = {name}
    BY <1>3, <1>7, <2>1, <2>2 DEF ImportOneUser, Done
  <2>3. CASE req[r].todo # {name}
    <3>1. req' = [req EXCEPT ![r] = [req[r] EXCEPT !.todo = @ \ {name}]]
      BY <2>1, <2>3
    <3> QED BY <1>1, <1>7, <3>1 DEF ImportOneUser, RequestsKept
  <2> QED BY <2>2, <2>3
<1>8. CASE GrantOneUser(r)
  <2>1. PICK u : req' = [req EXCEPT ![r] = IF @.todo = {u} THEN Idle
                                           ELSE [req[r] EXCEPT !.todo = @ \ {u}]]
    BY <1>8 DEF GrantOneUser
  <2>2. CASE req[r].todo = {u}
    BY <1>3, <1>8, <2>1, <2>2 DEF GrantOneUser, Done
  <2>3. CASE req[r].todo # {u}
    <3>1. req' = [req EXCEPT ![r] = [req[r] EXCEPT !.todo = @ \ {u}]]
      BY <2>1, <2>3
    <3> QED BY <1>1, <1>8, <3>1 DEF GrantOneUser, RequestsKept
  <2> QED BY <2>2, <2>3
<1>9. CASE SetOneUserStatus(r)
  <2>1. PICK u :
          LET rest == [req[r] EXCEPT !.todo = @ \ {u}]
          IN  req' = [req EXCEPT ![r] =
                IF /\ CanManage(req[r].by, req[r].scope, u) /\ user[u].status # req[r].value
                   /\ ~(u = req[r].actor /\ req[r].value = "disabled")
                THEN [rest EXCEPT !.target = u]
                ELSE IF rest.todo = {} THEN Idle ELSE rest]
    BY <1>9 DEF SetOneUserStatus
  <2> DEFINE rest == [req[r] EXCEPT !.todo = @ \ {u}]
  <2>2. rest.op = req[r].op /\ [rest EXCEPT !.target = u].op = req[r].op
    BY <1>1
  <2> HIDE DEF rest
  <2>3. req' = [req EXCEPT ![r] = [rest EXCEPT !.target = u]] \/ Done(r)
        \/ req' = [req EXCEPT ![r] = rest]
    BY <2>1 DEF Done, rest
  <2> QED BY <1>3, <1>4, <1>9, <2>2, <2>3 DEF SetOneUserStatus
<1>10. CASE WriteOneStatus(r)
  <2>1. CASE req[r].todo = {}
    BY <1>3, <1>10, <2>1 DEF WriteOneStatus, Done
  <2>2. CASE req[r].todo # {}
    BY <1>1, <1>10, <2>2 DEF WriteOneStatus, RequestsKept
  <2> QED BY <2>1, <2>2
<1>11. CASE WriteKeyUpdate(r)
  <2>1. CASE Done(r)
    BY <1>3, <1>11, <2>1 DEF WriteKeyUpdate
  <2>2. CASE ~Done(r)
    BY <1>1, <1>11, <2>2 DEF WriteKeyUpdate, Done, RequestsKept
  <2> QED BY <2>1, <2>2
<1>12. CASE Remember(r) \/ RecordFails(r)
  BY <1>6, <1>12 DEF Remember, RecordFails
<1>13. CASE WriteUser(r) \/ WriteDepartment(r) \/ WriteKey(r)
  BY <1>3, <1>5, <1>13 DEF WriteUser, WriteDepartment, WriteKey
<1>14. CASE Grant(r) \/ AssignMembers(r) \/ WriteUpdate(r) \/ WriteStatus(r) \/ WriteDelete(r)
  BY <1>3, <1>14 DEF Grant, AssignMembers, WriteUpdate, WriteStatus, WriteDelete
<1>15. CASE WriteDeptUpdate(r) \/ WriteDeptDelete(r) \/ WriteIntegration(r) \/ WriteToken(r)
               \/ WriteTokenStatus(r) \/ WriteDisable(r)
  BY <1>3, <1>15
  DEF WriteDeptUpdate, WriteDeptDelete, WriteIntegration, WriteToken, WriteTokenStatus,
      WriteDisable
<1>16. CASE RestoreDepleted(r) \/ WriteKeyDelete(r) \/ WriteProject(r) \/ WriteProjectDelete(r)
  BY <1>3, <1>16 DEF RestoreDepleted, WriteKeyDelete, WriteProject, WriteProjectDelete
<1> QED
  BY <1>7, <1>8, <1>9, <1>10, <1>11, <1>12, <1>13, <1>14, <1>15, <1>16
  DEF DirectoryWrite, DeleteWithKeys, KeyWrite

SessionTypes ==
    /\ DOMAIN password = UserIds /\ DOMAIN session = Browsers /\ DOMAIN signin = Browsers
    /\ \A b \in Browsers :
          /\ session[b].user \in UserIds \cup {0} /\ signin[b].user \in UserIds \cup {0}
          /\ DOMAIN signin[b] = DOMAIN NoSignin
    /\ \A r \in Requests : req[r].op \in SessionOps => req[r].target \in UserIds

SessionInv == SessionTypes /\ SessionsKnowPassword

LoginKept == password' = password /\ session' = session /\ signin' = signin /\ excused' = excused

LEMMA SessionsStay ==
    ASSUME SessionInv, LoginKept, NEW r \in Requests, RequestsKept(r), req[r].op # "destroy",
           req'[r].op \in SessionOps => req'[r].target \in UserIds
    PROVE  SessionInv'
<1>1. SessionTypes'
  BY DEF SessionInv, SessionTypes, LoginKept, RequestsKept
<1>2. SessionsKnowPassword'
  BY DEF SessionInv, SessionsKnowPassword, LoginKept, RequestsKept, At
<1> QED BY <1>1, <1>2 DEF SessionInv

\* A session that is new, or of which nobody says that it is known to be older.
LEMMA SessionChanges ==
    ASSUME SessionInv, NEW b \in Browsers, NEW u \in UserIds, NEW secret, Commit(b, u, secret),
           password' = password, DOMAIN signin' = Browsers,
           \A c \in Browsers : /\ signin'[c].user \in UserIds \cup {0}
                               /\ DOMAIN signin'[c] = DOMAIN NoSignin,
           \A r \in Requests : /\ req[r].op = "destroy" => req'[r] = req[r]
                               /\ req'[r].op \in SessionOps => req'[r].target \in UserIds
    PROVE  SessionInv'
<1>1. /\ session' = [session EXCEPT ![b] = [user |-> u, secret |-> secret]]
      /\ excused' = IF secret = password[u] THEN excused \ {b} ELSE excused \cup {b}
  BY DEF Commit
<1>2. SessionTypes'
  BY <1>1 DEF SessionInv, SessionTypes
<1>3. SessionsKnowPassword'
  BY <1>1 DEF SessionInv, SessionTypes, SessionsKnowPassword, At
<1> QED BY <1>2, <1>3 DEF SessionInv

-----------------------------------------------------------------------------
(* Requests begin *)

\* A request of a, with what its handler has found.
Begun(r, a) ==
    /\ RequestsKept(r) /\ req[r] = Idle
    /\ req'[r].scope = ScopeOf(a)
    /\ UNCHANGED <<tables, record, revived, lateTokens>>

LEMMA BeginBegins ==
    ASSUME RootInv, NEW r \in Requests, NEW a \in UserIds, NEW min, NEW x, Begin(r, a, min, x),
           DOMAIN x = DOMAIN Idle
    PROVE  /\ Begun(r, a) /\ req'[r].op = x.op /\ req'[r].target = x.target
           /\ req'[r].value = x.value /\ req'[r].ref = x.ref /\ req'[r].idem = x.idem
<1> DEFINE y == [x EXCEPT !.actor = a, !.by = user[a].role, !.scope = ScopeOf(a)]
<1>1. /\ y.op = x.op /\ y.target = x.target /\ y.value = x.value /\ y.ref = x.ref
      /\ y.idem = x.idem /\ y.scope = ScopeOf(a)
  BY IdleFields
<1>2. req' = [req EXCEPT ![r] = y] /\ req[r] = Idle
      /\ UNCHANGED <<tables, record, revived, lateTokens>>
  BY DEF Begin, Free
<1> HIDE DEF y
<1>3. req'[r] = y /\ RequestsKept(r)
  BY <1>2 DEF RequestsKept, RootInv, TablesOK
<1> QED BY <1>1, <1>2, <1>3 DEF Begun

DirectoryOps == {"create_user", "import", "update_user", "status", "batch", "grant_batch",
                 "delete_user", "create_dept", "update_dept", "delete_dept", "members",
                 "create_integration", "create_token", "token_status", "disable"}

\* What they name when they begin.
MayAsk(x) ==
    /\ x.op \in DirectoryOps
    /\ x.op \in {"create_user", "import", "members"} => x.ref \in DeptIds \cup {0}
    /\ x.op = "update_user" => x.ref \in DeptIds \cup {0, -1}
    /\ x.op = "update_dept" => x.ref \in UserIds \cup {0} /\ x.value \in Status
    /\ x.op = "create_token" => x.target \in IntegrationIds

LEMMA DirectoryBegin ==
    ASSUME RootInv, NEW r \in Requests, NEW a \in UserIds, NEW min, NEW x, Begin(r, a, min, x),
           DOMAIN x = DOMAIN Idle, MayAsk(x)
    PROVE  Begun(r, a) /\ MayAsk(req'[r])
<1>1. /\ Begun(r, a) /\ req'[r].op = x.op /\ req'[r].target = x.target
      /\ req'[r].value = x.value /\ req'[r].ref = x.ref
  BY BeginBegins
<1> DEFINE y == req'[r]
<1>2. MayAsk(y)
  <2> HIDE DEF y
  <2>1. y.op = x.op /\ y.target = x.target /\ y.value = x.value /\ y.ref = x.ref
    BY <1>1 DEF y
  <2> QED BY <2>1, Zenon DEF MayAsk
<1> QED BY <1>1, <1>2

LEMMA DirectoryBegins ==
    ASSUME RootInv, NEW r \in Requests, NEW a \in UserIds,
           UserRequest(r, a) \/ DepartmentRequest(r, a) \/ IntegrationRequest(r, a)
    PROVE  Begun(r, a) /\ MayAsk(req'[r])
<1> USE IdleFields, DirectoryBegin DEF DirectoryOps, MayAsk
<1>1. ASSUME NEW name, NEW role, NEW d \in DeptIds \cup {0}, NEW credits, NEW idem,
             CreateUser(r, a, name, role, d, credits, idem)
     PROVE  Begun(r, a) /\ MayAsk(req'[r])
  BY <1>1 DEF CreateUser, Idle
<1>2. ASSUME NEW names, NEW d \in DeptIds \cup {0}, ImportUsers(r, a, names, d)
     PROVE  Begun(r, a) /\ MayAsk(req'[r])
  BY <1>2 DEF ImportUsers, Idle
<1>3. ASSUME NEW u, NEW role, NEW d \in DeptIds \cup {0, -1}, UpdateUser(r, a, u, role, d)
     PROVE  Begun(r, a) /\ MayAsk(req'[r])
  <2> DEFINE x == [Idle EXCEPT !.op = "update_user", !.target = u, !.role = role, !.ref = d]
  <2>1. x.op = "update_user" /\ x.ref = d /\ DOMAIN x = DOMAIN Idle
    BY DEF Idle
  <2>2. Begin(r, a, "managed", x)
    BY <1>3 DEF UpdateUser
  <2> HIDE DEF x
  <2> QED BY <2>1, <2>2
<1>4. ASSUME NEW u, NEW s, SetUserStatus(r, a, u, s)
     PROVE  Begun(r, a) /\ MayAsk(req'[r])
  BY <1>4 DEF SetUserStatus, Idle
<1>5. ASSUME NEW ids, NEW s, BatchSetStatus(r, a, ids, s)
     PROVE  Begun(r, a) /\ MayAsk(req'[r])
  BY <1>5 DEF BatchSetStatus, Idle
<1>6. ASSUME NEW d, NEW s, BatchSetDepartment(r, a, d, s)
     PROVE  Begun(r, a) /\ MayAsk(req'[r])
  BY <1>6 DEF BatchSetDepartment, Idle
<1>7. ASSUME NEW u, DeleteUser(r, a, u)
     PROVE  Begun(r, a) /\ MayAsk(req'[r])
  BY <1>7 DEF DeleteUser, Idle
<1>8. ASSUME NEW ids, BatchGrant(r, a, ids)
     PROVE  Begun(r, a) /\ MayAsk(req'[r])
  BY <1>8 DEF BatchGrant, Idle
<1>9. ASSUME NEW d, BatchGrantDepartment(r, a, d)
     PROVE  Begun(r, a) /\ MayAsk(req'[r])
  BY <1>9 DEF BatchGrantDepartment, Idle
<1>10. ASSUME NEW idem, CreateDepartment(r, a, idem)
      PROVE  Begun(r, a) /\ MayAsk(req'[r])
  BY <1>10 DEF CreateDepartment, Idle
<1>11. ASSUME NEW d, NEW s \in Status, NEW owner \in UserIds \cup {0},
             UpdateDepartment(r, a, d, s, owner)
      PROVE  Begun(r, a) /\ MayAsk(req'[r])
  BY <1>11 DEF UpdateDepartment, Idle
<1>12. ASSUME NEW d, DeleteDepartment(r, a, d)
      PROVE  Begun(r, a) /\ MayAsk(req'[r])
  BY <1>12 DEF DeleteDepartment, Idle
<1>13. ASSUME NEW d \in DeptIds, NEW ids, NEW remove \in BOOLEAN,
             SetDepartmentMembers(r, a, d, ids, remove)
      PROVE  Begun(r, a) /\ MayAsk(req'[r])
  BY <1>13 DEF SetDepartmentMembers, Idle
<1>14. ASSUME NEW name, CreateIntegration(r, a, name)
      PROVE  Begun(r, a) /\ MayAsk(req'[r])
  BY <1>14 DEF CreateIntegration, Idle
<1>15. ASSUME NEW i \in IntegrationIds, CreateServiceToken(r, a, i)
      PROVE  Begun(r, a) /\ MayAsk(req'[r])
  BY <1>15 DEF CreateServiceToken, Idle
<1>16. ASSUME NEW i, DisableIntegration(r, a, i)
      PROVE  Begun(r, a) /\ MayAsk(req'[r])
  BY <1>16 DEF DisableIntegration, Idle
<1>17. ASSUME NEW t, NEW s, SetServiceTokenStatus(r, a, t, s)
      PROVE  Begun(r, a) /\ MayAsk(req'[r])
  BY <1>17 DEF SetServiceTokenStatus, Idle
<1> QED
  BY <1>1, <1>2, <1>3, <1>4, <1>5, <1>6, <1>7, <1>8, <1>9, <1>10, <1>11, <1>12, <1>13, <1>14,
     <1>15, <1>16, <1>17 DEF UserRequest, DepartmentRequest, IntegrationRequest

\* What handlers of keys and passwords have seen when they begin.
MayBegin(x) ==
    \/ /\ x.op = "create_key"
       /\ x.target \in UserIds /\ Live(user[x.target]) /\ QuotaLeft(x.target)
       /\ x.ref \in ProjectIds \cup {0} /\ ProjectFits(x.ref, x.target)
    \/ /\ x.op = "update_key" /\ x.value \in Status \cup {""}
       /\ x.target \in KeyIds /\ Live(key[x.target]) /\ x.ref \in ProjectIds \cup {0, -1}
       /\ x.ref # -1 => ProjectFits(x.ref, key[x.target].owner)
    \/ x.op \in {"delete_key", "create_project", "delete_project"}
    \/ x.op = "password" /\ x.target \in UserIds

LEMMA KeyBegin ==
    ASSUME RootInv, NEW r \in Requests, NEW a \in UserIds, NEW min, NEW x, Begin(r, a, min, x),
           DOMAIN x = DOMAIN Idle, MayBegin(x)
    PROVE  Begun(r, a) /\ MayBegin(req'[r])
<1>1. /\ Begun(r, a) /\ req'[r].op = x.op /\ req'[r].target = x.target
      /\ req'[r].value = x.value /\ req'[r].ref = x.ref
  BY BeginBegins
<1> DEFINE y == req'[r]
<1>2. MayBegin(y)
  <2> HIDE DEF y
  <2>1. y.op = x.op /\ y.target = x.target /\ y.value = x.value /\ y.ref = x.ref
    BY <1>1 DEF y
  <2> QED BY <2>1, Zenon DEF MayBegin
<1> QED BY <1>1, <1>2

LEMMA KeysBegin ==
    ASSUME RootInv, NEW r \in Requests, NEW a \in UserIds, KeyRequest(r, a) \/ LoginRequest(r, a)
    PROVE  Begun(r, a) /\ MayBegin(req'[r])
<1> USE IdleFields, KeyBegin
<1>1. ASSUME NEW u \in UserIds, NEW p \in ProjectIds \cup {0}, NEW idem,
             IssueKey(r, a, u, p, idem)
     PROVE  Begun(r, a) /\ MayBegin(req'[r])
  BY <1>1 DEF IssueKey, CanManage, Idle, MayBegin
<1>2. ASSUME NEW p \in ProjectIds \cup {0}, CreateOwnKey(r, a, p)
     PROVE  Begun(r, a) /\ MayBegin(req'[r])
  <2>1. Live(user[a])
    BY <1>2 DEF CreateOwnKey, Begin, Authenticated, Live
  <2> QED BY <1>2, <2>1 DEF CreateOwnKey, Idle, MayBegin
<1>3. ASSUME NEW k, DeleteKey(r, a, k)
     PROVE  Begun(r, a) /\ MayBegin(req'[r])
  BY <1>3 DEF DeleteKey, Idle, MayBegin
<1>4. ASSUME NEW k \in KeyIds, NEW s \in Status \cup {""}, NEW p \in ProjectIds \cup {0, -1},
             NEW limit,
             UpdateKey(r, a, k, s, p, limit)
     PROVE  Begun(r, a) /\ MayBegin(req'[r])
  <2> DEFINE x == [Idle EXCEPT !.op = "update_key", !.target = k, !.value = s, !.ref = p,
                               !.todo = limit]
  <2>1. /\ x.op = "update_key" /\ x.target = k /\ x.value = s /\ x.ref = p
        /\ DOMAIN x = DOMAIN Idle
    BY DEF Idle
  <2>2. Begin(r, a, "user", x)
    BY <1>4 DEF UpdateKey
  <2>3. Live(key[k]) /\ (p # -1 => ProjectFits(p, key[k].owner))
    BY <1>4 DEF UpdateKey, MayChange
  <2> HIDE DEF x
  <2>4. MayBegin(x)
    BY <2>1, <2>3, Zenon DEF MayBegin
  <2> QED BY <2>1, <2>2, <2>4
<1>5. ASSUME CreateProject(r, a)
     PROVE  Begun(r, a) /\ MayBegin(req'[r])
  BY <1>5 DEF CreateProject, Idle, MayBegin
<1>6. ASSUME NEW p, DeleteProject(r, a, p)
     PROVE  Begun(r, a) /\ MayBegin(req'[r])
  BY <1>6 DEF DeleteProject, Idle, MayBegin
<1>7. ASSUME NEW b \in Browsers, ChangePassword(r, a, b)
     PROVE  Begun(r, a) /\ MayBegin(req'[r])
  BY <1>7 DEF ChangePassword, Idle, MayBegin
<1>8. ASSUME NEW u \in UserIds, NEW b \in Browsers, ResetPassword(r, a, u, b)
     PROVE  Begun(r, a) /\ MayBegin(req'[r])
  BY <1>8 DEF ResetPassword, Idle, MayBegin
<1> QED
  BY <1>1, <1>2, <1>3, <1>4, <1>5, <1>6, <1>7, <1>8 DEF KeyRequest, LoginRequest

LEMMA SessionBegin ==
    ASSUME RootInv, SessionInv, LoginKept, NEW r \in Requests, NEW a \in UserIds,
           \/ UserRequest(r, a) \/ DepartmentRequest(r, a) \/ IntegrationRequest(r, a)
           \/ KeyRequest(r, a) \/ LoginRequest(r, a)
    PROVE  SessionInv'
<1>1. RequestsKept(r) /\ req[r] = Idle
  BY DirectoryBegins, KeysBegin DEF Begun
<1>2. req[r].op # "destroy"
  <2>1. Idle.op = "idle"
    BY DEF Idle
  <2> QED BY <1>1, <2>1
<1>3. req'[r].op \in SessionOps => req'[r].target \in UserIds
  BY DirectoryBegins, KeysBegin DEF DirectoryOps, MayAsk, MayBegin, SessionOps
<1> QED BY <1>1, <1>2, <1>3, SessionsStay

-----------------------------------------------------------------------------
(* Passwords change, browsers sign in *)

LEMMA SigninFields ==
    /\ DOMAIN NoSignin = {"stage", "user", "secret", "enabled"} /\ NoSignin.user = 0
<1>1. NoSignin.user = 0
  BY Zenon DEF NoSignin
<1>2. DOMAIN NoSignin = {"stage", "user", "secret", "enabled"}
  BY DEF NoSignin
<1> QED BY <1>1, <1>2

LEMMA DestroyDone ==
    ASSUME RootInv, NEW r \in Requests, Done(r)
    PROVE  RequestsKept(r) /\ req'[r].op = "idle"
<1>1. Idle.op = "idle"
  BY DEF Idle
<1> QED BY <1>1 DEF Done, RequestsKept, RootInv, TablesOK

LEMMA WritePasswordStep ==
    ASSUME RootInv, SessionInv, NEW r \in Requests, WritePassword(r) PROVE SessionInv'
<1>1. CASE Done(r) /\ UNCHANGED password
  <2>1. LoginKept /\ req[r].op # "destroy"
    BY <1>1 DEF WritePassword, LoginKept, At
  <2> QED BY <1>1, <2>1, DestroyDone, SessionsStay DEF SessionOps
<1>2. CASE ~(Done(r) /\ UNCHANGED password)
  <2> DEFINE u == req[r].target
  <2>1. /\ req[r].op = "password" /\ session' = session /\ signin' = signin /\ excused' = excused
        /\ password' = [password EXCEPT ![u] = @ + 1]
        /\ req' = [req EXCEPT ![r].op = "destroy", ![r].ref = password[u] + 1]
    BY <1>2 DEF WritePassword, At
  <2>2. u \in UserIds
    BY <2>1 DEF SessionInv, SessionTypes, SessionOps
  <2>3. RequestsKept(r) /\ req'[r].op = "destroy" /\ req'[r].target = u
    BY <2>1, IdleFields DEF RequestsKept, RootInv, TablesOK, RequestOK
  <2>4. \A v \in UserIds \ {u} : password'[v] = password[v]
    BY <2>1, <2>2
  <2> HIDE DEF u
  <2>5. SessionTypes'
    BY <2>1, <2>2, <2>3 DEF SessionInv, SessionTypes, RequestsKept
  <2>6. SessionsKnowPassword'
    BY <2>1, <2>2, <2>3, <2>4
    DEF SessionInv, SessionTypes, SessionsKnowPassword, RequestsKept, At
  <2> QED BY <2>5, <2>6 DEF SessionInv
<1> QED BY <1>1, <1>2

LEMMA DestroyStep ==
    ASSUME RootInv, SessionInv, NEW r \in Requests, DestroyUserSessions(r) PROVE SessionInv'
<1> DEFINE u == req[r].target
<1>1. PICK ended \in SUBSET DestroyedSessions(r) :
        /\ session' = [b \in Browsers |-> IF b \in ended THEN NoSession ELSE session[b]]
        /\ excused' = (excused \ ended) \cup (DestroyedSessions(r) \ ended)
  BY DEF DestroyUserSessions
<1>2. /\ DestroyedSessions(r) = {b \in Browsers : session[b].user = u}
      /\ password' = password /\ signin' = signin /\ req[r].op = "destroy"
  BY DEF DestroyUserSessions, DestroyedSessions, SessionsOf, At
<1>3. u \in UserIds
  BY <1>2 DEF SessionInv, SessionTypes, SessionOps
<1>4. /\ RequestsKept(r) /\ req'[r].op \in {"idle", "renew"}
      /\ req'[r].op = "renew" => req'[r].target = u
  <2>1. CASE Done(r)
    BY <2>1, DestroyDone
  <2>2. CASE ~Done(r)
    <3>1. req' = [req EXCEPT ![r].op = "renew"]
      BY <2>2 DEF DestroyUserSessions
    <3> QED BY <3>1, IdleFields DEF RequestsKept, RootInv, TablesOK, RequestOK
  <2> QED BY <2>1, <2>2
<1>5. NoSession.user = 0
  BY DEF NoSession
<1> HIDE DEF u
<1>6. SessionTypes'
  <2>1. DOMAIN session' = Browsers /\ \A b \in Browsers : session'[b].user \in UserIds \cup {0}
    BY <1>1, <1>5 DEF SessionInv, SessionTypes
  <2>2. \A s \in Requests : req'[s].op \in SessionOps => req'[s].target \in UserIds
    BY <1>3, <1>4 DEF SessionInv, SessionTypes, RequestsKept, SessionOps
  <2> QED BY <1>2, <2>1, <2>2 DEF SessionInv, SessionTypes
<1>7. SessionsKnowPassword'
  BY <1>1, <1>2, <1>4, <1>5, <1>3
  DEF SessionInv, SessionTypes, SessionsKnowPassword, RequestsKept, At, u
<1> QED BY <1>6, <1>7 DEF SessionInv

LEMMA RenewStep ==
    ASSUME RootInv, SessionInv, NEW r \in Requests, RenewSession(r) PROVE SessionInv'
<1>1. /\ req[r].op = "renew" /\ password' = password /\ signin' = signin
      /\ RequestsKept(r) /\ req'[r].op = "idle"
  BY DestroyDone DEF RenewSession, At
<1>2. CASE UNCHANGED <<session, excused>>
  BY <1>1, <1>2, SessionsStay DEF LoginKept, SessionOps
<1>3. CASE \E b \in req[r].todo : Commit(b, req[r].target, req[r].ref)
  <2>1. PICK b \in req[r].todo : Commit(b, req[r].target, req[r].ref)
    BY <1>3
  <2>2. req[r].target \in UserIds
    BY <1>1 DEF SessionInv, SessionTypes, SessionOps
  <2>3. CASE b \in Browsers
    <3>1. \A s \in Requests : /\ req[s].op = "destroy" => req'[s] = req[s]
                              /\ req'[s].op \in SessionOps => req'[s].target \in UserIds
      BY <1>1 DEF SessionInv, SessionTypes, RequestsKept, SessionOps
    <3> QED BY <1>1, <2>1, <2>2, <2>3, <3>1, SessionChanges DEF SessionInv, SessionTypes
  <2>4. CASE b \notin Browsers
    <3>1. /\ DOMAIN session' = Browsers
          /\ \A c \in Browsers : session'[c] = session[c] /\ (c \in excused => c \in excused')
      BY <2>1, <2>4 DEF Commit, SessionInv, SessionTypes
    <3>2. SessionTypes'
      BY <1>1, <3>1 DEF SessionInv, SessionTypes, RequestsKept, SessionOps
    <3>3. SessionsKnowPassword'
      BY <1>1, <3>1 DEF SessionInv, SessionsKnowPassword, RequestsKept, At
    <3> QED BY <3>2, <3>3 DEF SessionInv
  <2> QED BY <2>3, <2>4
<1> QED BY <1>2, <1>3 DEF RenewSession

LEMMA SessionLoginStep ==
    ASSUME SessionInv, NEW b \in Browsers, LoginStep(b) PROVE SessionInv'
<1>1. UNCHANGED <<req, password>>
  BY DEF LoginStep, BeginLogin, CheckPassword, RefuseLogin, AcceptLogin, Logout, directoryVars
<1>2. /\ DOMAIN signin' = Browsers
      /\ \A c \in Browsers : /\ signin'[c].user \in UserIds \cup {0}
                             /\ DOMAIN signin'[c] = DOMAIN NoSignin
  <2>1. ASSUME NEW u \in UserIds, NEW right, BeginLogin(b, u, right)
        PROVE  /\ DOMAIN signin' = Browsers
               /\ \A c \in Browsers : /\ signin'[c].user \in UserIds \cup {0}
                                      /\ DOMAIN signin'[c] = DOMAIN NoSignin
    <3> DEFINE x == [stage |-> "begun", user |-> u, enabled |-> FALSE,
                     secret |-> IF right THEN password[u] ELSE -1]
    <3>1. signin' = [signin EXCEPT ![b] = x]
      BY <2>1 DEF BeginLogin
    <3>2. x.user = u /\ DOMAIN x = DOMAIN NoSignin
      BY SigninFields
    <3> HIDE DEF x
    <3> QED BY <3>1, <3>2 DEF SessionInv, SessionTypes
  <2>2. CASE CheckPassword(b)
    BY <2>2, SigninFields DEF CheckPassword, SessionInv, SessionTypes
  <2>3. CASE RefuseLogin(b) \/ AcceptLogin(b)
    BY <2>3, SigninFields DEF RefuseLogin, AcceptLogin, SessionInv, SessionTypes
  <2>4. CASE Logout(b)
    BY <2>4 DEF Logout, SessionInv, SessionTypes
  <2> QED BY <2>1, <2>2, <2>3, <2>4 DEF LoginStep
<1>3. CASE UNCHANGED <<session, excused>>
  <2>1. SessionTypes'
    BY <1>1, <1>2, <1>3 DEF SessionInv, SessionTypes
  <2>2. SessionsKnowPassword'
    BY <1>1, <1>3 DEF SessionInv, SessionsKnowPassword, At
  <2> QED BY <2>1, <2>2 DEF SessionInv
<1>4. CASE AcceptLogin(b)
  <2>1. CASE UNCHANGED <<session, excused>>
    BY <1>3, <2>1
  <2>2. CASE ~UNCHANGED <<session, excused>>
    <3>1. Commit(b, signin[b].user, signin[b].secret)
      BY <1>4, <2>2 DEF AcceptLogin
    <3>2. CASE signin[b].user \in UserIds
      <4>1. \A s \in Requests : /\ req[s].op = "destroy" => req'[s] = req[s]
                                /\ req'[s].op \in SessionOps => req'[s].target \in UserIds
        BY <1>1 DEF SessionInv, SessionTypes
      <4> QED BY <1>1, <1>2, <3>1, <3>2, <4>1, SessionChanges
    <3>3. CASE signin[b].user = 0
      <4>1. /\ session' = [session EXCEPT ![b] = [user |-> 0, secret |-> signin[b].secret]]
            /\ \A c \in Browsers \ {b} : c \in excused => c \in excused'
        BY <3>1, <3>3 DEF Commit
      <4>2. SessionTypes'
        BY <1>1, <1>2, <4>1 DEF SessionInv, SessionTypes
      <4>3. SessionsKnowPassword'
        BY <1>1, <4>1 DEF SessionInv, SessionTypes, SessionsKnowPassword, At
      <4> QED BY <4>2, <4>3 DEF SessionInv
    <3> QED BY <3>2, <3>3 DEF SessionInv, SessionTypes
  <2> QED BY <2>1, <2>2
<1>5. CASE Logout(b)
  <2>1. /\ session' = [session EXCEPT ![b] = NoSession]
        /\ \A c \in Browsers \ {b} : c \in excused => c \in excused'
    BY <1>5 DEF Logout
  <2>2. NoSession.user = 0
    BY DEF NoSession
  <2>3. SessionTypes'
    BY <1>1, <1>2, <2>1, <2>2 DEF SessionInv, SessionTypes
  <2>4. SessionsKnowPassword'
    BY <1>1, <2>1, <2>2 DEF SessionInv, SessionTypes, SessionsKnowPassword, At
  <2> QED BY <2>3, <2>4 DEF SessionInv
<1> QED
  BY <1>3, <1>4, <1>5 DEF LoginStep, BeginLogin, CheckPassword, RefuseLogin

LEMMA SessionCrash ==
    ASSUME RootInv, SessionInv, Crash PROVE SessionInv'
<1>1. /\ password' = password /\ session' = session /\ signin' = [b \in Browsers |-> NoSignin]
      /\ excused' = excused \cup {b \in Browsers : \E r \in Requests :
                                    At(r, "destroy") /\ req[r].target = session[b].user}
      /\ req' = [r \in Requests |-> Idle]
  BY DEF Crash, LoginLost
<1>2. \A r \in Requests : req'[r].op = "idle"
  <2>1. Idle.op = "idle"
    BY DEF Idle
  <2> QED BY <1>1, <2>1
<1>3. SessionTypes'
  BY <1>1, <1>2, SigninFields DEF SessionInv, SessionTypes, SessionOps
<1>4. SessionsKnowPassword'
  BY <1>1, <1>2 DEF SessionInv, SessionsKnowPassword, At
<1> QED BY <1>3, <1>4 DEF SessionInv

LEMMA SessionElsewhere ==
    ASSUME SessionInv, LoginKept, UNCHANGED req PROVE SessionInv'
<1>1. SessionTypes'
  BY DEF SessionInv, SessionTypes, LoginKept
<1>2. SessionsKnowPassword'
  BY DEF SessionInv, SessionsKnowPassword, LoginKept, At
<1> QED BY <1>1, <1>2 DEF SessionInv

LEMMA InitSession == Init => SessionInv
<1> SUFFICES ASSUME Init PROVE SessionInv
  OBVIOUS
<1>1. /\ password = [u \in UserIds |-> 0] /\ session = [b \in Browsers |-> NoSession]
      /\ signin = [b \in Browsers |-> NoSignin] /\ req = [r \in Requests |-> Idle]
  BY DEF Init, LoginInit
<1>2. Idle.op = "idle" /\ NoSession.user = 0
  BY DEF Idle, NoSession
<1>3. SessionTypes
  BY <1>1, <1>2, SigninFields DEF SessionTypes, SessionOps
<1>4. SessionsKnowPassword
  BY <1>1, <1>2 DEF SessionsKnowPassword
<1> QED BY <1>3, <1>4 DEF SessionInv

LEMMA NextSession ==
    ASSUME RootInv, SessionInv, [Next]_vars PROVE SessionInv'
<1>1. ASSUME NEW r \in Requests, NEW a \in UserIds, LoginRequest(r, a)
      PROVE  LoginKept
  BY <1>1 DEF LoginRequest, ChangePassword, ResetPassword, loginVars, LoginKept
<1>2. ASSUME NEW r \in Requests, DirectoryWrite(r) \/ DeleteWithKeys(r) \/ KeyWrite(r), LoginKept
      PROVE  SessionInv'
  BY <1>2, OtherMoves, SessionsStay DEF Moves, LaterOps, SessionOps
<1>3. ASSUME NEW r \in Requests, SettingStep(r) PROVE UNCHANGED req
  BY <1>3 DEF SettingStep, Get, ReadRow, ReadFails, Put, Save, SaveFails, Invalidate, directoryVars
<1>4. ASSUME NEW q \in Relays, RelayStep(q) PROVE UNCHANGED req
  BY <1>4 DEF RelayStep, PrechargeKey, RefuseRelay, AuthenticateKey, SettleKey, directoryVars
<1>5. Tick \/ UNCHANGED vars => UNCHANGED req
  BY DEF Tick, vars, directoryVars
<1>6. UNCHANGED loginVars => LoginKept
  BY DEF loginVars, LoginKept
<1>7. Tick \/ UNCHANGED vars => LoginKept
  BY DEF Tick, vars, console, loginVars, LoginKept
<1>8. UNCHANGED console => LoginKept
  BY DEF console, loginVars, LoginKept
<1>9. ASSUME NEW r \in Requests, PasswordWrite(r) PROVE SessionInv'
  BY <1>9, WritePasswordStep, DestroyStep, RenewStep DEF PasswordWrite
<1> QED
  BY <1>1, <1>2, <1>3, <1>4, <1>5, <1>6, <1>7, <1>8, <1>9, SessionBegin, SessionLoginStep,
     SessionCrash, SessionElsewhere
  DEF Next

\* After a change of the password no session given for an older one is left,
\* however changes, logins, renewals and restarts overlap, but for those the
\* property excuses.
THEOREM PasswordsEndSessions == Spec => []SessionsKnowPassword
<1>1. SessionInv => SessionsKnowPassword
  BY DEF SessionInv
<1> QED
  BY <1>1, InitRoot, NextRoot, InitSession, NextSession, PTL DEF Spec

-----------------------------------------------------------------------------
(* Keys *)

KeyTable == DOMAIN key = KeyIds /\ \A k \in KeyIds : DOMAIN key[k] = DOMAIN NoKey

\* What the rows named by a request in progress range over.
WellAsked(x) ==
    /\ x.op \in {"create_user", "import", "members"} => x.ref \in DeptIds \cup {0}
    /\ x.op = "update_user" => x.ref \in DeptIds \cup {0, -1}
    /\ x.op = "update_dept" => x.ref \in UserIds \cup {0} /\ x.value \in Status
    /\ x.op = "create_token" => x.target \in IntegrationIds
    /\ x.op = "create_key" => x.target \in UserIds /\ x.ref \in ProjectIds \cup {0}
    /\ x.op = "update_key" => /\ x.target \in KeyIds /\ x.value \in Status \cup {""}
                              /\ x.ref \in ProjectIds \cup {0, -1}

Asked == \A r \in Requests : WellAsked(req[r])

KeyTableInv == KeyTable /\ Asked

LEMMA KeyFields ==
    DOMAIN NoKey = {"status", "owner", "project", "limit", "used", "idem"}
  BY DEF NoKey

\* What happens to the status of a key in a step that is no update of it.
StatusKept(k) ==
    \/ key'[k].status = key[k].status
    \/ key[k].status # "disabled"
    \/ key'[k].status = "deleted"

LEMMA KeyWriteStatus ==
    ASSUME RootInv, KeyTableInv, NEW r \in Requests, KeyWrite(r)
    PROVE  /\ KeyTable'
           /\ \A k \in KeyIds :
                 \/ StatusKept(k)
                 \/ req[r].op = "update_key" /\ req[r].target = k /\ req[r].value = "enabled"
<1> USE KeyFields DEF KeyTable, KeyTableInv
<1>1. CASE WriteKey(r)
  <2>1. CASE UNCHANGED key
    BY <2>1 DEF StatusKept
  <2>2. CASE ~UNCHANGED key
    <3> DEFINE row == [status |-> "enabled", owner |-> req[r].target, project |-> req[r].ref,
                       limit |-> NoLimit, used |-> 0, idem |-> <<req[r].idem, req[r].scope>>]
    <3>1. PICK l \in Fresh(key) : key' = [key EXCEPT ![l] = row]
      BY <1>1, <2>2 DEF WriteKey
    <3>2. DOMAIN row = DOMAIN NoKey
      OBVIOUS
    <3> HIDE DEF row
    <3> QED BY <3>1, <3>2 DEF StatusKept, Fresh
  <2> QED BY <2>1, <2>2
<1>2. CASE WriteKeyUpdate(r)
  <2> DEFINE l == req[r].target
  <2>1. CASE UNCHANGED key
    BY <2>1 DEF StatusKept
  <2>2. CASE ~UNCHANGED key
    <3> DEFINE row == [key[l] EXCEPT
                          !.status = IF req[r].value = "" THEN @ ELSE req[r].value,
                          !.project = IF req[r].ref = -1 THEN @ ELSE req[r].ref,
                          !.limit = IF req[r].todo = {} THEN @ ELSE CHOOSE x \in req[r].todo : TRUE]
    <3>1. key' = [key EXCEPT ![l] = row] /\ req[r].op = "update_key"
      BY <1>2, <2>2 DEF WriteKeyUpdate, At
    <3>2. l \in KeyIds => /\ DOMAIN row = DOMAIN NoKey
                          /\ row.status = key[l].status \/ row.status = req[r].value
                          /\ req[r].value = "" => row.status = key[l].status
      OBVIOUS
    <3>3. req[r].value \in Status \cup {""}
      <4>1. WellAsked(req[r])
        BY DEF Asked
      <4> QED BY <3>1, <4>1, Zenon DEF WellAsked
    <3> HIDE DEF row, l
    <3>4. KeyTable'
      BY <3>1, <3>2
    <3>5. ASSUME NEW k \in KeyIds, k # l PROVE StatusKept(k)
      BY <3>1, <3>4, <3>5 DEF StatusKept
    <3>6. ASSUME NEW k \in KeyIds, k = l
          PROVE  StatusKept(k) \/ (req[r].target = k /\ req[r].value = "enabled")
      BY <3>1, <3>2, <3>3, <3>4, <3>6 DEF StatusKept, Status, l
    <3> QED BY <3>1, <3>4, <3>5, <3>6
  <2> QED BY <2>1, <2>2
<1>3. CASE RestoreDepleted(r)
  BY <1>3 DEF RestoreDepleted, StatusKept
<1>4. CASE WriteKeyDelete(r)
  BY <1>4 DEF WriteKeyDelete, StatusKept
<1>5. CASE WriteProjectDelete(r)
  <2>1. key' = [l \in KeyIds |-> IF key[l].project = req[r].target
                                 THEN [key[l] EXCEPT !.project = 0] ELSE key[l]]
    BY <1>5 DEF WriteProjectDelete
  <2> QED BY <2>1 DEF StatusKept
<1>6. CASE RecordFails(r) \/ WriteProject(r)
  BY <1>6 DEF RecordFails, WriteProject, StatusKept
<1> QED BY <1>1, <1>2, <1>3, <1>4, <1>5, <1>6 DEF KeyWrite

\* A precharge marks enabled keys only.
LEMMA RelayStatus ==
    ASSUME KeyTable, NEW q \in Relays, RelayStep(q)
    PROVE  KeyTable' /\ \A k \in KeyIds : StatusKept(k)
<1> USE KeyFields DEF KeyTable
<1>1. CASE UNCHANGED key
  BY <1>1 DEF StatusKept
<1>2. CASE PrechargeKey(q) /\ ~UNCHANGED key
  <2> DEFINE l == relay[q].key
  <2>1. \/ key' = [key EXCEPT ![l].used = @ + Hold]
        \/ key[l].status = "enabled" /\ key' = [key EXCEPT ![l].status = "depleted"]
    BY <1>2 DEF PrechargeKey, MarkDepleted
  <2> QED BY <2>1 DEF StatusKept
<1>3. CASE \E cost \in Costs : SettleKey(q, cost)
  <2>1. PICK cost \in Costs :
          key' = [key EXCEPT ![relay[q].key].used =
                      IF @ > Hold - cost THEN @ - (Hold - cost) ELSE 0]
    BY <1>3 DEF SettleKey
  <2> QED BY <2>1 DEF StatusKept
<1>4. CASE RefuseRelay(q) \/ \E l \in KeyIds : AuthenticateKey(q, l)
  BY <1>1, <1>4 DEF RefuseRelay, AuthenticateKey
<1> QED BY <1>1, <1>2, <1>3, <1>4 DEF RelayStep

LEMMA CascadeStatus ==
    ASSUME KeyTable, NEW r \in Requests, DeleteWithKeys(r)
    PROVE  KeyTable' /\ \A k \in KeyIds : StatusKept(k)
<1>1. key' = [l \in KeyIds |-> IF key[l].owner = req[r].target /\ ~Live(user'[req[r].target])
                               THEN [key[l] EXCEPT !.status = "deleted"] ELSE key[l]]
  BY DEF DeleteWithKeys, CascadeKeys
<1> QED BY <1>1, KeyFields DEF StatusKept, KeyTable

LEMMA InitKeyTable == Init => KeyTableInv
<1> SUFFICES ASSUME Init PROVE KeyTableInv
  OBVIOUS
<1>1. PICK s \in Scenarios : key = Rows(KeyIds, s.keys, NoKey)
  BY DEF Init
<1>2. \A k \in KeyIds : k \in DOMAIN s.keys => DOMAIN s.keys[k] = DOMAIN NoKey
  BY KeyFields, OrganizationAssumption DEF KeyRow
<1>3. KeyTable
  BY <1>1, <1>2 DEF KeyTable, Rows
<1>4. \A r \in Requests : req[r].op = "idle"
  <2>1. Idle.op = "idle"
    BY DEF Idle
  <2> QED BY <2>1 DEF Init
<1> QED BY <1>3, <1>4 DEF KeyTableInv, Asked, WellAsked

\* What may happen to the requests in one step.
Begins(r, a) == Begun(r, a) /\ (MayAsk(req'[r]) \/ MayBegin(req'[r]))
SessionMoves(r) ==
    RequestsKept(r) /\ req[r].op \in SessionOps /\ req'[r].op \in {"idle", "destroy", "renew"}

LEMMA PasswordMoves ==
    ASSUME RootInv, NEW r \in Requests, PasswordWrite(r) PROVE SessionMoves(r)
<1>1. CASE Done(r)
  BY <1>1, DestroyDone
  DEF PasswordWrite, WritePassword, DestroyUserSessions, RenewSession, SessionMoves, SessionOps, At
<1>2. CASE WritePassword(r) /\ ~Done(r)
  <2>1. /\ req' = [req EXCEPT ![r].op = "destroy", ![r].ref = password[req[r].target] + 1]
        /\ req[r].op = "password"
    BY <1>2 DEF WritePassword, At
  <2> QED
    BY <2>1, IdleFields DEF SessionMoves, SessionOps, RequestsKept, RootInv, TablesOK, RequestOK
<1>3. CASE DestroyUserSessions(r) /\ ~Done(r)
  <2>1. req' = [req EXCEPT ![r].op = "renew"] /\ req[r].op = "destroy"
    BY <1>3 DEF DestroyUserSessions, At
  <2> QED
    BY <2>1, IdleFields DEF SessionMoves, SessionOps, RequestsKept, RootInv, TablesOK, RequestOK
<1> QED BY <1>1, <1>2, <1>3 DEF PasswordWrite, RenewSession

LEMMA RequestsStep ==
    ASSUME RootInv, [Next]_vars
    PROVE  \/ UNCHANGED req
           \/ \A r \in Requests : req'[r] = Idle
           \/ \E r \in Requests, a \in UserIds : Begins(r, a)
           \/ \E r \in Requests : Moves(r) \/ SessionMoves(r)
<1> DEFINE Goal == \/ UNCHANGED req
                   \/ \A r \in Requests : req'[r] = Idle
                   \/ \E r \in Requests, a \in UserIds : Begins(r, a)
                   \/ \E r \in Requests : Moves(r) \/ SessionMoves(r)
<1>1. ASSUME NEW r \in Requests, NEW a \in UserIds,
             \/ UserRequest(r, a) \/ DepartmentRequest(r, a) \/ IntegrationRequest(r, a)
             \/ KeyRequest(r, a) \/ LoginRequest(r, a)
      PROVE  Goal
  BY <1>1, DirectoryBegins, KeysBegin DEF Begins
<1>2. ASSUME NEW r \in Requests, DirectoryWrite(r) \/ DeleteWithKeys(r) \/ KeyWrite(r) PROVE Goal
  BY <1>2, OtherMoves
<1>3. ASSUME NEW r \in Requests, PasswordWrite(r) PROVE Goal
  BY <1>3, PasswordMoves
<1>4. ASSUME NEW r \in Requests, SettingStep(r) PROVE Goal
  BY <1>4 DEF SettingStep, Get, ReadRow, ReadFails, Put, Save, SaveFails, Invalidate, directoryVars
<1>5. ASSUME NEW q \in Relays, RelayStep(q) PROVE Goal
  BY <1>5 DEF RelayStep, PrechargeKey, RefuseRelay, AuthenticateKey, SettleKey, directoryVars
<1>6. ASSUME NEW b \in Browsers, LoginStep(b) PROVE Goal
  BY <1>6 DEF LoginStep, BeginLogin, CheckPassword, RefuseLogin, AcceptLogin, Logout, directoryVars
<1>7. CASE Crash
  BY <1>7 DEF Crash
<1>8. CASE Tick \/ UNCHANGED vars
  BY <1>8 DEF Tick, vars, directoryVars
<1> QED BY <1>1, <1>2, <1>3, <1>4, <1>5, <1>6, <1>7, <1>8 DEF Next

LEMMA NextAsked ==
    ASSUME RootInv, Asked, [Next]_vars PROVE Asked'
<1>1. WellAsked(Idle)
  <2>1. Idle.op = "idle"
    BY DEF Idle
  <2> QED BY <2>1 DEF WellAsked
<1>2. CASE UNCHANGED req \/ \A r \in Requests : req'[r] = Idle
  BY <1>1, <1>2 DEF Asked
<1>3. ASSUME NEW r \in Requests, RequestsKept(r), WellAsked(req'[r]) PROVE Asked'
  BY <1>3 DEF Asked, RequestsKept
<1>4. ASSUME NEW r \in Requests, NEW a \in UserIds, Begins(r, a) PROVE Asked'
  <2>1. WellAsked(req'[r])
    BY <1>4 DEF Begins, DirectoryOps, MayAsk, MayBegin, WellAsked
  <2> QED BY <1>3, <1>4, <2>1 DEF Begins, Begun
<1>5. ASSUME NEW r \in Requests, Moves(r) \/ SessionMoves(r) PROVE Asked'
  <2>1. WellAsked(req'[r])
    BY <1>5 DEF Moves, SessionMoves, LaterOps, Asked, WellAsked
  <2> QED BY <1>3, <1>5, <2>1 DEF Moves, SessionMoves
<1> QED BY <1>2, <1>4, <1>5, RequestsStep

LEMMA NextKeyStatus ==
    ASSUME RootInv, KeyTableInv, [Next]_vars
    PROVE  /\ KeyTable'
           /\ \A k \in KeyIds :
                 \/ StatusKept(k)
                 \/ \E r \in Requests : At(r, "update_key") /\ req[r].target = k
                                        /\ req[r].value = "enabled"
<1>1. CASE UNCHANGED key
  BY <1>1 DEF KeyTableInv, KeyTable, StatusKept
<1>2. ASSUME NEW r \in Requests, NEW a \in UserIds, KeyRequest(r, a) PROVE UNCHANGED key
  BY <1>2
  DEF KeyRequest, IssueKey, CreateOwnKey, DeleteKey, UpdateKey, CreateProject, DeleteProject,
      KeysUnchanged, keyVars
<1>3. UNCHANGED keysAndFaults \/ Crash \/ Tick \/ UNCHANGED vars => UNCHANGED key
  BY DEF keysAndFaults, keyVars, Crash, Tick, vars
<1> QED
  BY <1>1, <1>2, <1>3, KeyWriteStatus, RelayStatus, CascadeStatus DEF Next, KeyTableInv, At

LEMMA NextKeyTable ==
    ASSUME RootInv, KeyTableInv, [Next]_vars PROVE KeyTableInv'
  BY NextKeyStatus, NextAsked DEF KeyTableInv

LEMMA DisableStep ==
    ASSUME RootInv, KeyTableInv, [Next]_vars
    PROVE  \A k \in KeyIds :
              key[k].status = "disabled" /\ Live(key'[k]) /\ key'[k].status # "disabled"
              => \E r \in Requests : At(r, "update_key") /\ req[r].target = k
                                     /\ req[r].value = "enabled"
  BY NextKeyStatus DEF StatusKept, Live

\* A disabled key is enabled by an update that says so, and by nothing else: no
\* refused precharge, settlement, new limit or deleted project brings it back.
THEOREM KeysStayDisabled == Spec => DisableLasts
  BY InitRoot, NextRoot, InitKeyTable, NextKeyTable, DisableStep, PTL DEF Spec, DisableLasts

-----------------------------------------------------------------------------
(* Integrations *)

ScopedTables ==
    /\ DOMAIN token = TokenIds /\ DOMAIN integration = IntegrationIds
    /\ \A i \in IntegrationIds : DOMAIN integration[i] = DOMAIN NoRow
    /\ \A t \in TokenIds :
          /\ DOMAIN token[t] = DOMAIN NoRow
          /\ token[t].status # "none" => token[t].integration \in IntegrationIds

\* What was enabled in an integration since it was disabled is on record.
Silenced(i) ==
    /\ i \in revived \/ \A u \in UserIds : user[u].integration = i => user[u].status # "enabled"
    /\ \A t \in TokenIds :
          token[t].integration = i /\ token[t].status = "enabled" => t \in lateTokens

SilentInv ==
    /\ ScopedTables
    /\ \A i \in IntegrationIds : integration[i].status = "disabled" => Silenced(i)

LEMMA RowFields == DOMAIN NoRow = {"status", "integration"}
  BY DEF NoRow

LEMMA SilenceKept ==
    ASSUME SilentInv, UNCHANGED <<integration, token, revived, lateTokens>>,
           \A u \in UserIds : /\ user'[u].status = user[u].status
                              /\ user'[u].integration = user[u].integration
    PROVE  SilentInv'
  BY DEF SilentInv, ScopedTables, Silenced

\* Who is enabled by a write is recorded.
LEMMA Reviving ==
    ASSUME NEW r, Recorded(r)
    PROVE  /\ revived \subseteq revived'
           /\ \A i \in IntegrationIds : \A u \in UserIds :
                 integration[i].status = "disabled" /\ user'[u].integration = i
                 /\ user'[u].status = "enabled" /\ user[u].status # "enabled" => i \in revived'
<1>1. revived' = revived \cup
         {i \in IntegrationIds : integration[i].status = "disabled" /\ \E u \in UserIds :
            user'[u].integration = i /\ user'[u].status = "enabled" /\ user[u].status # "enabled"}
  BY Zenon DEF Recorded
<1> QED BY <1>1

LEMMA SilenceRecorded ==
    ASSUME SilentInv, UsersKept, NEW r, Recorded(r), UNCHANGED <<integration, token, lateTokens>>
    PROVE  SilentInv'
  BY Reviving DEF SilentInv, ScopedTables, Silenced, UsersKept

LEMMA SilenceNewIntegration ==
    ASSUME RootInv, UsersKept, SilentInv, NEW r \in Requests, WriteIntegration(r) PROVE SilentInv'
<1>1. CASE UNCHANGED <<user, integration, revived>>
  BY <1>1, SilenceKept DEF WriteIntegration
<1>2. CASE ~UNCHANGED <<user, integration, revived>>
  <2>1. PICK i \in Fresh(integration), u \in Fresh(user) :
          /\ integration' = [integration EXCEPT ![i].status = "enabled"]
          /\ user' = [user EXCEPT ![u] = NewUser(req[r].name, "managed", 0, i)]
          /\ Recorded(r)
    BY <1>2 DEF WriteIntegration
  <2>2. i \in IntegrationIds /\ u \in UserIds
    BY DEF Fresh, SilentInv, ScopedTables, RootInv, TablesOK
  <2>3. /\ \A v \in UserIds \ {u} : user'[v] = user[v]
        /\ user'[u].integration = i
    BY <2>1, <2>2 DEF NewUser, RootInv, TablesOK
  <2>4. /\ DOMAIN integration' = IntegrationIds /\ integration'[i].status = "enabled"
        /\ DOMAIN integration'[i] = DOMAIN NoRow
        /\ \A j \in IntegrationIds \ {i} : integration'[j] = integration[j]
    BY <2>1, <2>2, RowFields DEF SilentInv, ScopedTables
  <2>5. UNCHANGED <<token, lateTokens>>
    BY DEF WriteIntegration
  <2> QED
    BY <2>1, <2>2, <2>3, <2>4, <2>5, Reviving DEF SilentInv, ScopedTables, Silenced, UsersKept
<1> QED BY <1>1, <1>2

LEMMA SilenceNewToken ==
    ASSUME SilentInv, Asked, NEW r \in Requests, WriteToken(r) PROVE SilentInv'
<1> DEFINE i == req[r].target
<1>1. PICK t \in Fresh(token) :
        /\ token' = [token EXCEPT ![t] = [status |-> "enabled", integration |-> i]]
        /\ Late(t, i)
  BY DEF WriteToken
<1>2. t \in TokenIds /\ i \in IntegrationIds
  BY DEF WriteToken, At, Asked, WellAsked, Fresh, SilentInv, ScopedTables
<1>3. /\ DOMAIN token' = TokenIds /\ \A v \in TokenIds \ {t} : token'[v] = token[v]
      /\ DOMAIN token'[t] = DOMAIN NoRow
      /\ token'[t].status = "enabled" /\ token'[t].integration = i
  BY <1>1, <1>2, RowFields DEF SilentInv, ScopedTables
<1>4. UNCHANGED <<user, integration, revived>>
  BY DEF WriteToken
<1>5. lateTokens \subseteq lateTokens' /\ (integration[i].status = "disabled" => t \in lateTokens')
  BY <1>1 DEF Late
<1> HIDE DEF i
<1> QED BY <1>2, <1>3, <1>4, <1>5 DEF SilentInv, ScopedTables, Silenced

LEMMA SilenceTokenStatus ==
    ASSUME SilentInv, NEW r \in Requests, WriteTokenStatus(r) PROVE SilentInv'
<1> DEFINE t == req[r].target
<1>1. CASE ~Live(token[t])
  BY <1>1, SilenceKept DEF WriteTokenStatus
<1>2. CASE Live(token[t])
  <2>1. token' = [token EXCEPT ![t].status = req[r].value]
    BY <1>2 DEF WriteTokenStatus
  <2>2. /\ DOMAIN token' = TokenIds
        /\ \A v \in TokenIds : /\ DOMAIN token'[v] = DOMAIN NoRow
                               /\ token'[v].integration = token[v].integration
                               /\ v # t => token'[v] = token[v]
    BY <2>1, RowFields DEF SilentInv, ScopedTables
  <2>3. t \in TokenIds => token'[t].status = req[r].value /\ token[t].status # "none"
    BY <1>2, <2>1, RowFields DEF SilentInv, ScopedTables, Live
  <2>4. /\ lateTokens \subseteq lateTokens'
        /\ req[r].value = "enabled" /\ integration[token[t].integration].status = "disabled"
           => t \in lateTokens'
    BY <1>2 DEF WriteTokenStatus, Late
  <2>5. UNCHANGED <<user, integration, revived>>
    BY DEF WriteTokenStatus
  <2> HIDE DEF t
  <2> QED BY <2>2, <2>3, <2>4, <2>5 DEF SilentInv, ScopedTables, Silenced
<1> QED BY <1>1, <1>2

LEMMA SilenceBegins ==
    ASSUME SilentInv, NEW r \in Requests, WriteDisable(r) PROVE SilentInv'
<1>0. PICK i : i = req[r].target
  OBVIOUS
<1>1. /\ integration' = [integration EXCEPT ![i].status = "disabled"]
      /\ token' = [t \in TokenIds |-> IF token[t].integration = i /\ Live(token[t])
                       THEN [token[t] EXCEPT !.status = "disabled"] ELSE token[t]]
      /\ user' = [u \in UserIds |-> IF user[u].integration = i /\ Live(user[u])
                       THEN [user[u] EXCEPT !.status = "disabled"] ELSE user[u]]
      /\ revived' = revived \ {i}
      /\ lateTokens' = {t \in lateTokens : token[t].integration # i}
  BY <1>0 DEF WriteDisable
<1>2. ScopedTables'
  <2>1. \A j \in IntegrationIds : DOMAIN integration'[j] = DOMAIN integration[j]
    BY <1>1, RowFields DEF SilentInv, ScopedTables
  <2>2. \A t \in TokenIds :
           /\ DOMAIN token'[t] = DOMAIN token[t] /\ token'[t].integration = token[t].integration
           /\ token'[t].status # "none" => token[t].status # "none"
    BY <1>1, RowFields DEF SilentInv, ScopedTables, Live
  <2>3. DOMAIN token' = TokenIds /\ DOMAIN integration' = IntegrationIds
    BY <1>1 DEF SilentInv, ScopedTables
  <2> QED BY <2>1, <2>2, <2>3 DEF SilentInv, ScopedTables
<1>3. ASSUME NEW u \in UserIds
      PROVE  /\ user'[u].integration = i => user'[u].status # "enabled"
             /\ user'[u].integration # i => user'[u] = user[u]
  BY <1>1 DEF Live
<1>4. ASSUME NEW t \in TokenIds
      PROVE  /\ token'[t].integration = i => token'[t].status # "enabled"
             /\ token'[t].integration # i => token'[t] = token[t]
  BY <1>1, RowFields DEF Live, SilentInv, ScopedTables
<1>5. \A j \in IntegrationIds : j # i => integration'[j] = integration[j]
  BY <1>1 DEF SilentInv, ScopedTables
<1>6. Silenced(i)'
  BY <1>3, <1>4 DEF Silenced
<1>7. ASSUME NEW j \in IntegrationIds, j # i, integration[j].status = "disabled"
      PROVE  Silenced(j)'
  BY <1>1, <1>3, <1>4, <1>7 DEF Silenced, SilentInv
<1> QED BY <1>2, <1>5, <1>6, <1>7 DEF SilentInv

LEMMA SilenceDirectory ==
    ASSUME RootInv, UsersKept, SilentInv, Asked, NEW r \in Requests,
           DirectoryWrite(r) \/ DeleteWithKeys(r)
    PROVE  SilentInv'
<1>1. CASE UNCHANGED <<user, integration, token, revived, lateTokens>>
  BY <1>1, SilenceKept
<1>2. CASE Remember(r) \/ WriteDepartment(r) \/ WriteDeptUpdate(r) \/ WriteDeptDelete(r)
           \/ SetOneUserStatus(r)
  BY <1>1, <1>2
  DEF Remember, WriteDepartment, WriteDeptUpdate, WriteDeptDelete, SetOneUserStatus, tables
<1>3. CASE Grant(r) \/ GrantOneUser(r)
  <2>1. \A u \in UserIds : /\ user'[u].status = user[u].status
                           /\ user'[u].integration = user[u].integration
    BY <1>3, UserFields DEF Grant, GrantOneUser, RootInv, TablesOK
  <2> QED BY <1>3, <2>1, SilenceKept DEF Grant, GrantOneUser
<1>4. CASE Recorded(r) /\ UNCHANGED <<integration, token, lateTokens>>
  BY <1>4, SilenceRecorded
<1>5. CASE WriteUser(r)
  BY <1>1, <1>4, <1>5 DEF WriteUser, UserWrite
<1>6. CASE ImportOneUser(r)
  BY <1>1, <1>4, <1>6 DEF ImportOneUser, UserWrite
<1>7. CASE WriteUpdate(r)
  BY <1>1, <1>4, <1>7 DEF WriteUpdate, UserWrite
<1>8. CASE WriteStatus(r) \/ WriteOneStatus(r)
  BY <1>1, <1>4, <1>8 DEF WriteStatus, WriteOneStatus, UserWrite
<1>9. CASE AssignMembers(r)
  BY <1>1, <1>4, <1>9 DEF AssignMembers, UserWrite
<1>10. CASE WriteDelete(r)
  BY <1>1, <1>4, <1>10 DEF WriteDelete, UserWrite, tables
<1> QED
  BY <1>2, <1>3, <1>5, <1>6, <1>7, <1>8, <1>9, <1>10, SilenceNewIntegration, SilenceNewToken,
     SilenceTokenStatus, SilenceBegins
  DEF DirectoryWrite, DeleteWithKeys

\* Nothing but the directory's writes and precharges touches users and tokens.
LEMMA SilenceElsewhere ==
    ASSUME RootInv, SilentInv, [Next]_vars,
           ~ \E r \in Requests : DirectoryWrite(r) \/ DeleteWithKeys(r)
    PROVE  SilentInv'
<1> DEFINE Same == UNCHANGED <<user, integration, token, revived, lateTokens>>
<1>1. ASSUME NEW r \in Requests, NEW a \in UserIds,
             \/ UserRequest(r, a) \/ DepartmentRequest(r, a) \/ IntegrationRequest(r, a)
             \/ KeyRequest(r, a) \/ LoginRequest(r, a)
      PROVE  Same
  BY <1>1, DirectoryBegins, KeysBegin DEF Begun, tables
<1>2. ASSUME NEW r \in Requests, KeyWrite(r) PROVE Same
  BY <1>2 DEF KeyWrite, WriteKey, RecordFails, WriteKeyUpdate, RestoreDepleted, WriteKeyDelete,
              WriteProject, WriteProjectDelete, tables
<1>3. ASSUME NEW r \in Requests, PasswordWrite(r) \/ SettingStep(r) PROVE Same
  BY <1>3 DEF PasswordWrite, WritePassword, DestroyUserSessions, RenewSession, SettingStep, Get,
              ReadRow, ReadFails, Put, Save, SaveFails, Invalidate, directoryVars, tables
<1>4. ASSUME NEW b \in Browsers, LoginStep(b) PROVE Same
  BY <1>4 DEF LoginStep, BeginLogin, CheckPassword, RefuseLogin, AcceptLogin, Logout,
              directoryVars, tables
<1>5. Crash \/ Tick \/ UNCHANGED vars => Same
  BY DEF Crash, Tick, vars, directoryVars, tables
<1>6. ASSUME NEW q \in Relays, RelayStep(q) PROVE SilentInv'
  <2> USE DEF RelayStep, RefuseRelay, AuthenticateKey, SettleKey, PrechargeKey, directoryVars,
              tables
  <2>1. \A u \in UserIds : /\ user'[u].status = user[u].status
                           /\ user'[u].integration = user[u].integration
    <3>1. CASE UNCHANGED user
      BY <3>1
    <3>2. CASE ~UNCHANGED user
      <4>1. user' = [user EXCEPT ![key[relay[q].key].owner].billed = TRUE]
        BY <1>6, <3>2
      <4> QED BY <4>1, UserFields DEF RootInv, TablesOK
    <3> QED BY <3>1, <3>2
  <2> QED BY <1>6, <2>1, SilenceKept
<1>7. Same => SilentInv'
  BY SilenceKept
<1> QED BY <1>1, <1>2, <1>3, <1>4, <1>5, <1>6, <1>7 DEF Next

LEMMA NextSilent ==
    ASSUME RootInv, SilentInv, Asked, [Next]_vars PROVE SilentInv'
  BY NextUsers, SilenceDirectory, SilenceElsewhere DEF RootStep

LEMMA RowsAre ==
    ASSUME NEW ids, NEW init, NEW blank, NEW S, blank \in S,
           \A i \in ids \cap DOMAIN init : init[i] \in S
    PROVE  Rows(ids, init, blank) \in [ids -> S]
  BY DEF Rows

LEMMA InitSilent == Init => SilentInv
<1> SUFFICES ASSUME Init PROVE SilentInv
  OBVIOUS
<1>1. PICK s \in Scenarios :
        /\ user = Rows(UserIds, s.users, NoUser)
        /\ integration = Rows(IntegrationIds, s.integrations, NoRow)
        /\ token = Rows(TokenIds, s.tokens, NoRow)
  BY DEF Init
<1>2. NoRow \in ScopedRow
  BY DEF NoRow, ScopedRow, RowStatus
<1>3. token \in [TokenIds -> ScopedRow] /\ integration \in [IntegrationIds -> ScopedRow]
  BY <1>1, <1>2, RowsAre, OrganizationAssumption
<1>4. /\ \A t \in TokenIds : token[t].status # "none" => token[t].integration # 0
      /\ \A i \in IntegrationIds : integration[i].status = "disabled" =>
            /\ \A u \in UserIds : user[u].integration = i => user[u].status # "enabled"
            /\ \A t \in TokenIds : token[t].integration = i => token[t].status # "enabled"
  BY <1>1, ScenarioAssumption DEF Consistent
<1>5. \A x \in ScopedRow : DOMAIN x = DOMAIN NoRow /\ x.integration \in IntegrationIds \cup {0}
  BY RowFields DEF ScopedRow
<1>6. ScopedTables
  BY <1>3, <1>4, <1>5 DEF ScopedTables
<1> QED BY <1>4, <1>6 DEF SilentInv, Silenced

\* What a disabled integration has left is silent: a token of it authenticates
\* only when a user and the token were enabled after it was disabled, whatever
\* was created or enabled while the cascade ran.
THEOREM DisabledAreSilent == Spec => []IntegrationSilenced
<1>1. SilentInv => IntegrationSilenced
  BY DEF SilentInv, ScopedTables, Silenced, IntegrationSilenced, TokenAuthenticates,
         IsServiceAccount
<1>2. KeyTableInv => Asked
  BY DEF KeyTableInv
<1> QED
  BY <1>1, <1>2, InitRoot, NextRoot, InitKeyTable, NextKeyTable, InitSilent, NextSilent, PTL
  DEF Spec

-----------------------------------------------------------------------------
(* The table of keys *)

\* A key that is there keeps its owner and its idempotency key, and is never
\* revived; its end is on record, and a project it is newly accounted to has
\* been asked for.
KeyKept(k) ==
    /\ key'[k].owner = key[k].owner /\ key'[k].idem = key[k].idem
    /\ Live(key'[k]) => Live(key[k])
    /\ Live(key[k]) => Live(key'[k]) \/ key[k].idem \in renewed'
    /\ key'[k].status = "none" => key[k].status = "none"
    /\ \/ key'[k].project = key[k].project
       \/ key'[k].project = 0
       \/ \E r \in Requests :
             /\ At(r, "update_key") /\ req[r].target = k /\ key'[k].project = req[r].ref
             /\ req[r].ref # -1 /\ Exists(project, req[r].ref)

KeyInserted(r, l) ==
    /\ WriteKey(r) /\ l \in Fresh(key) /\ AfterCreate(r, l)
    /\ Live(user[req[r].target]) /\ Exists(project, req[r].ref)
    /\ key'[l].status = "enabled" /\ key'[l].owner = req[r].target
    /\ key'[l].project = req[r].ref /\ key'[l].idem = <<req[r].idem, req[r].scope>>
    /\ \A k \in KeyIds \ {l} : key'[k] = key[k]

LEMMA KeySame ==
    ASSUME NEW k, key'[k] = key[k] PROVE KeyKept(k)
  BY DEF KeyKept

LEMMA KeyUpdateKeeps ==
    ASSUME KeyTableInv, NEW r \in Requests, WriteKeyUpdate(r)
    PROVE  \A k \in KeyIds : KeyKept(k)
<1> USE KeyFields DEF KeyTable, KeyTableInv
<1>1. PICK l : l = req[r].target
  OBVIOUS
<1> DEFINE row == [key[l] EXCEPT
                      !.status = IF req[r].value = "" THEN @ ELSE req[r].value,
                      !.project = IF req[r].ref = -1 THEN @ ELSE req[r].ref,
                      !.limit = IF req[r].todo = {} THEN @ ELSE CHOOSE x \in req[r].todo : TRUE]
<1>2. CASE UNCHANGED key
  BY <1>2, KeySame
<1>3. CASE ~UNCHANGED key
  <2>1. /\ key' = [key EXCEPT ![l] = row] /\ At(r, "update_key") /\ Live(key[l])
        /\ ~(req[r].ref # -1 /\ ~Exists(project, req[r].ref))
    BY <1>1, <1>3 DEF WriteKeyUpdate
  <2>2. WellAsked(req[r])
    BY DEF Asked
  <2>3. l \in KeyIds /\ req[r].value \in Status \cup {""}
    BY <1>1, <2>1, <2>2, Zenon DEF WellAsked, At
  <2>4. row.owner = key[l].owner /\ row.idem = key[l].idem
    BY <2>3
  <2>5. row.status = key[l].status \/ row.status \in Status
    BY <2>3
  <2>6. row.project = key[l].project \/ (req[r].ref # -1 /\ row.project = req[r].ref)
    BY <2>3
  <2> HIDE DEF row
  <2>7. key'[l] = row /\ \A k \in KeyIds \ {l} : key'[k] = key[k]
    BY <2>1, <2>3
  <2>8. KeyKept(l)
    BY <1>1, <2>1, <2>4, <2>5, <2>6, <2>7 DEF KeyKept, Live, Status
  <2> QED BY <2>7, <2>8, KeySame
<1> QED BY <1>2, <1>3

LEMMA KeyWriteKeeps ==
    ASSUME KeyTableInv, NEW r \in Requests, KeyWrite(r)
    PROVE  (\A k \in KeyIds : KeyKept(k)) \/ \E l \in KeyIds : KeyInserted(r, l)
<1> USE KeyFields DEF KeyTable, KeyTableInv
<1>1. CASE WriteKey(r)
  <2>1. CASE UNCHANGED key
    BY <2>1, KeySame
  <2>2. CASE ~UNCHANGED key
    <3> DEFINE row == [status |-> "enabled", owner |-> req[r].target, project |-> req[r].ref,
                       limit |-> NoLimit, used |-> 0, idem |-> <<req[r].idem, req[r].scope>>]
    <3>1. PICK l \in Fresh(key) : key' = [key EXCEPT ![l] = row] /\ AfterCreate(r, l)
      BY <1>1, <2>2 DEF WriteKey
    <3>2. Live(user[req[r].target]) /\ Exists(project, req[r].ref)
      BY <1>1, <2>2 DEF WriteKey
    <3>3. l \in KeyIds
      BY DEF Fresh
    <3>4. /\ row.status = "enabled" /\ row.owner = req[r].target
          /\ row.project = req[r].ref /\ row.idem = <<req[r].idem, req[r].scope>>
      OBVIOUS
    <3> HIDE DEF row
    <3>5. key'[l] = row /\ \A k \in KeyIds \ {l} : key'[k] = key[k]
      BY <3>1, <3>3
    <3> QED BY <1>1, <3>1, <3>2, <3>3, <3>4, <3>5 DEF KeyInserted
  <2> QED BY <2>1, <2>2
<1>2. CASE WriteKeyUpdate(r)
  BY <1>2, KeyUpdateKeeps
<1>3. CASE RestoreDepleted(r)
  BY <1>3 DEF RestoreDepleted, KeyKept, Live
<1>4. CASE WriteKeyDelete(r)
  BY <1>4 DEF WriteKeyDelete, KeyKept, Live
<1>5. CASE WriteProjectDelete(r)
  <2>1. key' = [l \in KeyIds |-> IF key[l].project = req[r].target
                                 THEN [key[l] EXCEPT !.project = 0] ELSE key[l]]
    BY <1>5 DEF WriteProjectDelete
  <2> QED BY <2>1 DEF KeyKept, Live
<1>6. CASE RecordFails(r) \/ WriteProject(r)
  BY <1>6, KeySame DEF RecordFails, WriteProject
<1> QED BY <1>1, <1>2, <1>3, <1>4, <1>5, <1>6 DEF KeyWrite

LEMMA RelayKeeps ==
    ASSUME KeyTable, NEW q \in Relays, RelayStep(q)
    PROVE  \A k \in KeyIds : KeyKept(k)
<1> USE KeyFields DEF KeyTable
<1>1. CASE UNCHANGED key
  BY <1>1, KeySame
<1>2. CASE PrechargeKey(q) /\ ~UNCHANGED key
  <2> DEFINE l == relay[q].key
  <2>1. \/ key' = [key EXCEPT ![l].used = @ + Hold]
        \/ key[l].status = "enabled" /\ key' = [key EXCEPT ![l].status = "depleted"]
    BY <1>2 DEF PrechargeKey, MarkDepleted
  <2> QED BY <2>1 DEF KeyKept, Live
<1>3. CASE \E cost \in Costs : SettleKey(q, cost)
  <2>1. PICK cost \in Costs :
          key' = [key EXCEPT ![relay[q].key].used =
                      IF @ > Hold - cost THEN @ - (Hold - cost) ELSE 0]
    BY <1>3 DEF SettleKey
  <2> QED BY <2>1 DEF KeyKept, Live
<1>4. CASE RefuseRelay(q) \/ \E l \in KeyIds : AuthenticateKey(q, l)
  BY <1>1, <1>4 DEF RefuseRelay, AuthenticateKey
<1> QED BY <1>1, <1>2, <1>3, <1>4 DEF RelayStep

LEMMA CascadeKeeps ==
    ASSUME KeyTable, NEW r \in Requests, DeleteWithKeys(r)
    PROVE  \A k \in KeyIds : KeyKept(k)
<1>1. key' = [l \in KeyIds |-> IF key[l].owner = req[r].target /\ ~Live(user'[req[r].target])
                               THEN [key[l] EXCEPT !.status = "deleted"] ELSE key[l]]
  BY DEF DeleteWithKeys, CascadeKeys
<1>2. renewed' = renewed \cup {key[k].idem : k \in {l \in KeyIds : key[l] # key'[l]}}
  BY DEF DeleteWithKeys
<1>3. ASSUME NEW k \in KeyIds, key'[k] # key[k]
      PROVE  KeyKept(k)
  <2>1. key'[k] = [key[k] EXCEPT !.status = "deleted"] /\ key[k].idem \in renewed'
    BY <1>1, <1>2, <1>3
  <2> QED BY <2>1, KeyFields DEF KeyKept, KeyTable, Live
<1> QED BY <1>3, KeySame

LEMMA KeysStep ==
    ASSUME KeyTableInv, [Next]_vars
    PROVE  \/ \A k \in KeyIds : KeyKept(k)
           \/ \E r \in Requests : KeyWrite(r) /\ \E l \in KeyIds : KeyInserted(r, l)
<1>1. CASE UNCHANGED key
  BY <1>1, KeySame
<1>2. ASSUME NEW r \in Requests, NEW a \in UserIds, KeyRequest(r, a) PROVE UNCHANGED key
  BY <1>2
  DEF KeyRequest, IssueKey, CreateOwnKey, DeleteKey, UpdateKey, CreateProject, DeleteProject,
      KeysUnchanged, keyVars
<1>3. UNCHANGED keysAndFaults \/ Crash \/ Tick \/ UNCHANGED vars => UNCHANGED key
  BY DEF keysAndFaults, keyVars, Crash, Tick, vars
<1> QED
  BY <1>1, <1>2, <1>3, KeyWriteKeeps, RelayKeeps, CascadeKeeps DEF Next, KeyTableInv

-----------------------------------------------------------------------------
(* The quota of keys *)

Creators(u) == {r \in Requests : req[r].op = "create_key" /\ req[r].target = u}

\* Who is creating a key counts as having it.
QuotaInv ==
    \A u \in UserIds :
        Cardinality(KeysOf(u)) + Cardinality(Creators(u)) <= MaxKeys + Cardinality(Requests) - 1

LEMMA Counts ==
    /\ \A u : IsFiniteSet(KeysOf(u)) /\ Cardinality(KeysOf(u)) \in Nat
    /\ \A u : IsFiniteSet(Creators(u)) /\ Cardinality(Creators(u)) \in Nat
    /\ MaxKeys \in Nat /\ Cardinality(Requests) \in Nat /\ Cardinality(Requests) >= 1
<1>1. IsFiniteSet(KeyIds) /\ IsFiniteSet(Requests) /\ Requests # {} /\ MaxKeys \in Nat
  BY KeyRingAssumption, DirectoryAssumption
<1>2. ASSUME NEW u PROVE IsFiniteSet(KeysOf(u)) /\ IsFiniteSet(Creators(u))
  <2>1. KeysOf(u) \subseteq KeyIds /\ Creators(u) \subseteq Requests
    BY DEF KeysOf, Creators
  <2> QED BY <1>1, <2>1, FS_Subset
<1>3. Cardinality(Requests) >= 1
  <2>1. Cardinality(Requests) \in Nat /\ Cardinality(Requests) # 0
    BY <1>1, FS_CardinalityType, FS_EmptySet
  <2> QED BY <2>1
<1> QED BY <1>1, <1>2, <1>3, FS_CardinalityType

\* Nobody gets a key, and nobody begins to create one.
LEMMA QuotaKept ==
    ASSUME QuotaInv, \A k \in KeyIds : KeyKept(k),
           \A r \in Requests : req'[r].op = "create_key" => req'[r] = req[r]
    PROVE  QuotaInv'
<1> SUFFICES ASSUME NEW u \in UserIds
             PROVE  Cardinality(KeysOf(u)') + Cardinality(Creators(u)')
                        <= MaxKeys + Cardinality(Requests) - 1
  BY DEF QuotaInv
<1>1. KeysOf(u)' \subseteq KeysOf(u) /\ Creators(u)' \subseteq Creators(u)
  BY DEF KeysOf, Creators, KeyKept
<1>2. Cardinality(KeysOf(u)') <= Cardinality(KeysOf(u)) /\ Cardinality(KeysOf(u)') \in Nat
  BY <1>1, Counts, FS_Subset, FS_CardinalityType
<1>3. Cardinality(Creators(u)') <= Cardinality(Creators(u)) /\ Cardinality(Creators(u)') \in Nat
  BY <1>1, Counts, FS_Subset, FS_CardinalityType
<1> QED BY <1>2, <1>3, Counts DEF QuotaInv

\* A handler begins when its user has less than he may have, and the other
\* places are all that can do the same.
LEMMA QuotaBegins ==
    ASSUME QuotaInv, \A k \in KeyIds : KeyKept(k), NEW r \in Requests, NEW a \in UserIds,
           Begins(r, a)
    PROVE  QuotaInv'
<1>1. Idle.op = "idle"
  BY DEF Idle
<1>2. req[r].op = "idle" /\ RequestsKept(r)
  BY <1>1 DEF Begins, Begun
<1>3. CASE req'[r].op # "create_key"
  BY <1>2, <1>3, QuotaKept DEF RequestsKept
<1>4. CASE req'[r].op = "create_key"
  <2> SUFFICES ASSUME NEW u \in UserIds
               PROVE  Cardinality(KeysOf(u)') + Cardinality(Creators(u)')
                          <= MaxKeys + Cardinality(Requests) - 1
    BY DEF QuotaInv
  <2>1. KeysOf(u)' \subseteq KeysOf(u)
    BY DEF KeysOf, KeyKept
  <2>2. Cardinality(KeysOf(u)') <= Cardinality(KeysOf(u)) /\ Cardinality(KeysOf(u)') \in Nat
    BY <2>1, Counts, FS_Subset, FS_CardinalityType
  <2>3. CASE u # req'[r].target
    <3>1. Creators(u)' = Creators(u)
      BY <1>2, <2>3 DEF Creators, RequestsKept
    <3> QED BY <2>2, <3>1, Counts DEF QuotaInv
  <2>4. CASE u = req'[r].target
    <3>1. Creators(u)' \subseteq Requests
      BY DEF Creators
    <3>2. Cardinality(Creators(u)') <= Cardinality(Requests) /\ Cardinality(Creators(u)') \in Nat
      BY <3>1, DirectoryAssumption, FS_Subset, FS_CardinalityType
    <3>3. QuotaLeft(u)
      BY <1>4, <2>4 DEF Begins, MayAsk, DirectoryOps, MayBegin
    <3>4. Cardinality(KeysOf(u)) + 1 <= MaxKeys
      BY <3>3, Counts DEF QuotaLeft
    <3> QED BY <2>2, <3>2, <3>4, Counts
  <2> QED BY <2>3, <2>4
<1> QED BY <1>3, <1>4

\* The creation in progress becomes a key.
LEMMA QuotaUsed ==
    ASSUME RootInv, KeyTableInv, QuotaInv, NEW r \in Requests, NEW l \in KeyIds,
           KeyInserted(r, l), Moves(r)
    PROVE  QuotaInv'
<1> SUFFICES ASSUME NEW u \in UserIds
             PROVE  Cardinality(KeysOf(u)') + Cardinality(Creators(u)')
                        <= MaxKeys + Cardinality(Requests) - 1
  BY DEF QuotaInv
<1>1. req[r].op = "create_key" /\ req'[r].op # "create_key" /\ RequestsKept(r)
  BY DEF KeyInserted, WriteKey, At, Moves, LaterOps
<1>2. Creators(u)' = Creators(u) \ {r}
  BY <1>1 DEF Creators, RequestsKept
<1>3. ~Live(key[l])
  BY DEF KeyInserted, Fresh, Live
<1>4. CASE u = req[r].target
  <2>1. KeysOf(u)' = KeysOf(u) \cup {l}
    BY <1>4 DEF KeysOf, KeyInserted, Live
  <2>2. l \notin KeysOf(u) /\ r \in Creators(u)
    BY <1>1, <1>3, <1>4 DEF KeysOf, Creators
  <2>3. Cardinality(KeysOf(u)') = Cardinality(KeysOf(u)) + 1
    BY <2>1, <2>2, Counts, FS_AddElement
  <2>4. Cardinality(Creators(u)') = Cardinality(Creators(u)) - 1
    BY <1>2, <2>2, Counts, FS_RemoveElement
  <2> QED BY <2>3, <2>4, Counts DEF QuotaInv
<1>5. CASE u # req[r].target
  <2>1. KeysOf(u)' = KeysOf(u)
    BY <1>3, <1>5 DEF KeysOf, KeyInserted
  <2>2. Creators(u)' = Creators(u)
    BY <1>2, <1>5 DEF Creators
  <2> QED BY <2>1, <2>2 DEF QuotaInv
<1> QED BY <1>4, <1>5

LEMMA NextQuota ==
    ASSUME RootInv, KeyTableInv, QuotaInv, [Next]_vars PROVE QuotaInv'
<1>1. ASSUME NEW r \in Requests, KeyWrite(r), NEW l \in KeyIds, KeyInserted(r, l)
      PROVE  QuotaInv'
  BY <1>1, OtherMoves, QuotaUsed
<1>2. ASSUME \A k \in KeyIds : KeyKept(k) PROVE QuotaInv'
  <2>1. Idle.op = "idle"
    BY DEF Idle
  <2>2. CASE UNCHANGED req \/ \A r \in Requests : req'[r] = Idle
    BY <1>2, <2>1, <2>2, QuotaKept
  <2>3. ASSUME NEW r \in Requests, Moves(r) \/ SessionMoves(r) PROVE QuotaInv'
    BY <1>2, <2>3, QuotaKept DEF Moves, SessionMoves, LaterOps, RequestsKept
  <2> QED BY <1>2, <2>2, <2>3, QuotaBegins, RequestsStep
<1> QED BY <1>1, <1>2, KeysStep

LEMMA InitQuota == Init => QuotaInv
<1> SUFFICES ASSUME Init, NEW u \in UserIds
             PROVE  Cardinality(KeysOf(u)) + Cardinality(Creators(u))
                        <= MaxKeys + Cardinality(Requests) - 1
  BY DEF QuotaInv
<1>1. \A r \in Requests : req[r].op = "idle"
  <2>1. Idle.op = "idle"
    BY DEF Idle
  <2> QED BY <2>1 DEF Init
<1>2. Cardinality(Creators(u)) = 0
  <2>1. Creators(u) = {}
    BY <1>1 DEF Creators
  <2> QED BY <2>1, FS_EmptySet
<1>3. PICK s \in Scenarios : key = Rows(KeyIds, s.keys, NoKey)
  BY DEF Init
<1>4. Cardinality(KeysOf(u)) <= MaxKeys
  BY <1>3, ScenarioAssumption DEF Consistent, KeysOf
<1> QED BY <1>2, <1>4, Counts

\* Nobody has more keys than he may, but for those that were being created for
\* him at once: one less than there are places for requests.
THEOREM QuotaIsKept == Spec => []QuotaBounded
<1>1. QuotaInv => QuotaBounded
  BY Counts DEF QuotaInv, QuotaBounded
<1> QED
  BY <1>1, InitRoot, NextRoot, InitKeyTable, NextKeyTable, InitQuota, NextQuota, PTL DEF Spec

-----------------------------------------------------------------------------
(* One idempotency key, one key *)

\* A request that creates a key for the pair, or is about to write it down.
ForPair(x, i, s) ==
    /\ x.idem = i /\ x.scope = s
    /\ x.op = "create_key" \/ (x.op = "remember" /\ x.name = "create_key")

\* The first key of a pair is written down, or the request that issued it is
\* about to; no other request for its owner gets past the lookup.
FirstKey(i, s, k) ==
    /\ k \in KeyIds /\ key[k].idem = <<i, s>> /\ Live(key[k])
    /\ \A l \in KeyIds : key[l].idem = <<i, s>> => l = k
    /\ \/ /\ record[<<"create_key", i, s>>] = 0
          /\ \E r \in Requests : /\ ForPair(req[r], i, s)
                                 /\ req[r].op = "remember" /\ req[r].target = k
       \/ /\ record[<<"create_key", i, s>>] = k
          /\ \A r \in Requests : ForPair(req[r], i, s) /\ req[r].op = "create_key"
                                 => req[r].target # key[k].owner

NoKeyYet(i, s) ==
    /\ record[<<"create_key", i, s>>] = 0 /\ \A k \in KeyIds : key[k].idem # <<i, s>>
    /\ \A r \in Requests : ForPair(req[r], i, s) => req[r].op # "remember"

TwoOwners(i, s) ==
    \E k, l \in KeyIds : /\ key[k].idem = <<i, s>> /\ key[l].idem = <<i, s>>
                         /\ key[k].owner # key[l].owner

PairOK(i, s) ==
    \/ <<i, s>> \in doubtful \cup renewed
    \/ /\ \A q, r \in Requests : ForPair(req[q], i, s) /\ ForPair(req[r], i, s) => q = r
       /\ NoKeyYet(i, s) \/ TwoOwners(i, s) \/ \E k \in KeyIds : FirstKey(i, s, k)

Scopes == IntegrationIds \cup {0}

IssuedInv ==
    /\ DOMAIN record = {"create_user", "create_dept", "create_key"} \X Idems \X ({0} \cup IntegrationIds)
    /\ \A k \in KeyIds : key[k].status = "none" => key[k].idem[1] \notin Idems
    /\ \A i \in Idems : \A s \in Scopes : PairOK(i, s)

\* Nothing happens that concerns the pair, but that requests come to an end
\* before they have issued a key.
LEMMA PairKept ==
    ASSUME NEW i \in Idems, NEW s \in Scopes, PairOK(i, s),
           doubtful \subseteq doubtful', renewed \subseteq renewed',
           \/ <<i, s>> \in doubtful' \cup renewed'
           \/ /\ record'[<<"create_key", i, s>>] = record[<<"create_key", i, s>>]
              /\ \A k \in KeyIds : key'[k].idem = <<i, s>> <=> key[k].idem = <<i, s>>
              /\ \A k \in KeyIds : key[k].idem = <<i, s>> =>
                    /\ key'[k].owner = key[k].owner
                    /\ Live(key[k]) => Live(key'[k])
              /\ \A r \in Requests : ForPair(req'[r], i, s) => req'[r] = req[r]
              /\ \A r \in Requests : ForPair(req[r], i, s) /\ req[r].op = "remember"
                                     => req'[r] = req[r]
    PROVE  PairOK(i, s)'
<1>1. CASE <<i, s>> \in doubtful' \cup renewed'
  BY <1>1 DEF PairOK
<1>2. CASE <<i, s>> \notin doubtful' \cup renewed'
  <2>1. \A q, r \in Requests : ForPair(req'[q], i, s) /\ ForPair(req'[r], i, s) => q = r
    BY <1>2 DEF PairOK
  <2>2. NoKeyYet(i, s) => NoKeyYet(i, s)'
    BY <1>2 DEF NoKeyYet
  <2>3. TwoOwners(i, s) => TwoOwners(i, s)'
    BY <1>2 DEF TwoOwners
  <2>4. ASSUME NEW k \in KeyIds, FirstKey(i, s, k) PROVE FirstKey(i, s, k)'
    BY <1>2, <2>4 DEF FirstKey
  <2> QED BY <1>2, <2>1, <2>2, <2>3, <2>4 DEF PairOK
<1> QED BY <1>1, <1>2

LEMMA Pairs ==
    \A i \in Idems : \A s \in Scopes :
        <<"create_key", i, s>> \in
            {"create_user", "create_dept", "create_key"} \X Idems \X ({0} \cup IntegrationIds)
  BY DEF Scopes

\* A pair's record is written.
LEMMA IssuedRemembered ==
    ASSUME RootInv, IssuedInv, NEW r \in Requests, Remember(r), Moves(r),
           UNCHANGED <<key, doubtful, renewed>>, NEW i \in Idems, NEW s \in Scopes
    PROVE  PairOK(i, s)'
<1> DEFINE p == <<req[r].name, req[r].idem, req[r].scope>>
<1> DEFINE c == <<"create_key", i, s>>
<1>1. /\ record' = [record EXCEPT ![p] = IF @ = 0 THEN req[r].target ELSE @]
      /\ req[r].op = "remember"
  BY DEF Remember, At
<1>2. PairOK(i, s) /\ c \in DOMAIN record
  BY Pairs DEF IssuedInv
<1>3. RequestsKept(r) /\ ~ForPair(req'[r], i, s)
  BY <1>1 DEF Moves, LaterOps, ForPair
<1>4. CASE ~ForPair(req[r], i, s)
  <2>1. p # c
    BY <1>1, <1>4 DEF ForPair
  <2>2. record'[c] = record[c]
    BY <1>1, <1>2, <2>1
  <2>3. \A q \in Requests : /\ ForPair(req'[q], i, s) => req'[q] = req[q]
                            /\ ForPair(req[q], i, s) => req'[q] = req[q]
    BY <1>3, <1>4 DEF RequestsKept
  <2> HIDE DEF p
  <2> QED BY <1>2, <2>2, <2>3, PairKept
<1>5. CASE ForPair(req[r], i, s) /\ <<i, s>> \notin doubtful \cup renewed
  <2>1. p = c
    BY <1>1, <1>5 DEF ForPair
  <2>2. record'[c] = IF record[c] = 0 THEN req[r].target ELSE record[c]
    BY <1>1, <1>2, <2>1
  <2> HIDE DEF p
  <2>3. \A q \in Requests : ForPair(req[q], i, s) => q = r
    BY <1>2, <1>5 DEF PairOK
  <2>4. \A q \in Requests : ~ForPair(req'[q], i, s)
    BY <1>3, <2>3 DEF RequestsKept
  <2>5. TwoOwners(i, s) => TwoOwners(i, s)'
    BY DEF TwoOwners
  <2>6. ~NoKeyYet(i, s)
    BY <1>1, <1>5 DEF NoKeyYet
  <2>7. ASSUME NEW k \in KeyIds, FirstKey(i, s, k) PROVE FirstKey(i, s, k)'
    <3>1. record'[c] = k
      BY <1>1, <2>2, <2>3, <2>7, KeyRingAssumption DEF FirstKey
    <3> QED BY <2>4, <2>7, <3>1 DEF FirstKey
  <2> QED BY <1>2, <1>5, <2>4, <2>5, <2>6, <2>7 DEF PairOK
<1>6. CASE <<i, s>> \in doubtful \cup renewed
  BY <1>6 DEF PairOK
<1> QED BY <1>4, <1>5, <1>6

\* A request issues a key, to another owner than the first one if there is one.
LEMMA IssuedInserted ==
    ASSUME RootInv, IssuedInv, NEW r \in Requests, NEW l \in KeyIds, KeyInserted(r, l), Moves(r),
           UNCHANGED <<record, doubtful, renewed>>, NEW i \in Idems, NEW s \in Scopes
    PROVE  PairOK(i, s)'
<1> DEFINE x == req[r]
<1>1. /\ x.op = "create_key" /\ key'[l].owner = x.target /\ key'[l].idem = <<x.idem, x.scope>>
      /\ Live(key'[l]) /\ \A k \in KeyIds \ {l} : key'[k] = key[k]
  BY DEF KeyInserted, WriteKey, At, Live
<1>2. PairOK(i, s) /\ key[l].idem # <<i, s>>
  BY DEF IssuedInv, KeyInserted, Fresh
<1>3. /\ RequestsKept(r) /\ req'[r].op # "create_key"
      /\ ForPair(req'[r], i, s) => ForPair(x, i, s)
  BY <1>1 DEF Moves, LaterOps, ForPair
<1>4. CASE ~ForPair(x, i, s)
  <2>1. key'[l].idem # <<i, s>>
    BY <1>1, <1>4 DEF ForPair
  <2>2. \A q \in Requests : /\ ForPair(req'[q], i, s) => req'[q] = req[q]
                            /\ ForPair(req[q], i, s) => req'[q] = req[q]
    BY <1>3, <1>4 DEF RequestsKept
  <2> QED BY <1>1, <1>2, <2>1, <2>2, PairKept
<1>5. CASE ForPair(x, i, s) /\ <<i, s>> \notin doubtful \cup renewed
  <2>1. key'[l].idem = <<i, s>>
    BY <1>1, <1>5 DEF ForPair
  <2>2. \A q \in Requests : ForPair(req[q], i, s) => q = r
    BY <1>2, <1>5 DEF PairOK
  <2>3. \A q \in Requests : ForPair(req'[q], i, s) => q = r
    BY <2>2, <1>3 DEF RequestsKept
  <2>4. TwoOwners(i, s) => TwoOwners(i, s)'
    BY <1>1, <1>2 DEF TwoOwners
  <2>5. CASE NoKeyYet(i, s)
    <3>1. req'[r].op = "remember" /\ req'[r].target = l /\ ForPair(req'[r], i, s)
      <4>1. x.idem # ""
        BY <1>5, DirectoryAssumption DEF ForPair
      <4>2. req' = [req EXCEPT ![r] = [@ EXCEPT !.op = "remember", !.name = req[r].op,
                                               !.target = l]]
        BY <4>1 DEF KeyInserted, AfterCreate
      <4> QED BY <1>1, <1>5, <4>2, IdleFields DEF ForPair, RootInv, TablesOK, RequestOK
    <3>2. FirstKey(i, s, l)'
      BY <1>1, <2>1, <2>5, <3>1 DEF FirstKey, NoKeyYet
    <3> QED BY <2>3, <3>2 DEF PairOK
  <2>6. ASSUME NEW k \in KeyIds, FirstKey(i, s, k) PROVE TwoOwners(i, s)'
    <3>1. x.target # key[k].owner
      BY <1>1, <1>5, <2>2, <2>6 DEF FirstKey
    <3>2. k # l /\ key[k].idem = <<i, s>>
      BY <1>2, <2>6 DEF FirstKey
    <3> QED BY <1>1, <2>1, <3>1, <3>2 DEF TwoOwners
  <2> QED BY <1>2, <1>5, <2>3, <2>4, <2>5, <2>6 DEF PairOK
<1>6. CASE <<i, s>> \in doubtful \cup renewed
  BY <1>6 DEF PairOK
<1> QED BY <1>4, <1>5, <1>6

\* A lookup before: the attempt finds the first key of its owner, or meets
\* another attempt, or is the only one.
LEMMA IssuedBegins ==
    ASSUME RootInv, IssuedInv, NEW r \in Requests, NEW a \in UserIds, NEW u, NEW p, NEW idem,
           IssueKey(r, a, u, p, idem), NEW i \in Idems, NEW s \in Scopes
    PROVE  PairOK(i, s)'
<1>1. /\ Begun(r, a) /\ req'[r].op = "create_key" /\ req'[r].target = u /\ req'[r].idem = idem
  <2> DEFINE x == [Idle EXCEPT !.op = "create_key", !.target = u, !.ref = p, !.idem = idem]
  <2>1. DOMAIN x = DOMAIN Idle /\ x.op = "create_key" /\ x.target = u /\ x.idem = idem
    BY IdleFields DEF Idle
  <2>2. Begin(r, a, "managed", x)
    BY DEF IssueKey
  <2> HIDE DEF x
  <2> QED BY <2>1, <2>2, BeginBegins
<1>2. /\ RequestsKept(r) /\ req'[r].scope = ScopeOf(a) /\ UNCHANGED <<record, key, renewed>>
      /\ ~ForPair(req[r], i, s)
  <2>1. Idle.op = "idle"
    BY DEF Idle
  <2> QED BY <1>1, <2>1 DEF Begun, ForPair, IssueKey
<1>3. PairOK(i, s) /\ doubtful' = doubtful \cup ({<<idem, ScopeOf(a)>>} \cap InProgress)
  BY DEF IssuedInv, IssueKey, Retry
<1>4. CASE ~ForPair(req'[r], i, s)
  <2>1. \A q \in Requests : /\ ForPair(req'[q], i, s) => req'[q] = req[q]
                            /\ ForPair(req[q], i, s) => req'[q] = req[q]
    BY <1>2, <1>4 DEF RequestsKept
  <2> QED BY <1>2, <1>3, <2>1, PairKept
<1>5. CASE <<i, s>> \in doubtful' \cup renewed'
  BY <1>5 DEF PairOK
<1>6. CASE ForPair(req'[r], i, s) /\ <<i, s>> \notin doubtful' \cup renewed'
  <2>1. idem = i /\ s = ScopeOf(a)
    BY <1>1, <1>2, <1>6 DEF ForPair
  <2>2. <<i, s>> \notin InProgress
    BY <1>3, <1>6, <2>1
  <2>3. \A q \in Requests : ~ForPair(req[q], i, s)
    BY <2>2 DEF InProgress, ForPair
  <2>4. \A q \in Requests : ForPair(req'[q], i, s) => q = r
    BY <1>2, <2>3 DEF RequestsKept
  <2>5. NoKeyYet(i, s) => NoKeyYet(i, s)'
    BY <1>1, <1>2, <2>4 DEF NoKeyYet
  <2>6. TwoOwners(i, s) => TwoOwners(i, s)'
    BY <1>2 DEF TwoOwners
  <2>7. ASSUME NEW k \in KeyIds, FirstKey(i, s, k) PROVE FirstKey(i, s, k)'
    <3>1. record[<<"create_key", i, s>>] = k
      BY <2>3, <2>7 DEF FirstKey
    <3>2. k # 0 /\ idem # ""
      BY <2>1, KeyRingAssumption, DirectoryAssumption
    <3>3. u # key[k].owner
      BY <2>1, <2>7, <3>1, <3>2 DEF IssueKey, KeyReplayed, Replayed, FirstKey
    <3> QED BY <1>1, <1>2, <2>4, <2>7, <3>1, <3>3 DEF FirstKey
  <2> QED BY <1>2, <1>3, <1>6, <2>4, <2>5, <2>6, <2>7 DEF PairOK
<1> QED BY <1>4, <1>5, <1>6

Pairless(x) == x.op # "remember" /\ (x.op = "create_key" => x.idem = "")

LEMMA PairlessBegin ==
    ASSUME RootInv, NEW r \in Requests, NEW a \in UserIds, NEW min, NEW x, Begin(r, a, min, x),
           DOMAIN x = DOMAIN Idle, Pairless(x)
    PROVE  Begun(r, a) /\ Pairless(req'[r])
<1>1. Begun(r, a) /\ req'[r].op = x.op /\ req'[r].idem = x.idem
  BY BeginBegins
<1> DEFINE y == req'[r]
<1>2. Pairless(y)
  <2> HIDE DEF y
  <2>1. y.op = x.op /\ y.idem = x.idem
    BY <1>1 DEF y
  <2> QED BY <2>1, Zenon DEF Pairless
<1> QED BY <1>1, <1>2

\* Other requests on keys begin without a pair.
LEMMA OtherKeysBegin ==
    ASSUME RootInv, NEW r \in Requests, NEW a \in UserIds,
           KeyRequest(r, a) \/ (LoginRequest(r, a) /\ UNCHANGED keysAndFaults)
    PROVE  \/ \E u, p, idem : IssueKey(r, a, u, p, idem)
           \/ Begun(r, a) /\ Pairless(req'[r]) /\ UNCHANGED <<doubtful, renewed, key>>
<1> DEFINE Goal == Begun(r, a) /\ Pairless(req'[r]) /\ UNCHANGED <<doubtful, renewed, key>>
<1> USE DEF KeysUnchanged, keyVars
<1>1. ASSUME NEW p, CreateOwnKey(r, a, p) PROVE Goal
  <2> DEFINE x == [Idle EXCEPT !.op = "create_key", !.target = a, !.ref = p]
  <2>1. DOMAIN x = DOMAIN Idle /\ Pairless(x)
    BY DEF Idle, Pairless
  <2>2. Begin(r, a, "user", x) /\ UNCHANGED <<doubtful, renewed, key>>
    BY <1>1 DEF CreateOwnKey
  <2> HIDE DEF x
  <2> QED BY <2>1, <2>2, PairlessBegin
<1>2. ASSUME NEW k, DeleteKey(r, a, k) PROVE Goal
  <2> DEFINE x == [Idle EXCEPT !.op = "delete_key", !.target = k]
  <2>1. DOMAIN x = DOMAIN Idle /\ Pairless(x)
    BY DEF Idle, Pairless
  <2>2. Begin(r, a, "user", x) /\ UNCHANGED <<doubtful, renewed, key>>
    BY <1>2 DEF DeleteKey
  <2> HIDE DEF x
  <2> QED BY <2>1, <2>2, PairlessBegin
<1>3. ASSUME NEW k, NEW s, NEW p, NEW limit, UpdateKey(r, a, k, s, p, limit) PROVE Goal
  <2> DEFINE x == [Idle EXCEPT !.op = "update_key", !.target = k, !.value = s, !.ref = p, !.todo = limit]
  <2>1. DOMAIN x = DOMAIN Idle /\ Pairless(x)
    BY DEF Idle, Pairless
  <2>2. Begin(r, a, "user", x) /\ UNCHANGED <<doubtful, renewed, key>>
    BY <1>3 DEF UpdateKey
  <2> HIDE DEF x
  <2> QED BY <2>1, <2>2, PairlessBegin
<1>4. ASSUME CreateProject(r, a) PROVE Goal
  <2> DEFINE x == [Idle EXCEPT !.op = "create_project"]
  <2>1. DOMAIN x = DOMAIN Idle /\ Pairless(x)
    BY DEF Idle, Pairless
  <2>2. Begin(r, a, "managed", x) /\ UNCHANGED <<doubtful, renewed, key>>
    BY <1>4 DEF CreateProject
  <2> HIDE DEF x
  <2> QED BY <2>1, <2>2, PairlessBegin
<1>5. ASSUME NEW p, DeleteProject(r, a, p) PROVE Goal
  <2> DEFINE x == [Idle EXCEPT !.op = "delete_project", !.target = p]
  <2>1. DOMAIN x = DOMAIN Idle /\ Pairless(x)
    BY DEF Idle, Pairless
  <2>2. Begin(r, a, "managed", x) /\ UNCHANGED <<doubtful, renewed, key>>
    BY <1>5 DEF DeleteProject
  <2> HIDE DEF x
  <2> QED BY <2>1, <2>2, PairlessBegin
<1>6. ASSUME NEW b, ChangePassword(r, a, b), UNCHANGED keyVars PROVE Goal
  <2> DEFINE x == [Idle EXCEPT !.op = "password", !.target = a, !.todo = {b}]
  <2>1. DOMAIN x = DOMAIN Idle /\ Pairless(x)
    BY DEF Idle, Pairless
  <2>2. Begin(r, a, "user", x) /\ UNCHANGED <<doubtful, renewed, key>>
    BY <1>6 DEF ChangePassword
  <2> HIDE DEF x
  <2> QED BY <2>1, <2>2, PairlessBegin
<1>7. ASSUME NEW u, NEW b, ResetPassword(r, a, u, b), UNCHANGED keyVars PROVE Goal
  <2> DEFINE x == [Idle EXCEPT !.op = "password", !.target = u,
                               !.todo = IF u = a THEN {b} ELSE {}]
  <2>1. DOMAIN x = DOMAIN Idle /\ Pairless(x)
    BY DEF Idle, Pairless
  <2>2. Begin(r, a, "managed", x) /\ UNCHANGED <<doubtful, renewed, key>>
    BY <1>7 DEF ResetPassword
  <2> HIDE DEF x
  <2> QED BY <2>1, <2>2, PairlessBegin
<1> QED
  BY <1>1, <1>2, <1>3, <1>4, <1>5, <1>6, <1>7 DEF KeyRequest, LoginRequest, keysAndFaults

\* A step that only ends requests of the pair that have not issued a key.
LEMMA PairPasses ==
    ASSUME NEW i \in Idems, NEW s \in Scopes, PairOK(i, s), \A k \in KeyIds : KeyKept(k),
           record' = record, doubtful \subseteq doubtful', renewed \subseteq renewed',
           \A r \in Requests : /\ ForPair(req'[r], i, s) => req'[r] = req[r]
                               /\ ForPair(req[r], i, s) /\ req[r].op = "remember"
                                  => req'[r] = req[r]
    PROVE  PairOK(i, s)'
<1>1. CASE <<i, s>> \in renewed'
  BY <1>1, PairKept
<1>2. CASE <<i, s>> \notin renewed'
  BY <1>2, PairKept DEF KeyKept
<1> QED BY <1>1, <1>2

LEMMA IssuedDirectory ==
    ASSUME RootInv, KeyTable, IssuedInv, NEW r \in Requests,
           (DirectoryWrite(r) /\ UNCHANGED keysAndFaults) \/ DeleteWithKeys(r),
           NEW i \in Idems, NEW s \in Scopes
    PROVE  PairOK(i, s)'
<1>1. Moves(r) /\ PairOK(i, s)
  BY OtherMoves DEF IssuedInv
<1>2. CASE Remember(r)
  <2>1. UNCHANGED <<key, doubtful, renewed>>
    BY <1>2 DEF Remember, DeleteWithKeys, WriteDelete, At, keysAndFaults, keyVars
  <2> QED BY <1>1, <1>2, <2>1, IssuedRemembered
<1>3. CASE ~Remember(r)
  <2>1. record' = record
    BY <1>3
    DEF DirectoryWrite, DeleteWithKeys, WriteDelete, Grant, WriteUser, ImportOneUser, WriteUpdate,
        WriteStatus, SetOneUserStatus, WriteOneStatus, GrantOneUser, WriteDepartment,
        WriteDeptUpdate, WriteDeptDelete, AssignMembers, WriteIntegration, WriteToken,
        WriteTokenStatus, WriteDisable
  <2>2. req[r].op \notin {"create_key", "remember"}
    BY <1>3
    DEF DirectoryWrite, DeleteWithKeys, WriteDelete, Grant, WriteUser, ImportOneUser, WriteUpdate,
        WriteStatus, SetOneUserStatus, WriteOneStatus, GrantOneUser, WriteDepartment,
        WriteDeptUpdate, WriteDeptDelete, AssignMembers, WriteIntegration, WriteToken,
        WriteTokenStatus, WriteDisable, At
  <2>3. \A q \in Requests : /\ ForPair(req'[q], i, s) => req'[q] = req[q]
                            /\ ForPair(req[q], i, s) => req'[q] = req[q]
    BY <1>1, <2>2 DEF Moves, LaterOps, RequestsKept, ForPair
  <2>4. doubtful' = doubtful /\ renewed \subseteq renewed'
    BY DEF DeleteWithKeys, keysAndFaults, keyVars
  <2>5. \A k \in KeyIds : KeyKept(k)
    BY CascadeKeeps, KeySame DEF keysAndFaults, keyVars
  <2> QED BY <1>1, <2>1, <2>3, <2>4, <2>5, PairPasses
<1> QED BY <1>2, <1>3

LEMMA IssuedKeys ==
    ASSUME RootInv, KeyTableInv, IssuedInv, NEW r \in Requests, KeyWrite(r),
           NEW i \in Idems, NEW s \in Scopes
    PROVE  PairOK(i, s)'
<1>1. Moves(r) /\ PairOK(i, s) /\ record' = record
  BY OtherMoves
  DEF IssuedInv, KeyWrite, WriteKey, RecordFails, WriteKeyUpdate, RestoreDepleted, WriteKeyDelete,
      WriteProject, WriteProjectDelete
<1>2. doubtful \subseteq doubtful' /\ renewed \subseteq renewed'
  BY DEF KeyWrite, WriteKey, RecordFails, WriteKeyUpdate, RestoreDepleted, WriteKeyDelete,
         WriteProject, WriteProjectDelete
<1>3. ASSUME NEW l \in KeyIds, KeyInserted(r, l) PROVE PairOK(i, s)'
  <2>1. UNCHANGED <<doubtful, renewed>>
    BY <1>3 DEF KeyInserted, WriteKey
  <2> QED BY <1>1, <1>3, <2>1, IssuedInserted
<1>4. CASE \A k \in KeyIds : KeyKept(k)
  <2>1. CASE RecordFails(r) /\ ForPair(req[r], i, s)
    <3>1. <<i, s>> \in doubtful'
      BY <2>1 DEF RecordFails, ForPair
    <3> QED BY <3>1 DEF PairOK
  <2>2. CASE ~(req[r].op = "remember" /\ ForPair(req[r], i, s))
    <3>1. ForPair(req'[r], i, s) => ForPair(req[r], i, s) /\ req'[r].op = "remember"
                                    /\ req[r].op = "create_key"
      BY <1>1 DEF Moves, LaterOps, ForPair
    <3>2. CASE ForPair(req'[r], i, s)
      <4>1. WriteKey(r) /\ ~Done(r)
        <5>1. Idle.op = "idle"
          BY DEF Idle
        <5> QED
          BY <3>1, <3>2, <5>1, DestroyDone
          DEF KeyWrite, WriteKey, RecordFails, WriteKeyUpdate, RestoreDepleted, WriteKeyDelete,
              WriteProject, WriteProjectDelete, At
      <4>2. PICK l \in Fresh(key) :
              key' = [key EXCEPT ![l] = [status |-> "enabled", owner |-> req[r].target,
                          project |-> req[r].ref, limit |-> NoLimit, used |-> 0,
                          idem |-> <<req[r].idem, req[r].scope>>]]
        BY <4>1 DEF WriteKey
      <4>3. l \in KeyIds /\ Live(key'[l]) /\ ~Live(key[l])
        BY <4>2 DEF Fresh, Live, KeyTableInv, KeyTable
      <4> QED BY <1>4, <4>3 DEF KeyKept
    <3>3. CASE ~ForPair(req'[r], i, s)
      <4>1. \A q \in Requests : /\ ForPair(req'[q], i, s) => req'[q] = req[q]
                                /\ ForPair(req[q], i, s) /\ req[q].op = "remember"
                                   => req'[q] = req[q]
        BY <1>1, <2>2, <3>3 DEF Moves, RequestsKept
      <4> QED BY <1>1, <1>2, <1>4, <4>1, PairPasses
    <3> QED BY <3>2, <3>3
  <2>3. CASE req[r].op = "remember" /\ ~RecordFails(r)
    BY <2>3
    DEF KeyWrite, WriteKey, WriteKeyUpdate, RestoreDepleted, WriteKeyDelete, WriteProject,
        WriteProjectDelete, At
  <2> QED BY <2>1, <2>2, <2>3
<1> QED BY <1>3, <1>4, KeyWriteKeeps

LEMMA RecordElsewhere ==
    ASSUME RootInv, [Next]_vars,
           ~ \E r \in Requests : \/ DirectoryWrite(r) /\ UNCHANGED keysAndFaults
                               \/ DeleteWithKeys(r) \/ KeyWrite(r)
    PROVE  record' = record
<1>1. ASSUME NEW r \in Requests, NEW a \in UserIds,
             \/ UserRequest(r, a) \/ DepartmentRequest(r, a) \/ IntegrationRequest(r, a)
             \/ KeyRequest(r, a) \/ LoginRequest(r, a)
      PROVE  record' = record
  BY <1>1, DirectoryBegins, KeysBegin DEF Begun
<1>2. ASSUME NEW r \in Requests, PasswordWrite(r) \/ SettingStep(r) PROVE record' = record
  BY <1>2 DEF PasswordWrite, WritePassword, DestroyUserSessions, RenewSession, SettingStep,
              Get, ReadRow, ReadFails, Put, Save, SaveFails, Invalidate, directoryVars
<1>3. ASSUME NEW q \in Relays, RelayStep(q) PROVE record' = record
  BY <1>3 DEF RelayStep, PrechargeKey, RefuseRelay, AuthenticateKey, SettleKey, directoryVars
<1>4. ASSUME NEW b \in Browsers, LoginStep(b) PROVE record' = record
  BY <1>4 DEF LoginStep, BeginLogin, CheckPassword, RefuseLogin, AcceptLogin, Logout,
              directoryVars
<1>5. Crash \/ Tick \/ UNCHANGED vars => record' = record
  BY DEF Crash, Tick, vars, directoryVars
<1> QED BY <1>1, <1>2, <1>3, <1>4, <1>5 DEF Next

LEMMA IssuedElsewhere ==
    ASSUME RootInv, KeyTableInv, IssuedInv, [Next]_vars, NEW i \in Idems, NEW s \in Scopes,
           ~ \E r \in Requests : \/ DirectoryWrite(r) /\ UNCHANGED keysAndFaults
                               \/ DeleteWithKeys(r) \/ KeyWrite(r)
    PROVE  PairOK(i, s)'
<1> DEFINE Goal == PairOK(i, s)'
<1>1. PairOK(i, s)
  BY DEF IssuedInv
<1>2. ASSUME UNCHANGED <<key, record, doubtful, renewed>>, NEW r \in Requests, RequestsKept(r),
             ~ForPair(req'[r], i, s), ~ForPair(req[r], i, s)
      PROVE  Goal
  <2>1. \A q \in Requests : /\ ForPair(req'[q], i, s) => req'[q] = req[q]
                            /\ ForPair(req[q], i, s) => req'[q] = req[q]
    BY <1>2 DEF RequestsKept
  <2> QED BY <1>1, <1>2, <2>1, KeySame, PairPasses
<1>3. Idle.op = "idle"
  BY DEF Idle
<1>4. ASSUME NEW r \in Requests, NEW a \in UserIds,
             UserRequest(r, a) \/ DepartmentRequest(r, a) \/ IntegrationRequest(r, a),
             UNCHANGED keysAndFaults
      PROVE  Goal
  <2>1. Begun(r, a) /\ req'[r].op \in DirectoryOps
    BY <1>4, DirectoryBegins DEF MayAsk
  <2>2. ~ForPair(req[r], i, s) /\ ~ForPair(req'[r], i, s)
    BY <1>3, <2>1 DEF Begun, DirectoryOps, ForPair
  <2> QED BY <1>2, <1>4, <2>1, <2>2 DEF Begun, keysAndFaults, keyVars
<1>5. ASSUME NEW r \in Requests, NEW a \in UserIds,
             KeyRequest(r, a) \/ (LoginRequest(r, a) /\ UNCHANGED keysAndFaults)
      PROVE  Goal
  <2>1. ASSUME NEW u, NEW p, NEW idem, IssueKey(r, a, u, p, idem) PROVE Goal
    BY <2>1, IssuedBegins DEF IssueKey, Begin
  <2>2. ASSUME Begun(r, a), Pairless(req'[r]), UNCHANGED <<doubtful, renewed, key>> PROVE Goal
    <3>1. i # ""
      BY DirectoryAssumption
    <3>2. ~ForPair(req[r], i, s) /\ ~ForPair(req'[r], i, s)
      BY <1>3, <2>2, <3>1 DEF Begun, Pairless, ForPair
    <3> QED BY <1>2, <2>2, <3>2 DEF Begun
  <2> QED BY <1>5, <2>1, <2>2, OtherKeysBegin
<1>6. ASSUME NEW r \in Requests, PasswordWrite(r), UNCHANGED keysAndFaults PROVE Goal
  <2>1. RequestsKept(r) /\ req[r].op \in SessionOps /\ req'[r].op \in {"idle", "destroy", "renew"}
    BY <1>6, PasswordMoves DEF SessionMoves
  <2>2. ~ForPair(req[r], i, s) /\ ~ForPair(req'[r], i, s)
    BY <2>1 DEF SessionOps, ForPair
  <2>3. UNCHANGED <<key, record, doubtful, renewed>>
    BY <1>6 DEF PasswordWrite, WritePassword, DestroyUserSessions, RenewSession, keysAndFaults,
                keyVars
  <2> QED BY <1>2, <2>1, <2>2, <2>3
<1>7. ASSUME NEW q \in Relays, RelayStep(q) PROVE Goal
  <2>1. UNCHANGED <<record, req, doubtful, renewed>>
    BY <1>7 DEF RelayStep, PrechargeKey, RefuseRelay, AuthenticateKey, SettleKey, directoryVars
  <2> QED BY <1>1, <1>7, <2>1, RelayKeeps, PairPasses DEF KeyTableInv
<1>8. ASSUME UNCHANGED <<record, req, keyVars>> PROVE Goal
  BY <1>1, <1>8, KeySame, PairPasses DEF keyVars
<1>9. CASE Crash
  <2>1. /\ req' = [r \in Requests |-> Idle] /\ UNCHANGED <<record, key, renewed>>
        /\ doubtful' = doubtful \cup InProgress
    BY <1>9 DEF Crash
  <2>2. CASE \E r \in Requests : ForPair(req[r], i, s)
    <3>1. <<i, s>> \in InProgress
      BY <2>2 DEF ForPair, InProgress
    <3> QED BY <2>1, <3>1 DEF PairOK
  <2>3. CASE ~ \E r \in Requests : ForPair(req[r], i, s)
    <3>1. \A r \in Requests : ~ForPair(req'[r], i, s)
      BY <1>3, <2>1 DEF ForPair
    <3> QED BY <1>1, <2>1, <2>3, <3>1, KeySame, PairPasses
  <2> QED BY <2>2, <2>3
<1>10. ASSUME NEW r \in Requests, SettingStep(r), UNCHANGED keysAndFaults PROVE Goal
  BY <1>8, <1>10 DEF SettingStep, Get, ReadRow, ReadFails, Put, Save, SaveFails, Invalidate,
                     directoryVars, keysAndFaults
<1>11. ASSUME NEW b \in Browsers, LoginStep(b), UNCHANGED keysAndFaults PROVE Goal
  BY <1>8, <1>11 DEF LoginStep, BeginLogin, CheckPassword, RefuseLogin, AcceptLogin, Logout,
                     directoryVars, keysAndFaults
<1>12. CASE Tick \/ UNCHANGED vars
  BY <1>8, <1>12 DEF Tick, vars, directoryVars, keysAndFaults
<1> QED
  BY <1>4, <1>5, <1>6, <1>7, <1>9, <1>10, <1>11, <1>12 DEF Next

LEMMA NextIssued ==
    ASSUME RootInv, KeyTableInv, IssuedInv, [Next]_vars PROVE IssuedInv'
<1> DEFINE Writes(r) == \/ DirectoryWrite(r) /\ UNCHANGED keysAndFaults
                        \/ DeleteWithKeys(r) \/ KeyWrite(r)
<1>1. ASSUME NEW i \in Idems, NEW s \in Scopes PROVE PairOK(i, s)'
  BY IssuedDirectory, IssuedKeys, IssuedElsewhere DEF KeyTableInv
<1>2. DOMAIN record' = DOMAIN record
  <2>1. ASSUME NEW r \in Requests, Writes(r) PROVE DOMAIN record' = DOMAIN record
    BY <2>1
    DEF KeyWrite, WriteKey, RecordFails, WriteKeyUpdate, RestoreDepleted, WriteKeyDelete,
        WriteProject, WriteProjectDelete, DirectoryWrite, DeleteWithKeys, WriteDelete, Remember,
        Grant, WriteUser, ImportOneUser, WriteUpdate, WriteStatus, SetOneUserStatus,
        WriteOneStatus, GrantOneUser, WriteDepartment, WriteDeptUpdate, WriteDeptDelete,
        AssignMembers, WriteIntegration, WriteToken, WriteTokenStatus, WriteDisable
  <2>2. CASE ~ \E r \in Requests : Writes(r)
    BY <2>2, RecordElsewhere
  <2> QED BY <2>1, <2>2
<1>3. \A k \in KeyIds : key'[k].status = "none" => key'[k].idem[1] \notin Idems
  BY KeysStep DEF KeyKept, KeyInserted, IssuedInv
<1> QED BY <1>1, <1>2, <1>3 DEF IssuedInv

LEMMA InitIssued == Init => IssuedInv
<1> SUFFICES ASSUME Init PROVE IssuedInv
  OBVIOUS
<1>1. PICK given \in Scenarios : key = Rows(KeyIds, given.keys, NoKey)
  BY DEF Init
<1>2. \A k \in KeyIds : key[k].idem[1] \notin Idems
  BY <1>1, ScenarioAssumption DEF Consistent
<1>3. \A r \in Requests : req[r].op = "idle"
  <2>1. Idle.op = "idle"
    BY DEF Idle
  <2> QED BY <2>1 DEF Init
<1>4. /\ DOMAIN record =
            {"create_user", "create_dept", "create_key"} \X Idems \X ({0} \cup IntegrationIds)
      /\ \A c \in DOMAIN record : record[c] = 0
  BY DEF Init
<1>5. ASSUME NEW i \in Idems, NEW s \in Scopes PROVE PairOK(i, s)
  <2>1. \A r \in Requests : ~ForPair(req[r], i, s)
    BY <1>3 DEF ForPair
  <2>2. NoKeyYet(i, s)
    BY <1>2, <1>4, <2>1, Pairs DEF NoKeyYet
  <2> QED BY <2>1, <2>2 DEF PairOK
<1> QED BY <1>2, <1>4, <1>5 DEF IssuedInv

LEMMA OnePerPair == IssuedInv => IssuedOnce
<1> SUFFICES ASSUME IssuedInv, NEW i \in Idems, NEW s \in IntegrationIds \cup {0},
                    <<i, s>> \notin doubtful \cup renewed, ~TwoOwners(i, s)
             PROVE  Cardinality({k \in KeyIds : key[k].idem = <<i, s>>}) <= 1
  BY DEF IssuedOnce, TwoOwners
<1> DEFINE keys == {k \in KeyIds : key[k].idem = <<i, s>>}
<1>1. PairOK(i, s)
  BY DEF IssuedInv, Scopes
<1>2. Cardinality({}) = 0 /\ \A k \in KeyIds : Cardinality({k}) = 1
  BY FS_EmptySet, FS_Singleton
<1>3. keys = {} \/ \E k \in KeyIds : keys = {k}
  <2>1. CASE NoKeyYet(i, s)
    BY <2>1 DEF NoKeyYet
  <2>2. ASSUME NEW k \in KeyIds, FirstKey(i, s, k) PROVE keys = {k}
    BY <2>2 DEF FirstKey
  <2> QED BY <1>1, <2>1, <2>2 DEF PairOK
<1> HIDE DEF keys
<1>4. Cardinality(keys) <= 1
  BY <1>2, <1>3
<1> QED BY <1>4 DEF keys

\* A retried creation answers with the key it has issued: one idempotency key
\* stands for one key of its owner, whatever else happens between the lookup,
\* the insertion and the record, but for the overlaps and losses it names.
THEOREM RetriesIssueOnce == Spec => []IssuedOnce
  BY InitRoot, NextRoot, InitKeyTable, NextKeyTable, InitIssued, NextIssued, OnePerPair, PTL
  DEF Spec

-----------------------------------------------------------------------------
(* References of users and departments *)

\* What the columns that refer to rows hold, and that the rows exist.
DirectoryRefs ==
    /\ DOMAIN dept = DeptIds
    /\ \A d \in DeptIds : DOMAIN dept[d] = DOMAIN NoDept /\ dept[d].owner \in UserIds \cup {0}
    /\ \A u \in UserIds : user[u].dept \in DeptIds \cup {0}
    /\ \A u \in UserIds : user[u].billed => Live(user[u])
    /\ \A u \in UserIds : Live(user[u]) => Exists(dept, user[u].dept)
    /\ \A d \in DeptIds : Live(dept[d]) => Exists(user, dept[d].owner)

\* A write leaves a user in a department that exists, and does not delete him.
StaysWell(u) ==
    /\ user'[u].dept \in DeptIds \cup {0}
    /\ user'[u].billed => Live(user'[u])
    /\ Live(user'[u]) => Exists(dept, user'[u].dept)
    /\ Live(user[u]) => Live(user'[u])

UsersStay == \A u \in UserIds : Live(user[u]) => Live(user'[u])

LEMMA UserSame ==
    ASSUME DirectoryRefs, NEW u \in UserIds, user'[u] = user[u] PROVE StaysWell(u)
  BY DEF DirectoryRefs, StaysWell

LEMMA UsersWritten ==
    ASSUME DirectoryRefs, UNCHANGED dept, \A u \in UserIds : StaysWell(u)
    PROVE  DirectoryRefs' /\ UsersStay
  BY DEF DirectoryRefs, StaysWell, Exists, UsersStay

\* One row of users is written.
LEMMA UserWritten ==
    ASSUME RootInv, DirectoryRefs, UNCHANGED dept, NEW v, NEW row,
           user' = [user EXCEPT ![v] = row],
           v \in UserIds => /\ row.dept \in DeptIds \cup {0}
                            /\ row.billed => Live(row)
                            /\ Live(row) => Exists(dept, row.dept)
                            /\ Live(user[v]) => Live(row)
    PROVE  DirectoryRefs' /\ UsersStay
<1>1. ASSUME NEW u \in UserIds PROVE StaysWell(u)
  <2>1. CASE u # v
    <3>1. user'[u] = user[u]
      BY <2>1 DEF RootInv, TablesOK
    <3> QED BY <3>1, UserSame
  <2>2. CASE u = v
    <3>1. user'[u] = row
      BY <2>2 DEF RootInv, TablesOK
    <3> QED BY <2>2, <3>1 DEF StaysWell
  <2> QED BY <2>1, <2>2
<1> QED BY <1>1, UsersWritten

\* A new user comes into a department that exists, with an account or without.
LEMMA NewUserRefers ==
    ASSUME RootInv, DirectoryRefs, UNCHANGED dept, NEW v \in Fresh(user), NEW row,
           user' = [user EXCEPT ![v] = row], row.dept \in DeptIds \cup {0},
           row.status = "enabled", Exists(dept, row.dept)
    PROVE  DirectoryRefs' /\ UsersStay
  BY UserWritten DEF Live

LEMMA CreationRefers ==
    ASSUME RootInv, DirectoryRefs, Asked, NEW r \in Requests,
           WriteUser(r) \/ ImportOneUser(r) \/ WriteIntegration(r)
    PROVE  DirectoryRefs' /\ UsersStay
<1>1. CASE UNCHANGED user
  <2>1. UNCHANGED dept
    BY DEF WriteUser, ImportOneUser, WriteIntegration
  <2> QED BY <1>1, <2>1, UserSame, UsersWritten
<1>2. CASE WriteUser(r) /\ ~UNCHANGED user
  <2>1. PICK v \in Fresh(user) : user' = [user EXCEPT ![v] =
                     NewUser(req[r].name, req[r].role, req[r].ref, req[r].scope)]
    BY <1>2 DEF WriteUser, UserWrite
  <2>2. /\ UNCHANGED dept /\ Exists(dept, req[r].ref) /\ req[r].ref \in DeptIds \cup {0}
    BY <1>2 DEF WriteUser, At, Asked, WellAsked
  <2>3. PICK row : row = NewUser(req[r].name, req[r].role, req[r].ref, req[r].scope)
    OBVIOUS
  <2>4. row.dept = req[r].ref /\ row.status = "enabled"
    BY <2>3 DEF NewUser
  <2> QED BY <2>1, <2>2, <2>3, <2>4, NewUserRefers
<1>3. CASE ImportOneUser(r) /\ ~UNCHANGED user
  <2>1. PICK name \in req[r].todo, v \in Fresh(user), billed \in BOOLEAN :
          user' = [user EXCEPT ![v] =
                      [NewUser(name, "user", req[r].ref, 0) EXCEPT !.billed = billed]]
    BY <1>3 DEF ImportOneUser, UserWrite
  <2>2. /\ UNCHANGED dept /\ Exists(dept, req[r].ref) /\ req[r].ref \in DeptIds \cup {0}
    BY <1>3 DEF ImportOneUser, At, Asked, WellAsked
  <2>3. PICK row : row = [NewUser(name, "user", req[r].ref, 0) EXCEPT !.billed = billed]
    OBVIOUS
  <2>4. row.dept = req[r].ref /\ row.status = "enabled"
    BY <2>3 DEF NewUser
  <2> QED BY <2>1, <2>2, <2>3, <2>4, NewUserRefers
<1>4. CASE WriteIntegration(r) /\ ~UNCHANGED user
  <2>1. PICK i \in Fresh(integration), v \in Fresh(user) :
          user' = [user EXCEPT ![v] = NewUser(req[r].name, "managed", 0, i)]
    BY <1>4 DEF WriteIntegration
  <2>2. UNCHANGED dept
    BY <1>4 DEF WriteIntegration
  <2>3. PICK row : row = NewUser(req[r].name, "managed", 0, i)
    OBVIOUS
  <2>4. row.dept = 0 /\ row.status = "enabled"
    BY <2>3 DEF NewUser
  <2> QED BY <2>1, <2>2, <2>3, <2>4, NewUserRefers DEF Exists
<1> QED BY <1>1, <1>2, <1>3, <1>4

\* Credits are granted to whom there is.
LEMMA GrantRefers ==
    ASSUME RootInv, DirectoryRefs, NEW r \in Requests, Grant(r) \/ GrantOneUser(r)
    PROVE  DirectoryRefs' /\ UsersStay
<1>1. UNCHANGED dept
  BY DEF Grant, GrantOneUser
<1>2. CASE UNCHANGED user
  BY <1>1, <1>2, UserSame, UsersWritten
<1>3. CASE ~UNCHANGED user
  <2>1. PICK v, billed : /\ user' = [user EXCEPT ![v].billed = billed]
                         /\ billed => user[v].billed \/ Live(user[v])
    <3>1. CASE Grant(r)
      BY <1>3, <3>1 DEF Grant
    <3>2. CASE GrantOneUser(r)
      <4>1. PICK v \in req[r].todo : user' = [user EXCEPT ![v].billed = @ \/ Live(user[v])]
        BY <1>3, <3>2 DEF GrantOneUser
      <4> QED BY <4>1
    <3> QED BY <3>1, <3>2
  <2>2. PICK row : row = [user[v] EXCEPT !.billed = billed]
    OBVIOUS
  <2>3. user' = [user EXCEPT ![v] = row]
    BY <2>1, <2>2 DEF RootInv, TablesOK
  <2>4. v \in UserIds => /\ row.dept = user[v].dept /\ row.status = user[v].status
                         /\ row.billed = billed
    BY <2>2, UserFields DEF RootInv, TablesOK
  <2>5. v \in UserIds =>
          /\ row.dept \in DeptIds \cup {0} /\ (Live(row) <=> Live(user[v]))
          /\ Live(row) => Exists(dept, row.dept)
    BY <2>4, Zenon DEF DirectoryRefs, Live
  <2>6. v \in UserIds => (row.billed => Live(row))
    BY <2>1, <2>4, <2>5, Zenon DEF DirectoryRefs
  <2> QED BY <1>1, <2>3, <2>5, <2>6, UserWritten, Zenon
<1> QED BY <1>2, <1>3

\* A user is moved, and given a status that leaves him there.
LEMMA ChangeRefers ==
    ASSUME RootInv, DirectoryRefs, Asked, NEW r \in Requests,
           WriteUpdate(r) \/ WriteStatus(r) \/ WriteOneStatus(r)
    PROVE  DirectoryRefs' /\ UsersStay
<1>1. UNCHANGED dept
  BY DEF WriteUpdate, WriteStatus, WriteOneStatus
<1>2. CASE UNCHANGED user
  BY <1>1, <1>2, UserSame, UsersWritten
<1>3. PICK v : v = req[r].target
  OBVIOUS
<1>4. CASE WriteUpdate(r) /\ ~UNCHANGED user
  <2>1. PICK d, role : /\ d = IF req[r].ref = -1 THEN user[v].dept ELSE req[r].ref
                       /\ user' = [user EXCEPT ![v].dept = d, ![v].role = role]
                       /\ Live(user[v]) /\ Exists(dept, d)
    BY <1>3, <1>4 DEF WriteUpdate, UserWrite
  <2>2. v \in UserIds => d \in DeptIds \cup {0}
    BY <1>4, <2>1 DEF WriteUpdate, At, Asked, WellAsked, DirectoryRefs
  <2>3. PICK row : row = [[user[v] EXCEPT !.dept = d] EXCEPT !.role = role]
    OBVIOUS
  <2>4. user' = [user EXCEPT ![v] = row]
    BY <2>1, <2>3 DEF RootInv, TablesOK
  <2>5. v \in UserIds => /\ row.dept = d /\ row.status = user[v].status
                         /\ row.billed = user[v].billed
    BY <2>3, UserFields DEF RootInv, TablesOK
  <2> QED BY <1>1, <2>1, <2>2, <2>4, <2>5, UserWritten DEF Live
<1>5. CASE (WriteStatus(r) \/ WriteOneStatus(r)) /\ ~UNCHANGED user
  <2>1. user' = [user EXCEPT ![v].status = req[r].value] /\ Live(user[v])
    BY <1>3, <1>5 DEF WriteStatus, WriteOneStatus, UserWrite
  <2>2. req[r].value \in Status
    BY <1>5 DEF WriteStatus, WriteOneStatus, At, RootInv, RequestOK
  <2>3. PICK row : row = [user[v] EXCEPT !.status = req[r].value]
    OBVIOUS
  <2>4. user' = [user EXCEPT ![v] = row]
    BY <2>1, <2>3 DEF RootInv, TablesOK
  <2>5. v \in UserIds => /\ row.dept = user[v].dept /\ row.status = req[r].value
                         /\ row.billed = user[v].billed
    BY <2>3, UserFields DEF RootInv, TablesOK
  <2>6. v \in UserIds =>
          /\ row.dept \in DeptIds \cup {0} /\ Live(row) /\ Exists(dept, row.dept)
    BY <2>1, <2>2, <2>5 DEF Live, Status, DirectoryRefs
  <2> QED BY <1>1, <2>4, <2>6, UserWritten
<1> QED BY <1>2, <1>4, <1>5

\* Many at once.
LEMMA SweepRefers ==
    ASSUME RootInv, DirectoryRefs, Asked, NEW r \in Requests, AssignMembers(r) \/ WriteDisable(r)
    PROVE  DirectoryRefs' /\ UsersStay
<1>1. CASE UNCHANGED <<user, dept>>
  BY <1>1, UserSame, UsersWritten
<1>2. CASE AssignMembers(r) /\ ~UNCHANGED <<user, dept>>
  <2>1. PICK d : d = req[r].ref
    OBVIOUS
  <2>2. /\ user' = [u \in UserIds |-> IF u \in req[r].todo /\ Live(user[u])
                                      THEN [user[u] EXCEPT !.dept = d] ELSE user[u]]
        /\ UNCHANGED dept /\ Exists(dept, d)
    BY <1>2, <2>1 DEF AssignMembers, UserWrite
  <2>3. d \in DeptIds \cup {0}
    BY <1>2, <2>1 DEF AssignMembers, At, Asked, WellAsked
  <2>4. ASSUME NEW u \in UserIds PROVE StaysWell(u)
    <3>1. CASE user'[u] = user[u]
      BY <3>1, UserSame
    <3>2. CASE user'[u] # user[u]
      <4>1. user'[u] = [user[u] EXCEPT !.dept = d]
        BY <2>2, <3>2
      <4>2. /\ user'[u].dept = d /\ user'[u].status = user[u].status
            /\ user'[u].billed = user[u].billed
        BY <4>1, UserFields DEF RootInv, TablesOK
      <4> QED BY <2>2, <2>3, <4>2 DEF StaysWell, DirectoryRefs, Live
    <3> QED BY <3>1, <3>2
  <2> QED BY <2>2, <2>4, UsersWritten
<1>3. CASE WriteDisable(r)
  <2>1. PICK i : i = req[r].target
    OBVIOUS
  <2>2. /\ user' = [u \in UserIds |-> IF user[u].integration = i /\ Live(user[u])
                                      THEN [user[u] EXCEPT !.status = "disabled"] ELSE user[u]]
        /\ UNCHANGED dept
    BY <1>3, <2>1 DEF WriteDisable
  <2>3. ASSUME NEW u \in UserIds PROVE StaysWell(u)
    <3>1. CASE user'[u] = user[u]
      BY <3>1, UserSame
    <3>2. CASE user'[u] # user[u]
      <4>1. user'[u] = [user[u] EXCEPT !.status = "disabled"] /\ Live(user[u])
        BY <2>2, <3>2
      <4>2. /\ user'[u].dept = user[u].dept /\ user'[u].status = "disabled"
            /\ user'[u].billed = user[u].billed
        BY <4>1, UserFields DEF RootInv, TablesOK
      <4> QED BY <4>1, <4>2 DEF StaysWell, DirectoryRefs, Live
    <3> QED BY <3>1, <3>2
  <2> QED BY <2>2, <2>3, UsersWritten
<1> QED BY <1>1, <1>2, <1>3

\* Who is deleted has no account, and leaves his department and those he owned.
LEMMA DeleteRefers ==
    ASSUME RootInv, DirectoryRefs, NEW r \in Requests, WriteDelete(r)
    PROVE  /\ DirectoryRefs'
           /\ \A u \in UserIds : Live(user[u]) => Live(user'[u]) \/ req[r].target = u
<1>1. CASE UNCHANGED <<user, dept>>
  BY <1>1, UserSame, UsersWritten DEF UsersStay
<1>2. CASE ~UNCHANGED <<user, dept>>
  <2>1. PICK v : v = req[r].target
    OBVIOUS
  <2>2. /\ user' = [user EXCEPT ![v].status = "deleted", ![v].dept = 0]
        /\ dept' = [d \in DeptIds |-> IF dept[d].owner = v
                                      THEN [dept[d] EXCEPT !.owner = 0] ELSE dept[d]]
        /\ ~user[v].billed
    BY <1>2, <2>1 DEF WriteDelete, UserWrite, tables
  <2>3. ASSUME NEW u \in UserIds, u # v PROVE user'[u] = user[u]
    BY <2>2, <2>3 DEF RootInv, TablesOK
  <2>4. v \in UserIds => user'[v].status = "deleted" /\ user'[v].dept = 0 /\ ~user'[v].billed
    BY <2>2, UserFields DEF RootInv, TablesOK
  <2>5. ASSUME NEW d \in DeptIds
        PROVE  /\ DOMAIN dept'[d] = DOMAIN NoDept /\ dept'[d].status = dept[d].status
               /\ dept'[d].owner \in UserIds \cup {0}
               /\ dept'[d].owner # 0 => dept'[d].owner = dept[d].owner /\ dept[d].owner # v
    BY <2>2 DEF DirectoryRefs, NoDept
  <2>6. DOMAIN dept' = DeptIds
    BY <2>2
  <2>7. ASSUME NEW u \in UserIds
        PROVE  /\ user'[u].dept \in DeptIds \cup {0} /\ (user'[u].billed => Live(user'[u]))
               /\ Live(user'[u]) => Exists(dept', user'[u].dept)
    BY <2>3, <2>4, <2>5 DEF DirectoryRefs, Live, Exists
  <2>8. ASSUME NEW d \in DeptIds, Live(dept'[d]) PROVE Exists(user', dept'[d].owner)
    BY <2>3, <2>5, <2>8 DEF DirectoryRefs, Live, Exists
  <2> QED BY <2>1, <2>3, <2>5, <2>6, <2>7, <2>8 DEF DirectoryRefs
<1> QED BY <1>1, <1>2

\* Departments are created without an owner, and deleted without members.
LEMMA DepartmentRefers ==
    ASSUME RootInv, DirectoryRefs, Asked, NEW r \in Requests,
           WriteDepartment(r) \/ WriteDeptUpdate(r) \/ WriteDeptDelete(r)
    PROVE  DirectoryRefs' /\ UsersStay
<1> USE DEF NoDept
<1>1. UNCHANGED user
  BY DEF WriteDepartment, WriteDeptUpdate, WriteDeptDelete
<1>2. ASSUME UNCHANGED dept PROVE DirectoryRefs' /\ UsersStay
  BY <1>1, <1>2, UserSame, UsersWritten
<1>3. ASSUME NEW d, NEW row, dept' = [dept EXCEPT ![d] = row],
             d \in DeptIds => /\ DOMAIN row = DOMAIN NoDept /\ row.owner \in UserIds \cup {0}
                              /\ Live(row) => Exists(user, row.owner)
                              /\ Live(row) \/ \A u \in UserIds : Live(user[u]) => user[u].dept # d
      PROVE  DirectoryRefs' /\ UsersStay
  <2>1. DOMAIN dept' = DeptIds /\ \A e \in DeptIds : dept'[e] = IF e = d THEN row ELSE dept[e]
    BY <1>3 DEF DirectoryRefs
  <2>2. ASSUME NEW u \in UserIds, Live(user[u]) PROVE Exists(dept', user[u].dept)
    BY <1>3, <2>1, <2>2 DEF DirectoryRefs, Exists
  <2>3. UsersStay
    BY <1>1 DEF UsersStay
  <2> QED BY <1>1, <1>3, <2>1, <2>2, <2>3 DEF DirectoryRefs, Exists
<1>4. CASE WriteDepartment(r)
  <2>1. PICK d : dept' = [dept EXCEPT ![d] = [status |-> "enabled", owner |-> 0,
                                              integration |-> req[r].scope]]
    BY <1>4 DEF WriteDepartment
  <2>2. PICK row : row = [status |-> "enabled", owner |-> 0, integration |-> req[r].scope]
    OBVIOUS
  <2>3. DOMAIN row = DOMAIN NoDept /\ row.owner = 0 /\ Live(row)
    BY <2>2 DEF Live
  <2> QED BY <1>3, <2>1, <2>2, <2>3 DEF Exists
<1>5. CASE WriteDeptUpdate(r) /\ ~UNCHANGED dept
  <2>1. PICK d : d = req[r].target
    OBVIOUS
  <2>2. /\ Live(dept[d]) /\ Exists(user, req[r].ref)
        /\ dept' = [dept EXCEPT ![d].status = req[r].value, ![d].owner = req[r].ref]
    BY <1>5, <2>1 DEF WriteDeptUpdate
  <2>3. req[r].value \in Status /\ req[r].ref \in UserIds \cup {0}
    BY <1>5 DEF WriteDeptUpdate, At, Asked, WellAsked
  <2>4. PICK row : row = [[dept[d] EXCEPT !.status = req[r].value] EXCEPT !.owner = req[r].ref]
    OBVIOUS
  <2>5. dept' = [dept EXCEPT ![d] = row]
    BY <2>2, <2>4 DEF DirectoryRefs
  <2>6. d \in DeptIds => /\ DOMAIN row = DOMAIN NoDept /\ row.owner = req[r].ref
                         /\ row.status = req[r].value
    BY <2>4 DEF DirectoryRefs
  <2>7. d \in DeptIds => Live(row)
    BY <2>3, <2>6 DEF Live, Status
  <2> QED BY <1>3, <2>2, <2>3, <2>5, <2>6, <2>7
<1>6. CASE WriteDeptDelete(r) /\ ~UNCHANGED dept
  <2>1. PICK d : d = req[r].target
    OBVIOUS
  <2>2. /\ Members(d) = {}
        /\ dept' = [dept EXCEPT ![d].status = "deleted", ![d].owner = 0]
    BY <1>6, <2>1 DEF WriteDeptDelete
  <2>3. PICK row : row = [[dept[d] EXCEPT !.status = "deleted"] EXCEPT !.owner = 0]
    OBVIOUS
  <2>4. dept' = [dept EXCEPT ![d] = row]
    BY <2>2, <2>3 DEF DirectoryRefs
  <2>5. d \in DeptIds => DOMAIN row = DOMAIN NoDept /\ row.owner = 0 /\ ~Live(row)
    BY <2>3 DEF DirectoryRefs, Live
  <2>6. \A u \in UserIds : Live(user[u]) => user[u].dept # d
    BY <2>2 DEF Members
  <2> QED BY <1>3, <2>4, <2>5, <2>6
<1> QED BY <1>2, <1>4, <1>5, <1>6

\* A precharge is an account of a user there is.
LEMMA RelayRefers ==
    ASSUME RootInv, DirectoryRefs, NEW q \in Relays, RelayStep(q)
    PROVE  DirectoryRefs' /\ UsersStay
<1> USE DEF RelayStep, RefuseRelay, AuthenticateKey, SettleKey, PrechargeKey, directoryVars, tables
<1>1. UNCHANGED dept
  OBVIOUS
<1>2. CASE UNCHANGED user
  BY <1>1, <1>2, UserSame, UsersWritten
<1>3. CASE ~UNCHANGED user
  <2>1. PICK v : user' = [user EXCEPT ![v].billed = TRUE] /\ Live(user[v])
    BY <1>3
  <2>2. PICK row : row = [user[v] EXCEPT !.billed = TRUE]
    OBVIOUS
  <2>3. user' = [user EXCEPT ![v] = row]
    BY <2>1, <2>2 DEF RootInv, TablesOK
  <2>4. v \in UserIds => row.dept = user[v].dept /\ row.status = user[v].status
    BY <2>2, UserFields DEF RootInv, TablesOK
  <2>5. v \in UserIds => /\ row.dept \in DeptIds \cup {0} /\ Live(row)
                         /\ Exists(dept, row.dept)
    BY <2>1, <2>4, Zenon DEF DirectoryRefs, Live
  <2> QED BY <1>1, <2>3, <2>5, UserWritten, Zenon
<1> QED BY <1>2, <1>3

\* Whose row is deleted loses his keys in the same step.
LEMMA NextDirectoryRefs ==
    ASSUME RootInv, Asked, DirectoryRefs, [Next]_vars
    PROVE  /\ DirectoryRefs'
           /\ \A u \in UserIds : Live(user[u]) =>
                 Live(user'[u]) \/ \E r \in Requests : DeleteWithKeys(r) /\ req[r].target = u
<1> DEFINE Goal == /\ DirectoryRefs'
                   /\ \A u \in UserIds : Live(user[u]) =>
                         \/ Live(user'[u])
                         \/ \E r \in Requests : DeleteWithKeys(r) /\ req[r].target = u
<1>1. ASSUME UNCHANGED <<user, dept>> PROVE Goal
  BY <1>1, UserSame, UsersWritten DEF UsersStay
<1>2. ASSUME NEW r \in Requests, NEW a \in UserIds,
             \/ UserRequest(r, a) \/ DepartmentRequest(r, a) \/ IntegrationRequest(r, a)
             \/ KeyRequest(r, a) \/ LoginRequest(r, a)
      PROVE  UNCHANGED <<user, dept>>
  BY <1>2, DirectoryBegins, KeysBegin DEF Begun, tables
<1>3. ASSUME NEW r \in Requests, DirectoryWrite(r) PROVE Goal
  <2>1. CASE Remember(r) \/ SetOneUserStatus(r) \/ WriteToken(r) \/ WriteTokenStatus(r)
    BY <1>1, <2>1 DEF Remember, SetOneUserStatus, WriteToken, WriteTokenStatus, tables
  <2> QED
    BY <1>3, <2>1, CreationRefers, GrantRefers, ChangeRefers, SweepRefers, DepartmentRefers
    DEF DirectoryWrite, UsersStay
<1>4. ASSUME NEW r \in Requests, DeleteWithKeys(r) PROVE Goal
  BY <1>4, DeleteRefers DEF DeleteWithKeys
<1>5. ASSUME NEW r \in Requests, KeyWrite(r) PROVE UNCHANGED <<user, dept>>
  BY <1>5 DEF KeyWrite, WriteKey, RecordFails, WriteKeyUpdate, RestoreDepleted, WriteKeyDelete,
              WriteProject, WriteProjectDelete, tables
<1>6. ASSUME NEW r \in Requests, PasswordWrite(r) \/ SettingStep(r) PROVE UNCHANGED <<user, dept>>
  BY <1>6 DEF PasswordWrite, WritePassword, DestroyUserSessions, RenewSession, SettingStep, Get,
              ReadRow, ReadFails, Put, Save, SaveFails, Invalidate, directoryVars, tables
<1>7. ASSUME NEW b \in Browsers, LoginStep(b) PROVE UNCHANGED <<user, dept>>
  BY <1>7 DEF LoginStep, BeginLogin, CheckPassword, RefuseLogin, AcceptLogin, Logout,
              directoryVars, tables
<1>8. Crash \/ Tick \/ UNCHANGED vars => UNCHANGED <<user, dept>>
  BY DEF Crash, Tick, vars, directoryVars, tables
<1>9. ASSUME NEW q \in Relays, RelayStep(q) PROVE Goal
  BY <1>9, RelayRefers DEF UsersStay
<1> HIDE DEF Goal
<1>10. Goal
  BY <1>1, <1>2, <1>3, <1>4, <1>5, <1>6, <1>7, <1>8, <1>9 DEF Next
<1> QED BY <1>10 DEF Goal

LEMMA InitDirectoryRefs == Init => DirectoryRefs
<1> SUFFICES ASSUME Init PROVE DirectoryRefs
  OBVIOUS
<1>1. PICK s \in Scenarios :
        user = Rows(UserIds, s.users, NoUser) /\ dept = Rows(DeptIds, s.depts, NoDept)
  BY DEF Init
<1>2. NoUser \in UserRow /\ NoDept \in DeptRow
  <2>1. NoUser \in UserRow
    BY DEF NoUser, UserRow, RowStatus, Roles
  <2>2. NoDept \in DeptRow
    BY DEF NoDept, DeptRow, RowStatus
  <2> QED BY <2>1, <2>2
<1>3. user \in [UserIds -> UserRow] /\ dept \in [DeptIds -> DeptRow]
  BY <1>1, <1>2, RowsAre, OrganizationAssumption
<1>4. /\ \A x \in UserRow : x.dept \in DeptIds \cup {0}
      /\ \A x \in DeptRow : DOMAIN x = DOMAIN NoDept /\ x.owner \in UserIds \cup {0}
  BY DEF UserRow, DeptRow, NoDept
<1>5. /\ \A u \in UserIds : user[u].billed => Live(user[u])
      /\ \A u \in UserIds : Live(user[u]) => Exists(dept, user[u].dept)
      /\ \A d \in DeptIds : Live(dept[d]) => Exists(user, dept[d].owner)
  BY <1>1, ScenarioAssumption, Zenon DEF Consistent
<1> QED BY <1>3, <1>4, <1>5 DEF DirectoryRefs

-----------------------------------------------------------------------------
(* References of keys *)

\* A project that was of a user's integration when somebody looked. It may have
\* been deleted since, and the user too, but neither changes its integration.
Fitted(p, u) ==
    /\ u \in UserIds /\ user[u].status # "none"
    /\ p # 0 => /\ p \in ProjectIds /\ project[p].status # "none"
                /\ project[p].integration = user[u].integration

KeyRefersWell(k) ==
    /\ key[k].owner \in UserIds /\ Live(user[key[k].owner])
    /\ Fitted(key[k].project, key[k].owner) /\ Exists(project, key[k].project)

\* What the handlers of key requests have seen stays true while they wait.
KeyRequestOK(r) ==
    /\ req[r].op = "create_key" => Fitted(req[r].ref, req[r].target)
    /\ req[r].op = "update_key" /\ req[r].ref # -1 =>
          key[req[r].target].status # "none" /\ Fitted(req[r].ref, key[req[r].target].owner)

ProjectTable ==
    DOMAIN project = ProjectIds /\ \A p \in ProjectIds : DOMAIN project[p] = DOMAIN NoRow

KeyRefs ==
    /\ ProjectTable
    /\ \A k \in KeyIds : Live(key[k]) => KeyRefersWell(k)
    /\ \A r \in Requests : KeyRequestOK(r)

\* Projects are never forgotten, and never change their integration.
ProjectsKept ==
    \A p \in ProjectIds : project[p].status # "none" =>
        project'[p].status # "none" /\ project'[p].integration = project[p].integration

LEMMA ProjectsStep ==
    ASSUME KeyRefs, [Next]_vars
    PROVE  /\ ProjectTable' /\ ProjectsKept
           /\ \A p \in ProjectIds : Live(project[p]) =>
                 Live(project'[p]) \/ \E r \in Requests : WriteProjectDelete(r) /\ req[r].target = p
<1> DEFINE Goal == /\ ProjectTable' /\ ProjectsKept
                   /\ \A p \in ProjectIds : Live(project[p]) =>
                         \/ Live(project'[p])
                         \/ \E r \in Requests : WriteProjectDelete(r) /\ req[r].target = p
<1>1. ASSUME UNCHANGED project PROVE Goal
  BY <1>1 DEF KeyRefs, ProjectTable, ProjectsKept
<1>2. ASSUME NEW r \in Requests, WriteProject(r) PROVE Goal
  <2>1. PICK p \in Fresh(project) :
          project' = [project EXCEPT ![p] = [status |-> "enabled", integration |-> req[r].scope]]
    BY <1>2 DEF WriteProject
  <2>2. p \in ProjectIds /\ project[p].status = "none"
    BY DEF Fresh, KeyRefs, ProjectTable
  <2> QED BY <2>1, <2>2, RowFields DEF KeyRefs, ProjectTable, ProjectsKept, Live
<1>3. ASSUME NEW r \in Requests, WriteProjectDelete(r) PROVE Goal
  <2>1. PICK p : p = req[r].target /\ project' = [project EXCEPT ![p].status = "deleted"]
    BY <1>3 DEF WriteProjectDelete
  <2>2. \A q \in ProjectIds : q # p => project'[q] = project[q]
    BY <2>1 DEF KeyRefs, ProjectTable
  <2>3. ProjectTable' /\ ProjectsKept
    BY <2>1, RowFields DEF KeyRefs, ProjectTable, ProjectsKept
  <2> QED BY <1>3, <2>1, <2>2, <2>3
<1>4. ASSUME NEW r \in Requests, NEW a \in UserIds, KeyRequest(r, a) PROVE UNCHANGED project
  BY <1>4
  DEF KeyRequest, IssueKey, CreateOwnKey, DeleteKey, UpdateKey, CreateProject, DeleteProject,
      KeysUnchanged, keyVars
<1>5. ASSUME NEW r \in Requests, KeyWrite(r), ~WriteProject(r), ~WriteProjectDelete(r)
      PROVE  UNCHANGED project
  BY <1>5 DEF KeyWrite, WriteKey, RecordFails, WriteKeyUpdate, RestoreDepleted, WriteKeyDelete
<1>6. ASSUME NEW q \in Relays, RelayStep(q) PROVE UNCHANGED project
  BY <1>6 DEF RelayStep, PrechargeKey, RefuseRelay, AuthenticateKey, SettleKey
<1>7. UNCHANGED keysAndFaults \/ Crash \/ Tick \/ UNCHANGED vars => UNCHANGED project
  BY DEF keysAndFaults, keyVars, Crash, Tick, vars
<1>8. \A r \in Requests : DeleteWithKeys(r) => UNCHANGED project
  BY DEF DeleteWithKeys
<1> HIDE DEF Goal
<1>9. Goal
  BY <1>1, <1>2, <1>3, <1>4, <1>5, <1>6, <1>7, <1>8 DEF Next
<1> QED BY <1>9 DEF Goal

LEMMA FittedKept ==
    ASSUME UsersKept, ProjectsKept PROVE \A p, u : Fitted(p, u) => Fitted(p, u)'
  BY DEF Fitted, UsersKept, ProjectsKept

\* Whoever waits to write a key goes on waiting, and finds what he has seen.
LEMMA KeyRequestsStep ==
    ASSUME RootInv, Asked, KeyRefs, UsersKept, ProjectsKept, [Next]_vars,
           \A k \in KeyIds : key[k].status # "none" =>
              key'[k].status # "none" /\ key'[k].owner = key[k].owner
    PROVE  \A r \in Requests : KeyRequestOK(r)'
<1> DEFINE Seen(x) ==
             /\ x.op = "create_key" => Fitted(x.ref, x.target)
             /\ x.op = "update_key" /\ x.ref # -1 =>
                   key[x.target].status # "none" /\ Fitted(x.ref, key[x.target].owner)
<1>1. ASSUME NEW r \in Requests, WellAsked(req'[r]), Seen(req'[r]) PROVE KeyRequestOK(r)'
  <2>1. PICK x : x = req'[r]
    OBVIOUS
  <2>2. ASSUME x.op = "create_key" PROVE Fitted(x.ref, x.target)'
    <3>1. PICK p, u : p = x.ref /\ u = x.target
      OBVIOUS
    <3>2. Fitted(p, u)
      BY <1>1, <2>1, <2>2, <3>1
    <3> QED BY <3>1, <3>2, FittedKept
  <2>3. ASSUME x.op = "update_key", x.ref # -1
        PROVE  key'[x.target].status # "none" /\ Fitted(x.ref, key[x.target].owner)'
    <3>1. PICK k, p, u : k = x.target /\ p = x.ref /\ u = key[k].owner
      OBVIOUS
    <3>2. k \in KeyIds
      BY <1>1, <2>1, <2>3, <3>1 DEF WellAsked
    <3>3. key[k].status # "none" /\ Fitted(p, u)
      BY <1>1, <2>1, <2>3, <3>1
    <3>4. Fitted(p, u)'
      BY <3>3, FittedKept
    <3>5. key'[k].status # "none" /\ key'[k].owner = u
      BY <3>1, <3>2, <3>3
    <3> QED BY <3>1, <3>4, <3>5
  <2> QED BY <2>1, <2>2, <2>3, Zenon DEF KeyRequestOK
<1>2. ASSUME NEW r \in Requests, req'[r].op \notin {"create_key", "update_key"}
      PROVE  KeyRequestOK(r)'
  BY <1>2 DEF KeyRequestOK
<1>3. ASSUME NEW r \in Requests, NEW a \in UserIds, Begins(r, a) PROVE Seen(req'[r])
  <2>1. PICK x : x = req'[r]
    OBVIOUS
  <2>2. CASE MayAsk(x)
    BY <2>1, <2>2 DEF MayAsk, DirectoryOps
  <2>3. CASE MayBegin(x)
    <3>1. ASSUME x.op = "create_key" PROVE Fitted(x.ref, x.target)
      BY <2>3, <3>1 DEF MayBegin, Fitted, ProjectFits, Live
    <3>2. ASSUME x.op = "update_key", x.ref # -1
          PROVE  key[x.target].status # "none" /\ Fitted(x.ref, key[x.target].owner)
      <4>1. /\ x.target \in KeyIds /\ Live(key[x.target]) /\ x.ref \in ProjectIds \cup {0, -1}
            /\ ProjectFits(x.ref, key[x.target].owner)
        BY <2>3, <3>2 DEF MayBegin
      <4>2. x.ref \in ProjectIds \cup {0}
        BY <3>2, <4>1
      <4>3. key[x.target].owner \in UserIds /\ Live(user[key[x.target].owner])
        BY <4>1 DEF KeyRefs, KeyRefersWell
      <4> QED BY <4>1, <4>2, <4>3, Zenon DEF Fitted, ProjectFits, Live
    <3> QED BY <2>1, <3>1, <3>2, Zenon
  <2> QED BY <1>3, <2>1, <2>2, <2>3 DEF Begins
<1>4. \A r \in Requests : WellAsked(req'[r])
  BY NextAsked DEF Asked
<1>5. ASSUME NEW r \in Requests, req'[r] = req[r] PROVE Seen(req'[r])
  BY <1>5, Zenon DEF KeyRefs, KeyRequestOK
<1>6. Idle.op = "idle"
  BY DEF Idle
<1> HIDE DEF Seen
<1>7. ASSUME NEW r \in Requests, NEW a \in UserIds, Begins(r, a)
      PROVE  \A q \in Requests : KeyRequestOK(q)'
  BY <1>1, <1>3, <1>4, <1>5, <1>7 DEF Begins, Begun, RequestsKept
<1>8. ASSUME NEW r \in Requests, Moves(r) \/ SessionMoves(r)
      PROVE  \A q \in Requests : KeyRequestOK(q)'
  BY <1>1, <1>2, <1>4, <1>5, <1>8 DEF Moves, SessionMoves, RequestsKept, LaterOps
<1> QED BY <1>1, <1>2, <1>4, <1>5, <1>6, <1>7, <1>8, RequestsStep

\* A key that stays keeps its owner, and a project that is there.
LEMMA KeyStaysWell ==
    ASSUME RootInv, KeyTableInv, DirectoryRefs, KeyRefs, UsersKept, [Next]_vars,
           NEW k \in KeyIds, KeyKept(k), Live(key'[k])
    PROVE  KeyRefersWell(k)'
<1>1. PICK o, p, p2 : o = key[k].owner /\ p = key[k].project /\ p2 = key'[k].project
  OBVIOUS
<1>2. Live(key[k]) /\ key'[k].owner = o
  BY <1>1 DEF KeyKept
<1>3. /\ o \in UserIds /\ Live(user[o]) /\ user[o].status # "none"
      /\ Fitted(p, o) /\ Exists(project, p)
  BY <1>1, <1>2 DEF KeyRefs, KeyRefersWell, Live
<1>4. Live(user'[o])
  <2>1. ASSUME NEW r \in Requests, DeleteWithKeys(r), req[r].target = o, ~Live(user'[o])
        PROVE  FALSE
    <3>1. key'[k] = [key[k] EXCEPT !.status = "deleted"]
      BY <1>1, <2>1 DEF DeleteWithKeys, CascadeKeys
    <3> QED BY <3>1, KeyFields DEF Live, KeyTableInv, KeyTable
  <2> QED BY <1>3, <2>1, NextDirectoryRefs DEF KeyTableInv
<1>5. Fitted(p2, o) /\ Exists(project, p2)
  <2>1. CASE p2 = p
    BY <1>3, <2>1
  <2>2. CASE p2 = 0
    BY <1>3, <2>2 DEF Fitted, Exists
  <2>3. ASSUME NEW r \in Requests, At(r, "update_key"), req[r].target = k, p2 = req[r].ref,
               req[r].ref # -1, Exists(project, req[r].ref)
        PROVE  Fitted(p2, o) /\ Exists(project, p2)
    BY <1>1, <2>3 DEF KeyRefs, KeyRequestOK, At
  <2> QED BY <1>1, <2>1, <2>2, <2>3 DEF KeyKept
<1>6. Fitted(p2, o)'
  BY <1>5, ProjectsStep, FittedKept
<1>7. p2 # 0 => p2 \in ProjectIds /\ Live(project[p2])
  BY <1>5 DEF Fitted, Exists
<1>8. p2 # 0 => Live(project'[p2])
  <2>1. ASSUME NEW r \in Requests, WriteProjectDelete(r), req[r].target = p2, p2 # 0 PROVE FALSE
    <3>1. key'[k] = IF key[k].project = p2 THEN [key[k] EXCEPT !.project = 0] ELSE key[k]
      BY <2>1 DEF WriteProjectDelete
    <3> QED BY <1>1, <2>1, <3>1, KeyFields DEF KeyTableInv, KeyTable
  <2> QED BY <1>7, <2>1, ProjectsStep
<1> QED BY <1>1, <1>2, <1>3, <1>4, <1>6, <1>8 DEF KeyRefersWell, Exists

LEMMA NextKeyRefs ==
    ASSUME RootInv, KeyTableInv, DirectoryRefs, KeyRefs, [Next]_vars PROVE KeyRefs'
<1>1. UsersKept /\ ProjectsKept /\ ProjectTable'
  BY NextUsers, ProjectsStep DEF RootStep
<1>2. CASE \A k \in KeyIds : KeyKept(k)
  <2>1. \A k \in KeyIds : key[k].status # "none" =>
           key'[k].status # "none" /\ key'[k].owner = key[k].owner
    BY <1>2 DEF KeyKept
  <2>2. \A k \in KeyIds : Live(key'[k]) => KeyRefersWell(k)'
    BY <1>1, <1>2, KeyStaysWell
  <2>3. \A r \in Requests : KeyRequestOK(r)'
    BY <1>1, <2>1, KeyRequestsStep DEF KeyTableInv
  <2> QED BY <1>1, <2>2, <2>3 DEF KeyRefs
<1>3. ASSUME NEW r \in Requests, NEW l \in KeyIds, KeyInserted(r, l) PROVE KeyRefs'
  <2>1. UNCHANGED <<user, project>> /\ req[r].op = "create_key"
    BY <1>3 DEF KeyInserted, WriteKey, tables, At
  <2>2. key[l].status = "none" /\ \A k \in KeyIds \ {l} : key'[k] = key[k]
    BY <1>3 DEF KeyInserted, Fresh
  <2>3. \A k \in KeyIds : key[k].status # "none" =>
           key'[k].status # "none" /\ key'[k].owner = key[k].owner
    BY <2>2
  <2>4. \A q \in Requests : KeyRequestOK(q)'
    BY <1>1, <2>3, KeyRequestsStep DEF KeyTableInv
  <2>5. ASSUME NEW k \in KeyIds, k # l, Live(key'[k]) PROVE KeyRefersWell(k)'
    BY <2>1, <2>2, <2>5 DEF KeyRefs, KeyRefersWell, Fitted
  <2>6. KeyRefersWell(l)'
    <3>1. PICK u, p : u = req[r].target /\ p = req[r].ref
      OBVIOUS
    <3>2. Fitted(p, u) /\ Live(user[u]) /\ Exists(project, p)
      BY <1>3, <2>1, <3>1 DEF KeyRefs, KeyRequestOK, KeyInserted
    <3>3. key'[l].owner = u /\ key'[l].project = p
      BY <1>3, <3>1 DEF KeyInserted
    <3> QED BY <2>1, <3>2, <3>3 DEF KeyRefersWell, Fitted
  <2> QED BY <1>1, <2>4, <2>5, <2>6 DEF KeyRefs
<1> QED BY <1>2, <1>3, KeysStep

LEMMA InitKeyRefs == Init => KeyRefs
<1> SUFFICES ASSUME Init PROVE KeyRefs
  OBVIOUS
<1>1. PICK s \in Scenarios :
        /\ user = Rows(UserIds, s.users, NoUser) /\ key = Rows(KeyIds, s.keys, NoKey)
        /\ project = Rows(ProjectIds, s.projects, NoRow)
  BY DEF Init
<1>2. NoRow \in ScopedRow /\ NoKey \in KeyRow
  <2>1. NoRow \in ScopedRow
    BY DEF NoRow, ScopedRow, RowStatus
  <2>2. NoKey \in KeyRow
    BY DEF NoKey, KeyRow, RowStatus
  <2> QED BY <2>1, <2>2
<1>3. project \in [ProjectIds -> ScopedRow] /\ key \in [KeyIds -> KeyRow]
  BY <1>1, <1>2, RowsAre, OrganizationAssumption
<1>4. /\ \A x \in ScopedRow : DOMAIN x = DOMAIN NoRow
      /\ \A x \in KeyRow : x.owner \in UserIds \cup {0} /\ x.project \in ProjectIds \cup {0}
  BY RowFields DEF ScopedRow, KeyRow
<1>5. \A k \in KeyIds : Live(key[k]) =>
              /\ key[k].owner # 0 /\ Exists(user, key[k].owner)
              /\ Exists(project, key[k].project)
              /\ key[k].project # 0 =>
                    project[key[k].project].integration = user[key[k].owner].integration
  BY <1>1, ScenarioAssumption, Zenon DEF Consistent
<1>6. ASSUME NEW k \in KeyIds, Live(key[k]) PROVE KeyRefersWell(k)
  <2>1. key[k].owner \in UserIds \cup {0} /\ key[k].project \in ProjectIds \cup {0}
    BY <1>3, <1>4
  <2> QED BY <1>5, <1>6, <2>1 DEF KeyRefersWell, Fitted, Exists, Live
<1>7. ASSUME NEW r \in Requests PROVE KeyRequestOK(r)
  <2>1. Idle.op = "idle"
    BY DEF Idle
  <2>2. req[r].op = "idle"
    BY <2>1 DEF Init
  <2> QED BY <2>2 DEF KeyRequestOK
<1> QED BY <1>3, <1>4, <1>6, <1>7 DEF KeyRefs, ProjectTable

\* Rows refer to rows that exist: what a handler has checked may be deleted
\* before it writes, and then it writes nothing or the reference goes too.
THEOREM ReferencesStay == Spec => []ReferencesHold
<1>1. DirectoryRefs /\ KeyRefs => ReferencesHold
  <2> SUFFICES ASSUME DirectoryRefs, KeyRefs PROVE ReferencesHold
    OBVIOUS
  <2>1. 0 \notin UserIds
    BY DirectoryAssumption
  <2>2. \A k \in KeyIds : Live(key[k]) =>
           /\ key[k].owner # 0 /\ Exists(user, key[k].owner) /\ Exists(project, key[k].project)
           /\ key[k].project # 0 =>
                 project[key[k].project].integration = user[key[k].owner].integration
    BY <2>1, Zenon DEF KeyRefs, KeyRefersWell, Fitted, Exists
  <2> QED BY <2>2, Zenon DEF DirectoryRefs, ReferencesHold
<1>2. KeyTableInv => Asked
  BY DEF KeyTableInv
<1> QED
  BY <1>1, <1>2, InitRoot, NextRoot, InitKeyTable, NextKeyTable, InitDirectoryRefs,
     NextDirectoryRefs, InitKeyRefs, NextKeyRefs, PTL
  DEF Spec

-----------------------------------------------------------------------------
(* Failed attempts *)

Entry == [failures : Nat, last : Int, until : Int]

\* The failures of a window that begins at t, and the attempts under way.
Within(u, t) == {x \in failed[u] : t <= x[1] /\ x[1] < t + LockFor}
UnderWay(u) == {b \in Browsers : signin[b].user = u}
Most == FailureThreshold + Cardinality(Browsers) - 1

GuessTypes ==
    /\ clock \in Nat /\ locker \in [UserIds -> Entry] /\ DOMAIN failed = UserIds
    /\ \A u \in UserIds : IsFiniteSet(failed[u]) /\ \A x \in failed[u] : x[1] \in Nat
    /\ DOMAIN signin = Browsers
    /\ \A b \in Browsers : /\ DOMAIN signin[b] = DOMAIN NoSignin
                           /\ signin[b].stage # "" => signin[b].user \in UserIds

\* Failures later than the entry's are too old to count.
EntryOK(u) ==
    /\ locker[u].failures < FailureThreshold /\ locker[u].until <= locker[u].last + LockFor
    /\ locker[u].last <= clock
    /\ \A x \in failed[u] : /\ x[1] <= clock
                            /\ x[1] <= locker[u].last \/ x[1] + LockFor < clock

\* Either each failure of the window is counted, or the name was locked in it
\* and stays locked for the rest of it: only what is under way can fail.
WindowOK(u, t) ==
    /\ Cardinality(Within(u, t)) <= Most
    /\ clock < t + LockFor =>
          \/ Cardinality(Within(u, t)) <= locker[u].failures
          \/ /\ t + LockFor <= locker[u].until
             /\ Cardinality(Within(u, t)) + Cardinality(UnderWay(u)) <= Most

NameOK(u) == EntryOK(u) /\ \A t \in Nat : WindowOK(u, t)
GuessInv == GuessTypes /\ \A u \in UserIds : NameOK(u)

LEMMA GuessNumbers ==
    /\ FailureThreshold \in Nat /\ FailureThreshold > 0 /\ LockFor \in Nat /\ LockFor > 0
    /\ IsFiniteSet(Browsers) /\ Cardinality(Browsers) \in Nat /\ Most \in Nat
<1>1. /\ FailureThreshold \in Nat /\ FailureThreshold > 0 /\ LockFor \in Nat /\ LockFor > 0
      /\ IsFiniteSet(Browsers)
  BY LoginAssumption
<1>2. Cardinality(Browsers) \in Nat
  BY <1>1, FS_CardinalityType
<1> QED BY <1>1, <1>2 DEF Most

LEMMA UnderWayCounts ==
    ASSUME NEW u PROVE IsFiniteSet(UnderWay(u)) /\ Cardinality(UnderWay(u)) \in Nat
                       /\ Cardinality(UnderWay(u)) <= Cardinality(Browsers)
<1>1. UnderWay(u) \subseteq Browsers
  BY DEF UnderWay
<1> QED BY <1>1, GuessNumbers, FS_Subset, FS_CardinalityType

LEMMA WithinCounts ==
    ASSUME GuessTypes, NEW u \in UserIds, NEW t
    PROVE  IsFiniteSet(Within(u, t)) /\ Cardinality(Within(u, t)) \in Nat
<1>1. Within(u, t) \subseteq failed[u] /\ IsFiniteSet(failed[u])
  BY DEF Within, GuessTypes
<1> QED BY <1>1, FS_Subset, FS_CardinalityType

LEMMA NoEntryIs ==
    NoEntry \in Entry /\ NoEntry.failures = 0 /\ NoEntry.last = -LockFor /\ NoEntry.until = 0
  BY GuessNumbers DEF NoEntry, Entry

\* A name without failures is well whatever its entry says.
LEMMA Forgiven ==
    ASSUME NEW u \in UserIds, clock' \in Nat, locker'[u] \in Entry, failed'[u] = {},
           locker'[u].failures = 0, locker'[u].until <= locker'[u].last + LockFor,
           locker'[u].last <= clock'
    PROVE  NameOK(u)'
<1>1. \A t : Within(u, t)' = {}
  BY DEF Within
<1>2. \A t : Cardinality(Within(u, t))' = 0
  BY <1>1, FS_EmptySet
<1>3. EntryOK(u)'
  BY GuessNumbers DEF EntryOK
<1>4. \A t : WindowOK(u, t)'
  BY <1>2, GuessNumbers DEF WindowOK
<1> QED BY <1>3, <1>4 DEF NameOK

\* Its entry stays or is swept, attempts end, and time may pass.
LEMMA NameRests ==
    ASSUME GuessInv, NEW u \in UserIds, failed'[u] = failed[u], UnderWay(u)' \subseteq UnderWay(u),
           clock' \in Nat, clock <= clock',
           \/ locker'[u] = locker[u]
           \/ locker'[u] = NoEntry /\ u \in Sweepable
    PROVE  NameOK(u)'
<1>1. /\ locker[u] \in Entry /\ clock \in Nat /\ \A x \in failed[u] : x[1] \in Nat
      /\ EntryOK(u) /\ \A t \in Nat : WindowOK(u, t)
      /\ locker[u].failures \in Nat /\ locker[u].last \in Int /\ locker[u].until \in Int
  BY DEF GuessInv, GuessTypes, NameOK, Entry
<1>2. /\ \A t : Within(u, t)' = Within(u, t)
      /\ \A t : Cardinality(Within(u, t)) \in Nat
  BY WithinCounts DEF Within, GuessInv
<1>3. Cardinality(UnderWay(u)') <= Cardinality(UnderWay(u))
      /\ Cardinality(UnderWay(u)') \in Nat /\ Cardinality(UnderWay(u)) \in Nat
  BY UnderWayCounts, FS_Subset, FS_CardinalityType
<1>4. CASE locker'[u] = locker[u]
  <2>1. EntryOK(u)'
    BY <1>1, <1>4, GuessNumbers DEF EntryOK
  <2>2. ASSUME NEW t \in Nat PROVE WindowOK(u, t)'
    BY <1>1, <1>2, <1>3, <1>4, GuessNumbers DEF WindowOK
  <2> QED BY <2>1, <2>2 DEF NameOK
<1>5. CASE locker'[u] = NoEntry /\ u \in Sweepable
  <2>1. locker[u].last < clock - 2 * LockFor
    BY <1>5 DEF Sweepable
  <2>2. \A x \in failed[u] : x[1] <= clock /\ x[1] + LockFor < clock
    BY <1>1, <2>1, GuessNumbers DEF EntryOK
  <2>3. EntryOK(u)'
    BY <1>1, <1>5, <2>2, NoEntryIs, GuessNumbers DEF EntryOK
  <2>4. ASSUME NEW t \in Nat PROVE WindowOK(u, t)'
    <3>1. CASE clock' < t + LockFor
      <4>1. Within(u, t) = {}
        BY <1>1, <2>2, <3>1, GuessNumbers DEF Within
      <4>2. Cardinality(Within(u, t)') = 0
        BY <1>2, <4>1, FS_EmptySet
      <4> QED BY <1>5, <4>2, NoEntryIs, GuessNumbers DEF WindowOK
    <3>2. CASE ~(clock' < t + LockFor)
      BY <1>1, <1>2, <3>2 DEF WindowOK
    <3> QED BY <3>1, <3>2
  <2> QED BY <2>3, <2>4 DEF NameOK
<1> QED BY <1>4, <1>5

\* Of a swept entry nothing is missed.
LEMMA SweptIsOld ==
    ASSUME GuessInv, NEW u \in UserIds, u \in Sweepable
    PROVE  \A x \in failed[u] : x[1] + LockFor < clock
<1>1. /\ locker[u] \in Entry /\ clock \in Nat /\ \A x \in failed[u] : x[1] \in Nat
      /\ EntryOK(u) /\ locker[u].last \in Int /\ locker[u].last < clock - 2 * LockFor
  BY DEF GuessInv, GuessTypes, NameOK, Entry, Sweepable
<1> QED BY <1>1, GuessNumbers DEF EntryOK

\* A failure of u is counted, and one attempt less is under way.
LEMMA FailureCounts ==
    ASSUME GuessInv, NEW u \in UserIds, NEW n, failed'[u] = failed[u] \cup {<<clock, n>>},
           NEW e, e = locker[u] \/ (e = NoEntry /\ u \in Sweepable), locker'[u] = Counted(e),
           NEW b \in UnderWay(u), UnderWay(u)' = UnderWay(u) \ {b}, clock' = clock
    PROVE  NameOK(u)' /\ locker'[u] \in Entry
<1> DEFINE old == clock - e.last > LockFor
           failures == IF old THEN 1 ELSE e.failures + 1
           until == IF old THEN 0 ELSE e.until
           new == <<clock, n>>
<1>1. /\ clock \in Nat /\ \A x \in failed[u] : x[1] \in Nat /\ x[1] <= clock
      /\ locker[u] \in Entry /\ EntryOK(u) /\ \A t \in Nat : WindowOK(u, t)
  BY DEF GuessInv, GuessTypes, NameOK, EntryOK
<1>2. e \in Entry /\ e.failures \in Nat /\ e.last \in Int /\ e.until \in Int
  BY <1>1, NoEntryIs DEF Entry
<1>3. /\ e.failures < FailureThreshold /\ e.until <= e.last + LockFor /\ e.last <= clock
      /\ \A x \in failed[u] : x[1] <= e.last \/ x[1] + LockFor < clock
  <2>1. CASE e = locker[u]
    BY <1>1, <2>1 DEF EntryOK
  <2>2. CASE e = NoEntry /\ u \in Sweepable
    BY <1>1, <2>2, NoEntryIs, GuessNumbers, SweptIsOld
  <2> QED BY <2>1, <2>2
<1>4. ASSUME NEW t \in Nat, clock < t + LockFor
      PROVE  \/ Cardinality(Within(u, t)) <= e.failures
             \/ /\ t + LockFor <= e.until
                /\ Cardinality(Within(u, t)) + Cardinality(UnderWay(u)) <= Most
  <2>1. CASE e = locker[u]
    BY <1>1, <1>4, <2>1 DEF WindowOK
  <2>2. CASE e = NoEntry /\ u \in Sweepable
    <3>1. Within(u, t) = {}
      BY <1>1, <1>4, <2>2, SweptIsOld, GuessNumbers DEF Within
    <3> QED BY <2>2, <3>1, NoEntryIs, FS_EmptySet
  <2> QED BY <2>1, <2>2
<1>5. locker'[u] = IF failures >= FailureThreshold
                   THEN [failures |-> 0, last |-> clock, until |-> clock + LockFor]
                   ELSE [failures |-> failures, last |-> clock, until |-> until]
  BY DEF Counted
<1>6. failures \in Nat /\ until \in Int
  BY <1>2
<1>7. /\ locker'[u] \in Entry /\ locker'[u].last = clock
      /\ IF failures >= FailureThreshold
         THEN locker'[u].failures = 0 /\ locker'[u].until = clock + LockFor
         ELSE locker'[u].failures = failures /\ locker'[u].until = until
  <2> HIDE DEF failures, until
  <2> QED BY <1>1, <1>5, <1>6, GuessNumbers DEF Entry
<1>8. new[1] = clock
  OBVIOUS
<1> HIDE DEF new
<1>9. EntryOK(u)'
  <2>1. locker'[u].failures < FailureThreshold
    BY <1>6, <1>7, GuessNumbers
  <2>2. locker'[u].until <= clock + LockFor
    <3>1. until <= clock + LockFor \/ old
      BY <1>1, <1>2, <1>3, GuessNumbers
    <3>2. old => until <= clock + LockFor
      BY <1>1, GuessNumbers
    <3> QED BY <1>1, <1>6, <1>7, <3>1, <3>2, GuessNumbers
  <2>3. \A x \in failed'[u] : x[1] <= clock
    BY <1>1, <1>8 DEF new
  <2>4. clock <= clock /\ clock' = clock
    BY <1>1
  <2> QED BY ONLY <1>7, <2>1, <2>2, <2>3, <2>4 DEF EntryOK
<1>10. /\ Cardinality(UnderWay(u)') = Cardinality(UnderWay(u)) - 1
       /\ Cardinality(UnderWay(u)') <= Cardinality(Browsers) - 1
       /\ Cardinality(UnderWay(u)) \in Nat /\ Cardinality(UnderWay(u)') \in Nat
  <2>1. /\ IsFiniteSet(UnderWay(u)) /\ Cardinality(UnderWay(u)) \in Nat
        /\ Cardinality(UnderWay(u)) <= Cardinality(Browsers) /\ Cardinality(Browsers) \in Nat
    BY UnderWayCounts, GuessNumbers
  <2>2. Cardinality(UnderWay(u) \ {b}) = Cardinality(UnderWay(u)) - 1
    BY <2>1, FS_RemoveElement
  <2>3. Cardinality(UnderWay(u) \ {b}) \in Nat
    BY <2>1, FS_RemoveElement, FS_CardinalityType
  <2> QED BY <2>1, <2>2, <2>3
<1>11. ASSUME NEW t \in Nat PROVE WindowOK(u, t)'
  <2>1. /\ IsFiniteSet(Within(u, t)) /\ Cardinality(Within(u, t)) \in Nat
        /\ Cardinality(Within(u, t)) <= Most
    BY <1>1, WithinCounts DEF GuessInv, WindowOK
  <2>2. CASE t <= clock /\ clock < t + LockFor
    <3>1. Within(u, t)' = Within(u, t) \cup {new}
      BY <1>8, <2>2 DEF Within, new
    <3>2. /\ Cardinality(Within(u, t)') <= Cardinality(Within(u, t)) + 1
          /\ Cardinality(Within(u, t)') \in Nat
      <4>1. /\ IsFiniteSet(Within(u, t) \cup {new})
            /\ \/ Cardinality(Within(u, t) \cup {new}) = Cardinality(Within(u, t)) + 1
               \/ Cardinality(Within(u, t) \cup {new}) = Cardinality(Within(u, t))
        BY <2>1, FS_AddElement
      <4> QED BY <2>1, <3>1, <4>1
    <3>3. CASE /\ t + LockFor <= e.until
               /\ Cardinality(Within(u, t)) + Cardinality(UnderWay(u)) <= Most
      <4>1. ~old
        BY <1>1, <1>2, <1>3, <2>2, <3>3, GuessNumbers
      <4>2. t + LockFor <= locker'[u].until
        <5>1. until = e.until
          BY <4>1
        <5> HIDE DEF old, failures, until
        <5> QED BY <1>1, <1>2, <1>6, <1>7, <2>2, <3>3, <5>1, GuessNumbers
      <4>3. Cardinality(Within(u, t)') + Cardinality(UnderWay(u)') <= Most
        BY <1>10, <2>1, <3>2, <3>3, GuessNumbers
      <4>4. Cardinality(Within(u, t)') <= Most
        BY <1>10, <3>2, <4>3, GuessNumbers
      <4> QED BY <4>2, <4>3, <4>4 DEF WindowOK
    <3>4. CASE Cardinality(Within(u, t)) <= e.failures
      <4>1. Cardinality(Within(u, t)') <= failures
        <5>1. CASE old
          <6>1. Within(u, t) = {}
            BY <1>1, <1>2, <1>3, <2>2, <5>1, GuessNumbers DEF Within
          <6>2. Cardinality(Within(u, t)) = 0
            BY <6>1, FS_EmptySet
          <6> QED BY <3>2, <5>1, <6>2
        <5>2. CASE ~old
          BY <1>2, <2>1, <3>2, <3>4, <5>2
        <5> QED BY <5>1, <5>2
      <4>2. failures <= FailureThreshold
        BY <1>2, <1>3, GuessNumbers
      <4> HIDE DEF old, failures, until
      <4>3. Cardinality(Within(u, t)') + Cardinality(UnderWay(u)') <= Most
        BY <1>6, <1>10, <3>2, <4>1, <4>2, GuessNumbers DEF Most
      <4>4. Cardinality(Within(u, t)') <= Most
        BY <1>10, <3>2, <4>3, GuessNumbers
      <4>5. \/ Cardinality(Within(u, t)') <= locker'[u].failures
            \/ t + LockFor <= locker'[u].until
        BY <1>1, <1>6, <1>7, <2>2, <4>1, GuessNumbers
      <4> QED BY <4>3, <4>4, <4>5 DEF WindowOK
    <3> QED BY <1>4, <2>2, <3>3, <3>4
  <2>3. CASE clock < t
    <3>1. Within(u, t)' = {}
      BY <1>1, <1>8, <2>3 DEF Within, new
    <3>2. Cardinality(Within(u, t)') = 0
      BY <3>1, FS_EmptySet
    <3>3. locker'[u].failures \in Nat
      BY <1>7 DEF Entry
    <3> QED BY <3>2, <3>3, GuessNumbers DEF WindowOK
  <2>4. CASE t <= clock /\ ~(clock < t + LockFor)
    <3>1. Within(u, t)' = Within(u, t)
      BY <1>1, <1>8, <2>4, GuessNumbers DEF Within, new
    <3> QED BY <2>1, <2>4, <3>1 DEF WindowOK
  <2> QED BY <1>1, <2>2, <2>3, <2>4
<1> QED BY <1>7, <1>9, <1>11 DEF NameOK

\* An attempt begins, is decided, or is over without a failure.
LEMMA SigninsChange ==
    ASSUME GuessInv, NEW b \in Browsers, NEW x, signin' = [signin EXCEPT ![b] = x],
           DOMAIN x = DOMAIN NoSignin, x.stage # "" => x.user \in UserIds,
           UNCHANGED <<clock, locker, failed>>,
           \/ x.user = signin[b].user \/ x.user \notin UserIds
           \/ x.user \in UserIds /\ ~Locked(x.user)
    PROVE  GuessInv'
<1>1. DOMAIN signin = Browsers /\ clock \in Nat /\ locker \in [UserIds -> Entry]
      /\ clock' = clock /\ locker' = locker /\ failed' = failed
  BY DEF GuessInv, GuessTypes
<1>2. GuessTypes'
  BY <1>1 DEF GuessInv, GuessTypes
<1>3. ASSUME NEW u \in UserIds PROVE NameOK(u)'
  <2>1. CASE UnderWay(u)' \subseteq UnderWay(u)
    <3>1. clock' \in Nat /\ clock <= clock' /\ failed'[u] = failed[u] /\ locker'[u] = locker[u]
      BY ONLY <1>1
    <3> QED BY <2>1, <3>1, NameRests
  <2>2. CASE ~(UnderWay(u)' \subseteq UnderWay(u))
    <3>1. x.user = u /\ ~Locked(u)
      BY <1>1, <2>2 DEF UnderWay
    <3>2. /\ clock \in Nat /\ locker[u] \in Entry /\ NameOK(u)
      BY DEF GuessInv, GuessTypes
    <3>5. clock >= locker[u].until /\ locker[u].until \in Int
      BY ONLY <3>1, <3>2 DEF Entry, Locked
    <3>3. EntryOK(u)'
      BY <3>2 DEF NameOK, EntryOK
    <3>4. ASSUME NEW t \in Nat PROVE WindowOK(u, t)'
      <4>1. WindowOK(u, t) /\ Within(u, t)' = Within(u, t)
        BY <3>2 DEF NameOK, Within
      <4>2. clock < t + LockFor => ~(t + LockFor <= locker[u].until)
        BY ONLY <3>2, <3>5, GuessNumbers, t \in Nat
      <4>3. Cardinality(Within(u, t)') = Cardinality(Within(u, t))
            /\ clock' = clock /\ locker'[u] = locker[u]
        BY <4>1
      <4> QED BY ONLY <4>1, <4>2, <4>3 DEF WindowOK
    <3> QED BY <3>3, <3>4 DEF NameOK
  <2> QED BY <2>1, <2>2
<1> QED BY <1>2, <1>3 DEF GuessInv

LEMMA BeginGuess ==
    ASSUME GuessInv, NEW b \in Browsers, NEW u \in UserIds, NEW right, BeginLogin(b, u, right)
    PROVE  GuessInv'
<1> DEFINE x == [stage |-> "begun", user |-> u, enabled |-> FALSE,
                 secret |-> IF right THEN password[u] ELSE -1]
<1>1. signin' = [signin EXCEPT ![b] = x] /\ UNCHANGED <<clock, locker, failed>> /\ ~Locked(u)
  BY DEF BeginLogin
<1>2. x.user = u /\ DOMAIN x = DOMAIN NoSignin
  BY SigninFields
<1> HIDE DEF x
<1> QED BY <1>1, <1>2, SigninsChange

LEMMA CheckGuess == ASSUME GuessInv, NEW b \in Browsers, CheckPassword(b) PROVE GuessInv'
<1>1. /\ signin[b].stage # "" /\ UNCHANGED <<clock, locker, failed>>
      /\ \E stage, enabled : signin' = [signin EXCEPT ![b].stage = stage, ![b].enabled = enabled]
  BY DEF CheckPassword
<1>2. PICK stage, enabled : signin' = [signin EXCEPT ![b].stage = stage, ![b].enabled = enabled]
  BY <1>1
<1> DEFINE x == [signin[b] EXCEPT !.stage = stage, !.enabled = enabled]
<1>3. signin[b].user \in UserIds /\ DOMAIN signin[b] = DOMAIN NoSignin
  BY <1>1 DEF GuessInv, GuessTypes
<1>4. DOMAIN x = DOMAIN NoSignin /\ x.user = signin[b].user
  BY <1>3, SigninFields
<1>5. signin' = [signin EXCEPT ![b] = x]
  BY <1>2 DEF GuessInv, GuessTypes
<1> HIDE DEF x
<1> QED BY <1>1, <1>3, <1>4, <1>5, SigninsChange

\* An attempt of b is over, and its name is well afterwards, like all others.
LEMMA SigninEnds ==
    ASSUME GuessInv, NEW b \in Browsers, NEW u \in UserIds, signin[b].user = u,
           signin' = [signin EXCEPT ![b] = NoSignin], clock' = clock,
           NameOK(u)', locker'[u] \in Entry, DOMAIN locker' = UserIds,
           locker' = [v \in UserIds |-> locker'[v]],
           DOMAIN failed' = UserIds,
           IsFiniteSet(failed'[u]), \A x \in failed'[u] : x[1] \in Nat,
           \A v \in UserIds \ {u} : /\ failed'[v] = failed[v]
                                    /\ \/ locker'[v] = locker[v]
                                       \/ locker'[v] = NoEntry /\ v \in Sweepable
    PROVE  GuessInv'
<1>1. /\ DOMAIN signin' = Browsers
      /\ \A c \in Browsers : /\ DOMAIN signin'[c] = DOMAIN NoSignin
                             /\ signin'[c].stage # "" => signin'[c].user \in UserIds
  BY DEF GuessInv, GuessTypes, NoSignin
<1>2. \A v \in UserIds : locker'[v] \in Entry
  BY NoEntryIs DEF GuessInv, GuessTypes
<1>3. /\ clock' \in Nat /\ \A v \in UserIds : IsFiniteSet(failed'[v]) /\ \A x \in failed'[v] : x[1] \in Nat
  BY DEF GuessInv, GuessTypes
<1>4. GuessTypes'
  BY <1>1, <1>2, <1>3 DEF GuessTypes
<1>5. ASSUME NEW v \in UserIds, v # u PROVE NameOK(v)'
  <2>1. 0 \notin UserIds
    BY DirectoryAssumption
  <2>2. UnderWay(v)' \subseteq UnderWay(v)
    BY <2>1, SigninFields DEF UnderWay, GuessInv, GuessTypes
  <2>3. clock' \in Nat /\ clock <= clock'
    BY <1>3
  <2> QED BY <1>5, <2>2, <2>3, NameRests
<1> QED BY <1>4, <1>5 DEF GuessInv

LEMMA RefuseGuess == ASSUME GuessInv, NEW b \in Browsers, RefuseLogin(b) PROVE GuessInv'
<1>1. PICK u : u = signin[b].user
  OBVIOUS
<1>2. /\ RecordFailure(u) /\ failed' = [failed EXCEPT ![u] = @ \cup {<<clock, Cardinality(@)>>}]
      /\ signin' = [signin EXCEPT ![b] = NoSignin] /\ clock' = clock /\ signin[b].stage # ""
  BY <1>1 DEF RefuseLogin
<1>3. u \in UserIds /\ clock \in Nat
  BY <1>1, <1>2 DEF GuessInv, GuessTypes
<1>4. PICK swept \in {{}, Sweepable} :
        locker' = [v \in UserIds |->
            IF v = u THEN Counted(IF u \in swept THEN NoEntry ELSE locker[u])
            ELSE IF v \in swept THEN NoEntry ELSE locker[v]]
  BY <1>2 DEF RecordFailure
<1> DEFINE n == Cardinality(failed[u])
           e == IF u \in swept THEN NoEntry ELSE locker[u]
<1>5. failed'[u] = failed[u] \cup {<<clock, n>>}
  BY <1>2, <1>3 DEF GuessInv, GuessTypes
<1>6. (e = locker[u] \/ (e = NoEntry /\ u \in Sweepable)) /\ locker'[u] = Counted(e)
  BY <1>3, <1>4
<1>7. b \in UnderWay(u) /\ UnderWay(u)' = UnderWay(u) \ {b}
  <2>1. 0 \notin UserIds
    BY DirectoryAssumption
  <2> QED BY <1>1, <1>2, <1>3, <2>1, SigninFields DEF UnderWay, GuessInv, GuessTypes
<1>8. NameOK(u)' /\ locker'[u] \in Entry
  <2> HIDE DEF n, e
  <2> QED BY <1>2, <1>3, <1>5, <1>6, <1>7, FailureCounts
<1>9. IsFiniteSet(failed'[u]) /\ \A x \in failed'[u] : x[1] \in Nat
  <2>1. IsFiniteSet(failed[u]) /\ \A x \in failed[u] : x[1] \in Nat
    BY <1>3 DEF GuessInv, GuessTypes
  <2>2. <<clock, n>>[1] \in Nat
    BY <1>3
  <2> HIDE DEF n
  <2> QED BY <1>5, <2>1, <2>2, FS_AddElement
<1>10. \A v \in UserIds \ {u} : /\ failed'[v] = failed[v]
                                /\ \/ locker'[v] = locker[v]
                                   \/ locker'[v] = NoEntry /\ v \in Sweepable
  BY <1>2, <1>4 DEF GuessInv, GuessTypes
<1>11. DOMAIN failed' = UserIds /\ DOMAIN locker' = UserIds /\ locker' = [v \in UserIds |-> locker'[v]]
  BY <1>2, <1>4 DEF GuessInv, GuessTypes
<1> QED BY <1>1, <1>2, <1>3, <1>8, <1>9, <1>10, <1>11, SigninEnds

LEMMA AcceptGuess == ASSUME GuessInv, NEW b \in Browsers, AcceptLogin(b) PROVE GuessInv'
<1>1. PICK u : u = signin[b].user
  OBVIOUS
<1>2. /\ Reset(u) /\ failed' = [failed EXCEPT ![u] = {}]
      /\ signin' = [signin EXCEPT ![b] = NoSignin] /\ clock' = clock /\ signin[b].stage # ""
  BY <1>1 DEF AcceptLogin
<1>3. u \in UserIds /\ clock \in Nat /\ locker[u] \in Entry /\ EntryOK(u)
  BY <1>1, <1>2 DEF GuessInv, GuessTypes, NameOK
<1>4. /\ locker'[u] = [locker[u] EXCEPT !.failures = 0] \/ locker'[u] = NoEntry
      /\ \A v \in UserIds \ {u} : locker'[v] = locker[v]
      /\ DOMAIN locker' = UserIds /\ locker' = [v \in UserIds |-> locker'[v]]
  BY <1>2, <1>3 DEF Reset, GuessInv, GuessTypes
<1>5. /\ failed'[u] = {} /\ DOMAIN failed' = UserIds
      /\ \A v \in UserIds \ {u} : failed'[v] = failed[v]
  BY <1>2, <1>3 DEF GuessInv, GuessTypes
<1>6. /\ locker'[u] \in Entry /\ locker'[u].failures = 0
      /\ locker'[u].until <= locker'[u].last + LockFor /\ locker'[u].last <= clock
  <2>1. CASE locker'[u] = [locker[u] EXCEPT !.failures = 0]
    BY <1>3, <2>1 DEF Entry, EntryOK
  <2>2. CASE locker'[u] = NoEntry
    BY <1>3, <2>2, NoEntryIs, GuessNumbers
  <2> QED BY <1>4, <2>1, <2>2
<1>7. NameOK(u)'
  BY <1>2, <1>3, <1>5, <1>6, Forgiven
<1>8. IsFiniteSet(failed'[u]) /\ \A x \in failed'[u] : x[1] \in Nat
  BY <1>5, FS_EmptySet
<1> QED BY <1>1, <1>2, <1>3, <1>4, <1>5, <1>6, <1>7, <1>8, SigninEnds

LEMMA GuessesRest ==
    ASSUME GuessInv, UNCHANGED <<signin, locker, failed>>, clock' \in Nat, clock <= clock'
    PROVE  GuessInv'
<1>1. GuessTypes'
  BY DEF GuessInv, GuessTypes
<1>2. ASSUME NEW u \in UserIds PROVE NameOK(u)'
  BY NameRests DEF UnderWay
<1> QED BY <1>1, <1>2 DEF GuessInv

\* With a restart the locks are forgotten, and so are the failures.
LEMMA GuessesForgotten ==
    ASSUME clock' \in Nat, signin' = [b \in Browsers |-> NoSignin],
           locker' = [u \in UserIds |-> NoEntry], failed' = [u \in UserIds |-> {}]
    PROVE  GuessInv'
<1>1. GuessTypes'
  <2>1. locker' \in [UserIds -> Entry] /\ DOMAIN failed' = UserIds /\ DOMAIN signin' = Browsers
    BY NoEntryIs
  <2>2. \A u \in UserIds : failed'[u] = {}
    OBVIOUS
  <2>3. \A b \in Browsers : signin'[b] = NoSignin /\ signin'[b].stage = ""
    BY DEF NoSignin
  <2> QED BY <2>1, <2>2, <2>3, FS_EmptySet DEF GuessTypes
<1>2. ASSUME NEW u \in UserIds PROVE NameOK(u)'
  <2>1. NoEntry.until <= NoEntry.last + LockFor /\ NoEntry.last <= clock'
    BY NoEntryIs, GuessNumbers
  <2>2. locker'[u] = NoEntry /\ failed'[u] = {}
    OBVIOUS
  <2> QED BY <2>1, <2>2, NoEntryIs, Forgiven
<1> QED BY <1>1, <1>2 DEF GuessInv

LEMMA NextGuess == ASSUME GuessInv, [Next]_vars PROVE GuessInv'
<1>0. clock \in Nat
  BY DEF GuessInv, GuessTypes
<1>1. ASSUME UNCHANGED <<clock, signin, locker, failed>> PROVE GuessInv'
  BY <1>0, <1>1, GuessesRest
<1>2. ASSUME NEW r \in Requests, NEW a \in UserIds, LoginRequest(r, a) PROVE GuessInv'
  BY <1>1, <1>2 DEF LoginRequest, ChangePassword, ResetPassword, loginVars
<1>3. ASSUME NEW r \in Requests, PasswordWrite(r) PROVE GuessInv'
  BY <1>1, <1>3 DEF PasswordWrite, WritePassword, DestroyUserSessions, RenewSession
<1>4. ASSUME NEW r \in Requests, SettingStep(r) PROVE UNCHANGED clock
  BY <1>4 DEF SettingStep, Get, ReadRow, ReadFails, Put, Save, SaveFails, Invalidate
<1>5. ASSUME NEW b \in Browsers, LoginStep(b) PROVE GuessInv'
  BY <1>1, <1>5, BeginGuess, CheckGuess, RefuseGuess, AcceptGuess DEF LoginStep, Logout
<1>6. ASSUME Crash PROVE GuessInv'
  BY <1>0, <1>6, GuessesForgotten DEF Crash, LoginLost
<1>7. ASSUME Tick PROVE GuessInv'
  BY <1>0, <1>7, GuessesRest DEF Tick, loginVars
<1>8. UNCHANGED console => GuessInv'
  BY <1>1 DEF console, loginVars
<1>9. UNCHANGED <<clock, loginVars>> => GuessInv'
  BY <1>1 DEF loginVars
<1>10. UNCHANGED vars => GuessInv'
  BY <1>8 DEF vars
<1> QED
  BY <1>2, <1>3, <1>4, <1>5, <1>6, <1>7, <1>8, <1>9, <1>10 DEF Next

LEMMA InitGuess == Init => GuessInv
<1> SUFFICES ASSUME Init PROVE GuessInv
  OBVIOUS
<1>1. /\ clock = 0 /\ signin = [b \in Browsers |-> NoSignin]
      /\ locker = [u \in UserIds |-> NoEntry] /\ failed = [u \in UserIds |-> {}]
  BY DEF Init, LoginInit
<1>2. GuessTypes
  <2>1. locker \in [UserIds -> Entry] /\ DOMAIN failed = UserIds /\ DOMAIN signin = Browsers
    BY <1>1, NoEntryIs
  <2>2. \A u \in UserIds : failed[u] = {}
    BY <1>1
  <2>3. \A b \in Browsers : signin[b] = NoSignin /\ signin[b].stage = ""
    BY <1>1 DEF NoSignin
  <2>4. clock \in Nat
    BY <1>1
  <2> QED BY <2>1, <2>2, <2>3, <2>4, FS_EmptySet DEF GuessTypes
<1>3. ASSUME NEW u \in UserIds PROVE NameOK(u)
  <2>1. locker[u] = NoEntry /\ failed[u] = {}
    BY <1>1
  <2>2. \A t : Within(u, t) = {}
    BY <2>1 DEF Within
  <2>3. \A t : Cardinality(Within(u, t)) = 0
    BY <2>2, FS_EmptySet
  <2>4. EntryOK(u)
    BY <1>1, <2>1, NoEntryIs, GuessNumbers DEF EntryOK
  <2>5. \A t \in Nat : WindowOK(u, t)
    BY <2>1, <2>3, NoEntryIs, GuessNumbers DEF WindowOK
  <2> QED BY <2>4, <2>5 DEF NameOK
<1> QED BY <1>2, <1>3 DEF GuessInv

\* Whatever the order of attempts, successes, sweeps and restarts, a name is
\* not tried in vain more often than the threshold within the time of a lock,
\* but for the attempts that were under way when it was locked (FailureLocker).
THEOREM GuessesAreBounded == Spec => []GuessesBounded
<1>1. GuessInv => GuessesBounded
  <2>1. 0..MaxClock \subseteq Nat
    BY ClockAssumption
  <2> QED BY <2>1 DEF GuessInv, NameOK, WindowOK, Within, Most, GuessesBounded
<1> QED BY <1>1, InitGuess, NextGuess, PTL DEF Spec
=============================================================================
