------------------------------ MODULE Directory ------------------------------
(***************************************************************************)
(* Users, departments, integrations and their service tokens: the tables   *)
(* and the console's handlers that change them.                            *)
(*                                                                         *)
(* A handler authenticates, loads and checks in one step and writes in     *)
(* later ones; what it has checked may be different by then. Unique        *)
(* indexes and foreign keys hold when it writes. A row whose status is     *)
(* "none" has not been inserted, and id 0 stands for NULL.                 *)
(***************************************************************************)
EXTENDS Integers, FiniteSets

CONSTANTS
    UserIds, DeptIds, IntegrationIds, TokenIds,     \* positive integers
    Names,          \* usernames
    Idems,          \* idempotency keys
    Requests,       \* places for requests in progress
    MaxPageSize,    \* store.MaxPageSize
    MaxBatchUsers   \* maxBatchUsers, above MaxPageSize

ASSUME DirectoryAssumption ==
    /\ UserIds \cup DeptIds \cup IntegrationIds \cup TokenIds \subseteq Nat \ {0}
    /\ IsFiniteSet(UserIds) /\ IsFiniteSet(Requests) /\ Requests # {}
    /\ "" \notin Idems
    /\ MaxPageSize \in Nat \ {0} /\ MaxBatchUsers \in Nat \ {0}

VARIABLES
    user, dept, integration, token,     \* the tables
    record,         \* idempotency_records: the object first created
    req,            \* requests in progress
    script,         \* which operations may still begin, and how many
    crossed,        \* history: a write its actor could no longer have begun
    revived,        \* history: disabled integrations with a user enabled since
    lateTokens      \* history: tokens enabled after their integration ended

tables == <<user, dept, integration, token>>
directoryVars == <<tables, record, req, script, crossed, revived, lateTokens>>

Roles == {"user", "managed", "admin", "root"}
Rank(role) == CASE role = "user" -> 1 [] role = "managed" -> 5
                [] role = "admin" -> 10 [] role = "root" -> 100

\* A request: who asks, for what row, with which values, and what is left to do.
Idle == [op |-> "idle", actor |-> 0, by |-> "user", scope |-> 0, target |-> 0, ref |-> 0,
         value |-> "", name |-> "", role |-> "", idem |-> "", todo |-> {}]

Live(row) == row.status \notin {"none", "deleted"}
Exists(table, i) == i # 0 => Live(table[i])
Fresh(table) == {i \in DOMAIN table : /\ table[i].status = "none"
                                      /\ \A j \in DOMAIN table : j < i => table[j].status # "none"}

-----------------------------------------------------------------------------
(* Authentication and authority *)

\* GetServiceAccount: the first account of an integration with role managed.
IsServiceAccount(a, i) ==
    LET accounts == {u \in UserIds : Live(user[u]) /\ user[u].role = "managed"
                                     /\ user[u].integration = i}
    IN  a \in accounts /\ \A b \in accounts : a <= b

\* authenticateServiceToken. The status of the integration is not looked at.
TokenAuthenticates(t, a) ==
    /\ token[t].status = "enabled" /\ user[a].status = "enabled"
    /\ IsServiceAccount(a, token[t].integration)

\* AdminAuth and RequireAtLeast: a token of the account, or a session.
\* Accounts of an integration have no password and no session.
Authenticated(a, min) ==
    /\ user[a].status = "enabled" /\ Rank(user[a].role) >= Rank(min)
    /\ \/ user[a].integration = 0
       \/ \E t \in TokenIds : TokenAuthenticates(t, a)

ScopeOf(a) == IF user[a].role = "managed" THEN user[a].integration ELSE 0

Free(r) == req[r] = Idle /\ script.left > 0

Begin(r, a, min, request) ==
    /\ Free(r) /\ request.op \in script.ops /\ Authenticated(a, min)
    /\ script' = [script EXCEPT !.left = @ - 1]
    /\ req' = [req EXCEPT ![r] = [request EXCEPT !.actor = a, !.by = user[a].role,
                                                 !.scope = ScopeOf(a)]]
    /\ UNCHANGED <<tables, record, crossed, revived, lateTokens>>

\* canManage and loadManagedUser, with the actor as loaded.
CanManage(by, scope, u) ==
    /\ Live(user[u])
    /\ \/ by = "root"
       \/ by = "admin" /\ user[u].role = "user"
       \/ /\ by = "managed" /\ user[u].role = "user"
          /\ scope # 0 /\ user[u].integration = scope

\* canAccessDepartment, canAccessProject.
CanAccess(a, row) ==
    /\ Live(row)
    /\ \/ user[a].role \in {"root", "admin"}
       \/ /\ user[a].role = "managed" /\ row.integration # 0
          /\ row.integration = user[a].integration

\* resolveDepartment, lookupAssignableDepartment.
Assignable(a, d) == d # 0 => CanAccess(a, dept[d]) /\ dept[d].status = "enabled"

\* UserRepo.List: a page of ids, never longer than MaxPageSize.
FirstPage(ids, size) ==
    LET limit == IF size > MaxPageSize THEN MaxPageSize ELSE size
    IN  {u \in ids : Cardinality({v \in ids : v < u}) < limit}

Members(d) == {u \in UserIds : Live(user[u]) /\ user[u].dept = d}

\* resolveBatchTargets by department: all members are meant.
BatchTargets(d) == FirstPage(Members(d), MaxBatchUsers)

-----------------------------------------------------------------------------
(* Writes *)

At(r, op) == req[r].op = op
Done(r) == req' = [req EXCEPT ![r] = Idle]

\* After a create: idempotencyRemember, then the initial credits, if any.
AfterCreate(r, id) ==
    req' = [req EXCEPT ![r] =
        IF @.idem # "" THEN [@ EXCEPT !.op = "remember", !.name = req[r].op, !.target = id]
        ELSE IF @.value = "credits" THEN [@ EXCEPT !.op = "grant", !.target = id]
        ELSE Idle]

Demoted(u) == /\ Live(user[u])
              /\ user'[u].status # user[u].status \/ user'[u].role # user[u].role

\* The history variables after a write of users by request r.
Recorded(r) ==
    /\ crossed' = (crossed \/ user[req[r].actor].status # "enabled"
                           \/ user[req[r].actor].role # req[r].by
                           \/ \E u \in UserIds : Demoted(u) /\ ~CanManage(req[r].by, req[r].scope, u))
    /\ revived' = revived \cup
         {i \in IntegrationIds : integration[i].status = "disabled" /\ \E u \in UserIds :
            user'[u].integration = i /\ user'[u].status = "enabled" /\ user[u].status # "enabled"}

UserWrite(r, rows) ==
    /\ user' = rows /\ Recorded(r)
    /\ UNCHANGED <<integration, token, script, lateTokens>>

AfterRemember(r) ==
    req' = [req EXCEPT ![r] = IF @.value = "credits" THEN [@ EXCEPT !.op = "grant"] ELSE Idle]

\* Mutant: the new object is not written down.
RememberNothing(r) ==
    /\ At(r, "remember") /\ UNCHANGED record
    /\ AfterRemember(r)
    /\ UNCHANGED <<tables, script, crossed, revived, lateTokens>>

Remember(r) ==
    /\ At(r, "remember")
    /\ LET k == <<req[r].name, req[r].idem, req[r].scope>>
       IN  record' = [record EXCEPT ![k] = IF @ = 0 THEN req[r].target ELSE @]
    /\ AfterRemember(r)
    /\ UNCHANGED <<tables, script, crossed, revived, lateTokens>>

\* A lookup that finds the first object answers with it.
Replayed(scope, a, idem, table) ==
    /\ idem # "" /\ record[<<scope, idem, ScopeOf(a)>>] # 0
    /\ Live(table[record[<<scope, idem, ScopeOf(a)>>]])

\* Billing.Grant for a new account; a failure leaves the account as it is.
Grant(r) ==
    /\ At(r, "grant") /\ Done(r)
    /\ \/ user' = [user EXCEPT ![req[r].target].billed = Live(user[req[r].target])]
       \/ UNCHANGED user
    /\ UNCHANGED <<dept, integration, token, record, script, crossed, revived, lateTokens>>

NewUser(name, role, d, i) ==
    [status |-> "enabled", role |-> role, dept |-> d, integration |-> i, name |-> name,
     billed |-> FALSE]

NameTaken(name) == \E u \in UserIds : Live(user[u]) /\ user[u].name = name

-----------------------------------------------------------------------------
(* Users *)

CreateUser(r, a, name, role, d, credits, idem) ==
    /\ role = "user" \/ user[a].role = "root"
    /\ Assignable(a, d) /\ ~Replayed("create_user", a, idem, user)
    /\ Begin(r, a, "managed", [Idle EXCEPT !.op = "create_user", !.name = name, !.role = role,
                                           !.ref = d, !.value = credits, !.idem = idem])

WriteUser(r) ==
    /\ At(r, "create_user")
    /\ IF NameTaken(req[r].name) \/ ~Exists(dept, req[r].ref)
       THEN Done(r) /\ UNCHANGED <<user, crossed, revived, integration, token, script, lateTokens>>
       ELSE \E u \in Fresh(user) :
              /\ UserWrite(r, [user EXCEPT ![u] =
                     NewUser(req[r].name, req[r].role, req[r].ref, req[r].scope)])
              /\ AfterCreate(r, u)
    /\ UNCHANGED <<dept, record>>

\* The rows are handled one by one; one that fails does not stop the others.
ImportUsers(r, a, names, d) ==
    /\ Assignable(a, d) /\ names # {} /\ Cardinality(names) <= MaxBatchUsers
    /\ Begin(r, a, "admin", [Idle EXCEPT !.op = "import", !.ref = d, !.todo = names])

ImportOneUser(r) ==
    /\ At(r, "import")
    /\ \E name \in req[r].todo :
        /\ IF NameTaken(name) \/ ~Exists(dept, req[r].ref)
           THEN UNCHANGED <<user, crossed, revived, integration, token, script, lateTokens>>
           ELSE \E u \in Fresh(user), billed \in BOOLEAN :
                  UserWrite(r, [user EXCEPT ![u] =
                      [NewUser(name, "user", req[r].ref, 0) EXCEPT !.billed = billed]])
        /\ req' = [req EXCEPT ![r] = IF @.todo = {name} THEN Idle
                                     ELSE [req[r] EXCEPT !.todo = @ \ {name}]]
    /\ UNCHANGED <<dept, record>>

\* Role "" leaves the role alone, department -1 the department.
UpdateUser(r, a, u, role, d) ==
    /\ CanManage(user[a].role, ScopeOf(a), u)
    /\ d # -1 => Assignable(a, d)
    /\ role # "" => user[a].role = "root" /\ u # a
    /\ role # "" \/ d # -1
    /\ Begin(r, a, "managed", [Idle EXCEPT !.op = "update_user", !.target = u, !.role = role,
                                           !.ref = d])

WriteUpdate(r) ==
    /\ At(r, "update_user") /\ Done(r)
    /\ LET u == req[r].target
           d == IF req[r].ref = -1 THEN user[u].dept ELSE req[r].ref
           role == IF req[r].role = "" THEN user[u].role ELSE req[r].role
       IN  IF Live(user[u]) /\ Exists(dept, d)
           THEN UserWrite(r, [user EXCEPT ![u].dept = d, ![u].role = role])
           ELSE UNCHANGED <<user, crossed, revived, integration, token, script, lateTokens>>
    /\ UNCHANGED <<dept, record>>

\* Mutant: nothing keeps an administrator from disabling himself.
SetOwnStatus(r, a, u, s) ==
    /\ CanManage(user[a].role, ScopeOf(a), u)
    /\ Begin(r, a, "managed", [Idle EXCEPT !.op = "status", !.target = u, !.value = s])

SetUserStatus(r, a, u, s) ==
    /\ CanManage(user[a].role, ScopeOf(a), u) /\ u # a
    /\ Begin(r, a, "managed", [Idle EXCEPT !.op = "status", !.target = u, !.value = s])

WriteStatus(r) ==
    /\ At(r, "status") /\ Done(r)
    /\ IF Live(user[req[r].target])
       THEN UserWrite(r, [user EXCEPT ![req[r].target].status = req[r].value])
       ELSE UNCHANGED <<user, crossed, revived, integration, token, script, lateTokens>>
    /\ UNCHANGED <<dept, record>>

\* A batch names users or a department.
BatchSetStatus(r, a, ids, s) ==
    /\ ids # {} /\ Cardinality(ids) <= MaxBatchUsers
    /\ Begin(r, a, "admin", [Idle EXCEPT !.op = "batch", !.value = s, !.todo = ids])

BatchSetDepartment(r, a, d, s) ==
    /\ Live(dept[d]) /\ Members(d) # {}
    /\ Begin(r, a, "admin", [Idle EXCEPT !.op = "batch", !.ref = d, !.value = s,
                                         !.todo = BatchTargets(d)])

\* One user of the batch is loaded and checked; one who may not be changed
\* is left out.
SetOneUserStatus(r) ==
    /\ At(r, "batch") /\ req[r].target = 0
    /\ \E u \in req[r].todo :
        LET rest == [req[r] EXCEPT !.todo = @ \ {u}]
        IN  req' = [req EXCEPT ![r] =
              IF /\ CanManage(req[r].by, req[r].scope, u) /\ user[u].status # req[r].value
                 /\ ~(u = req[r].actor /\ req[r].value = "disabled")
              THEN [rest EXCEPT !.target = u]
              ELSE IF rest.todo = {} THEN Idle ELSE rest]
    /\ UNCHANGED <<tables, record, script, crossed, revived, lateTokens>>

WriteOneStatus(r) ==
    /\ At(r, "batch") /\ req[r].target # 0
    /\ req' = [req EXCEPT ![r] = IF @.todo = {} THEN Idle ELSE [@ EXCEPT !.target = 0]]
    /\ IF Live(user[req[r].target])
       THEN UserWrite(r, [user EXCEPT ![req[r].target].status = req[r].value])
       ELSE UNCHANGED <<user, crossed, revived, integration, token, script, lateTokens>>
    /\ UNCHANGED <<dept, record>>

\* Credits for users or a department; nobody's authority over a user is asked.
BatchGrant(r, a, ids) ==
    /\ ids # {} /\ Cardinality(ids) <= MaxBatchUsers
    /\ Begin(r, a, "admin", [Idle EXCEPT !.op = "grant_batch", !.todo = ids])

BatchGrantDepartment(r, a, d) ==
    /\ Live(dept[d]) /\ Members(d) # {}
    /\ Begin(r, a, "admin", [Idle EXCEPT !.op = "grant_batch", !.ref = d,
                                         !.todo = BatchTargets(d)])

\* grantCredits writes an entry, finds one with its key, or fails.
GrantOneUser(r) ==
    /\ At(r, "grant_batch")
    /\ \E u \in req[r].todo :
        /\ \/ user' = [user EXCEPT ![u].billed = @ \/ Live(user[u])]
           \/ UNCHANGED user
        /\ req' = [req EXCEPT ![r] = IF @.todo = {u} THEN Idle
                                     ELSE [req[r] EXCEPT !.todo = @ \ {u}]]
    /\ UNCHANGED <<dept, integration, token, record, script, crossed, revived, lateTokens>>

\* userDeletionBlocked: no ledger entries, no usage logs.
DeleteUser(r, a, u) ==
    /\ CanManage(user[a].role, ScopeOf(a), u) /\ u # a /\ ~user[u].billed
    /\ Begin(r, a, "managed", [Idle EXCEPT !.op = "delete_user", !.target = u])

\* The foreign key of credit_ledger restricts, that of the owner sets NULL.
WriteDelete(r) ==
    /\ At(r, "delete_user") /\ Done(r)
    /\ LET u == req[r].target
       IN  IF Live(user[u]) /\ ~user[u].billed
           THEN /\ UserWrite(r, [user EXCEPT ![u].status = "deleted", ![u].dept = 0])
                /\ dept' = [d \in DeptIds |-> IF dept[d].owner = u
                                              THEN [dept[d] EXCEPT !.owner = 0] ELSE dept[d]]
           ELSE UNCHANGED <<tables, script, crossed, revived, lateTokens>>
    /\ UNCHANGED record

-----------------------------------------------------------------------------
(* Departments *)

CreateDepartment(r, a, idem) ==
    /\ ~Replayed("create_dept", a, idem, dept)
    /\ Begin(r, a, "managed", [Idle EXCEPT !.op = "create_dept", !.idem = idem])

WriteDepartment(r) ==
    /\ At(r, "create_dept")
    /\ \E d \in Fresh(dept) :
        /\ dept' = [dept EXCEPT ![d] = [status |-> "enabled", owner |-> 0,
                                        integration |-> req[r].scope]]
        /\ AfterCreate(r, d)
    /\ UNCHANGED <<user, integration, token, record, script, crossed, revived, lateTokens>>

\* checkOwnerIsMember at the time of the check.
UpdateDepartment(r, a, d, s, owner) ==
    /\ CanAccess(a, dept[d]) /\ (owner # 0 => owner \in Members(d))
    /\ Begin(r, a, "managed", [Idle EXCEPT !.op = "update_dept", !.target = d, !.value = s,
                                           !.ref = owner])

WriteDeptUpdate(r) ==
    /\ At(r, "update_dept") /\ Done(r)
    /\ LET d == req[r].target
       IN  dept' = IF Live(dept[d]) /\ Exists(user, req[r].ref)
                   THEN [dept EXCEPT ![d].status = req[r].value, ![d].owner = req[r].ref]
                   ELSE dept
    /\ UNCHANGED <<user, integration, token, record, script, crossed, revived, lateTokens>>

DeleteDepartment(r, a, d) ==
    /\ CanAccess(a, dept[d])
    /\ Begin(r, a, "managed", [Idle EXCEPT !.op = "delete_dept", !.target = d])

\* Mutant: neither the count nor the foreign key looks at the members.
WriteDeptDeleteAnyway(r) ==
    /\ At(r, "delete_dept") /\ Done(r)
    /\ dept' = [dept EXCEPT ![req[r].target].status = "deleted", ![req[r].target].owner = 0]
    /\ UNCHANGED <<user, integration, token, record, script, crossed, revived, lateTokens>>

\* Refused while there are members, by the count or by the foreign key.
WriteDeptDelete(r) ==
    /\ At(r, "delete_dept") /\ Done(r)
    /\ LET d == req[r].target
       IN  dept' = IF Live(dept[d]) /\ Members(d) = {}
                   THEN [dept EXCEPT ![d].status = "deleted", ![d].owner = 0] ELSE dept
    /\ UNCHANGED <<user, integration, token, record, script, crossed, revived, lateTokens>>

\* remove: the users leave whatever department they are in.
SetDepartmentMembers(r, a, d, ids, remove) ==
    /\ CanAccess(a, dept[d]) /\ ids # {}
    /\ remove \/ dept[d].status = "enabled"
    /\ Begin(r, a, "managed", [Idle EXCEPT !.op = "members", !.ref = IF remove THEN 0 ELSE d,
                                           !.todo = ids])

AssignMembers(r) ==
    /\ At(r, "members") /\ Done(r)
    /\ IF Exists(dept, req[r].ref)
       THEN UserWrite(r, [u \in UserIds |-> IF u \in req[r].todo /\ Live(user[u])
                                THEN [user[u] EXCEPT !.dept = req[r].ref] ELSE user[u]])
       ELSE UNCHANGED <<user, crossed, revived, integration, token, script, lateTokens>>
    /\ UNCHANGED <<dept, record>>

-----------------------------------------------------------------------------
(* Integrations *)

CreateIntegration(r, a, name) ==
    Begin(r, a, "root", [Idle EXCEPT !.op = "create_integration", !.name = name])

\* One transaction with the service account.
WriteIntegration(r) ==
    /\ At(r, "create_integration") /\ Done(r)
    /\ IF NameTaken(req[r].name) THEN UNCHANGED <<user, integration, crossed, revived>>
       ELSE \E i \in Fresh(integration), u \in Fresh(user) :
              /\ integration' = [integration EXCEPT ![i].status = "enabled"]
              /\ user' = [user EXCEPT ![u] = NewUser(req[r].name, "managed", 0, i)]
              /\ Recorded(r)
    /\ UNCHANGED <<dept, token, record, script, lateTokens>>

CreateServiceToken(r, a, i) ==
    /\ integration[i].status = "enabled"
    /\ Begin(r, a, "root", [Idle EXCEPT !.op = "create_token", !.target = i])

Late(t, i) == lateTokens' = IF integration[i].status = "disabled"
                            THEN lateTokens \cup {t} ELSE lateTokens

WriteToken(r) ==
    /\ At(r, "create_token") /\ Done(r)
    /\ \E t \in Fresh(token) :
        /\ token' = [token EXCEPT ![t] = [status |-> "enabled", integration |-> req[r].target]]
        /\ Late(t, req[r].target)
    /\ UNCHANGED <<user, dept, integration, record, script, crossed, revived>>

\* s is "enabled", "disabled", or "deleted" for a DELETE.
SetServiceTokenStatus(r, a, t, s) ==
    /\ Live(token[t])
    /\ Begin(r, a, "root", [Idle EXCEPT !.op = "token_status", !.target = t, !.value = s])

WriteTokenStatus(r) ==
    /\ At(r, "token_status") /\ Done(r)
    /\ LET t == req[r].target
       IN  IF Live(token[t])
           THEN /\ token' = [token EXCEPT ![t].status = req[r].value]
                /\ IF req[r].value = "enabled" THEN Late(t, token[t].integration)
                   ELSE UNCHANGED lateTokens
           ELSE UNCHANGED <<token, lateTokens>>
    /\ UNCHANGED <<user, dept, integration, record, script, crossed, revived>>

DisableIntegration(r, a, i) ==
    /\ integration[i].status = "enabled"
    /\ Begin(r, a, "root", [Idle EXCEPT !.op = "disable", !.target = i])

\* Mutant: the users of the integration are left alone.
WriteDisableTokensOnly(r) ==
    /\ At(r, "disable") /\ Done(r)
    /\ LET i == req[r].target
       IN  /\ integration' = [integration EXCEPT ![i].status = "disabled"]
           /\ token' = [t \in TokenIds |-> IF token[t].integration = i /\ Live(token[t])
                            THEN [token[t] EXCEPT !.status = "disabled"] ELSE token[t]]
           /\ revived' = revived \ {i} /\ UNCHANGED <<user, lateTokens>>
    /\ UNCHANGED <<dept, record, script, crossed>>

\* One transaction: the integration, its tokens, its users.
WriteDisable(r) ==
    /\ At(r, "disable") /\ Done(r)
    /\ LET i == req[r].target
       IN  /\ integration' = [integration EXCEPT ![i].status = "disabled"]
           /\ token' = [t \in TokenIds |-> IF token[t].integration = i /\ Live(token[t])
                            THEN [token[t] EXCEPT !.status = "disabled"] ELSE token[t]]
           /\ user' = [u \in UserIds |-> IF user[u].integration = i /\ Live(user[u])
                            THEN [user[u] EXCEPT !.status = "disabled"] ELSE user[u]]
           /\ revived' = revived \ {i}
           /\ lateTokens' = {t \in lateTokens : token[t].integration # i}
    /\ UNCHANGED <<dept, record, script, crossed>>
=============================================================================
