---------------------------- MODULE Organization ----------------------------
(***************************************************************************)
(* The console: management of users, departments, integrations, keys and   *)
(* projects, signing in, and settings, while requests of administrators,   *)
(* service accounts and owners overlap, clients retry, time passes, and    *)
(* the process may stop.                                                   *)
(***************************************************************************)
EXTENDS KeyRing, Login, SettingsCache

CONSTANTS
    Relays,         \* places for relayed requests in progress
    Costs,          \* final costs of relayed requests
    MaxFaults,      \* bound on crashes
    Scenarios       \* rows to start from, and which requests come, and how many

Status == {"enabled", "disabled"}
RowStatus == Status \cup {"none", "deleted"}

\* Rows of the tables. Those of integrations, tokens and projects are alike.
UserRow == [status : RowStatus, role : Roles, dept : DeptIds \cup {0},
            integration : IntegrationIds \cup {0}, name : Names \cup {""}, billed : BOOLEAN]
DeptRow == [status : RowStatus, owner : UserIds \cup {0}, integration : IntegrationIds \cup {0}]
ScopedRow == [status : RowStatus, integration : IntegrationIds \cup {0}]
KeyRow == [status : RowStatus \cup {"depleted"}, owner : UserIds \cup {0},
           project : ProjectIds \cup {0}, limit : Limits \cup {NoLimit}, used : Nat,
           idem : (Idems \cup {""}) \X (IntegrationIds \cup {0})]

NoUser == [status |-> "none", role |-> "user", dept |-> 0, integration |-> 0, name |-> "",
           billed |-> FALSE]
NoRow == [status |-> "none", integration |-> 0]
NoDept == [status |-> "none", integration |-> 0, owner |-> 0]
NoKey == [status |-> "none", owner |-> 0, project |-> 0, limit |-> NoLimit, used |-> 0,
          idem |-> <<"", 0>>]

Rows(ids, init, blank) == [i \in ids |-> IF i \in DOMAIN init THEN init[i] ELSE blank]

\* What the tables start from has their types. EnsureRootUser has run: there is
\* an enabled root with a password.
ASSUME OrganizationAssumption ==
    /\ Costs \subseteq Nat /\ MaxFaults \in Nat
    /\ \A s \in Scenarios :
        /\ s.left \in Nat
        /\ \A u \in UserIds \cap DOMAIN s.users : s.users[u] \in UserRow
        /\ \A d \in DeptIds \cap DOMAIN s.depts : s.depts[d] \in DeptRow
        /\ \A i \in IntegrationIds \cap DOMAIN s.integrations : s.integrations[i] \in ScopedRow
        /\ \A t \in TokenIds \cap DOMAIN s.tokens : s.tokens[t] \in ScopedRow
        /\ \A p \in ProjectIds \cap DOMAIN s.projects : s.projects[p] \in ScopedRow
        /\ \A k \in KeyIds \cap DOMAIN s.keys : s.keys[k] \in KeyRow
        /\ \E u \in UserIds \cap DOMAIN s.users :
              /\ s.users[u].status = "enabled" /\ s.users[u].role = "root"
              /\ s.users[u].integration = 0

\* It refers to rows that exist, like everything the foreign keys let in; what
\* belongs to a disabled integration is disabled; nobody has too many keys, and
\* none has been issued under an idempotency key.
Consistent(s) ==
    LET users == Rows(UserIds, s.users, NoUser)
        depts == Rows(DeptIds, s.depts, NoDept)
        integrations == Rows(IntegrationIds, s.integrations, NoRow)
        tokens == Rows(TokenIds, s.tokens, NoRow)
        projects == Rows(ProjectIds, s.projects, NoRow)
        keys == Rows(KeyIds, s.keys, NoKey)
    IN  /\ \A u \in UserIds :
              /\ users[u].billed => Live(users[u])
              /\ Live(users[u]) => Exists(depts, users[u].dept)
        /\ \A d \in DeptIds : Live(depts[d]) => Exists(users, depts[d].owner)
        /\ \A k \in KeyIds : Live(keys[k]) =>
              /\ keys[k].owner # 0 /\ Exists(users, keys[k].owner)
              /\ Exists(projects, keys[k].project)
              /\ keys[k].project # 0 =>
                    projects[keys[k].project].integration = users[keys[k].owner].integration
        /\ \A t \in TokenIds : tokens[t].status # "none" => tokens[t].integration # 0
        /\ \A i \in IntegrationIds : integrations[i].status = "disabled" =>
              /\ \A u \in UserIds : users[u].integration = i => users[u].status # "enabled"
              /\ \A t \in TokenIds : tokens[t].integration = i => tokens[t].status # "enabled"
        /\ \A u \in UserIds :
              Cardinality({k \in KeyIds : Live(keys[k]) /\ keys[k].owner = u}) <= MaxKeys
        /\ \A k \in KeyIds : keys[k].idem[1] \notin Idems

ASSUME ScenarioAssumption == \A s \in Scenarios : Consistent(s)

VARIABLE faults

keysAndFaults == <<keyVars, faults>>
console == <<clock, loginVars, settingVars>>
vars == <<directoryVars, keysAndFaults, console>>

Init ==
    /\ \E s \in Scenarios :
        /\ script = [ops |-> s.ops, left |-> s.left]
        /\ user = Rows(UserIds, s.users, NoUser) /\ dept = Rows(DeptIds, s.depts, NoDept)
        /\ integration = Rows(IntegrationIds, s.integrations, NoRow)
        /\ token = Rows(TokenIds, s.tokens, NoRow)
        /\ project = Rows(ProjectIds, s.projects, NoRow) /\ key = Rows(KeyIds, s.keys, NoKey)
    /\ record = [x \in {"create_user", "create_dept", "create_key"} \X Idems
                       \X ({0} \cup IntegrationIds) |-> 0]
    /\ req = [r \in Requests |-> Idle] /\ relay = [q \in Relays |-> NoRelay]
    /\ crossed = FALSE /\ revived = {} /\ lateTokens = {} /\ doubtful = {} /\ renewed = {}
    /\ clock = 0 /\ LoginInit /\ SettingsInit /\ faults = 0

-----------------------------------------------------------------------------
UserRequest(r, a) ==
    \/ \E name \in Names, role \in Roles, d \in DeptIds \cup {0}, credits \in {"", "credits"},
          idem \in Idems \cup {""} : CreateUser(r, a, name, role, d, credits, idem)
    \/ \E names \in SUBSET Names, d \in DeptIds \cup {0} : ImportUsers(r, a, names, d)
    \/ \E u \in UserIds, role \in Roles \cup {""}, d \in DeptIds \cup {0, -1} :
          UpdateUser(r, a, u, role, d)
    \/ \E u \in UserIds, s \in Status : SetUserStatus(r, a, u, s)
    \/ \E ids \in SUBSET UserIds, s \in Status : BatchSetStatus(r, a, ids, s)
    \/ \E d \in DeptIds, s \in Status : BatchSetDepartment(r, a, d, s)
    \/ \E u \in UserIds : DeleteUser(r, a, u)
    \/ \E ids \in SUBSET UserIds : BatchGrant(r, a, ids)
    \/ \E d \in DeptIds : BatchGrantDepartment(r, a, d)

DepartmentRequest(r, a) ==
    \/ \E idem \in Idems \cup {""} : CreateDepartment(r, a, idem)
    \/ \E d \in DeptIds, s \in Status, owner \in UserIds \cup {0} :
          UpdateDepartment(r, a, d, s, owner)
    \/ \E d \in DeptIds : DeleteDepartment(r, a, d)
    \/ \E d \in DeptIds, ids \in SUBSET UserIds, remove \in BOOLEAN :
          SetDepartmentMembers(r, a, d, ids, remove)

IntegrationRequest(r, a) ==
    \/ \E name \in Names : CreateIntegration(r, a, name)
    \/ \E i \in IntegrationIds : CreateServiceToken(r, a, i) \/ DisableIntegration(r, a, i)
    \/ \E t \in TokenIds, s \in Status \cup {"deleted"} : SetServiceTokenStatus(r, a, t, s)

KeyRequest(r, a) ==
    \/ \E u \in UserIds, p \in ProjectIds \cup {0}, idem \in Idems \cup {""} :
          IssueKey(r, a, u, p, idem)
    \/ \E p \in ProjectIds \cup {0} : CreateOwnKey(r, a, p)
    \/ \E k \in KeyIds : DeleteKey(r, a, k) \/
          \E s \in Status \cup {""}, p \in ProjectIds \cup {0, -1},
             limit \in {{}} \cup {{l} : l \in Limits \cup {NoLimit}} : UpdateKey(r, a, k, s, p, limit)
    \/ CreateProject(r, a) \/ \E p \in ProjectIds : DeleteProject(r, a, p)

DirectoryWrite(r) ==
    \/ Remember(r) \/ Grant(r) \/ WriteUser(r) \/ ImportOneUser(r) \/ WriteUpdate(r)
    \/ WriteStatus(r) \/ SetOneUserStatus(r) \/ WriteOneStatus(r)
    \/ GrantOneUser(r)
    \/ WriteDepartment(r) \/ WriteDeptUpdate(r) \/ WriteDeptDelete(r) \/ AssignMembers(r)
    \/ WriteIntegration(r) \/ WriteToken(r) \/ WriteTokenStatus(r) \/ WriteDisable(r)

\* A deleted user takes his keys along.
DeleteWithKeys(r) ==
    /\ WriteDelete(r)
    /\ LET u == req[r].target
       IN  /\ key' = CascadeKeys(u)
           /\ renewed' = renewed \cup {key[k].idem : k \in {l \in KeyIds : key[l] # key'[l]}}
    /\ UNCHANGED <<project, relay, doubtful>>

KeyWrite(r) ==
    WriteKey(r) \/ RecordFails(r) \/ WriteKeyUpdate(r) \/ RestoreDepleted(r) \/ WriteKeyDelete(r)
        \/ WriteProject(r) \/ WriteProjectDelete(r)

RelayStep(q) ==
    PrechargeKey(q) \/ RefuseRelay(q) \/ (\E k \in KeyIds : AuthenticateKey(q, k))
        \/ \E cost \in Costs : SettleKey(q, cost)

\* The process stops: requests in progress are cut, holds stay.
Crash ==
    /\ faults < MaxFaults
    /\ \/ \E r \in Requests : req[r] # Idle \/ query[r] # NoQuery
       \/ \E b \in Browsers : signin[b] # NoSignin
    /\ faults' = faults + 1
    /\ doubtful' = doubtful \cup InProgress
    /\ req' = [r \in Requests |-> Idle]
    /\ LoginLost /\ SettingsLost
    /\ UNCHANGED <<tables, record, script, crossed, revived, lateTokens,
                   key, project, relay, renewed, clock>>

\* Time passes, where it makes a difference.
Tick ==
    /\ "time" \in script.ops /\ clock < MaxClock /\ ReadersKeepUp
    /\ clock' = clock + 1
    /\ UNCHANGED <<directoryVars, keysAndFaults, loginVars, settingVars>>

Next ==
    \/ \E r \in Requests, a \in UserIds :
        /\ Free(r) /\ script.ops \ {"login", "setting", "time"} # {}
        /\ \/ (UserRequest(r, a) \/ DepartmentRequest(r, a) \/ IntegrationRequest(r, a))
              /\ UNCHANGED <<keysAndFaults, console>>
           \/ KeyRequest(r, a) /\ UNCHANGED <<faults, console>>
           \/ LoginRequest(r, a) /\ UNCHANGED <<keysAndFaults, settingVars>>
    \/ \E r \in Requests :
        \/ DirectoryWrite(r) /\ UNCHANGED <<keysAndFaults, console>>
        \/ (DeleteWithKeys(r) \/ KeyWrite(r)) /\ UNCHANGED <<faults, console>>
        \/ PasswordWrite(r) /\ UNCHANGED <<keysAndFaults, settingVars>>
        \/ SettingStep(r) /\ UNCHANGED <<keysAndFaults, loginVars>>
    \/ (\E q \in Relays : RelayStep(q)) /\ UNCHANGED <<faults, console>>
    \/ (\E b \in Browsers : LoginStep(b)) /\ UNCHANGED <<keysAndFaults, settingVars>>
    \/ Crash \/ Tick

Spec == Init /\ [][Next]_vars

-----------------------------------------------------------------------------
(* Properties *)

\* The tables have their types.
TypeOK ==
    /\ user \in [UserIds -> UserRow] /\ dept \in [DeptIds -> DeptRow]
    /\ integration \in [IntegrationIds -> ScopedRow] /\ token \in [TokenIds -> ScopedRow]
    /\ project \in [ProjectIds -> ScopedRow] /\ key \in [KeyIds -> KeyRow]

\* Somebody can always administer the system: an enabled root with a password
\* remains through every order of disabling, demoting, deleting and batches,
\* unless a request was carried out that its administrator could no longer have
\* begun: he had lost his rights, or its target had been promoted meanwhile.
RootRemains ==
    crossed \/ \E u \in UserIds : /\ user[u].status = "enabled" /\ user[u].role = "root"
                                  /\ user[u].integration = 0

\* Rows refer to rows that exist, whatever was deleted between a handler's
\* check and its write: nobody with ledger entries is deleted, no department
\* with members; a key is accounted to a project of its owner's scope.
ReferencesHold ==
    /\ \A u \in UserIds : user[u].billed => Live(user[u])
    /\ \A u \in UserIds : Live(user[u]) => Exists(dept, user[u].dept)
    /\ \A d \in DeptIds : Live(dept[d]) => Exists(user, dept[d].owner)
    /\ \A k \in KeyIds : Live(key[k]) =>
          /\ key[k].owner # 0 /\ Exists(user, key[k].owner) /\ Exists(project, key[k].project)
          /\ key[k].project # 0 =>
                project[key[k].project].integration = user[key[k].owner].integration

\* A client that retries a key's creation after an answer gets the same key:
\* one idempotency key used for one user stands for at most one key, unless
\* the first was deleted, a retry overlapped its predecessor, or the record
\* was not written, for a failure or because the process stopped.
IssuedOnce ==
    \A i \in Idems, s \in IntegrationIds \cup {0} :
        LET keys == {k \in KeyIds : key[k].idem = <<i, s>>}
        IN  \/ <<i, s>> \in doubtful \cup renewed
            \/ \E k, l \in keys : key[k].owner # key[l].owner
            \/ Cardinality(keys) <= 1

\* max_keys_per_user is checked before the insert: creations in progress at
\* once may exceed it, by at most one less than their number.
QuotaBounded ==
    \A u \in UserIds : Cardinality(KeysOf(u)) <= MaxKeys + Cardinality(Requests) - 1

\* A disabled key is enabled only by an update that says so: neither a refused
\* precharge nor a new limit brings it back (applyKeyCredit, RestoreDepleted).
DisableLasts ==
    [][\A k \in KeyIds : key[k].status = "disabled" /\ Live(key'[k]) /\ key'[k].status # "disabled"
          => \E r \in Requests : At(r, "update_key") /\ req[r].target = k
                                 /\ req[r].value = "enabled"]_vars

\* A disabled integration is silent: a token of it works again only if one of
\* its users and that token were both enabled after the disabling, even when
\* tokens and users are created while the cascade runs.
IntegrationSilenced ==
    \A t \in TokenIds, a \in UserIds :
        TokenAuthenticates(t, a) /\ integration[token[t].integration].status = "disabled"
            => token[t].integration \in revived /\ t \in lateTokens

=============================================================================
