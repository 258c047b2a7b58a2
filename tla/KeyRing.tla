------------------------------- MODULE KeyRing -------------------------------
(***************************************************************************)
(* API keys and projects: issuing, changing and revoking keys by their     *)
(* owners and by administrators, the quota of keys, the credit limit that  *)
(* depletes a key, and the project a key is accounted to. Billing itself   *)
(* is BillingSession's; here it only moves credit_used.                    *)
(***************************************************************************)
EXTENDS Directory

CONSTANTS
    KeyIds, ProjectIds,     \* positive integers
    Limits,         \* values of credit_limit
    NoLimit,        \* credit_limit IS NULL
    Hold,           \* what a relayed request precharges
    MaxKeys         \* max_keys_per_user

ASSUME KeyRingAssumption ==
    /\ KeyIds \cup ProjectIds \subseteq Nat \ {0} /\ IsFiniteSet(KeyIds)
    /\ Limits \subseteq Nat /\ NoLimit \notin Nat
    /\ Hold \in Nat \ {0} /\ MaxKeys \in Nat \ {0}

VARIABLES
    key, project,   \* the tables
    relay,          \* relayed requests: their key and whether they hold credits
    doubtful,       \* history: idempotency keys retried too early or not recorded
    renewed         \* history: idempotency keys whose first key was deleted

keyVars == <<key, project, relay, doubtful, renewed>>
NoRelay == [key |-> 0, held |-> FALSE]

KeysOf(u) == {k \in KeyIds : Live(key[k]) /\ key[k].owner = u}

\* A step on the directory, with what it does to keys left alone.
KeysUnchanged == UNCHANGED keyVars

-----------------------------------------------------------------------------
(* Issuing *)

\* resolveKeyProject, projectMatchesOwnerScope: status is not looked at.
ProjectFits(p, u) == p # 0 => Live(project[p]) /\ project[p].integration = user[u].integration

\* Mutant: a user who has all his keys may have one more.
QuotaLeftStill(u) == Cardinality(KeysOf(u)) <= MaxKeys

\* CountByUser against max_keys_per_user.
QuotaLeft(u) == Cardinality(KeysOf(u)) < MaxKeys

KeyReplayed(a, u, idem) ==
    /\ Replayed("create_key", a, idem, key)
    /\ key[record[<<"create_key", idem, ScopeOf(a)>>]].owner = u

\* The idempotency keys of key creations in progress.
InProgress == {<<req[r].idem, req[r].scope>> :
                  r \in {s \in Requests : "create_key" \in {req[s].op, req[s].name}}}

\* An attempt may meet another one with its key still in progress.
Retry(idem, a) ==
    doubtful' = doubtful \cup ({<<idem, ScopeOf(a)>>} \cap InProgress)

IssueKey(r, a, u, p, idem) ==
    /\ CanManage(user[a].role, ScopeOf(a), u)
    /\ ~KeyReplayed(a, u, idem) /\ QuotaLeft(u) /\ ProjectFits(p, u)
    /\ Begin(r, a, "managed", [Idle EXCEPT !.op = "create_key", !.target = u, !.ref = p,
                                           !.idem = idem])
    /\ Retry(idem, a) /\ UNCHANGED <<key, project, relay, renewed>>

\* The owner's own request; no idempotency key.
CreateOwnKey(r, u, p) ==
    /\ user[u].integration = 0 /\ QuotaLeft(u) /\ ProjectFits(p, u)
    /\ Begin(r, u, "user", [Idle EXCEPT !.op = "create_key", !.target = u, !.ref = p])
    /\ KeysUnchanged

\* Owner and project are foreign keys.
WriteKey(r) ==
    /\ At(r, "create_key")
    /\ IF ~Live(user[req[r].target]) \/ ~Exists(project, req[r].ref)
       THEN Done(r) /\ UNCHANGED key
       ELSE \E k \in Fresh(key) :
              /\ key' = [key EXCEPT ![k] = [status |-> "enabled", owner |-> req[r].target,
                             project |-> req[r].ref, limit |-> NoLimit, used |-> 0,
                             idem |-> <<req[r].idem, req[r].scope>>]]
              /\ AfterCreate(r, k)
    /\ UNCHANGED <<tables, record, script, crossed, revived, lateTokens,
                   project, relay, doubtful, renewed>>

\* The record is not written; nobody is told.
RecordFails(r) ==
    /\ At(r, "remember") /\ AfterRemember(r)
    /\ doubtful' = doubtful \cup {<<req[r].idem, req[r].scope>>}
    /\ UNCHANGED <<tables, record, script, crossed, revived, lateTokens,
                   key, project, relay, renewed>>

-----------------------------------------------------------------------------
(* Changing *)

\* By the owner, or by someone who may manage him.
MayChange(a, k) ==
    /\ Live(key[k])
    /\ a = key[k].owner \/ CanManage(user[a].role, ScopeOf(a), key[k].owner)

\* s = "" leaves the status alone, p = -1 the project, limit = {} the limit;
\* otherwise limit holds the new one.
UpdateKey(r, a, k, s, p, limit) ==
    /\ MayChange(a, k) /\ (p # -1 => ProjectFits(p, key[k].owner))
    /\ s # "" \/ p # -1 \/ limit # {}
    /\ Begin(r, a, "user", [Idle EXCEPT !.op = "update_key", !.target = k, !.value = s,
                                        !.ref = p, !.todo = limit])
    /\ KeysUnchanged

WriteKeyUpdate(r) ==
    /\ At(r, "update_key")
    /\ LET k == req[r].target
           row == key[k]
       IN  IF ~Live(row) \/ (req[r].ref # -1 /\ ~Exists(project, req[r].ref))
           THEN Done(r) /\ UNCHANGED key
           ELSE /\ key' = [key EXCEPT ![k] = [row EXCEPT
                      !.status = IF req[r].value = "" THEN @ ELSE req[r].value,
                      !.project = IF req[r].ref = -1 THEN @ ELSE req[r].ref,
                      !.limit = IF req[r].todo = {} THEN @ ELSE CHOOSE l \in req[r].todo : TRUE]]
                /\ req' = [req EXCEPT ![r] = IF @.todo = {} THEN Idle
                                             ELSE [@ EXCEPT !.op = "restore"]]
    /\ UNCHANGED <<tables, record, script, crossed, revived, lateTokens,
                   project, relay, doubtful, renewed>>

\* RestoreDepleted: a statement of its own after the new limit is written.
RestoreDepleted(r) ==
    /\ At(r, "restore") /\ Done(r)
    /\ LET k == req[r].target
       IN  key' = IF key[k].status = "depleted"
                     /\ (key[k].limit = NoLimit \/ key[k].used < key[k].limit)
                  THEN [key EXCEPT ![k].status = "enabled"] ELSE key
    /\ UNCHANGED <<tables, record, script, crossed, revived, lateTokens,
                   project, relay, doubtful, renewed>>

DeleteKey(r, a, k) ==
    /\ MayChange(a, k)
    /\ Begin(r, a, "user", [Idle EXCEPT !.op = "delete_key", !.target = k])
    /\ KeysUnchanged

\* Soft: the row remains.
WriteKeyDelete(r) ==
    /\ At(r, "delete_key") /\ Done(r)
    /\ LET k == req[r].target
       IN  /\ key' = IF Live(key[k]) THEN [key EXCEPT ![k].status = "deleted"] ELSE key
           /\ renewed' = renewed \cup {key[k].idem}
    /\ UNCHANGED <<tables, record, script, crossed, revived, lateTokens,
                   project, relay, doubtful>>

-----------------------------------------------------------------------------
(* Projects *)

CreateProject(r, a) ==
    /\ Begin(r, a, "managed", [Idle EXCEPT !.op = "create_project"])
    /\ KeysUnchanged

WriteProject(r) ==
    /\ At(r, "create_project") /\ Done(r)
    /\ \E p \in Fresh(project) :
        project' = [project EXCEPT ![p] = [status |-> "enabled", integration |-> req[r].scope]]
    /\ UNCHANGED <<tables, record, script, crossed, revived, lateTokens,
                   key, relay, doubtful, renewed>>

DeleteProject(r, a, p) ==
    /\ CanAccess(a, project[p])
    /\ Begin(r, a, "managed", [Idle EXCEPT !.op = "delete_project", !.target = p])
    /\ KeysUnchanged

\* ON DELETE SET NULL.
WriteProjectDelete(r) ==
    /\ At(r, "delete_project") /\ Done(r)
    /\ LET p == req[r].target
       IN  /\ project' = [project EXCEPT ![p].status = "deleted"]
           /\ key' = [k \in KeyIds |-> IF key[k].project = p
                                       THEN [key[k] EXCEPT !.project = 0] ELSE key[k]]
    /\ UNCHANGED <<tables, record, script, crossed, revived, lateTokens,
                   relay, doubtful, renewed>>

\* The keys of a deleted user go with him.
CascadeKeys(u) == [k \in KeyIds |-> IF key[k].owner = u /\ ~Live(user'[u])
                                    THEN [key[k] EXCEPT !.status = "deleted"] ELSE key[k]]

-----------------------------------------------------------------------------
(* Relayed requests: authenticateAPIKey, then applyKeyCredit twice *)

AuthenticateKey(q, k) ==
    /\ relay[q] = NoRelay /\ "relay" \in script.ops /\ script.left > 0
    /\ key[k].status = "enabled" /\ user[key[k].owner].status = "enabled"
    /\ relay' = [relay EXCEPT ![q].key = k]
    /\ script' = [script EXCEPT !.left = @ - 1]
    /\ UNCHANGED <<tables, record, req, crossed, revived, lateTokens,
                   key, project, doubtful, renewed>>

\* Mutant: the mark does not care which status it replaces.
MarkAnyStatus(k) == [key EXCEPT ![k].status = "depleted"]

\* Marked in the transaction that refuses, from enabled only.
MarkDepleted(k) ==
    IF key[k].status = "enabled" THEN [key EXCEPT ![k].status = "depleted"] ELSE key

\* A precharge is the first ledger entry of its user; no row, no precharge.
PrechargeKey(q) ==
    /\ relay[q].key # 0 /\ ~relay[q].held
    /\ LET k == relay[q].key
           u == key[k].owner
       IN  IF Live(user[u]) /\ (key[k].limit = NoLimit \/ key[k].used + Hold <= key[k].limit)
           THEN /\ key' = [key EXCEPT ![k].used = @ + Hold]
                /\ user' = [user EXCEPT ![u].billed = TRUE]
                /\ relay' = [relay EXCEPT ![q].held = TRUE]
           ELSE /\ key' = MarkDepleted(k) /\ UNCHANGED user
                /\ relay' = [relay EXCEPT ![q] = NoRelay]
    /\ UNCHANGED <<dept, integration, token, record, req, script, crossed, revived, lateTokens,
                   project, doubtful, renewed>>

\* Refused for the balance, a rate or the model before anything is held.
RefuseRelay(q) ==
    /\ relay[q].key # 0 /\ ~relay[q].held
    /\ relay' = [relay EXCEPT ![q] = NoRelay]
    /\ UNCHANGED <<directoryVars, key, project, doubtful, renewed>>

\* Settled at a final cost that may exceed the hold; a refund costs nothing.
SettleKey(q, cost) ==
    /\ relay[q].held
    /\ LET k == relay[q].key
       IN  key' = [key EXCEPT ![k].used = IF @ > Hold - cost THEN @ - (Hold - cost) ELSE 0]
    /\ relay' = [relay EXCEPT ![q] = NoRelay]
    /\ UNCHANGED <<directoryVars, project, doubtful, renewed>>
=============================================================================
