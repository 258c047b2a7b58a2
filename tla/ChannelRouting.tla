--------------------------- MODULE ChannelRouting ---------------------------
(***************************************************************************)
(* Which upstream channels serve a request, and how channels leave and     *)
(* rejoin service: relayWithRetry's loop over candidates with affinity,    *)
(* ChannelHealth's failure counters, automatic disabling and recovery      *)
(* probe, and the administrator's status switch.                           *)
(*                                                                         *)
(* Everyone writes channels.status with an unconditional UPDATE by id,     *)
(* from what he read earlier: a request from its candidate list, the probe *)
(* from its list of disabled channels. The counters and the affinity       *)
(* bindings are in memory, behind mutexes of their own.                    *)
(***************************************************************************)
EXTENDS Integers, FiniteSets

CONSTANTS
    Channels, Priority,     \* channels that carry the model; their priority
    Requests, Conversations,
    ConversationOf,         \* the affinity key of a request; None without
    Threshold,              \* channel_disable_failure_threshold; 0 is never
    MaxRetries,             \* relay_max_retries
    MaxEdits,               \* bound on administrators' status changes
    MaxOutages,             \* bound on upstreams going down
    MaxFaults,              \* bound on failed writes and restarts
    None

ASSUME RoutingAssumption ==
    /\ Priority \in [Channels -> Int]
    /\ ConversationOf \in [Requests -> Conversations \cup {None}]
    /\ Threshold \in Nat /\ MaxRetries \in Nat
    /\ MaxEdits \in Nat /\ MaxOutages \in Nat /\ MaxFaults \in Nat
    /\ None \notin Channels \cup Conversations

VARIABLES
    status,         \* channels.status, or "deleted"
    failures,       \* channelHealth.failures
    binding,        \* affinityTable: channel of a conversation
    phase,          \* of a request in relayWithRetry
    candidates,     \* what ListEnabledForModel returned to it
    tried,          \* channels it has sent to
    at,             \* the channel of its current attempt
    probeList,      \* channels the probe round has listed and not yet done
    recovering,     \* channel it has enabled, its counter not yet reset
    up,             \* upstreams that answer
    edits, outages, faults

requestVars == <<phase, candidates, tried, at>>
probeVars == <<probeList, recovering>>
envVars == <<up, edits, outages, faults>>
vars == <<status, failures, binding, requestVars, probeVars, envVars>>

Phase == {"idle", "routing", "sent", "disabling", "resetting", "done"}
Status == {"enabled", "manual_disabled", "auto_disabled", "deleted"}

Fault == faults < MaxFaults /\ faults' = faults + 1
Exists(c) == status[c] # "deleted"

-----------------------------------------------------------------------------
(* Selection *)

\* What SelectChannel may pick: the highest priority that is not all excluded,
\* by weighted chance.
TopTier(channels, excluded) ==
    {c \in channels \ excluded :
        \A d \in channels \ excluded : Priority[d] <= Priority[c]}

\* Mutant: a binding counts whatever the priority.
BoundAnywhere(channels, excluded, key) ==
    IF key # None /\ binding[key] \in channels \ excluded
    THEN {binding[key]}
    ELSE TopTier(channels, excluded)

\* selectWithAffinity: the bound channel, as long as it is in the top tier.
SelectWithAffinity(channels, excluded, key) ==
    IF key # None /\ binding[key] \in TopTier(channels, excluded)
    THEN {binding[key]}
    ELSE TopTier(channels, excluded)

\* Mutant: the candidates are all channels of the model.
ListAllForModel(r) ==
    /\ phase[r] = "idle"
    /\ candidates' = [candidates EXCEPT ![r] = {c \in Channels : Exists(c)}]
    /\ phase' = [phase EXCEPT ![r] = "routing"]
    /\ UNCHANGED <<status, failures, binding, tried, at, probeVars, envVars>>

\* ListEnabledForModel; with no candidate, or when it fails, the loop below ends
\* at once.
ListEnabledForModel(r) ==
    /\ phase[r] = "idle"
    /\ \/ /\ candidates' = [candidates EXCEPT ![r] = {c \in Channels : status[c] = "enabled"}]
          /\ UNCHANGED envVars
       \/ Fault /\ UNCHANGED <<candidates, up, edits, outages>>
    /\ phase' = [phase EXCEPT ![r] = "routing"]
    /\ UNCHANGED <<status, failures, binding, tried, at, probeVars>>

Selectable(r) ==
    IF Cardinality(tried[r]) < MaxRetries
    THEN SelectWithAffinity(candidates[r], tried[r], ConversationOf[r])
    ELSE {}

Select(r) ==
    /\ phase[r] = "routing"
    /\ \E c \in Selectable(r) :
          /\ tried' = [tried EXCEPT ![r] = @ \cup {c}]
          /\ at' = [at EXCEPT ![r] = c]
    /\ phase' = [phase EXCEPT ![r] = "sent"]
    /\ UNCHANGED <<status, failures, binding, candidates, probeVars, envVars>>

\* All candidates failed, or there were none: refund and error.
GiveUp(r) ==
    /\ phase[r] = "routing"
    /\ Selectable(r) = {}
    /\ phase' = [phase EXCEPT ![r] = "done"]
    /\ UNCHANGED <<status, failures, binding, candidates, tried, at, probeVars, envVars>>

-----------------------------------------------------------------------------
(* One attempt: tryChannel *)

GoOn(r, next) ==
    /\ phase' = [phase EXCEPT ![r] = next]
    /\ UNCHANGED <<candidates, tried, at>>

\* The key cannot be decrypted or the request not be built: no attempt is made.
\* A request that the channel's protocol cannot express ends there.
ChannelError(r) ==
    /\ phase[r] = "sent"
    /\ \E next \in {"routing", "done"} : GoOn(r, next)
    /\ UNCHANGED <<status, failures, binding, probeVars, envVars>>

\* Client.Do fails: the next channel is tried, ChannelHealth hears nothing.
NetworkError(r) ==
    /\ phase[r] = "sent" /\ at[r] \notin up
    /\ GoOn(r, "routing")
    /\ UNCHANGED <<status, failures, binding, probeVars, envVars>>

\* rate_limited or transient: on to the next; bad_request: passed to the client.
HarmlessError(r) ==
    /\ phase[r] = "sent"
    /\ \E next \in {"routing", "done"} : GoOn(r, next)
    /\ UNCHANGED <<status, failures, binding, probeVars, envVars>>

\* auth_fatal or quota_fatal: counted, and at the threshold the channel is to
\* be disabled.
FatalError(r) ==
    LET count == failures[at[r]] + 1
    IN  /\ phase[r] = "sent" /\ at[r] \notin up
        /\ failures' = [failures EXCEPT ![at[r]] = count]
        /\ GoOn(r, IF Threshold > 0 /\ count >= Threshold THEN "disabling" ELSE "routing")
        /\ UNCHANGED <<status, binding, probeVars, envVars>>

\* AutoDisable writes whatever the status is by now, unless the row is gone.
AutoDisable(r) ==
    /\ phase[r] = "disabling"
    /\ \/ /\ Exists(at[r])
          /\ status' = [status EXCEPT ![at[r]] = "auto_disabled"]
          /\ GoOn(r, "resetting")
          /\ UNCHANGED envVars
       \/ /\ \/ ~Exists(at[r]) /\ UNCHANGED envVars
             \/ Fault /\ UNCHANGED <<up, edits, outages>>
          /\ GoOn(r, "routing")
          /\ UNCHANGED status
    /\ UNCHANGED <<failures, binding, probeVars>>

ResetAfterDisable(r) ==
    /\ phase[r] = "resetting"
    /\ failures' = [failures EXCEPT ![at[r]] = 0]
    /\ GoOn(r, "routing")
    /\ UNCHANGED <<status, binding, probeVars, envVars>>

\* A 200: NoteSuccess and Bind, then the answer.
Succeed(r) ==
    /\ phase[r] = "sent" /\ at[r] \in up
    /\ failures' = [failures EXCEPT ![at[r]] = 0]
    /\ binding' = IF ConversationOf[r] = None THEN binding
                  ELSE [binding EXCEPT ![ConversationOf[r]] = at[r]]
    /\ GoOn(r, "done")
    /\ UNCHANGED <<status, probeVars, envVars>>

\* A binding expires or is evicted.
ForgetBinding ==
    /\ \E key \in Conversations :
          binding[key] # None /\ binding' = [binding EXCEPT ![key] = None]
    /\ UNCHANGED <<status, failures, requestVars, probeVars, envVars>>

-----------------------------------------------------------------------------
(* The recovery probe, one goroutine *)

ListAutoDisabled ==
    /\ probeList = {} /\ recovering = None
    /\ probeList' = {c \in Channels : status[c] = "auto_disabled"}
    /\ probeList' # {}
    /\ UNCHANGED <<status, failures, binding, requestVars, recovering, envVars>>

\* Mutant: a passed probe changes nothing.
ProbePassedUnused(c) ==
    /\ c \in up
    /\ recovering' = IF Exists(c) THEN c ELSE None
    /\ UNCHANGED <<status, envVars>>

\* The test passes, and the row is written as it is by now.
ProbePassed(c) ==
    /\ c \in up
    /\ IF Exists(c)
       THEN /\ status' = [status EXCEPT ![c] = "enabled"]
            /\ recovering' = c
       ELSE UNCHANGED <<status, recovering>>
    /\ UNCHANGED envVars

\* The test fails, or its result cannot be written.
ProbeFailed(c) ==
    /\ \/ c \notin up /\ UNCHANGED faults
       \/ Fault
    /\ UNCHANGED <<status, recovering, up, edits, outages>>

ProbeChannel(c) ==
    /\ c \in probeList /\ recovering = None
    /\ ProbePassed(c) \/ ProbeFailed(c)
    /\ probeList' = probeList \ {c}
    /\ UNCHANGED <<failures, binding, requestVars>>

ResetAfterRecovery ==
    /\ recovering # None
    /\ failures' = [failures EXCEPT ![recovering] = 0]
    /\ recovering' = None
    /\ UNCHANGED <<status, binding, requestVars, probeList, envVars>>

-----------------------------------------------------------------------------
(* Administrators and environment *)

Edit == edits < MaxEdits /\ edits' = edits + 1 /\ UNCHANGED <<up, outages, faults>>

SetChannelStatus(c, s) ==
    /\ Edit /\ Exists(c)
    /\ status' = [status EXCEPT ![c] = s]
    /\ UNCHANGED <<failures, binding, requestVars, probeVars>>

DeleteChannel(c) ==
    /\ Edit /\ Exists(c)
    /\ status' = [status EXCEPT ![c] = "deleted"]
    /\ UNCHANGED <<failures, binding, requestVars, probeVars>>

Outage(c) ==
    /\ outages < MaxOutages /\ outages' = outages + 1
    /\ c \in up /\ up' = up \ {c}
    /\ UNCHANGED <<status, failures, binding, requestVars, probeVars, edits, faults>>

Repair(c) ==
    /\ c \notin up /\ up' = up \cup {c}
    /\ UNCHANGED <<status, failures, binding, requestVars, probeVars, edits, outages, faults>>

\* Counters, bindings, requests and the probe's round are in memory.
Restart ==
    /\ Fault
    /\ failures' = [c \in Channels |-> 0]
    /\ binding' = [key \in Conversations |-> None]
    /\ phase' = [r \in Requests |-> IF phase[r] = "idle" THEN "idle" ELSE "done"]
    /\ probeList' = {} /\ recovering' = None
    /\ UNCHANGED <<status, candidates, tried, at, up, edits, outages>>

-----------------------------------------------------------------------------
Init ==
    /\ status = [c \in Channels |-> "enabled"]
    /\ failures = [c \in Channels |-> 0]
    /\ binding = [key \in Conversations |-> None]
    /\ phase = [r \in Requests |-> "idle"]
    /\ candidates = [r \in Requests |-> {}]
    /\ tried = [r \in Requests |-> {}]
    /\ at = [r \in Requests |-> None]
    /\ probeList = {} /\ recovering = None
    /\ up = Channels
    /\ edits = 0 /\ outages = 0 /\ faults = 0

Attempt(r) ==
    \/ ChannelError(r) \/ NetworkError(r) \/ HarmlessError(r) \/ FatalError(r)
    \/ AutoDisable(r) \/ ResetAfterDisable(r) \/ Succeed(r)

Relay(r) == ListEnabledForModel(r) \/ Select(r) \/ GiveUp(r) \/ Attempt(r)

Probe ==
    \/ ListAutoDisabled
    \/ \E c \in Channels : ProbeChannel(c)
    \/ ResetAfterRecovery

AdminEdit ==
    \E c \in Channels :
        \/ \E s \in {"enabled", "manual_disabled"} : SetChannelStatus(c, s)
        \/ DeleteChannel(c)

Next ==
    \/ \E r \in Requests : Relay(r)
    \/ Probe
    \/ ForgetBinding
    \/ AdminEdit
    \/ \E c \in Channels : Outage(c) \/ Repair(c)
    \/ Restart

Spec == Init /\ [][Next]_vars

\* The probe's goroutine outlives every round (RunSafe) and every attempt of a
\* request is bounded by the upstream timeout. Nobody has to repair an upstream.
Fairness ==
    /\ WF_vars(ListAutoDisabled)
    /\ \A c \in Channels : WF_vars(ProbeChannel(c))
    /\ WF_vars(ResetAfterRecovery)
    /\ \A r \in Requests : WF_vars(Relay(r))

FairSpec == Spec /\ Fairness

TablesOK == status \in [Channels -> Status]

MemoryOK ==
    /\ failures \in [Channels -> Nat]
    /\ binding \in [Conversations -> Channels \cup {None}]
    /\ probeList \subseteq Channels /\ recovering \in Channels \cup {None}

RequestsOK ==
    /\ phase \in [Requests -> Phase]
    /\ candidates \in [Requests -> SUBSET Channels]
    /\ tried \in [Requests -> SUBSET Channels]
    /\ at \in [Requests -> Channels \cup {None}]
    /\ \A r \in Requests :
          /\ tried[r] \subseteq candidates[r]
          /\ phase[r] = "idle" => tried[r] = {}
          /\ phase[r] \in {"sent", "disabling", "resetting"} => at[r] \in tried[r]

EnvironmentOK ==
    /\ up \subseteq Channels
    /\ edits \in 0..MaxEdits /\ outages \in 0..MaxOutages /\ faults \in 0..MaxFaults

TypeOK == TablesOK /\ MemoryOK /\ RequestsOK /\ EnvironmentOK

-----------------------------------------------------------------------------
(* Safety *)

\* A channel of lower priority is only tried when all candidates above it have
\* been, affinity or not ("priority before affinity").
FailoverInOrder ==
    \A r \in Requests : \A c \in tried[r], d \in candidates[r] :
        Priority[d] > Priority[c] => d \in tried[r]

\* Requests and the probe's round that may still write the status of c.
InHand(c) ==
    \/ \E r \in Requests : phase[r] # "done" /\ c \in candidates[r]
    \/ c \in probeList

\* A channel that an administrator disabled stays out of service until an
\* administrator acts, once the requests and the probe that took it up before
\* are through: nothing takes it up again, nothing writes over it.
ManualDisableHolds ==
    [][\A c \in Channels :
          status[c] = "manual_disabled" /\ ~InHand(c) /\ edits' = edits
          => status'[c] = "manual_disabled" /\ ~InHand(c)']_vars

\* The probe recovers channels that were disabled for their failures, never
\* one that an administrator has taken out of service.
ProbeKeepsManualDisable ==
    [][\A c \in Channels :
          recovering # c /\ recovering' = c => status[c] # "manual_disabled"]_vars

(* Liveness *)

\* An automatically disabled channel whose upstream is back returns to service.
AutoDisabledRecovers ==
    \A c \in Channels :
        status[c] = "auto_disabled" /\ c \in up
        ~> status[c] # "auto_disabled" \/ c \notin up
=============================================================================
