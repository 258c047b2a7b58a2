---------------------------- MODULE RoutingProofs ----------------------------
(***************************************************************************)
(* Proofs about ChannelRouting: failover in the order of priorities, and   *)
(* an administrator's disable that holds once nobody has the channel in    *)
(* hand any more.                                                          *)
(***************************************************************************)
EXTENDS ChannelRouting, TLAPS

RoutingInv == TypeOK /\ FailoverInOrder

\* What selection returns is a candidate that is not excluded and that no such
\* candidate outranks.
LEMMA SelectTop ==
    ASSUME NEW channels, NEW excluded, NEW key,
           NEW c \in SelectWithAffinity(channels, excluded, key)
    PROVE  /\ c \in channels \ excluded
           /\ \A d \in channels \ excluded : Priority[d] <= Priority[c]
BY DEF SelectWithAffinity, TopTier

LEMMA InitRouting == Init => RoutingInv
BY RoutingAssumption
   DEF Init, RoutingInv, FailoverInOrder, TypeOK, TablesOK, MemoryOK, RequestsOK,
       EnvironmentOK, Phase, Status

\* The rows of channels.
LEMMA TablesStep == TypeOK /\ [Next]_vars => TablesOK'
<1> SUFFICES ASSUME TypeOK, [Next]_vars PROVE TablesOK'
    OBVIOUS
<1> USE DEF TypeOK, TablesOK, Status
<1>1. CASE UNCHANGED status
    BY <1>1
<1>2. ASSUME NEW r \in Requests, AutoDisable(r) PROVE TablesOK'
    BY <1>2 DEF AutoDisable
<1>3. ASSUME NEW c \in Channels, ProbeChannel(c) PROVE TablesOK'
    BY <1>3 DEF ProbeChannel, ProbePassed, ProbeFailed
<1>4. ASSUME NEW c \in Channels, NEW s \in {"enabled", "manual_disabled"},
             SetChannelStatus(c, s)
      PROVE  TablesOK'
    BY <1>4 DEF SetChannelStatus
<1>5. ASSUME NEW c \in Channels, DeleteChannel(c) PROVE TablesOK'
    BY <1>5 DEF DeleteChannel
<1> QED
    BY <1>1, <1>2, <1>3, <1>4, <1>5
    DEF Next, Relay, Attempt, Probe, AdminEdit, vars, ListEnabledForModel, Select,
        GiveUp, ChannelError, NetworkError, HarmlessError, FatalError, ResetAfterDisable,
        Succeed, ForgetBinding, ListAutoDisabled, ResetAfterRecovery, Outage, Repair, Restart

\* Counters, bindings and the probe's round.
LEMMA MemoryStep == TypeOK /\ [Next]_vars => MemoryOK'
<1> SUFFICES ASSUME TypeOK, [Next]_vars PROVE MemoryOK'
    OBVIOUS
<1> USE DEF TypeOK, MemoryOK, probeVars
<1>1. CASE UNCHANGED <<failures, binding, probeVars>>
    BY <1>1
<1>2. ASSUME NEW r \in Requests, FatalError(r) \/ ResetAfterDisable(r) \/ Succeed(r)
      PROVE  MemoryOK'
    <2>1. at[r] \in Channels
        BY <1>2 DEF FatalError, ResetAfterDisable, Succeed, RequestsOK
    <2> QED
        BY <1>2, <2>1, RoutingAssumption DEF FatalError, ResetAfterDisable, Succeed
<1>3. CASE ForgetBinding
    BY <1>3 DEF ForgetBinding
<1>4. CASE ListAutoDisabled \/ ResetAfterRecovery
    BY <1>4 DEF ListAutoDisabled, ResetAfterRecovery
<1>5. ASSUME NEW c \in Channels, ProbeChannel(c) PROVE MemoryOK'
    BY <1>5 DEF ProbeChannel, ProbePassed, ProbeFailed
<1>6. CASE Restart
    BY <1>6 DEF Restart
<1> QED
    BY <1>1, <1>2, <1>3, <1>4, <1>5, <1>6
    DEF Next, Relay, Attempt, Probe, AdminEdit, vars, ListEnabledForModel, Select, GiveUp,
        ChannelError, NetworkError, HarmlessError, AutoDisable, SetChannelStatus,
        DeleteChannel, Outage, Repair

\* The requests, and that they try what outranks a channel before it.
LEMMA RequestsStep ==
    RoutingInv /\ [Next]_vars => RequestsOK' /\ FailoverInOrder'
<1> SUFFICES ASSUME RoutingInv, [Next]_vars PROVE RequestsOK' /\ FailoverInOrder'
    OBVIOUS
<1> USE DEF RoutingInv, TypeOK, RequestsOK, FailoverInOrder, Phase
<1>1. CASE UNCHANGED requestVars
    BY <1>1 DEF requestVars
<1>2. ASSUME NEW r \in Requests, ListEnabledForModel(r)
      PROVE  RequestsOK' /\ FailoverInOrder'
    BY <1>2 DEF ListEnabledForModel
<1>3. ASSUME NEW r \in Requests, Select(r)
      PROVE  RequestsOK' /\ FailoverInOrder'
    <2>1. PICK c \in Selectable(r) :
              /\ tried' = [tried EXCEPT ![r] = @ \cup {c}]
              /\ at' = [at EXCEPT ![r] = c]
        BY <1>3 DEF Select
    <2>2. c \in SelectWithAffinity(candidates[r], tried[r], ConversationOf[r])
        BY <2>1 DEF Selectable
    <2>3. c \in candidates[r] \ tried[r]
        BY <2>2, SelectTop
    <2>4. \A d \in candidates[r] \ tried[r] : Priority[d] <= Priority[c]
        BY <2>2, SelectTop
    <2>5. phase' = [phase EXCEPT ![r] = "sent"] /\ UNCHANGED candidates
        BY <1>3 DEF Select
    <2>6. RequestsOK'
        BY <2>1, <2>3, <2>5
    <2>7. ASSUME NEW d \in candidates[r], Priority[d] > Priority[c]
          PROVE  d \in tried[r]
        <3>1. d \in Channels /\ c \in Channels
            BY <2>3
        <3> QED
            BY <2>4, <2>7, <3>1, RoutingAssumption
    <2>8. FailoverInOrder'
        BY <2>1, <2>5, <2>7
    <2> QED
        BY <2>6, <2>8
<1>4. ASSUME NEW r \in Requests, NEW next \in {"routing", "disabling", "resetting", "done"},
             GoOn(r, next),
             next \in {"disabling", "resetting"} => phase[r] \in {"sent", "disabling"}
      PROVE  RequestsOK' /\ FailoverInOrder'
    BY <1>4 DEF GoOn
<1>5. ASSUME NEW r \in Requests, GiveUp(r) PROVE RequestsOK' /\ FailoverInOrder'
    BY <1>5 DEF GiveUp
<1>6. ASSUME NEW r \in Requests, Attempt(r) PROVE RequestsOK' /\ FailoverInOrder'
    <2>1. PICK next \in {"routing", "disabling", "resetting", "done"} :
              /\ GoOn(r, next)
              /\ next \in {"disabling", "resetting"} => phase[r] \in {"sent", "disabling"}
        BY <1>6 DEF Attempt, ChannelError, NetworkError, HarmlessError, FatalError,
                    AutoDisable, ResetAfterDisable, Succeed
    <2> QED
        BY <2>1, <1>4
<1>7. CASE Restart
    BY <1>7 DEF Restart
<1> QED
    BY <1>1, <1>2, <1>3, <1>5, <1>6, <1>7
    DEF Next, Relay, Probe, AdminEdit, vars, ForgetBinding, ListAutoDisabled, ProbeChannel,
        ResetAfterRecovery, SetChannelStatus, DeleteChannel, Outage, Repair

LEMMA EnvironmentStep == TypeOK /\ [Next]_vars => EnvironmentOK'
<1> SUFFICES ASSUME TypeOK, [Next]_vars PROVE EnvironmentOK'
    OBVIOUS
<1> USE RoutingAssumption DEF TypeOK, EnvironmentOK, envVars
<1>1. CASE UNCHANGED envVars
    BY <1>1
<1>2. CASE Fault /\ UNCHANGED <<up, edits, outages>>
    BY <1>2 DEF Fault
<1>3. CASE Edit
    BY <1>3 DEF Edit
<1>4. ASSUME NEW c \in Channels, Outage(c) \/ Repair(c) PROVE EnvironmentOK'
    BY <1>4 DEF Outage, Repair
<1>5. ASSUME NEW r \in Requests, Relay(r) PROVE EnvironmentOK'
    BY <1>1, <1>2, <1>5
    DEF Relay, Attempt, ListEnabledForModel, Select, GiveUp, ChannelError, NetworkError,
        HarmlessError, FatalError, AutoDisable, ResetAfterDisable, Succeed
<1>6. CASE Probe \/ Restart
    BY <1>1, <1>2, <1>6
    DEF Probe, ListAutoDisabled, ProbeChannel, ProbePassed, ProbeFailed,
        ResetAfterRecovery, Restart
<1>7. CASE AdminEdit
    BY <1>3, <1>7 DEF AdminEdit, SetChannelStatus, DeleteChannel
<1> QED
    BY <1>1, <1>4, <1>5, <1>6, <1>7 DEF Next, vars, ForgetBinding

LEMMA RoutingStep == RoutingInv /\ [Next]_vars => RoutingInv'
BY TablesStep, MemoryStep, RequestsStep, EnvironmentStep
DEF RoutingInv, TypeOK

\* A channel is only ever tried after all candidates of higher priority, and
\* the types hold: the routing invariant of relayWithRetry.
THEOREM RoutingCorrect == Spec => [](TypeOK /\ FailoverInOrder)
BY InitRouting, RoutingStep, PTL DEF Spec, RoutingInv

-----------------------------------------------------------------------------

\* One step leaves a channel alone that is manually disabled, in nobody's
\* hand and not edited.
LEMMA ManualStep ==
    ASSUME TypeOK, [Next]_vars, NEW c \in Channels,
           status[c] = "manual_disabled", ~InHand(c), edits' = edits
    PROVE  status'[c] = "manual_disabled" /\ ~InHand(c)'
<1> USE DEF TypeOK
<1>1. \A r \in Requests : phase[r] \in {"sent", "disabling", "resetting"} => at[r] # c
    BY DEF InHand, RequestsOK
<1>2. status'[c] = "manual_disabled"
    <2>1. CASE UNCHANGED status
        BY <2>1
    <2>2. ASSUME NEW r \in Requests, AutoDisable(r) PROVE status'[c] = "manual_disabled"
        BY <1>1, <2>2 DEF AutoDisable, TablesOK
    <2>3. ASSUME NEW d \in Channels, ProbeChannel(d) PROVE status'[c] = "manual_disabled"
        BY <2>3 DEF ProbeChannel, ProbePassed, ProbeFailed, InHand, TablesOK
    <2>4. ~AdminEdit
        BY DEF AdminEdit, SetChannelStatus, DeleteChannel, Edit,
               EnvironmentOK
    <2> QED
        BY <2>1, <2>2, <2>3, <2>4
        DEF Next, Relay, Attempt, Probe, vars, ListEnabledForModel, Select,
            GiveUp, ChannelError, NetworkError, HarmlessError, FatalError,
            ResetAfterDisable, Succeed, ForgetBinding, ListAutoDisabled,
            ResetAfterRecovery, Outage, Repair, Restart
<1>3. c \notin probeList'
    <2>1. CASE UNCHANGED probeList
        BY <2>1 DEF InHand
    <2>2. CASE ListAutoDisabled
        BY <2>2 DEF ListAutoDisabled
    <2>3. ASSUME NEW d \in Channels, ProbeChannel(d) PROVE c \notin probeList'
        BY <2>3 DEF ProbeChannel, InHand
    <2>4. CASE Restart
        BY <2>4 DEF Restart
    <2> QED
        BY <2>1, <2>2, <2>3, <2>4
        DEF Next, Relay, Attempt, Probe, AdminEdit, vars, probeVars, ListEnabledForModel,
            Select, GiveUp, ChannelError, NetworkError, HarmlessError, FatalError,
            AutoDisable, ResetAfterDisable, Succeed, ForgetBinding, ResetAfterRecovery,
            SetChannelStatus, DeleteChannel, Outage, Repair
<1>4. ASSUME NEW r \in Requests, phase'[r] # "done" PROVE c \notin candidates'[r]
    <2> USE <1>4 DEF RequestsOK, InHand
    <2>1. CASE UNCHANGED requestVars
        BY <2>1 DEF requestVars
    <2>2. ASSUME NEW q \in Requests, ListEnabledForModel(q) PROVE c \notin candidates'[r]
        BY <2>2 DEF ListEnabledForModel
    <2>3. ASSUME NEW q \in Requests, phase[q] # "done", UNCHANGED candidates,
                 NEW next, phase' = [phase EXCEPT ![q] = next]
          PROVE  c \notin candidates'[r]
        BY <2>3
    <2>4. ASSUME NEW q \in Requests, Select(q) \/ GiveUp(q) \/ Attempt(q)
          PROVE  c \notin candidates'[r]
        <3>1. phase[q] # "done" /\ UNCHANGED candidates
            BY <2>4 DEF Select, GiveUp, Attempt, ChannelError, NetworkError, HarmlessError,
                        FatalError, AutoDisable, ResetAfterDisable, Succeed, GoOn
        <3>2. \E next : phase' = [phase EXCEPT ![q] = next]
            BY <2>4 DEF Select, GiveUp, Attempt, ChannelError, NetworkError, HarmlessError,
                        FatalError, AutoDisable, ResetAfterDisable, Succeed, GoOn
        <3> QED
            BY <2>3, <3>1, <3>2
    <2>5. CASE Restart
        BY <2>5 DEF Restart
    <2> QED
        BY <2>1, <2>2, <2>4, <2>5
        DEF Next, Relay, Probe, AdminEdit, vars, ForgetBinding, ListAutoDisabled,
            ProbeChannel, ResetAfterRecovery, SetChannelStatus, DeleteChannel, Outage, Repair
<1> QED
    BY <1>2, <1>3, <1>4 DEF InHand

\* Once the requests and the probe that took a channel up before are through,
\* a manual disable is only ended by an administrator.
THEOREM ManualDisableCorrect == Spec => ManualDisableHolds
<1>1. TypeOK /\ [Next]_vars =>
        [\A c \in Channels :
            status[c] = "manual_disabled" /\ ~InHand(c) /\ edits' = edits
            => status'[c] = "manual_disabled" /\ ~InHand(c)']_vars
    BY ManualStep
<1>2. Spec => []TypeOK
    BY RoutingCorrect, PTL
<1> QED
    BY <1>1, <1>2, PTL DEF Spec, ManualDisableHolds
=============================================================================
