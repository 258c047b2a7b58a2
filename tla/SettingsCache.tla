---------------------------- MODULE SettingsCache ----------------------------
(***************************************************************************)
(* One setting: its row, the copy the process keeps for some time, readers *)
(* that miss the copy and put back what they read, and updates that write  *)
(* the row and then drop the copy.                                         *)
(***************************************************************************)
EXTENDS Directory, Clock

CONSTANTS
    Values,         \* of the setting
    TTL,            \* of the copy, 30 seconds
    ReadTime        \* bound on the time from a query to its result's use

ASSUME SettingsAssumption == TTL \in Nat /\ ReadTime \in Nat

VARIABLES
    saved,          \* the row
    cached,         \* settingsCache.data
    query,          \* reads and updates in progress
    since,          \* history: the time of the last save
    overtaken       \* history: the copy was put back by a reader a save overtook

settingVars == <<saved, cached, query, since, overtaken>>

NoCopy == [value |-> "", expires |-> -1]

\* next: what is saved after the read, "" for a reader
NoQuery == [stage |-> "", value |-> "", next |-> "", at |-> 0]

\* settingsCache.get: a copy in its last moment counts.
Cached == clock <= cached.expires

Stale == Cached /\ cached.value # saved

-----------------------------------------------------------------------------
(* get; handleAdminUpdateSetting begins with a get as well *)

AfterGet(next) == IF next = "" THEN NoQuery ELSE [NoQuery EXCEPT !.stage = "known", !.next = next]

\* Mutant: a copy that is used lives longer.
CopyUsed == IF Cached THEN [cached EXCEPT !.expires = clock + TTL] ELSE cached

CopyRead == cached

Get(r, next) ==
    /\ "setting" \in script.ops /\ script.left > 0 /\ query[r] = NoQuery
    /\ script' = [script EXCEPT !.left = @ - 1]
    /\ cached' = CopyRead
    /\ query' = [query EXCEPT ![r] = IF Cached THEN AfterGet(next)
                                     ELSE [NoQuery EXCEPT !.stage = "missed", !.next = next]]
    /\ UNCHANGED <<tables, record, req, crossed, revived, lateTokens, clock,
                   saved, since, overtaken>>

ReadRow(r) ==
    /\ query[r].stage = "missed"
    /\ query' = [query EXCEPT ![r].stage = "read", ![r].value = saved, ![r].at = clock]
    /\ UNCHANGED <<directoryVars, clock, saved, cached, since, overtaken>>

\* A failed query leaves the copy alone, and the default is used.
ReadFails(r) ==
    /\ query[r].stage = "missed"
    /\ query' = [query EXCEPT ![r] = AfterGet(query[r].next)]
    /\ UNCHANGED <<directoryVars, clock, saved, cached, since, overtaken>>

Put(r) ==
    /\ query[r].stage = "read"
    /\ cached' = [value |-> query[r].value, expires |-> clock + TTL]
    /\ overtaken' = (query[r].value # saved)
    /\ query' = [query EXCEPT ![r] = AfterGet(query[r].next)]
    /\ UNCHANGED <<directoryVars, clock, saved, since>>

-----------------------------------------------------------------------------
(* Set *)

Save(r) ==
    /\ query[r].stage = "known"
    /\ saved' = query[r].next
    /\ since' = IF saved' = saved THEN since ELSE clock
    /\ \/ query' = [query EXCEPT ![r].stage = "saved"]
       \* It was saved, but the answer was lost.
       \/ query' = [query EXCEPT ![r] = NoQuery]
    /\ overtaken' = (overtaken \/ (query'[r] = NoQuery /\ cached.value # saved'))
    /\ UNCHANGED <<directoryVars, clock, cached>>

SaveFails(r) ==
    /\ query[r].stage = "known"
    /\ query' = [query EXCEPT ![r] = NoQuery]
    /\ UNCHANGED <<directoryVars, clock, saved, cached, since, overtaken>>

Invalidate(r) ==
    /\ query[r].stage = "saved"
    /\ cached' = NoCopy /\ overtaken' = FALSE
    /\ query' = [query EXCEPT ![r] = NoQuery]
    /\ UNCHANGED <<directoryVars, clock, saved, since>>

-----------------------------------------------------------------------------
\* The values are alike.
SettingsInit ==
    /\ saved = (CHOOSE value \in Values : TRUE) /\ cached = NoCopy /\ since = 0 /\ overtaken = FALSE
    /\ query = [r \in Requests |-> NoQuery]

SettingStep(r) ==
    \/ \E next \in Values \cup {""} : Get(r, next)
    \/ ReadRow(r) \/ ReadFails(r) \/ Put(r) \/ Save(r) \/ SaveFails(r) \/ Invalidate(r)

\* The process stops, and with it the copy.
SettingsLost ==
    /\ cached' = NoCopy /\ overtaken' = FALSE
    /\ query' = [r \in Requests |-> NoQuery]
    /\ UNCHANGED <<saved, since>>

\* A reader puts back what it read before ReadTime is over.
ReadersKeepUp == \A r \in Requests : query[r].stage = "read" => clock < query[r].at + ReadTime

-----------------------------------------------------------------------------
(* Properties *)

\* A change takes effect: the copy differs from the row only while an update
\* has still to drop it, or after an answer was lost or a reader overtaken,
\* and then for no longer than the copy may live after the change.
SettingsSettle ==
    Stale => /\ overtaken \/ \E r \in Requests : query[r].stage = "saved"
             /\ overtaken => clock <= since + ReadTime + TTL
=============================================================================
