---------------------------------- MODULE Flags ----------------------------------
(***************************************************************************)
(* The feature flags: rows seeded when the process starts, switched by an     *)
(* administrator, and served to the tills from a copy that the process keeps  *)
(* for 30 seconds.  A read of the rows and a switch run side by side, so the  *)
(* copy may be stored after the switch has thrown the older copy away.        *)
(***************************************************************************)
EXTENDS Naturals, FiniteSets

CONSTANTS
    FlagNames,    \* the flags
    Readers,      \* getFlagsMap that may be under way
    Togglers,     \* toggleFlag that may be under way
    MaxToggles    \* bound: switches

ASSUME FlagsAssumption == FlagNames # {} /\ MaxToggles \in Nat

VARIABLES
    flagRow,      \* is_enabled of the rows, "none" before they are seeded
    copy,         \* cachedFlags; fresh: now < cacheExpiresAt
    reader, toggler,
    seeded,       \* onModuleInit has come to its end
    toggles,      \* switches so far
    readOvertaken     \* a switch was written while a read was under way, since the last fresh one

flagVars == <<flagRow, copy, reader, toggler, seeded, toggles, readOvertaken>>

NoMap == [f \in FlagNames |-> "none"]
Values == {"none", "on", "off"}
NoCopy == [is |-> "none"]

FlagsTypeOK ==
    /\ flagRow \in [FlagNames -> Values]
    /\ copy = NoCopy \/ copy \in [is: {"map"}, map: [FlagNames -> Values], fresh: BOOLEAN]
    /\ reader \in [Readers -> [at: {"idle", "query", "store"}, map: [FlagNames -> Values],
                              late: BOOLEAN]]
    /\ toggler \in [Togglers -> {"idle", "drop"}]
    /\ seeded \in BOOLEAN /\ toggles \in 0..MaxToggles /\ readOvertaken \in BOOLEAN

NoReader == [at |-> "idle", map |-> NoMap, late |-> FALSE]

FlagsInit ==
    /\ flagRow = NoMap /\ copy = NoCopy
    /\ reader = [r \in Readers |-> NoReader] /\ toggler = [t \in Togglers |-> "idle"]
    /\ seeded = FALSE /\ toggles = 0 /\ readOvertaken = FALSE

-----------------------------------------------------------------------------
\* The copy may be handed out.
Served == copy # NoCopy /\ copy.fresh

TogglePending == \E t \in Togglers : toggler[t] # "idle"

\* Variant: the seeds are written over what is there.
Seeded_Over(old) == "off"

Seeded(old) == IF old = "none" THEN "off" ELSE old

\* One flag after the other; the process serves when all are there.
SeedFlag(f) ==
    /\ ~seeded
    /\ flagRow' = [flagRow EXCEPT ![f] = Seeded(@)]
    /\ flagRow' # flagRow
    /\ UNCHANGED <<copy, reader, toggler, seeded, toggles, readOvertaken>>

EndSeed ==
    /\ ~seeded /\ \A f \in FlagNames : flagRow[f] # "none"
    /\ seeded' = TRUE
    /\ UNCHANGED <<flagRow, copy, reader, toggler, toggles, readOvertaken>>

\* The process ends, at whatever it is, and starts again.
RestartFlags ==
    /\ copy # NoCopy \/ seeded
    /\ seeded' = FALSE /\ copy' = NoCopy
    /\ reader' = [r \in Readers |-> NoReader] /\ toggler' = [t \in Togglers |-> "idle"]
    /\ readOvertaken' = FALSE
    /\ UNCHANGED <<flagRow, toggles>>

\* getFlagsMap without a copy that may be used.  `now` is read here.
BeginRead(r) ==
    /\ seeded /\ reader[r].at = "idle"
    /\ ~Served
    /\ reader' = [reader EXCEPT ![r] = [NoReader EXCEPT !.at = "query"]]
    /\ UNCHANGED <<flagRow, copy, toggler, seeded, toggles, readOvertaken>>

QueryFlags(r) ==
    /\ reader[r].at = "query"
    /\ reader' = [reader EXCEPT ![r].at = "store", ![r].map = flagRow]
    /\ UNCHANGED <<flagRow, copy, toggler, seeded, toggles, readOvertaken>>

\* The copy may be over as soon as it is stored: its half minute began before
\* the query.
StoreCopy(r) ==
    /\ reader[r].at = "store"
    /\ \E fresh \in BOOLEAN : copy' = [is |-> "map", map |-> reader[r].map, fresh |-> fresh]
    /\ readOvertaken' = reader[r].late
    /\ reader' = [reader EXCEPT ![r] = NoReader]
    /\ UNCHANGED <<flagRow, toggler, seeded, toggles>>

CopyEnds ==
    /\ Served
    /\ copy' = [copy EXCEPT !.fresh = FALSE]
    /\ UNCHANGED <<flagRow, reader, toggler, seeded, toggles, readOvertaken>>

StopRead(r) ==
    /\ reader[r].at # "idle"
    /\ reader' = [reader EXCEPT ![r] = NoReader]
    /\ UNCHANGED <<flagRow, copy, toggler, seeded, toggles, readOvertaken>>

\* toggleFlag: the row first ...
ToggleFlag(t, f) ==
    /\ seeded /\ toggler[t] = "idle" /\ toggles < MaxToggles
    /\ flagRow' = [flagRow EXCEPT ![f] = IF @ = "on" THEN "off" ELSE "on"]
    /\ toggler' = [toggler EXCEPT ![t] = "drop"]
    /\ toggles' = toggles + 1
    /\ reader' = [r \in Readers |-> [reader[r] EXCEPT !.late = @ \/ reader[r].at = "store"]]
    /\ UNCHANGED <<copy, seeded, readOvertaken>>

AfterToggle(old) == NoCopy

\* ... then the copy, when the UPDATE has answered.
DropCopy(t) ==
    /\ toggler[t] = "drop"
    /\ copy' = AfterToggle(copy)
    /\ readOvertaken' = FALSE
    /\ toggler' = [toggler EXCEPT ![t] = "idle"]
    /\ UNCHANGED <<flagRow, reader, seeded, toggles>>

FlagsNext ==
    \/ \E f \in FlagNames : SeedFlag(f) \/ \E t \in Togglers : ToggleFlag(t, f)
    \/ EndSeed \/ RestartFlags \/ CopyEnds
    \/ \E r \in Readers : BeginRead(r) \/ QueryFlags(r) \/ StoreCopy(r) \/ StopRead(r)
    \/ \E t \in Togglers : DropCopy(t)

FlagsSpec == FlagsInit /\ [][FlagsNext]_flagVars

-----------------------------------------------------------------------------
(* Properties *)

\* Once the switches have been answered, the copy that is served shows them,
\* unless the rows were read before the switch and stored after it.
CopyShowsSwitches ==
    Served /\ ~TogglePending /\ ~readOvertaken => copy.map = flagRow

\* A start of the process never switches a flag.
StartKeepsFlags ==
    [][\A f \in FlagNames : ~seeded /\ flagRow[f] # "none" => flagRow'[f] = flagRow[f]]_flagVars

\* A switch of a flag reaches the readers, and a start of the process leaves the
\* flags alone.
SwitchesArrive == []CopyShowsSwitches /\ StartKeepsFlags
=============================================================================
