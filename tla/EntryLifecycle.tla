--------------------------- MODULE EntryLifecycle ---------------------------
(***************************************************************************)
(* One config entry of the integration: setup, reload and unload, the      *)
(* ticks of its coordinator as far as a frame's failure goes, the Repair   *)
(* issues it raises, and the entities of its two platforms in Home         *)
(* Assistant's entity registry.                                            *)
(*                                                                         *)
(* A frame has one entity on each platform: those of sensor.py come with   *)
(* the frame, that of binary_sensor.py only if a threshold is set.         *)
(***************************************************************************)
EXTENDS Integers

CONSTANTS
    Frames,         \* the frame keys
    Fragile,        \* the frames whose computation may fail
    Escalate,       \* FRAME_FAIL_ESCALATE; streaks are counted up to it
    MaxTicks,       \* bound: ticks of one coordinator in flight
    MaxEvents       \* bound: what users do, failures and restarts, altogether

Platforms == {"sensor", "binary_sensor"}
Entities == Platforms \X Frames

\* What the flows may store: no frame is an error, and only an entry that was
\* created with a compliance target may have a threshold.
Config ==
    {c \in [frames : (SUBSET Frames) \ {{}}, compliance : BOOLEAN, threshold : BOOLEAN] :
        c.threshold => c.compliance}

ASSUME LifecycleAssumption ==
    /\ Fragile \subseteq Frames
    /\ Escalate \in Nat /\ MaxTicks \in Nat /\ MaxEvents \in Nat
    /\ MaxTicks < Escalate

VARIABLES
    config,         \* the entry's data with its options over them
    late,           \* history: it was edited while a setup ran that had read it
    entry,          \* where the entry is
    goal,           \* what an unload is for: "reload" or "remove"
    listening,      \* _async_update_options is attached
    due,            \* reloads that wait: after an edit, after an enabling
    added,          \* the platforms that are set up
    coordinator,    \* what the latest coordinator read of config
    alive,          \* it was not shut down
    ticks,          \* its ticks in flight
    streak,         \* _frame_fail_streak, 0 for no entry
    issues,         \* frames with a Repair issue
    faulty,         \* frames whose computation fails at present
    disabled_by,    \* of each entity in the registry; "new" is not in it
    shown,          \* the entities that are live
    hidden,         \* history: the entities the user disabled
    events          \* how many of MaxEvents happened

settings == <<config, late>>
failing == <<ticks, streak, issues>>
registry == <<disabled_by, shown, hidden>>
vars == <<config, late, entry, goal, listening, due, added, coordinator, alive, ticks, streak,
          issues, faulty, disabled_by, shown, hidden, events>>

NoStreak == [f \in Frames |-> 0]

\* The unique_ids the platforms add for a configuration.
Valid(c) == {x \in Entities : x[2] \in c.frames /\ (x[1] = "binary_sensor" => c.threshold)}

Init ==
    /\ config \in Config
    /\ late = FALSE
    /\ entry = "not_loaded"
    /\ goal = "reload"
    /\ listening = FALSE
    /\ due = {}
    /\ added = {}
    /\ coordinator = config
    /\ alive = FALSE
    /\ ticks = 0
    /\ streak = NoStreak
    /\ issues = {}
    /\ faulty = {}
    /\ disabled_by = [x \in Entities |-> "new"]
    /\ shown = {}
    /\ hidden = {}
    /\ events = 0

Event == events < MaxEvents /\ events' = events + 1
-----------------------------------------------------------------------------
(* Ticks.                                                                  *)

\* Mutant: the issue goes, the streak stays.
KeptStreak == streak

\* clear_all_frame_fail_issues pops every streak and deletes its issue.
ClearedStreak == NoStreak

\* Mutant: a frame that succeeds loses its streak, its issue stays.
WithoutIssues(f) == {}

\* _clear_frame_fail on a tick: only a frame with a streak has an issue to delete.
ClearedIssues(f) == IF streak[f] > 0 THEN {f} ELSE {}

\* The loop of _async_update_data over the enabled frames, and the one that
\* clears what is not enabled.
ComputeFrames ==
    LET bad == faulty \cap coordinator.frames
    IN  /\ streak' = [f \in Frames |->
                        IF f \notin bad THEN 0
                        ELSE IF streak[f] < Escalate THEN streak[f] + 1
                        ELSE streak[f]]
        /\ issues' = (issues \ UNION {ClearedIssues(f) : f \in Frames \ bad})
                        \cup {f \in bad : streak'[f] >= Escalate}

\* A tick begins and waits for the recorder: the poll timer, or the debouncer.
\* None begins in the few turns of the event loop that an unload takes.
StartTick ==
    /\ alive
    /\ entry # "unloading" /\ entry # "refreshing"
    /\ ticks < MaxTicks
    /\ ticks' = ticks + 1
    /\ UNCHANGED <<settings, entry, goal, listening, due, added, coordinator, alive, streak,
                   issues, faulty, registry, events>>

\* It resumes, perhaps after its coordinator was shut down.
FinishTick ==
    /\ ticks > 0
    /\ ticks' = ticks - 1
    /\ ComputeFrames
    /\ UNCHANGED <<settings, entry, goal, listening, due, added, coordinator, alive, faulty,
                   registry, events>>

\* The data of a frame goes bad, or is sound again.
Toggle(f) ==
    /\ faulty' = IF f \in faulty THEN faulty \ {f} ELSE faulty \cup {f}
    /\ UNCHANGED <<settings, entry, goal, listening, due, added, coordinator, alive, failing,
                   registry, events>>
-----------------------------------------------------------------------------
(* Setup.                                                                  *)

\* async_setup_entry up to the first refresh: a coordinator reads the entry.
\* It may be a reload that waited that sets the entry up.
\* What ticks of the one before are still in flight have no effect that
\* depends on when they end, so they end before.
Setup ==
    /\ entry \in {"not_loaded", "retry"}
    /\ ticks = 0
    /\ entry' = "refreshing"
    /\ coordinator' = config
    /\ late' = FALSE
    /\ alive' = TRUE
    /\ streak' = NoStreak
    /\ added' = {}
    /\ due' \in {due} \cup {due \ {r} : r \in due}
    /\ UNCHANGED <<config, goal, listening, ticks, issues, faulty, registry, events>>

\* async_config_entry_first_refresh ends with a tick.
FirstRefresh ==
    /\ entry = "refreshing"
    /\ entry' = "platforms"
    /\ ComputeFrames
    /\ UNCHANGED <<settings, goal, listening, due, added, coordinator, alive, ticks, faulty,
                   registry, events>>

\* The refresh, a load or a save fails: ConfigEntryNotReady.
SetupFails ==
    /\ entry = "refreshing"
    /\ Event
    /\ entry' = "retry"
    /\ alive' = FALSE
    /\ UNCHANGED <<settings, goal, listening, due, added, coordinator, failing, faulty,
                   registry>>

\* async_add_entities: an entity the registry does not know is registered, as
\* disabled if the user wants that of new entities.
Registered(p, new) ==
    [x \in Entities |->
        IF x \in Valid(coordinator) /\ x[1] = p /\ disabled_by[x] = "new" THEN new
        ELSE disabled_by[x]]

\* Mutant: the entities of the other platform are not valid here either.
OwnAny(p) == Entities

\* disable_orphaned_entities looks at its own platform only.
Own(p) == {x \in Entities : x[1] = p}

\* Mutant: whoever disabled an entity, it comes back with its frame.
DisabledByAny == {"integration", "user"}

\* Mutant: none comes back.
DisabledByNone == {}

\* Whose disabling a valid entity is freed from.
Disablers == {"integration"}

\* async_setup_entry of a platform: the entities are added, then those no
\* longer backed are disabled, and those that were and are again enabled.
\* Home Assistant reloads an entry when an entity of it was enabled.
SetUpPlatform(p, new) ==
    LET known == Registered(p, new)
        valid == {x \in Valid(coordinator) : x[1] = p}
        orphans == {x \in Own(p) \ valid : known[x] = "none"}
        back == {x \in valid : known[x] \in Disablers}
    IN  /\ entry = "platforms"
        /\ p \notin added
        /\ added' = added \cup {p}
        /\ disabled_by' = [x \in Entities |->
                            IF x \in orphans THEN "integration"
                            ELSE IF x \in back THEN "none"
                            ELSE known[x]]
        /\ shown' = (shown \cup {x \in valid : known[x] = "none"}) \ orphans
        /\ due' = IF back # {} THEN due \cup {"enabling"} ELSE due
        /\ UNCHANGED <<settings, entry, goal, listening, coordinator, alive, failing, faulty,
                       hidden, events>>

\* Both platforms are up: the shutdown and the listener are registered.
Listen ==
    /\ entry = "platforms"
    /\ added = Platforms
    /\ entry' = "loaded"
    /\ listening' = TRUE
    /\ UNCHANGED <<settings, goal, due, added, coordinator, alive, failing, faulty, registry,
                   events>>
-----------------------------------------------------------------------------
(* Unload.                                                                 *)

\* async_unload_entry before it unloads the platforms.
BeginUnload ==
    /\ entry = "loaded"
    /\ entry' = "unloading"
    /\ streak' = ClearedStreak
    /\ issues' = issues \ {f \in Frames : streak[f] > 0}
    /\ UNCHANGED <<settings, listening, added, coordinator, alive, ticks, faulty, registry>>

\* A reload that was waiting, of an edit or of an enabling.
Reload(r) ==
    /\ r \in due
    /\ due' = due \ {r}
    /\ goal' = "reload"
    /\ BeginUnload
    /\ UNCHANGED events

\* The user reloads or removes the entry.
UserUnloads(g) ==
    /\ Event
    /\ goal' = g
    /\ UNCHANGED due
    /\ BeginUnload

Removed(g) == IF g = "remove" THEN "removed" ELSE "not_loaded"

\* The platforms are unloaded, the callbacks of async_on_unload run:
\* async_shutdown, and the listener goes.
UnloadDone ==
    /\ entry = "unloading"
    /\ entry' = Removed(goal)
    /\ listening' = FALSE
    /\ alive' = FALSE
    /\ shown' = {}
    /\ due' = IF goal = "remove" THEN {} ELSE due
    /\ UNCHANGED <<settings, goal, added, coordinator, failing, faulty, disabled_by, hidden,
                   events>>

\* A platform does not unload.  The coordinator lives on; Home Assistant
\* reloads the entry no more, and removes it nevertheless.
UnloadFails ==
    /\ entry = "unloading"
    /\ Event
    /\ entry' = IF goal = "remove" THEN "removed" ELSE "failed_unload"
    /\ due' = {}
    /\ UNCHANGED <<settings, goal, listening, added, coordinator, alive, failing, faulty,
                   registry>>

\* Home Assistant restarts; Repair issues are not restored.
Restart ==
    /\ entry # "removed"
    /\ Event
    /\ entry' = "not_loaded"
    /\ listening' = FALSE
    /\ due' = {}
    /\ added' = {}
    /\ alive' = FALSE
    /\ ticks' = 0
    /\ streak' = NoStreak
    /\ issues' = {}
    /\ shown' = {}
    /\ UNCHANGED <<settings, goal, coordinator, faulty, disabled_by, hidden>>
-----------------------------------------------------------------------------
(* The user.                                                               *)

\* What the form makes of an input: a threshold left empty is filled with the
\* one the entry has, which would show through from its data in any case.
Submitted(c) == [c EXCEPT !.threshold = c.threshold \/ config.threshold]

\* Mutant: the reload is left out if no frame was switched on or off.
ReloadedForFrames(c) == IF c.frames = config.frames THEN {} ELSE {"edit"}

\* _async_update_options reloads the entry whatever was edited.
Reloaded(c) == {"edit"}

\* The options flow stores an edit.  It reloads the entry if somebody listens.
Edit(c) ==
    /\ entry # "removed"
    /\ c.compliance = config.compliance
    /\ Event
    /\ config' = Submitted(c)
    /\ late' = (late \/ entry \in {"refreshing", "platforms"})
    /\ due' = IF listening /\ entry # "failed_unload" THEN due \cup Reloaded(c) ELSE due
    /\ UNCHANGED <<entry, goal, listening, added, coordinator, alive, failing, faulty,
                   registry>>

UserDisables(x) ==
    /\ entry # "removed"
    /\ disabled_by[x] = "none"
    /\ Event
    /\ disabled_by' = [disabled_by EXCEPT ![x] = "user"]
    /\ shown' = shown \ {x}
    /\ hidden' = hidden \cup {x}
    /\ UNCHANGED <<settings, entry, goal, listening, due, added, coordinator, alive, failing,
                   faulty>>

\* Home Assistant reloads the entry a while later.
UserEnables(x) ==
    /\ entry # "removed"
    /\ disabled_by[x] \in {"user", "integration"}
    /\ Event
    /\ disabled_by' = [disabled_by EXCEPT ![x] = "none"]
    /\ hidden' = hidden \ {x}
    /\ due' = IF entry # "failed_unload" THEN due \cup {"enabling"} ELSE due
    /\ UNCHANGED <<settings, entry, goal, listening, added, coordinator, alive, failing, faulty,
                   shown>>
-----------------------------------------------------------------------------
Unload == (\E r \in due : Reload(r)) \/ UnloadDone \/ UnloadFails

BringUpPlatform ==
    \E p \in Platforms, new \in {"none", "integration"} : SetUpPlatform(p, new)

BringUp == Setup \/ FirstRefresh \/ BringUpPlatform \/ Listen

User ==
    \/ \E g \in {"reload", "remove"} : UserUnloads(g)
    \/ \E c \in Config : Edit(c)
    \/ \E x \in Entities : UserDisables(x) \/ UserEnables(x)

Next ==
    \/ StartTick
    \/ FinishTick
    \/ \E f \in Fragile : Toggle(f)
    \/ BringUp
    \/ SetupFails
    \/ Unload
    \/ Restart
    \/ User

Spec == Init /\ [][Next]_vars

(* The event loop runs what is ready: a setup and an unload go on, a       *)
(* reload that waits is made, ticks begin and end.                         *)
Fairness ==
    /\ WF_vars(BringUp)
    /\ WF_vars(Unload)
    /\ WF_vars(StartTick)
    /\ WF_vars(FinishTick)

FairSpec == Spec /\ Fairness
-----------------------------------------------------------------------------
(* Properties.                                                             *)

TypeOK ==
    /\ config \in Config
    /\ late \in BOOLEAN
    /\ entry \in {"not_loaded", "retry", "refreshing", "platforms", "loaded", "unloading",
                  "failed_unload", "removed"}
    /\ goal \in {"reload", "remove"}
    /\ listening \in BOOLEAN
    /\ due \subseteq {"edit", "enabling"}
    /\ added \subseteq Platforms
    /\ coordinator \in Config
    /\ alive \in BOOLEAN
    /\ ticks \in 0..MaxTicks
    /\ streak \in [Frames -> 0..Escalate]
    /\ issues \subseteq Frames
    /\ faulty \subseteq Frames
    /\ disabled_by \in [Entities -> {"new", "none", "integration", "user"}]
    /\ shown \subseteq Entities
    /\ hidden = {x \in Entities : disabled_by[x] = "user"}
    /\ events \in 0..MaxEvents

(* An issue is up only while a living coordinator counts the failures it   *)
(* tells of, of a frame it computes: no order of unloads, failed unloads   *)
(* and ticks that resume late strands one (clear_all_frame_fail_issues:    *)
(* "would otherwise linger in the UI with no backing entry").              *)
IssueHasOwner ==
    \A f \in issues : alive /\ f \in coordinator.frames /\ streak[f] >= Escalate

(* When no reload is to come, the live entities are those of the enabled   *)
(* frames but for what the user disabled, whatever was toggled before, and *)
(* no orphan is left enabled (CHANGELOG: "automatically re-enabled if its  *)
(* frame is turned back on, and an entity you disabled yourself is left    *)
(* untouched").                                                            *)
EntitiesFollowFrames ==
    entry = "loaded" /\ "enabling" \notin due =>
        /\ shown = Valid(coordinator) \ hidden
        /\ \A x \in Entities \ Valid(coordinator) : disabled_by[x] # "none"

(* A loaded tracker works with the options as they are, or a reload is to  *)
(* come: no order of edits, reloads and unloads leaves the coordinator     *)
(* with what an earlier edit said.  An edit stored while a setup runs is   *)
(* left out (async_setup_entry attaches the listener last; README: "frame  *)
(* and target changes reload the entry automatically").                    *)
EditsReachCoordinator ==
    entry = "loaded" /\ "edit" \notin due /\ ~late => coordinator = config

(* A frame that keeps failing raises its issue for good, and one that      *)
(* works again does not keep it.                                           *)
IssuesSettle ==
    \A f \in Fragile :
        /\ <>[](alive /\ f \in faulty /\ f \in coordinator.frames) => <>[](f \in issues)
        /\ <>[](f \notin faulty) => <>[](f \notin issues)

(* Reloads come to an end: enabling an entity schedules a reload, whose    *)
(* setup enables no further one (disable_orphaned_entities: "benign and    *)
(* converges").                                                            *)
ReloadsEnd == <>[](due = {} /\ entry \in {"loaded", "failed_unload", "removed"})
=============================================================================
