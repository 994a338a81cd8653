------------------------ MODULE EntryLifecycleProofs ------------------------
(***************************************************************************)
(* Theorems about EntryLifecycle, for every set of frames and every bound: *)
(* no issue is stranded, and entities follow the frames.                   *)
(***************************************************************************)
EXTENDS EntryLifecycle, TLAPS

-----------------------------------------------------------------------------
(* The inductive invariant.                                                *)

\* A coordinator lives from setup to the end of an unload that succeeds.
Phases ==
    /\ entry \in {"not_loaded", "retry"} => ~alive
    /\ entry = "refreshing" => alive /\ ticks = 0 /\ streak = NoStreak

\* Once streaks were cleared for an unload only ticks in flight can add to
\* them, and there are fewer than it takes to raise an issue.
LateTicks ==
    entry = "unloading" \/ ~alive => \A f \in Frames : streak[f] + ticks <= MaxTicks

\* No entity is live before its platform is set up.
NothingEarly ==
    /\ entry \in {"not_loaded", "retry", "refreshing"} => shown = {}
    /\ entry = "refreshing" => added = {}
    /\ entry = "platforms" => \A x \in shown : x[1] \in added
    /\ entry = "loaded" => added = Platforms

\* What EntitiesFollowFrames says, of the platforms that are set up.
AddedFollow ==
    entry \in {"platforms", "loaded"} /\ "enabling" \notin due =>
        \A x \in Entities : x[1] \in added =>
            /\ x \in shown <=> x \in Valid(coordinator) /\ disabled_by[x] # "user"
            /\ x \notin Valid(coordinator) => disabled_by[x] # "none"

\* What EditsReachCoordinator says, from the moment the entry is read; and an
\* entry that is loaded has its listener.
EditsHeard ==
    /\ entry = "loaded" => listening
    /\ entry \in {"refreshing", "platforms", "loaded"} /\ "edit" \notin due /\ ~late =>
        coordinator = config

IInv ==
    TypeOK /\ IssueHasOwner /\ Phases /\ LateTicks /\ NothingEarly /\ AddedFollow /\ EditsHeard

\* The bounds are numbers, and an issue needs a failure.
LEMMA Bounds ==
    /\ Escalate \in Nat /\ MaxTicks \in Nat /\ MaxEvents \in Nat
    /\ MaxTicks < Escalate
    /\ 0 < Escalate
BY LifecycleAssumption, SMT

\* The invariant holds before the entry is first set up.
LEMMA InitIInv == Init => IInv
<1> SUFFICES ASSUME Init PROVE IInv
  OBVIOUS
<1> USE DEF Init
<1>1. TypeOK
  <2>1. streak \in [Frames -> 0..Escalate]
    BY Bounds DEF NoStreak
  <2>2. disabled_by \in [Entities -> {"new", "none", "integration", "user"}]
    OBVIOUS
  <2>3. hidden = {x \in Entities : disabled_by[x] = "user"}
    OBVIOUS
  <2>4. ticks \in 0..MaxTicks /\ events \in 0..MaxEvents
    BY Bounds
  <2> QED BY <2>1, <2>2, <2>3, <2>4 DEF TypeOK
<1>2. IssueHasOwner
  BY DEF IssueHasOwner
<1>3. Phases /\ LateTicks
  BY Bounds DEF Phases, LateTicks, NoStreak
<1>4. NothingEarly /\ AddedFollow /\ EditsHeard
  BY DEF NothingEarly, AddedFollow, EditsHeard
<1> QED BY <1>1, <1>2, <1>3, <1>4 DEF IInv
-----------------------------------------------------------------------------
(* Type correctness.                                                       *)

\* The loops over the frames, as facts about a frame.
LEMMA ComputeFramesType ==
    ASSUME TypeOK, ComputeFrames
    PROVE  /\ streak' \in [Frames -> 0..Escalate]
           /\ issues' \subseteq Frames
           /\ \A f \in Frames : streak'[f] <= streak[f] + 1
           /\ \A f \in issues' :
                 \/ f \in coordinator.frames /\ streak'[f] >= Escalate
                 \/ f \in issues /\ streak[f] = 0
                 \/ f \in issues /\ f \in faulty /\ streak'[f] >= streak[f]
<1> DEFINE bad == faulty \cap coordinator.frames
<1>1. /\ streak' = [f \in Frames |->
                        IF f \notin bad THEN 0
                        ELSE IF streak[f] < Escalate THEN streak[f] + 1
                        ELSE streak[f]]
      /\ issues' = (issues \ UNION {ClearedIssues(f) : f \in Frames \ bad})
                        \cup {f \in bad : streak'[f] >= Escalate}
  BY DEF ComputeFrames
<1>2. coordinator.frames \subseteq Frames
  BY DEF TypeOK, Config
<1>3. /\ streak' \in [Frames -> 0..Escalate]
      /\ \A f \in Frames : streak'[f] <= streak[f] + 1
  BY <1>1, Bounds DEF TypeOK
<1>4. issues' \subseteq Frames
  BY <1>1, <1>2 DEF TypeOK
<1>5. ASSUME NEW f \in issues'
      PROVE  \/ f \in coordinator.frames /\ streak'[f] >= Escalate
             \/ f \in issues /\ streak[f] = 0
             \/ f \in issues /\ f \in faulty /\ streak'[f] >= streak[f]
  <2>0. f \in Frames /\ streak[f] \in 0..Escalate
    BY <1>4 DEF TypeOK
  <2>1. CASE f \in {g \in bad : streak'[g] >= Escalate}
    BY <2>1
  <2>2. CASE f \in issues /\ f \in bad
    <3>1. streak'[f] = IF streak[f] < Escalate THEN streak[f] + 1 ELSE streak[f]
      BY <1>1, <2>0, <2>2
    <3> QED BY <2>0, <2>2, <3>1, Bounds
  <2>3. CASE f \in issues /\ f \notin bad /\ f \notin UNION {ClearedIssues(g) : g \in Frames \ bad}
    <3>1. f \notin ClearedIssues(f)
      BY <2>0, <2>3
    <3> QED BY <2>0, <2>3, <3>1, Bounds DEF ClearedIssues
  <2> QED BY <1>1, <2>0, <2>1, <2>2, <2>3
<1> QED BY <1>3, <1>4, <1>5

\* Setting up a platform keeps the variables in their ranges.
LEMMA SetUpPlatformType ==
    ASSUME TypeOK, NEW p \in Platforms, NEW new \in {"none", "integration"},
           SetUpPlatform(p, new)
    PROVE  TypeOK'
<1> DEFINE known == Registered(p, new)
           valid == {x \in Valid(coordinator) : x[1] = p}
           orphans == {x \in Own(p) \ valid : known[x] = "none"}
           back == {x \in valid : known[x] \in Disablers}
<1>1. /\ disabled_by' = [x \in Entities |->
                            IF x \in orphans THEN "integration"
                            ELSE IF x \in back THEN "none"
                            ELSE known[x]]
      /\ shown' = (shown \cup {x \in valid : known[x] = "none"}) \ orphans
      /\ due' = IF back # {} THEN due \cup {"enabling"} ELSE due
      /\ added' = added \cup {p}
  BY DEF SetUpPlatform
<1>2. /\ known \in [Entities -> {"new", "none", "integration", "user"}]
      /\ \A x \in Entities : known[x] = "user" <=> disabled_by[x] = "user"
  BY DEF TypeOK, Registered
<1>3. valid \subseteq Entities
  BY DEF Valid
<1> HIDE DEF known, valid
<1>4. disabled_by' \in [Entities -> {"new", "none", "integration", "user"}]
  BY <1>1, <1>2
<1>5. \A x \in Entities : disabled_by'[x] = "user" <=> disabled_by[x] = "user"
  BY <1>1, <1>2 DEF Disablers
<1>6. shown' \subseteq Entities /\ due' \subseteq {"edit", "enabling"} /\ added' \subseteq Platforms
  BY <1>1, <1>3 DEF TypeOK
<1>7. hidden' = {x \in Entities : disabled_by'[x] = "user"}
  BY <1>5 DEF TypeOK, SetUpPlatform
<1>8. UNCHANGED <<settings, entry, goal, listening, coordinator, alive, failing, faulty,
                  hidden, events>>
  BY DEF SetUpPlatform
<1> QED BY <1>4, <1>6, <1>7, <1>8 DEF TypeOK, failing, settings

\* Every step keeps the variables in their ranges.
LEMMA NextTypeOK == TypeOK /\ [Next]_vars => TypeOK'
<1> SUFFICES ASSUME TypeOK, [Next]_vars PROVE TypeOK'
  OBVIOUS
<1> USE DEF failing, registry, settings
<1>1. CASE StartTick
  BY <1>1, Bounds DEF StartTick, TypeOK
<1>2. CASE FinishTick
  <2>1. ticks' \in 0..MaxTicks
    BY <1>2, Bounds DEF FinishTick, TypeOK
  <2>2. streak' \in [Frames -> 0..Escalate] /\ issues' \subseteq Frames
    BY <1>2, ComputeFramesType DEF FinishTick
  <2> QED BY <1>2, <2>1, <2>2 DEF FinishTick, TypeOK
<1>3. ASSUME NEW f \in Fragile, Toggle(f) PROVE TypeOK'
  BY <1>3, LifecycleAssumption DEF Toggle, TypeOK
<1>4. CASE Setup
  <2>1. streak' \in [Frames -> 0..Escalate]
    BY <1>4, Bounds DEF Setup, NoStreak
  <2> QED BY <1>4, <2>1 DEF Setup, TypeOK
<1>5. CASE FirstRefresh
  <2>1. streak' \in [Frames -> 0..Escalate] /\ issues' \subseteq Frames
    BY <1>5, ComputeFramesType DEF FirstRefresh
  <2> QED BY <1>5, <2>1 DEF FirstRefresh, TypeOK
<1>6. CASE SetupFails
  <2>1. events' \in 0..MaxEvents
    BY <1>6, Bounds DEF SetupFails, Event, TypeOK
  <2> QED BY <1>6, <2>1 DEF SetupFails, TypeOK
<1>7. ASSUME NEW p \in Platforms, NEW new \in {"none", "integration"}, SetUpPlatform(p, new)
      PROVE  TypeOK'
  BY <1>7, SetUpPlatformType
<1>8. CASE Listen
  BY <1>8 DEF Listen, TypeOK
<1>9. ASSUME BeginUnload, goal' \in {"reload", "remove"}, due' \subseteq {"edit", "enabling"},
             events' \in 0..MaxEvents
      PROVE  TypeOK'
  <2>1. streak' \in [Frames -> 0..Escalate]
    BY <1>9, Bounds DEF BeginUnload, ClearedStreak, NoStreak
  <2> QED BY <1>9, <2>1 DEF BeginUnload, TypeOK
<1>10. ASSUME NEW r \in due, Reload(r) PROVE TypeOK'
  BY <1>9, <1>10 DEF Reload, TypeOK
<1>11. ASSUME NEW g \in {"reload", "remove"}, UserUnloads(g) PROVE TypeOK'
  <2>1. events' \in 0..MaxEvents
    BY <1>11, Bounds DEF UserUnloads, Event, TypeOK
  <2> QED BY <1>9, <1>11, <2>1 DEF UserUnloads, TypeOK
<1>12. CASE UnloadDone
  BY <1>12 DEF UnloadDone, Removed, TypeOK
<1>13. CASE UnloadFails
  BY <1>13, Bounds DEF UnloadFails, Event, TypeOK
<1>14. CASE Restart
  <2>1. streak' \in [Frames -> 0..Escalate] /\ ticks' \in 0..MaxTicks
    BY <1>14, Bounds DEF Restart, NoStreak
  <2>2. events' \in 0..MaxEvents
    BY <1>14, Bounds DEF Restart, Event, TypeOK
  <2> QED BY <1>14, <2>1, <2>2 DEF Restart, TypeOK
<1>15. ASSUME NEW c \in Config, Edit(c) PROVE TypeOK'
  <2>1. Submitted(c) \in Config
    BY <1>15 DEF Edit, Submitted, Config, TypeOK
  <2> QED
    BY <1>15, <2>1, Bounds DEF Edit, Reloaded, Event, TypeOK
<1>16. ASSUME NEW x \in Entities, UserDisables(x) PROVE TypeOK'
  <2>1. events' \in 0..MaxEvents
    BY <1>16, Bounds DEF UserDisables, Event, TypeOK
  <2>2. /\ disabled_by' \in [Entities -> {"new", "none", "integration", "user"}]
        /\ hidden' = {y \in Entities : disabled_by'[y] = "user"}
    BY <1>16 DEF UserDisables, TypeOK
  <2> QED BY <1>16, <2>1, <2>2 DEF UserDisables, TypeOK
<1>17. ASSUME NEW x \in Entities, UserEnables(x) PROVE TypeOK'
  <2>1. events' \in 0..MaxEvents
    BY <1>17, Bounds DEF UserEnables, Event, TypeOK
  <2>2. /\ disabled_by' \in [Entities -> {"new", "none", "integration", "user"}]
        /\ hidden' = {y \in Entities : disabled_by'[y] = "user"}
    BY <1>17 DEF UserEnables, TypeOK
  <2> QED BY <1>17, <2>1, <2>2 DEF UserEnables, TypeOK
<1>18. CASE UNCHANGED vars
  BY <1>18 DEF vars, TypeOK
<1> QED
  BY <1>1, <1>2, <1>3, <1>4, <1>5, <1>6, <1>7, <1>8, <1>10, <1>11, <1>12, <1>13, <1>14, <1>15,
     <1>16, <1>17, <1>18 DEF Next, BringUp, BringUpPlatform, Unload, User
-----------------------------------------------------------------------------
(* Issues.                                                                 *)

IssueInv == IssueHasOwner /\ Phases /\ LateTicks

\* Nothing it speaks of changes, except perhaps where the entry is.
LEMMA IssuesUntouched ==
    ASSUME TypeOK, IssueInv, UNCHANGED <<issues, streak, ticks, coordinator>>,
           alive' = alive,
           entry' = entry \/ entry' \notin {"not_loaded", "retry", "refreshing", "unloading"}
    PROVE  IssueInv'
BY DEF IssueInv, IssueHasOwner, Phases, LateTicks

\* While few failures are counted there is no issue.
LEMMA FewFailuresNoIssue ==
    ASSUME TypeOK, IssueInv, entry = "unloading" \/ ~alive
    PROVE  issues = {}
<1> SUFFICES ASSUME NEW f \in issues PROVE FALSE
  OBVIOUS
<1>1. f \in Frames /\ streak[f] \in 0..Escalate /\ ticks \in 0..MaxTicks
  BY DEF TypeOK
<1>2. streak[f] >= Escalate
  BY DEF IssueInv, IssueHasOwner
<1>3. streak[f] + ticks <= MaxTicks
  BY <1>1 DEF IssueInv, LateTicks
<1> QED BY <1>1, <1>2, <1>3, Bounds

\* A tick of a living coordinator.
LEMMA ComputeKeepsOwners ==
    ASSUME TypeOK, IssueHasOwner, ComputeFrames, UNCHANGED <<coordinator, alive>>, alive
    PROVE  IssueHasOwner'
<1> SUFFICES ASSUME NEW f \in issues'
             PROVE  f \in coordinator.frames /\ streak'[f] >= Escalate
  BY DEF IssueHasOwner
<1>1. f \in Frames /\ streak'[f] \in 0..Escalate
  BY ComputeFramesType
<1>2. ASSUME f \in issues
      PROVE  f \in coordinator.frames /\ streak[f] >= Escalate /\ streak[f] \in 0..Escalate
  BY <1>1, <1>2 DEF IssueHasOwner, TypeOK
<1> QED BY <1>1, <1>2, ComputeFramesType, Bounds

\* A tick that ends raises an issue only with its streak.
LEMMA FinishTickIssues == TypeOK /\ IssueInv /\ FinishTick => IssueInv'
<1> SUFFICES ASSUME TypeOK, IssueInv, FinishTick PROVE IssueInv'
  OBVIOUS
<1>1. /\ ComputeFrames
      /\ ticks > 0 /\ ticks' = ticks - 1
      /\ UNCHANGED <<entry, coordinator, alive>>
  BY DEF FinishTick
<1>2. /\ ticks \in 0..MaxTicks
      /\ streak \in [Frames -> 0..Escalate]
      /\ streak' \in [Frames -> 0..Escalate]
      /\ issues' \subseteq Frames
      /\ \A f \in Frames : streak'[f] <= streak[f] + 1
  BY <1>1, ComputeFramesType DEF TypeOK
<1>3. Phases'
  BY <1>1, <1>2, Bounds DEF IssueInv, Phases
<1>4. LateTicks'
  <2> SUFFICES ASSUME entry = "unloading" \/ ~alive, NEW f \in Frames
               PROVE  streak'[f] + ticks' <= MaxTicks
    BY <1>1 DEF LateTicks
  <2>1. streak[f] + ticks <= MaxTicks
    BY DEF IssueInv, LateTicks
  <2>2. streak[f] \in Nat /\ streak'[f] \in Nat /\ streak'[f] <= streak[f] + 1
    BY <1>2
  <2> QED BY <1>1, <1>2, <2>1, <2>2, Bounds
<1>5. IssueHasOwner'
  <2>1. CASE alive
    BY <1>1, <2>1, ComputeKeepsOwners DEF IssueInv
  <2>2. CASE ~alive
    <3> SUFFICES ASSUME NEW f \in issues' PROVE FALSE
      BY DEF IssueHasOwner
    <3>1. issues = {}
      BY <2>2, FewFailuresNoIssue
    <3>2. f \in Frames /\ streak'[f] >= Escalate
      BY <1>1, <1>2, <3>1, ComputeFramesType
    <3>3. streak'[f] + ticks' <= MaxTicks /\ streak'[f] \in Nat /\ ticks' \in Nat
      BY <1>1, <1>2, <1>4, <2>2, <3>2, Bounds DEF LateTicks
    <3> QED BY <3>2, <3>3, Bounds
  <2> QED BY <2>1, <2>2
<1> QED BY <1>3, <1>4, <1>5 DEF IssueInv

\* Streaks and issues are gone together.
LEMMA ClearedIssueInv ==
    ASSUME TypeOK, issues' = {}, streak' = NoStreak, ticks' \in 0..MaxTicks,
           entry' # "refreshing" \/ (alive' /\ ticks' = 0),
           entry' \notin {"not_loaded", "retry"} \/ ~alive'
    PROVE  IssueInv'
<1>1. ASSUME NEW f \in Frames
      PROVE  streak'[f] + ticks' <= MaxTicks
  <2>1. streak'[f] = 0
    BY DEF NoStreak
  <2>2. \A k \in 0..MaxTicks : 0 + k <= MaxTicks
    BY Bounds
  <2> QED BY <2>1, <2>2
<1> QED BY <1>1 DEF IssueInv, IssueHasOwner, Phases, LateTicks

\* An unload begins: every issue has a streak, so clearing the streaks clears
\* the issues.
LEMMA BeginUnloadIssues == TypeOK /\ IssueInv /\ BeginUnload => IssueInv'
<1> SUFFICES ASSUME TypeOK, IssueInv, BeginUnload PROVE IssueInv'
  OBVIOUS
<1>1. \A f \in issues : f \in Frames /\ streak[f] > 0
  <2> SUFFICES ASSUME NEW f \in issues PROVE f \in Frames /\ streak[f] > 0
    OBVIOUS
  <2>1. f \in Frames /\ streak[f] \in 0..Escalate /\ streak[f] >= Escalate
    BY DEF IssueInv, IssueHasOwner, TypeOK
  <2> QED BY <2>1, Bounds
<1>2. issues' = {}
  BY <1>1 DEF BeginUnload
<1>3. streak' = NoStreak /\ ticks' \in 0..MaxTicks /\ entry' = "unloading"
  BY DEF BeginUnload, ClearedStreak, TypeOK
<1> QED BY <1>2, <1>3, ClearedIssueInv

\* Every step leaves each issue with a coordinator and a streak.
LEMMA NextIssueInv == TypeOK /\ IssueInv /\ [Next]_vars => IssueInv'
<1> SUFFICES ASSUME TypeOK, IssueInv, [Next]_vars PROVE IssueInv'
  OBVIOUS
<1> USE DEF failing, registry, settings
<1>1. CASE StartTick
  <2>1. entry # "unloading" /\ entry # "refreshing" /\ alive
    BY <1>1 DEF StartTick
  <2> QED BY <1>1, <2>1 DEF StartTick, IssueInv, IssueHasOwner, Phases, LateTicks
<1>2. CASE FinishTick
  BY <1>2, FinishTickIssues
<1>3. ASSUME NEW f \in Fragile, Toggle(f) PROVE IssueInv'
  BY <1>3, IssuesUntouched DEF Toggle
<1>4. CASE Setup
  <2>1. ~alive
    BY <1>4 DEF Setup, IssueInv, Phases
  <2>2. issues' = {}
    BY <1>4, <2>1, FewFailuresNoIssue DEF Setup
  <2>3. streak' = NoStreak /\ ticks' = 0 /\ ticks' \in 0..MaxTicks /\ entry' = "refreshing" /\ alive'
    BY <1>4, Bounds DEF Setup, TypeOK
  <2> QED BY <2>2, <2>3, ClearedIssueInv
<1>5. CASE FirstRefresh
  <2>1. alive /\ alive' /\ entry' = "platforms"
    BY <1>5 DEF FirstRefresh, IssueInv, Phases
  <2>2. IssueHasOwner'
    BY <1>5, <2>1, ComputeKeepsOwners DEF FirstRefresh, IssueInv
  <2> QED BY <2>1, <2>2 DEF IssueInv, Phases, LateTicks
<1>6. CASE SetupFails
  <2>1. streak = NoStreak /\ ticks = 0
    BY <1>6 DEF SetupFails, IssueInv, Phases
  <2>2. issues = {}
    <3> SUFFICES ASSUME NEW f \in issues PROVE FALSE
      OBVIOUS
    <3>1. f \in Frames /\ streak[f] >= Escalate
      BY DEF IssueInv, IssueHasOwner, TypeOK
    <3> QED BY <2>1, <3>1, Bounds DEF NoStreak
  <2>3. issues' = {} /\ streak' = NoStreak /\ ticks' \in 0..MaxTicks /\ entry' = "retry" /\ ~alive'
    BY <1>6, <2>1, <2>2, Bounds DEF SetupFails
  <2> QED BY <2>3, ClearedIssueInv
<1>7. ASSUME NEW p \in Platforms, NEW new \in {"none", "integration"}, SetUpPlatform(p, new)
      PROVE  IssueInv'
  BY <1>7, IssuesUntouched DEF SetUpPlatform
<1>8. CASE Listen
  BY <1>8, IssuesUntouched DEF Listen
<1>9. ASSUME NEW r \in due, Reload(r) PROVE IssueInv'
  BY <1>9, BeginUnloadIssues DEF Reload
<1>10. ASSUME NEW g \in {"reload", "remove"}, UserUnloads(g) PROVE IssueInv'
  BY <1>10, BeginUnloadIssues DEF UserUnloads
<1>11. CASE UnloadDone
  <2>1. issues = {}
    BY <1>11, FewFailuresNoIssue DEF UnloadDone
  <2>2. entry = "unloading" /\ ~alive' /\ entry' # "refreshing" /\ UNCHANGED <<issues, streak, ticks>>
    BY <1>11 DEF UnloadDone, Removed
  <2> QED BY <2>1, <2>2 DEF IssueInv, IssueHasOwner, Phases, LateTicks
<1>12. CASE UnloadFails
  BY <1>12, IssuesUntouched DEF UnloadFails
<1>13. CASE Restart
  <2>1. issues' = {} /\ streak' = NoStreak /\ ticks' = 0 /\ ticks' \in 0..MaxTicks
        /\ entry' = "not_loaded" /\ ~alive'
    BY <1>13, Bounds DEF Restart
  <2> QED BY <2>1, ClearedIssueInv
<1>14. ASSUME NEW c \in Config, Edit(c) PROVE IssueInv'
  BY <1>14, IssuesUntouched DEF Edit
<1>15. ASSUME NEW x \in Entities, UserDisables(x) \/ UserEnables(x) PROVE IssueInv'
  BY <1>15, IssuesUntouched DEF UserDisables, UserEnables
<1>16. CASE UNCHANGED vars
  BY <1>16, IssuesUntouched DEF vars
<1> QED
  BY <1>1, <1>2, <1>3, <1>4, <1>5, <1>6, <1>7, <1>8, <1>9, <1>10, <1>11, <1>12, <1>13, <1>14,
     <1>15, <1>16 DEF Next, BringUp, BringUpPlatform, Unload, User
-----------------------------------------------------------------------------
(* Entities.                                                               *)

EntityInv == NothingEarly /\ AddedFollow

\* Only a reload that waits is added.
LEMMA EntitiesUntouched ==
    ASSUME EntityInv, UNCHANGED <<entry, added, coordinator, disabled_by, shown>>,
           "enabling" \in due => "enabling" \in due'
    PROVE  EntityInv'
BY DEF EntityInv, NothingEarly, AddedFollow, Valid

\* A platform decides about its own entities, and leaves those of the other.
LEMMA SetUpPlatformEntities ==
    ASSUME TypeOK, EntityInv, NEW p \in Platforms, NEW new \in {"none", "integration"},
           SetUpPlatform(p, new)
    PROVE  EntityInv'
<1> DEFINE known == Registered(p, new)
           valid == {x \in Valid(coordinator) : x[1] = p}
           orphans == {x \in Own(p) \ valid : known[x] = "none"}
           back == {x \in valid : known[x] \in Disablers}
<1>1. /\ entry = "platforms" /\ entry' = "platforms"
      /\ p \notin added
      /\ coordinator' = coordinator
      /\ added' = added \cup {p}
      /\ disabled_by' = [x \in Entities |->
                            IF x \in orphans THEN "integration"
                            ELSE IF x \in back THEN "none"
                            ELSE known[x]]
      /\ shown' = (shown \cup {x \in valid : known[x] = "none"}) \ orphans
      /\ due' = IF back # {} THEN due \cup {"enabling"} ELSE due
  BY DEF SetUpPlatform
<1>2. \A x \in Entities :
        known[x] = IF x \in Valid(coordinator) /\ x[1] = p /\ disabled_by[x] = "new"
                   THEN new ELSE disabled_by[x]
  BY DEF Registered
<1>3. /\ \A x \in Entities : x \in valid <=> x \in Valid(coordinator) /\ x[1] = p
      /\ \A x \in Entities : x \in Own(p) <=> x[1] = p
      /\ valid \subseteq Entities
  BY DEF Own, Valid
<1>4. \A x \in shown : x \in Entities /\ x[1] \in added
  BY <1>1 DEF TypeOK, EntityInv, NothingEarly
<1>5. \A x \in Entities : disabled_by[x] \in {"new", "none", "integration", "user"}
  BY DEF TypeOK
<1> HIDE DEF known, valid
<1>6. NothingEarly'
  BY <1>1, <1>3, <1>4 DEF NothingEarly
<1>7. AddedFollow'
  <2> SUFFICES ASSUME "enabling" \notin due', NEW x \in Entities, x[1] \in added'
               PROVE  /\ x \in shown' <=> x \in Valid(coordinator) /\ disabled_by'[x] # "user"
                      /\ x \notin Valid(coordinator) => disabled_by'[x] # "none"
    BY <1>1 DEF AddedFollow, Valid
  <2>1. back = {} /\ "enabling" \notin due
    BY <1>1
  <2>2. disabled_by'[x] = IF x \in orphans THEN "integration" ELSE known[x]
    BY <1>1, <2>1
  <2>3. CASE x[1] # p
    <3>1. x \notin Own(p) /\ x \notin valid
      BY <1>3, <2>3
    <3>2. disabled_by'[x] = disabled_by[x] /\ (x \in shown' <=> x \in shown)
      BY <1>1, <1>2, <2>2, <2>3, <3>1
    <3>3. x[1] \in added
      BY <1>1, <2>3
    <3> QED BY <1>1, <2>1, <3>2, <3>3 DEF EntityInv, AddedFollow
  <2>4. CASE x[1] = p /\ x \in Valid(coordinator)
    <3>1. x \in valid /\ x \notin orphans /\ x \notin shown
      BY <1>1, <1>3, <1>4, <2>4
    <3>2. known[x] \in {"none", "integration", "user"}
      BY <1>2, <1>5, <2>4
    <3>3. known[x] # "integration"
      BY <2>1, <3>1 DEF Disablers
    <3> QED BY <1>1, <2>2, <2>4, <3>1, <3>2, <3>3
  <2>5. CASE x[1] = p /\ x \notin Valid(coordinator)
    <3>1. x \notin valid /\ x \in Own(p) /\ x \notin shown
      BY <1>1, <1>3, <1>4, <2>5
    <3> QED BY <1>1, <2>2, <2>5, <3>1
  <2> QED BY <2>3, <2>4, <2>5
<1> QED BY <1>6, <1>7 DEF EntityInv

\* Every step leaves the entities as the enabled frames ask.
LEMMA NextEntityInv == TypeOK /\ EntityInv /\ [Next]_vars => EntityInv'
<1> SUFFICES ASSUME TypeOK, EntityInv, [Next]_vars PROVE EntityInv'
  OBVIOUS
<1> USE DEF failing, registry, settings
<1>1. CASE StartTick
  BY <1>1, EntitiesUntouched DEF StartTick
<1>2. CASE FinishTick
  BY <1>2, EntitiesUntouched DEF FinishTick
<1>3. ASSUME NEW f \in Fragile, Toggle(f) PROVE EntityInv'
  BY <1>3, EntitiesUntouched DEF Toggle
<1>4. CASE Setup
  BY <1>4 DEF Setup, EntityInv, NothingEarly, AddedFollow
<1>5. CASE FirstRefresh
  BY <1>5 DEF FirstRefresh, EntityInv, NothingEarly, AddedFollow
<1>6. CASE SetupFails
  BY <1>6 DEF SetupFails, EntityInv, NothingEarly, AddedFollow
<1>7. ASSUME NEW p \in Platforms, NEW new \in {"none", "integration"}, SetUpPlatform(p, new)
      PROVE  EntityInv'
  BY <1>7, SetUpPlatformEntities
<1>8. CASE Listen
  BY <1>8 DEF Listen, EntityInv, NothingEarly, AddedFollow, Valid
<1>9. ASSUME BeginUnload PROVE EntityInv'
  BY <1>9 DEF BeginUnload, EntityInv, NothingEarly, AddedFollow
<1>10. ASSUME NEW r \in due, Reload(r) PROVE EntityInv'
  BY <1>9, <1>10 DEF Reload
<1>11. ASSUME NEW g \in {"reload", "remove"}, UserUnloads(g) PROVE EntityInv'
  BY <1>9, <1>11 DEF UserUnloads
<1>12. CASE UnloadDone
  BY <1>12 DEF UnloadDone, Removed, EntityInv, NothingEarly, AddedFollow
<1>13. CASE UnloadFails
  BY <1>13 DEF UnloadFails, EntityInv, NothingEarly, AddedFollow
<1>14. CASE Restart
  BY <1>14 DEF Restart, EntityInv, NothingEarly, AddedFollow
<1>15. ASSUME NEW c \in Config, Edit(c) PROVE EntityInv'
  BY <1>15, EntitiesUntouched DEF Edit
<1>16. ASSUME NEW x \in Entities, UserDisables(x) PROVE EntityInv'
  <2>1. /\ disabled_by' = [disabled_by EXCEPT ![x] = "user"]
        /\ shown' = shown \ {x}
        /\ UNCHANGED <<entry, due, added, coordinator>>
    BY <1>16 DEF UserDisables
  <2>2. \A y \in Entities : disabled_by'[y] = IF y = x THEN "user" ELSE disabled_by[y]
    BY <2>1 DEF TypeOK
  <2>3. NothingEarly'
    BY <2>1 DEF EntityInv, NothingEarly
  <2>4. AddedFollow'
    BY <2>1, <2>2 DEF EntityInv, AddedFollow, Valid
  <2> QED BY <2>3, <2>4 DEF EntityInv
<1>17. ASSUME NEW x \in Entities, UserEnables(x) PROVE EntityInv'
  BY <1>17 DEF UserEnables, EntityInv, NothingEarly, AddedFollow
<1>18. CASE UNCHANGED vars
  BY <1>18, EntitiesUntouched DEF vars
<1> QED
  BY <1>1, <1>2, <1>3, <1>4, <1>5, <1>6, <1>7, <1>8, <1>10, <1>11, <1>12, <1>13, <1>14, <1>15,
     <1>16, <1>17, <1>18 DEF Next, BringUp, BringUpPlatform, Unload, User
-----------------------------------------------------------------------------
(* Edits.                                                                  *)

\* An edit that is heard waits as a reload, whose setup reads the entry.
LEMMA NextEditsHeard == EditsHeard /\ [Next]_vars => EditsHeard'
<1> SUFFICES ASSUME EditsHeard, [Next]_vars PROVE EditsHeard'
  OBVIOUS
<1> USE DEF failing, registry, settings, EditsHeard
<1>1. CASE StartTick \/ FinishTick \/ FirstRefresh \/ SetupFails \/ Listen
  BY <1>1 DEF StartTick, FinishTick, FirstRefresh, SetupFails, Listen
<1>2. ASSUME NEW f \in Fragile, Toggle(f) PROVE EditsHeard'
  BY <1>2 DEF Toggle
<1>3. CASE Setup
  BY <1>3 DEF Setup
<1>4. ASSUME NEW p \in Platforms, NEW new \in {"none", "integration"}, SetUpPlatform(p, new)
      PROVE  EditsHeard'
  BY <1>4 DEF SetUpPlatform
<1>5. CASE BeginUnload \/ UnloadDone \/ UnloadFails \/ Restart
  BY <1>5 DEF BeginUnload, UnloadDone, UnloadFails, Restart, Removed
<1>6. ASSUME NEW r \in due, Reload(r) PROVE EditsHeard'
  BY <1>5, <1>6 DEF Reload
<1>7. ASSUME NEW g \in {"reload", "remove"}, UserUnloads(g) PROVE EditsHeard'
  BY <1>5, <1>7 DEF UserUnloads
<1>8. ASSUME NEW c \in Config, Edit(c) PROVE EditsHeard'
  BY <1>8 DEF Edit, Reloaded
<1>9. ASSUME NEW x \in Entities, UserDisables(x) \/ UserEnables(x) PROVE EditsHeard'
  BY <1>9 DEF UserDisables, UserEnables
<1>10. CASE UNCHANGED vars
  BY <1>10 DEF vars
<1> QED
  BY <1>1, <1>2, <1>3, <1>4, <1>5, <1>6, <1>7, <1>8, <1>9, <1>10
  DEF Next, BringUp, BringUpPlatform, Unload, User
-----------------------------------------------------------------------------
(* The theorems.                                                           *)

\* The invariant is inductive.
LEMMA NextIInv == IInv /\ [Next]_vars => IInv'
BY NextTypeOK, NextIssueInv, NextEntityInv, NextEditsHeard DEF IInv, IssueInv, EntityInv

\* So it holds always.
LEMMA AlwaysIInv == Spec => []IInv
BY InitIInv, NextIInv, PTL DEF Spec

(* Whatever users edit, reload and disable, and whatever fails, the entry, *)
(* its coordinator and its entities keep their types; what the registry    *)
(* says a user disabled is what the user did disable and not enable since. *)
THEOREM LifecycleTyped == Spec => []TypeOK
<1>1. IInv => TypeOK
  BY DEF IInv
<1> QED BY <1>1, AlwaysIInv, PTL

(* No Repair issue is left behind by an unload, by one that fails, or by a *)
(* tick that resumes after its coordinator was shut down                   *)
(* (clear_all_frame_fail_issues, _raise_frame_fail_issue).                 *)
THEOREM NoStrandedIssue == Spec => []IssueHasOwner
<1>1. IInv => IssueHasOwner
  BY DEF IInv
<1> QED BY <1>1, AlwaysIInv, PTL

(* The live entities of a loaded entry are those of its enabled frames but *)
(* for what the user disabled, once no enabling waits for its reload       *)
(* (disable_orphaned_entities, async_setup_entry of the platforms).        *)
THEOREM EntitiesFollow == Spec => []EntitiesFollowFrames
<1>1. IInv => EntitiesFollowFrames
  <2> SUFFICES ASSUME IInv, entry = "loaded", "enabling" \notin due
               PROVE  /\ shown = Valid(coordinator) \ hidden
                      /\ \A x \in Entities \ Valid(coordinator) : disabled_by[x] # "none"
    BY DEF EntitiesFollowFrames
  <2>1. \A x \in Entities : x[1] \in added
    BY DEF IInv, NothingEarly, Entities
  <2>2. \A x \in Entities :
            /\ x \in shown <=> x \in Valid(coordinator) /\ disabled_by[x] # "user"
            /\ x \notin Valid(coordinator) => disabled_by[x] # "none"
    BY <2>1 DEF IInv, AddedFollow
  <2>3. shown \subseteq Entities /\ Valid(coordinator) \subseteq Entities
    BY DEF IInv, TypeOK, Valid
  <2>4. \A x \in Entities : x \in hidden <=> disabled_by[x] = "user"
    BY DEF IInv, TypeOK
  <2> QED BY <2>2, <2>3, <2>4
<1> QED BY <1>1, AlwaysIInv, PTL

(* A loaded tracker works with the options as they are unless a reload is  *)
(* to come, or an edit was stored while a setup ran (async_setup_entry,    *)
(* _async_update_options).                                                 *)
THEOREM EditsReach == Spec => []EditsReachCoordinator
<1>1. IInv => EditsReachCoordinator
  BY DEF IInv, EditsHeard, EditsReachCoordinator
<1> QED BY <1>1, AlwaysIInv, PTL
=============================================================================
