# Entity State Tracker: models, checks and proofs

The Entity State Tracker is a Home Assistant integration. One config entry is one
*tracker*: it follows one entity and publishes, for calendar and rolling *frames* (today,
week, last month, 30 days…), how long the entity was in each state and how often it entered
it. The numbers come from two sources that must never overlap and never leave a gap: a
persisted *ledger* of per-local-day buckets, and the *recorder* (Home Assistant's database of
state rows). Almost everything that can go wrong lies on the seam between them: midnights,
restarts, crashes, a recorder that lags or is off, saves that fail.

Paths below are relative to `src/custom_components/entity_state_tracker/`.

## Inventory

| Component | State it keeps | Operations | What makes it correct |
|---|---|---|---|
| `engine.py` local days | none | `split_visit_across_days`, `_start_of_local_day`, `prune_cutoff_iso` | a visit's seconds are split at real midnights, also around clock changes; no second lost or given twice |
| `engine.py` blocks | none | `query_recorder`, `carry_forward_states`, `accumulate_blocks` | each instant belongs to one state; a visit is counted once, on the day it began; glitches go to the visit before |
| `engine.py` frames | none | `resolve_frame_bounds`, `compute_frame`, dominant, percents, coverage | a breakdown never exceeds its window; closed days and today's slice meet at the seam |
| `models.py` | `TrackerLedger`: buckets per day, `last_state`/`last_changed_ts` (the *anchor* of the open visit), `last_updated_day` (the backfill *marker*), `built_min_state_duration`, first/last-seen stamps | (de)serialisation | a malformed document never raises, and loses only what is malformed |
| `storage.py` | cached document, load lock, the file in `.storage` | `load`, `save`, `replace_day`, `set_meta`, `remove` | one load at a time; what `save` reports is on disk; a corrupt file is an empty ledger |
| `coordinator.py` live path | `_dirty`, `_last_fold`, `_previous_state`, `_seen` | `_handle_state_change`, `_fold_visit`, `_seed_open_visit` | a closed day written live is the day a backfill would write; no backfilled day is touched |
| `coordinator.py` setup | the backfill's captured `today_local` and `day` | first refresh, `_reconcile_min_state_duration`, `_async_backfill`, `_heal_config_states`, subscribe at start | closed days come out right whatever was on disk; the loop ends; the marker never runs ahead |
| `coordinator.py` tick | `data`, frame-failure streaks, last dominant states | prune, flush, one shared query, overlay of the open visit, `compute_frame` for each frame | what is dirty is written; one frame's failure stays its own; frames never lie about an uncommitted row |
| `coordinator.py` repairs | the recorder-off flag of the whole Home Assistant, failure streaks | raise and clear issues | an issue is up exactly while its cause lasts |
| `__init__.py` lifecycle | registry flags, the card's version slot | setup, unload, reload on options, purge, remove | a reload loses nothing; only our own disabling is undone |
| `helpers.py` matching | none | `normalize_state`, `match_state`, `resolve_wanted` | a wanted name resolves to at most one recorded name; no state is counted twice |
| `config_flow.py` | the flow's working data | steps of the config and options flows | stored states are names the entity reports |
| `sensor.py`, `binary_sensor.py`, `write_dedup.py` | last published values | publish on update and on live state change | a suppressed write is one that would change nothing |
| `diagnostics.py`, `const.py`, translations, card | none of the tracker's | read, name, render | (not modelled) |

**How they interact.** All coordinator code runs on one event loop: between two `await`s it
runs alone, so what matters is *which* awaits separate *which* mutations. Setup
(`async_config_entry_first_refresh`) loads the ledger, reconciles the glitch threshold,
backfills day by day (each day: a recorder query on another thread, a save of the day, a
save of the marker), runs a first tick, and subscribes when Home Assistant has started. From
then on state-change events call the live path synchronously; the poll timer and a debouncer
call the tick, which prunes, flushes and computes. The coordinator mutates the very object
the store caches, and a save serialises it before it waits for the disk. Unload, a clean
stop (the STOP listener) and a crash end the coordinator; the next start begins from the
file.

**What is hard.** Midnight or a transition between two awaits of the backfill; a transition
between the backfill and the subscription; a fold while a save is in flight; a crash between
the two saves of a day; a restored visit whose beginning a backfill has meanwhile written; a
failed save; a recorder that answers without its newest rows, or is not there; a glitch
attributed to an earlier day's bucket; a rolling window that starts inside a ledger day; days
that are not 24 hours long. `PROJECT.json` lists each hazard at its line with the properties
that would catch it.

## The modules

| Module | Models | State and actions |
|---|---|---|
| `LocalDays` | local days of the engine | operators only. A day is an interval of a line of instants between two midnights; the lengths are arbitrary |
| `DayBlocks` | what `accumulate_blocks` returns, said of the timeline the rows describe | operators only: `Blocks`, `CarryForward`, `BackfillBlocks` |
| `AccumulateBlocks` | `accumulate_blocks` as it runs: the collecting loop and the glitch-filtering loop | one action per loop step; proved to compute what `DayBlocks` says |
| `DayBook` | the abstract specification of the daily buckets: a book of pages that are sealed day by day, and its file | a new day, open, write, seal, prune, the end of a save, close |
| `TrackerDayBook` | the refinement: `Tracker`'s ledgers as a day book's | the mapping, and `KeepsDayBook == Kept!Spec` |
| `Tracker` | the ledger in memory and on disk, the live path, setup and backfill, prune, flush, unload, stop, crash, boot, the entity and the recorder | one action per stretch of code between two awaits |
| `TrackerFrames` | the tick's frames: bounds, shared query, overlay, seam, floors, tail | operators over `Tracker`'s state; every state in which a tick may run has a value for every frame |
| `TrackedStates` | which recorded names a tracker counts: matching, what the flows offer and store, the heal, the binary sensor | one action per event that can move a name: a change of the entity, a midnight, an aged-out day, a choice in a flow, a restart, a setup |
| `EntryLifecycle` | one config entry: setup, reload and unload, failing frames with their Repair issues, the entities of the two platforms in the registry | one action per stretch between two awaits of setup and unload, per beginning and end of a tick, and per thing a user does |
| `SeenStates` | what a coordinator remembers of the states its entity showed: `_seen` with its cap, announcements, the persisted stamps | one action per event of the entity, and prune, flush, end and begin of a session |
| `Published` | from a frame's seconds to the state of its entity: shares, dominant state, and which updates are written | one action per end of a tick, per add and removal of an entity, and per change of the source |
| `LedgerFile` | the file of an entry's ledger, through the store of each coordinator, the store of a removal and the purge | one action per end of a load or write and per step of setup, unload, removal, start and stop |
| `HassData` | what entries share: the recorder-off flag and issue, the card's version slot, Lovelace's resources | one action per stretch between two awaits of the card's installation, per tick, per unload |
| `FiniteSums` | lemmas about least and greatest members and about sums over finite sets, for the proofs | – |
| `TrackerProofs` | theorems about `Tracker`: types, the marker, baked days, the day book, the clean flag, no instant counted twice, buckets that say what the recorder would; and about `TrackerFrames`: the today frame | – |
| `AccumulateBlocksProofs` | theorems about `AccumulateBlocks` and `DayBlocks` | – |
| `EntryDataProofs` | theorems about `TrackedStates` and `LedgerFile` | – |
| `EntryLifecycleProofs`, `SeenStatesProofs`, `PublishedProofs`, `HassDataProofs` | theorems about the module they are named for | – |
| `MCTracker`, `MCTrackerFrames`, `MCAccumulateBlocks`, `MCTrackedStates`, `MCEntryLifecycle`, `MCSeenStates`, `MCPublished`, `MCLedgerFile`, `MCHassData` | small instances for TLC | – |

**Time and states.** An instant stands for a moment at which something may happen, and a
second of a bucket for one step between instants. `line[t]` is the state the entity is in
from `t` to `t + 1`: the truth the recorder will eventually hold. `committed` is how far the
recorder's answers reach; the difference is its commit interval (`MaxLag`). State names are
model values; `unavailable` is one more name, the row a shutdown writes.

**Correspondence of Tracker's actions.**
`HandleStateChange` is `_handle_state_change` with `_fold_visit` (`FoldStart`: the day
filter; `Glitch`, `Coalesces`, `VisitCount`: the three branches). `Transition` fires it if
the tracker is subscribed and otherwise lets the change pass unseen; `AttributeUpdate` is the
event whose state and `last_changed` are old. `Load` is `store.load`, `get_or_create_tracker`
and the reconcile, up to the first await of the backfill. `BackfillReplace` and
`BackfillMark` are the two halves of a backfilled day, with a save each; either save may fail
and end setup. `FirstRefresh`, `Subscribe` finish it. `Poll`, `FlushDone`, `FlushFails` are
the flush, with its await in between. `Unload` covers a reload after an options edit (which
may change `min_state_duration`) and the failed unload. `Stop`, `Crash`, `Boot` are Home
Assistant's; a crash also loses the recorder's uncommitted rows.

Two simplifications are worth naming. In `Load`, the ledger that a first load creates, or
that replaces a corrupt one, is saved at once by `get_or_create_tracker`, so the action writes
what it loaded to the disk; the save's failure leaves everything as if setup had not begun.
In `FirstRefresh` and `Subscribe` the flush and the wait for the start are one step each,
because setup is the only writer then. An unload or a stop comes after a flush in flight has
ended: Home Assistant's `Store` serialises writes with a lock, so the flush they make waits for
it. (An unload with nothing left to flush does not wait; that a next setup may read the file
before that write lands is in `LedgerFile`.) A crash may come at any point of a flush.

**The day book.** `DayBook` knows nothing of states, seconds, recorders or backfills: pages of
unsealed days are written, the next closed day is sealed, pages are dropped when they are old,
and a save puts the whole book into the file or fails. `TrackerDayBook` maps `daily` and
`last_updated_day` to it (`BookOf`), the ledger in a save that has not ended to `underway`, and
says which steps of a coordinator hold a book (`Held`). Reloads and restarts read what the file
has, or begin a new book when it is corrupt or the threshold changed.

**States in SeenStates.** Setup is one step, and of a bucket only the names count: `Age` takes
a name out of the last bucket that holds it, `SetUp(recorded)` adds the names a backfill finds.
The tracker is in the all-states mode, in which new states are announced, and has no glitch
threshold. `announced`, `heard`, `seed`, `before` and `capped` are history variables.

**Numbers in Published.** A percentage is an integer number of units of the last decimal, of
which a whole has `Whole` (10000 in the code, 3 in the run: rounding up, to zero and to the even
all occur). The run draws the seconds of a frame from all ways three states can fill a window,
so a tick may be followed by any other. Two entities stand for all: `frame` for those that read
`coordinator.data`, `live` for *Currently in state*, which a listener writes past the cache. The
triple's attributes change with the value here. A coordinator tells its listeners of the first
failure of a row only, as Home Assistant's does.

**Files in LedgerFile.** A ledger is the set of the folds it holds. `writes` is what a store has
under way: Home Assistant's `Store` writes one snapshot at a time, and a newer one replaces the
one that waits. `strays` are the writes of a coordinator that an unload dropped; at most one
coordinator's are left behind at a time. `faulty` says that folds may be gone for a reason the
code does not claim to survive: a crash, a corrupt file, a last save that failed, a file read
while a stray write was on its way. A cold load happens once for each store, so the single-flight
lock has nothing to do in the integration's own use and is not modelled.

**Setups in HassData.** `Claim` is the stretch after the version was read on another thread,
`Register` that after the static path was registered, up to the first deletion, and each
`Deleted` one deletion. A call to Lovelace's collection has its effect when it is made. Deleting
what another installation deleted raises, and ends in `Fails`, as anything else in the
registration may. A new version is put on the disk only while no installation is between its
read of the version and its end (`NewFile`): with an update in between, two installations of
different versions may run at once and the older one finish last, which the comment at
`__init__.py:178` does not consider.

**Names in TrackedStates.** `normalize_state` is a constant `Fold`, an idempotent map of names:
which names fold alike is all that matters of it. Names are lower-case, as the coordinator and
the ledger hold them. The module keeps of the ledger only which names occur in it (`daily`,
`last`), of the recorder which names its rows hold (`rows` of today, `closed` of days setup has
not backfilled), and of the entry `CONF_STATES` (`stored`). `Choose` is the specific leg of the
config flow and the states of an options edit: chosen names are resolved against what the form
offers (`Offered`: the present state, what is always offered, and any part of the names that ten
days of rows may hold, days the ledger also has included, since the list is capped and the
recorder may fail), then against the zones, else kept in canonical form.
`SetUp` is the first refresh as far as names go: backfill, then heal, which also rewrites the
entry. That a rewrite does not reload is not a step of its own, because the listener that
reloads is attached after the first refresh. `wished` and `shown` are history variables: the names the user
asked for, and the states the entity has shown.

**The entry in EntryLifecycle.** `Setup`, `FirstRefresh`, `SetUpPlatform` of either platform and
`Listen` are `async_setup_entry` between its awaits; `BeginUnload` is `async_unload_entry` up to
the unloading of the platforms, which ends in `UnloadDone` or `UnloadFails`. A tick is
`StartTick`, the wait for the recorder, and `FinishTick`, which runs the loops over the frames
(`ComputeFrames`) even if an unload has meanwhile cleared the streaks or shut the coordinator
down. Reloads that wait are kept in `due`: that of an options edit, if a listener was attached
when it was stored (`late` remembers one stored while a setup ran, before there was one), and the one Home Assistant schedules when an entity was enabled, by the
user or by `disable_orphaned_entities` itself. An entity of a frame stands for all the frame
has on one platform: they are valid, disabled and enabled together. `hidden` is a history
variable: what the user disabled.

Simplifications: ticks of a coordinator that is gone end before the next `Setup` (they touch
only its own streaks, and raise no issue by `LateTicks`, so they commute with what the next one
does); no tick begins in the few turns of the event loop between `BeginUnload` and its end; a
streak is counted up to `FRAME_FAIL_ESCALATE`; and fewer ticks are in flight at once than it
takes failures to raise an issue (`MaxTicks < Escalate`, ten in the code, where the debouncer
and the poll timer keep the ticks in flight to one or two).

## Runs

| Run | Question | Bounds |
|---|---|---|
| `tracker` | With failing saves, corrupt files and a recorder that lags, can any interleaving count an instant twice (`DayNeverOverfull`), mark today (`MarkerBeforeToday`), leave a backfilled day different from the recorder (`BakedMatchesRecorder`), fold live what a backfill would not write (`LiveMatchesBackfill`), or change a backfilled day (`BakedDayFrozen`)? | 6 instants, 3 days of 1, 2 and 3 instants, 2 states, 2 setups |
| `tracker_thresholds` | Does an options edit of the glitch threshold rebuild every closed day (`ThresholdRebuilt`)? Is `Tracker`, with glitches, edits and crashes, a day book (`KeepsDayBook`)? | days of 2, 2 and 3 instants, thresholds 0 and 2, 2 setups |
| `tracker_progress` | Does setup end although days close meanwhile (`SetupEnds`), is what is dirty written (`EventuallySaved`), is a clean flag honest (`CleanMeansSaved`)? Does the overlay make the today frame exact while the recorder lags (`TodayIsTrue`)? | days of 1, 1 and 2 instants, a lag of 2 instants, one setup, sound disk |
| `frames` | Is every frame of every tick within its window (`WithinWindow`), never more than the truth (`NeverOverstates`), and does no cumulative frame run backwards while the entity holds its state, but for what a midnight takes after an earlier visit of that state (`HeldVisitKeepsTail`)? | 5 instants, days of 1, 3 and 3, two setups; calendar frames from every midnight, closed frames between any two, rolling frames of 2 and 3 instants with 1 instant of retention, with a recorder that lags by up to one instant and without one |
| `accumulate` | Do the two loops compute the declarative blocks (`QueriedDayMatches`), also the seconds of a window inside a wider query (`SharedQuerySecs`)? | every timeline of 5 instants over two states and the shutdown row, every query, window and threshold of 0, 2, 3, every set of attribute rows |
| `matching` | Does the binary sensor agree with the frames (`SensorAgreesWithFrames`), does what the user asked for stay counted (`WishesStayCounted`), does a heal move a count only among states that fold alike and of which the ledger lacked one (`HealInvisible`)? | three states of which two fold alike, a zone, a name that is blank in canonical form, choices of up to two names (`MaxChosen`) |
| `lifecycle` | Does an issue ever lack a living coordinator that counts its failures (`IssueHasOwner`), are the live entities those of the enabled frames but for what the user disabled (`EntitiesFollowFrames`), does a loaded tracker work with the options as they are (`EditsReachCoordinator`), does a frame that fails for good get its issue, and one that recovered lose it (`IssuesSettle`), do reloads end (`ReloadsEnd`)? | two frames of which one may fail, with and without a threshold, an issue after 3 failures, 2 ticks in flight, 2 of the events users, failures and restarts make (`MaxEvents`; also checked with 3) |
| `seen_states` | Is each new state announced once and only once (`AnnouncedOnce`, `NewIsAnnounced`), does the cap bound the stamps a session adds (`StampsBounded`), do the stamps tell the open visit from those that ended (`StampsTellVisits`)? | 3 states and a cap of 2, 5 instants, 2 sessions |
| `published` | Do shares make a whole (`SharesAddUp`), does the incumbent stay only within the hysteresis (`DominantLeads`), does an entity ever keep an old value (`PublishedIsCurrent`)? | 3 states, windows of 0 and 8 seconds in all their fillings, a whole of 3, one second of tolerance |
| `ledger_file` | Is a fold ever lost without a fault (`FoldsKept`), does a file outlive its entry, or go before it (`FileFollowsEntry`)? | 4 folds, 3 starts, any number of reloads |
| `hass_data` | Is the card registered once whenever its version holds the slot (`InstalledOnce`), is it ever dropped (`CardStays`), does the recorder-off issue settle (`IssueFollowsRecorder`)? | 2 entries, 2 versions, up to 3 resources found at first, 6 setups and restarts |
| `glitch_overfills` | a disagreement between the code and its own words; see *Findings* | – |

*Why the bounds are enough.* The accounting distinguishes, for a visit: which day it begins
in, which day it ends in, whether a day lies wholly inside it, and whether the marker falls
before, inside or after it. Three days and six instants hold all of these; two states make
coalescing, glitches between two visits of one state and overlays of a wrong state possible;
two setups let one restart or reload follow another tracker's life. Days of different lengths keep an accidental 24-hour
assumption from holding. In `tracker` the first day is nearly over at the start, so the second
is watched from its first instant to its last within the bound. `CHECK_DEADLOCK FALSE` stands
in every configuration because time and setups are bounded and an algorithm that returned has
no next step.

In `frames` the second day has three instants, within which a midnight after an earlier visit of
the held state takes nothing yet: the run passes without the exception `Shed` too. With a second day of four
instants, 6 instants and a rolling frame of 4, TLC also finds no error in the three properties (2.7
million states, too many to repeat at each check), and without `Shed` it reports
`HeldVisitKeepsTail` violated; `HeldVisitsKeepTails` proves it with the exception for days of any length.

In `seen_states` three states and a cap of two put a state before, at and past the cap, and two
sessions let what one wrote seed the next; a visit needs two instants. In `published` a window
of eight seconds over a whole of three holds slices that round to nothing, up, down and to the
even one, and gaps below and above the tolerance. In `ledger_file` a write at work, one that
waits and what was folded since need three folds. In `hass_data` an installation that deletes
two duplicates is overtaken by the other entry's in each of its waits.

*Why fairness is justified.* `SetupRuns` is weakly fair because the event loop resumes a
coroutine whose await ended, and every await of setup (query, save, start of Home Assistant)
ends. `Poll` is weakly fair because the poll timer fires while the entry is set up;
`FlushDone \/ FlushFails` because a disk write ends. Nothing forces the entity to change, Home
Assistant to run, or an entry to be loaded. In `EntryLifecycle`, `BringUp` and `Unload` are
weakly fair because Home Assistant sets up an entry it has, retries one that was not ready, and
makes the reloads it scheduled, and their awaits end; `StartTick` because the poll timer fires
while the entry is set up; `FinishTick` because a recorder query ends. Users, failures and
restarts are not fair, and `MaxEvents` bounds them, so that liveness speaks of what follows the
last of them. Frames may go bad and recover without bound. In `HassData` each entry's `Tick` is
weakly fair, as there: the poll timer fires while its coordinator lives.

*Symmetry.* The two available states are interchangeable in the safety runs of `Tracker`
(the refinement's included: it names no state), and so are the states of `seen_states`; the runs
with liveness properties have none.

## Findings

**A glitch can overfill a closed day** (`glitch_overfills`). A visit shorter than
`min_state_duration` just after midnight is added to the bucket of the day on which the visit
before it began, a day that may be full (coordinator.py:429). The run's counterexample is a day
of two instants that holds three.

Known differences that no run shows, because each is a variant of the one above, a matter of
wording, or excluded by a condition of the property that would meet it:

- A crash between a day's two saves (coordinator.py:662): if the next start finds no recorder,
  the marker still lies before the replaced day and the live fold of the restored visit adds its
  seconds again, against coordinator.py:615 ("a crash mid-backfill re-runs the same days rather
  than double-counting them"). The runs of `Tracker` have a recorder at every start.
- The tail of a stale anchor (engine.py:537): if the entity changed while the tracker was not
  subscribed, the restored anchor names the old state; its tail is laid over days the backfill
  filled with the new state, and the breakdown exceeds the window that engine.py:585 says it
  cannot exceed. `WithinWindow` asks for an anchor that is the entity's visit.
- The 24 hour frame without a recorder (coordinator.py:727): its slice is the whole of today,
  so on a day of 25 hours, in the hour before midnight, it holds more than 24 hours, against
  the same invariant. `NothingOverstated` asks for rolling frames no shorter than a day there; in
  the run of `Frames.cfg` they are not.
- An `unavailable` visit held over midnight by a running Home Assistant (engine.py:541): a
  backfill gives the time after it to the state before it, for lack of the row it drops, and
  the tail of the anchored `unavailable` visit is laid over the same day again. In the run of the
  frames a running entity is never unavailable.
- A continuation counted as an entry (engine.py:245): only the first row of a query can be a
  continuation, but a tick hands every frame the rows of its widest rolling frame, so a visit
  that straddles a window's start may be counted again. `QueriedDayMatches` compares counts for
  queries that begin with the window, `SharedQuerySecs` only seconds.
- A picked state healed to its sibling (coordinator.py:569): the form always offers `not_home`;
  if the entity has so far only been in a zone called "Not home", the heal rewrites the picked
  `not_home` to the recorded `not home`, for good, against helpers.py:109. `WishesStayCounted`
  holds as long as no two states of the entity fold alike, and `HealInvisible` says that a heal
  changes a count in no other way.
- A midnight after an earlier visit of the held state (engine.py:544): the day already holds time
  of that state, so the open visit's tail is not carried into it, and the cumulative frames lose
  the open visit's part of that day until the next fold. CHANGELOG.md:12 claims that "the counter stays
  monotonic" and grants that a visit which follows others on its day "is covered on the entity's next
  state change"; `HeldVisitKeepsTail` says that nothing more is lost, and nothing of any other state.
- The shares of a window with a gap may exceed a whole by the rounding, since the remainder is
  not negative, against engine.py:597 ("sums to EXACTLY 100.00"); `SharesAddUp` allows a unit
  for each state then.
- The stamps of past-cap states: `_seen` is seeded from the ledger, whose buckets hold names past
  the cap, so over restarts `_seen` and the stamps do exceed `_SEEN_CAP` (coordinator.py:354
  against :99; `StampsBounded` speaks of one session). The state a fresh install anchors is not
  in `_seen`, so it is announced when it is entered again.
- An attribute event stamps `last_exited` of the state that is still held, at the time it was
  entered (coordinator.py:366; `StampsTellVisits` allows the tie).
- An unload with nothing dirty does not wait for a write in flight, and the setup after it may
  read the file before that write lands (coordinator.py:301; `FoldsKept` excuses it).
- A coordinator whose platforms did not unload keeps writing after its entry was removed, and
  its file stays until the purge of the next start (`__init__.py:284`; `FileFollowsEntry`
  excuses it).
- `_async_flush` clears `_dirty` before the save and nothing sets it again when the save
  raises, so an unload or a stop that follows writes nothing (coordinator.py:309 against :300,
  "Persist the in-memory ledger if it has unsaved mutations"; `CleanMeansSaved` is therefore
  checked with a disk whose saves succeed).
- A target threshold, once set, cannot be removed: an empty field of the options form is filled
  with its default, the stored threshold, and were it not, the one in the entry's data would show
  through (config_flow.py:657 and :573, coordinator.py:122), against the repository's
  CHANGELOG.md:13, which has the compliant sensors disabled "when a threshold is removed".
  `Submitted` models it.
- An options edit stored while a setup runs is not applied until the next reload, because the
  coordinator has read the old options and nothing listens yet (`__init__.py:150` and `:159`
  against the repository's README.md:125, "Frame and target changes reload the entry
  automatically").
- If a platform does not unload and the entry is being removed, its coordinator lives on and may
  still raise an issue, now of no entry (`__init__.py:268`; `IssueHasOwner` asks for a
  coordinator, not for an entry).
- What `disable_orphaned_entities` enables again may be an entity that Home Assistant registered
  as disabled because the user wants new ones so.

In the numbers: a backfill drops the trailing `unavailable` row of the day it began on, also when the
entity really was unavailable and came back on the next day, while the live fold keeps it
(engine.py:309 against :301 and coordinator.py:388; in `Tracker` an available entity is what
`Live` says). With two states that fold alike, a configured one resolves to the other in a
frame in which it does not occur itself, because each frame is matched on its own, and the binary sensor,
which compares canonical forms, is on in either. `_resolve_states` may return no name at all
for a stray `___` (config_flow.py:339), and such an entry is then no longer offered its states
by the options flow, which takes it for one without (config_flow.py:593). With a threshold set, a glitch near midnight makes the live bucket differ from a
backfill's (coordinator.py:425 against :388; this is why `LiveMatchesBackfill` is checked with
threshold 0). A backfilled day whose blocks are all glitches is not written, so a bucket folded
before the restart stays (coordinator.py:661 against :614; `ThresholdRebuilt` leaves such days
out, `BakedMatchesRecorder` is checked with threshold 0). `_handle_state_change` runs for
attribute events too and then names the current state as `_previous_state` (coordinator.py:335
against :151). A fresh install anchors the open visit at the moment it subscribes, so at the
first midnight the cumulative frames lose the part of the visit before
(coordinator.py:283 against CHANGELOG.md:12; hence the condition on `exact` in
`HeldVisitKeepsTail`). A backfill within the recorder's commit interval after midnight bakes
the closed day without its last rows for good (coordinator.py:664).

## Proofs

`TrackerProofs` proves for every number and length of days, every finite set of
states and every bound, `AccumulateBlocksProofs` for every timeline, query, window and threshold,
`EntryDataProofs` for every set of names, every fold of them and every number of folds and starts,
`EntryLifecycleProofs` for every set of frames and every bound, `SeenStatesProofs` for every finite
set of states and every cap, `PublishedProofs` for every set of states and windows, `HassDataProofs`
for every set of entries, versions and resources:

| Theorem | Statement | Holds with |
|---|---|---|
| `TypeCorrect` | `Spec => []TypeOK` | any constants |
| `MarkerStaysBeforeToday` | `Spec => []MarkerBeforeToday` | any constants |
| `BakedDaysFrozen` | `Spec => BakedDayFrozen`: while the entry is set up, a day at or before the marker changes only by the prune | any constants |
| `TrackerKeepsDayBook` | `Spec => KeepsDayBook`: `Tracker` implements `DayBook` | any constants |
| `CleanIsSaved` | `~DiskMayFail /\ Spec => []CleanMeansSaved` | a disk whose saves succeed |
| `NoDayOverfull` | `PlainSetting /\ Spec => []DayNeverOverfull` | no glitch threshold, a recorder at every start |
| `EveryThresholdRebuilt` | `MaxLag <= 1 /\ Spec => []ThresholdRebuilt` | answers that lack at most the newest instant |
| `BakedDaysMatch` | `PlainSetting /\ MaxLag <= 1 /\ Spec => []BakedMatchesRecorder` | the conditions of the last two |
| `LiveDaysMatch` | `Thresholds \subseteq {0} /\ Unavailable \notin Live /\ Spec => []LiveMatchesBackfill` | no glitch threshold, an entity that is never unavailable |
| `TodayStaysTrue` | `Thresholds \subseteq {0} /\ Unavailable \notin Live /\ Spec => []TodayIsTrue` | the same, and any lag |
| `NothingOverstated` | `Thresholds \subseteq {0} /\ Unavailable \notin Live /\ (RecorderMayBeOff => LongFrames) /\ Spec => []NeverOverstates` | the same, any lag, and where there may be no recorder, rolling frames at least as long as the longest day |
| `NoFrameOverfull` | `PlainSetting /\ MaxLag <= 1 /\ Unavailable \notin Live /\ Spec => []WithinWindow` | no glitch threshold, a recorder at every start that lacks at most the newest instant, an entity that is never unavailable |
| `HeldVisitsKeepTails` | `Thresholds \subseteq {0} /\ MaxLag <= 1 /\ Unavailable \notin Live /\ Spec => []HeldVisitKeepsTail` | the same, with a recorder or without one |
| `LoopsComputeDays`, `SharedQueryServesWindows` | `Spec => []QueriedDayMatches`, `Spec => []SharedQuerySecs` of `AccumulateBlocks` | any constants |
| `NamesTyped` | `Spec => []TypeOK` of `TrackedStates` | any constants |
| `SensorsAgree` | `Spec => []SensorAgreesWithFrames` | any constants |
| `WishesAreCounted` | `Spec => []WishesStayCounted` | any constants |
| `HealMovesOnlySiblings` | `Spec => HealInvisible` | any constants |
| `LifecycleTyped` | `Spec => []TypeOK` of `EntryLifecycle` | any constants |
| `NoStrandedIssue` | `Spec => []IssueHasOwner` | any constants |
| `EntitiesFollow`, `EditsReach` | `Spec => []EntitiesFollowFrames`, `Spec => []EditsReachCoordinator` | any constants |
| `StatesTyped` | `Spec => []TypeOK` of `SeenStates` | any constants |
| `EachAnnouncedOnce`, `NewOnesAnnounced` | `Spec => []AnnouncedOnce`, `Spec => []NewIsAnnounced` | any constants |
| `StampsStayBounded`, `StampsTellTheVisits` | `Spec => []StampsBounded`, `Spec => []StampsTellVisits` | any constants |
| `PublishedStaysCurrent`, `DominantStaysInLead` | `Spec => []PublishedIsCurrent`, `Spec => []DominantLeads` | any constants |
| `SharesMakeAWhole` | `FineShares /\ Spec => []SharesAddUp` | fewer states, squared, than share units; windows that are empty or exceed the tolerance |
| `NoFoldLost`, `FileGoesWithEntry` | `FileSpec => []FoldsKept`, `FileSpec => []FileFollowsEntry` | any constants |
| `InstalledOnceAtRest`, `CardIsNeverLost` | `Spec => []InstalledOnce`, `Spec => CardStays` | any constants |

Failing saves, corrupt files, a lagging recorder, crashes and restarts are allowed in the theorems
about `Tracker`, but for what the last column says. The assumptions are those the modules name: days are consecutive intervals that cover the line
of instants (`LocalDaysAssumption`), the states are finitely many and none is the absence of a
state (`NamesAssumption`), none that is available is `unavailable` (`AvailableAssumption`), thresholds are naturals
(`TrackerAssumption`, `DurationsAssumption`), no save and no fold are none of
their kind (`NoneAssumption`), the fold is
idempotent and no state of the entity folds to the blank name (`FoldAssumption`), and fewer
ticks are in flight than failures raise an issue (`LifecycleAssumption`), the absence of a
state, a file or a version is none (`SeenAssumption`, `LedgerFileAssumption`,
`HassDataAssumption`), and an entity that is not added and an empty cache are no value and no triple
(`SentinelAssumption`). `PlainSetting` cannot be dropped: `glitch_overfills` is a counterexample
without its first half, the crash between a day's two saves one without the second.
`CleanIsSaved` needs sound saves because of the flag a failed flush leaves cleared (*Findings*).
`MaxLag <= 1` says that when a backfill reads a closed day no row of it is missing: the backfill
runs at an instant after that day's last. A recorder whose answers lag by more than that lets the
backfill bake the day without its last rows, for good (*Findings*). `LiveDaysMatch` needs neither:
what is folded live never asks the recorder. Its conditions are the two differences between the
live path and the backfill that *Findings* names, glitches at midnight and the trailing
`unavailable` row.

*`IInv` (TrackerProofs).* The first three properties are not inductive alone. The marker is set
to `day`, so it stays before today only if the backfill's `day` is before the `today` it
captured, and that one no later than the day it now is (`SetupOrder`); and a ledger in a save
that has not ended must be as good as the others (`MarkersPast`). A glitch is added to the
bucket `_last_fold` names, so a baked day stays frozen only if that day is after the marker
(`FoldsAfterMarker`), which holds because a fold starts after the marker (`FoldedLastType`),
`_last_fold` dies with its coordinator, and the marker moves only before the tracker is live.
`IInv` is their conjunction with `TypeOK`; `NextIInv` takes it through every action, and
`HandleStateChangeFrozen` gives the step property.

*`Accounting` (TrackerProofs).* That no instant is counted twice needs to be said of every
ledger, also of one that a crash left on disk half-way through a backfill:

- a day *after* the marker is the live path's, and holds no more than had passed of it at the
  anchor or at the entity's last change, whichever was first (`Watched`): that is what keeps
  the next fold, which starts at the anchor, from counting it again;
- or it is a day a backfill wrote and did not live to mark (`Unmarked`), and then the next
  backfill starts at it, or beyond it at a later cutoff, before anything is folded;
- a day up to the marker is a full day at most, and no fold touches it (`BakedDaysFrozen`'s
  lemma);
- `BackfillPlace` and `BackfillAhead` say where the running backfill stands, and that it has
  written nothing ahead of that; when it ends, every day after the marker is watched.

The arithmetic under it counts cells: the seconds of a bucket are a finite set of pairs of a
state and a number (`Cells`), a fold adds at most as many as the split gives the day
(`DaySecsFolded`), and a backfilled day has at most one for each instant, because each instant
belongs to one block (`CellsOfInstants`, by an injection; `BackfillBlocksBounded`).

*`Inv` (EntryDataProofs).* The two properties of the sensors look at one state, but what the
user asked for is several steps away from it: resolved when it was chosen, rewritten by any
number of heals, matched in a frame. The invariant says that every name of the ledger, of the
recorder and of the anchor is one the entity has shown (`KnownShown`), so that `Unambiguous`
speaks of all of them, and that each wish has a stored name with the same fold
(`WishesStored`). Matching keeps the fold (`MatchIsRecorded`), hence so do resolving and healing;
and with no two shown states alike, two names of the same fold match the same recorded name.
That the heal moves a count only among siblings needs none of this: a stored name that matched one
recorded state is compared, in every frame, with that state in its place. Both have the same fold, so
a state of the frame is matched by one and not by the other only if the frame holds several of that
fold. If all of them were in the ledger, the name matched only because it is one of them, and stayed as
it is; so the heal did not know one of them, which is `LateSibling` (`HealedValueMatches`,
`HealedCountsTheSame`).

*`LoopInv` (AccumulateBlocksProofs).* The loops go by rows, `DayBlocks` by instants, and the invariant
says of each place in the loops what the instants before it have come to. `carry_forward_states` drops
a row; what is left are the rows of the carried timeline (`CarriedRows`), also when attribute rows
repeat a state, because the trailing shutdown row is never one of those (`AvailableAssumption`, which
`Init` draws the repeats from). While rows are collected, the blocks so far are a chain from the first state to
the next row (`Chain`, `Reached`), each a stretch of one state that ends where the timeline leaves it,
and before the first there is no state (`NoneBefore`); its flag says whether the state was entered
within the window (`RowCollected`). While blocks are filtered, the surviving visits hold, for each state,
as many seconds as the instants filtered so far that `DayBlocks` gives it (`Share`, `Given`), and as many
counted visits as it says begin there (`Visits`), and the last of them is in the state
that a glitch would go to (`FilteredTo`, `BlockFiltered`). At the end the instants are those of the window.
For rows queried from before it only the flag of the first block can be wrong, so the
seconds hold for every query and the counts for those that begin with the window.

*`IInv` (EntryLifecycleProofs).* That no issue is stranded rests on two things the property does
not say. An unload clears the issues by clearing streaks, so every issue must have one, and an
issue of a coordinator that is not alive cannot exist at all; and a tick that resumes after the
streaks were cleared counts again, so the streak of a frame and the ticks in flight together
must stay below the escalation (`LateTicks`). `Phases` says in which states of the entry the
coordinator is alive. For the entities the invariant is `EntitiesFollowFrames` said of each
platform that is set up while the other is not (`AddedFollow`), with no entity live before its
own platform is (`NothingEarly`): `SetUpPlatform` establishes it for its own entities and leaves
the others alone, which is what the domain check of `disable_orphaned_entities` is for. For edits
it is what the property says, from the moment the entry is read, and that a loaded entry has its
listener (`EditsHeard`).

*The refinement (TrackerProofs).* A step of `Tracker` is one of the day book's or leaves it
alone. Most of it is `IInv` read again: a fold writes pages of days after the marker only, so it
is a `Write`; `BackfillMark` is a `Seal`, whose day must be the next one; a flush is a `Prune`
that may leave a save under way. What is new (`BookInv`) is that the backfill's `day` follows the
marker, that only a tracker that is set up has a save in flight, and that no ledger outlives its
coordinator.

*`CleanInv` (TrackerProofs).* A clean flag is honest at rest because of what it means while a flush
is in flight: then it is the ledger being saved that holds the one in memory (`Holds`), but for
buckets below the cutoff, which only moves on (`CutoffMonotone`); and until the first refresh has
flushed, the flag is not clean at all.

*`Rebuilding` (TrackerProofs).* `ThresholdRebuilt` speaks of the tracker's threshold, but a file may
outlive it. So the invariant speaks of the threshold a ledger was built with: of every ledger, in
memory, on disk or in a save, each marked day holds what that threshold makes of the entity's
timeline (`Rebuilt`). A ledger built with another than the tracker's is begun anew (`Held`); the
backfill goes day by day after the marker (`BackfillPlace`), and between the two saves of a day the
day is rebuilt already. That what the recorder answers of a closed day is the timeline is the lag
(`VisibleIsTold`), and that the past does not change `PastStays`.

*`Tracing` (TrackerProofs).* `BakedMatchesRecorder` goes further: a day the backfill found empty,
and therefore did not write, has no bucket either, whatever was folded before a crash or a reload.
So every bucket must be of a day in which the entity had a state by the time the recorder can tell
of (`TracedIn`, `Occupied`). A fold keeps that because an anchored ledger knows the entity had a
state on each day since its anchor or its setup began (`Known`, `Recalled`), and setup has marked
every day before (`Covered`); a backfill because it has a block for every state of its day
(`NothingIsTold`).

*`Following` (TrackerProofs).* A bucket that is folded live is compared with a count over the
timeline: the instants and the visits of the state on that day before the anchor (`Tally`). The
invariant says that each day that began since the tracker knows the entity's visits holds just
that, that the anchor is in the entity's state, where that state began, and that no visit of it was
folded last, so that a fold neither coalesces with the one before nor counts a visit twice
(`Watching`). Once the anchor is past the day, the tally is what a backfill would write of it
(`TallyAgrees`, `FullDayIsTallied`).

*`Present` (TrackerProofs).* That the today frame is exact needs to know of the entity, not of the
ledger, what the recorder's rows can hide: that it keeps having a state once it has one
(`StaysShown`), so that no instant's state is carried from another; and that neither it nor the
state before an uncommitted change is `unavailable`, which `CarryForward` would replace. Then what a
tick takes the entity to have shown is what it did, at every instant before now (`WindowIsTrue`): up
to `committed` because that is what the rows say, after it because the open visit is laid over them.
The seconds of a state over a window of such a timeline are the instants it was in it.

*`Modest` and `WellCut` (TrackerProofs).* That a frame gives no state more time than it had is an
argument about three disjoint sets of instants of the window: the ledger's days hold instants before
the anchor (`LedgerPart`, from `Modest`: no day watched since its first instant holds more than its
tally), the tail of the open visit instants from the anchor to the frame's last whole day
(`TailPart`), and the recorder's slice instants from there on (`RecentPart`, from `WindowIsTrue`).
That the three do not overlap is how the frame is cut: the ledger's days end where the slice begins
(`WellCut`), which `FramesWellCut` proves of every calendar and rolling frame. Without a recorder
the slice begins at the local midnight, also when the rolling window begins after it, so a rolling
frame shorter than its day is not well cut; `LongFrames` says that there is none (a day frame on a
day of 25 hours is one, *Findings*).

*`Settled` and `Reach` (TrackerProofs).* That no breakdown exceeds its window is said of all
states together, and of trackers that have not known the entity's visit since before the frame
began. So it does not ask what the ledger's seconds stand for, only how many there are: each day
holds no more than was over of it at the anchor (`Watched`, from `NoDayOverfull`), or it is over
and as the backfill would write it (`Settled`). Either way its seconds fit below an instant
`Reach(d)`, the anchor or the day's end (`DayFits`). The tail then begins after it: it is carried
only into days that have nothing of the open visit's state, and a backfill of a day that the visit
reaches back into would have written some (`TailFits`; that the anchor is not before
`last_changed` is `AnchorFollows`). The ledger's seconds are summed by state and bounded by day, so
the proof turns the table (`SumSwapped`). A stale anchor breaks the argument at `TailFits`, as it
does the property (*Findings*); a glitch threshold breaks it at `Watched`
(`GlitchOverfills.cfg`).

*`Holding` (TrackerProofs).* That a frame does not run backwards compares two ticks an instant
apart. Within a day the slice grows with the timeline (`SliceGrows`) and the tail with the open
visit (`TailGrows`). At midnight the slice is gone, and the day's bucket and the tail must make up for
it (`SliceKept`): `Following` has the bucket hold just the instants before the anchor, and what the
slice had after it is the open visit's. The tail covers that if the bucket has none of the visit's
state; if it has some, it is what the property grants as `Shed` (`FrameKept`).

*`CacheInv` (PublishedProofs).* The cached triple does not say what Home Assistant holds, since a
direct write goes past it. What it says is enough: a cache that is set has the availability there
is now, for `frame` also the data there are now, and that of an entity that is not added is empty.
`DominantLeads` holds because the data are always a result of `compute_frame` or none, whose prior
state the invariant bounds.

*`FineShares` (PublishedProofs).* The shares are rounded each for itself, a share that would round to
zero is set to one unit, and the largest slice absorbs what that adds up to. It can give up as much as
that only if it is large enough: with n slices the drift is n units at most, the largest holds an nth
of the covered time at least, and the time that may be uncovered is less than the window, so n squared
units must fit in the whole (`LargestHasShare`). With 10000 units that is 99 states. The condition is not
idle: of 198 states with equal times each would be shown as 0.51 %, and the largest, one of them, is
left with -0.47 % (engine.py:616). Nor is the one on the windows: one no longer than the tolerance
counts as covered with no time in it at all. Sums over a breakdown are proved about with
`FoldInduction`, where a set takes the place of the induction theorem's operator (`FiniteSums`).

*`SeenInv` and `StampInv` (SeenStatesProofs).* What was announced is exactly what `_seen` gained
since the session began (`Gained`), and an event that `_seen` did not gain found it full
(`HeardOrFull`); the bound of the stamps is the cardinality of `_seen`, of which they are a part
but for those the session began with (`StampsSeen`, `SeenBounded`). For what the stamps tell, no
stamp may be later than the entity's last change (`Early`), so that the stamp of an event is the
latest there is, and the state of the anchor, once stamped, must be in `_seen` (`AnchorSeen`),
or its end would go unstamped: after a restart that holds because the seed includes the anchor.

*`Kept` and `Follows` (EntryDataProofs).* A living coordinator's ledger has all folds
(`InLedger`), and if it is clean with no failed save, the newest of its writes has them too, or,
with no write left, the file (`HandedOn`): that is what it leaves behind (`LeftBehind`). The
rollback takes nothing back because what it restores is the object that is mutated. For the
file's end, once an entry is gone nothing of it runs unless it outlived it.

*`CardInv` (HassDataProofs).* Installations that overlap are of one version, the one on disk
(`Claims`); each keeps the first resource, which is the first for all of them because nobody
deletes it, and has left to delete every other that is still there (`Working`). So the last of
them to end leaves one resource, at its version, or frees the slot (`Registered`).

The invariants of `Tracker` were first checked with TLC on the instance of `Tracker.cfg` and on one with
three setups; that of `TrackedStates` on its own instance.

The recorder's and the sums' definitions need least and greatest members of sets of instants. The
library's induction theorems take an operator as a parameter and cannot be used here, but that
the naturals are well-founded needs none (`NatLessThanWellFounded`, `WFMin`): every set of naturals
with a member has a least one (`LeastNatural`), from which `MinMember` and `MaxMember` follow, and
so do the two inductions over finite sets that the sums need (`FoldInduction`, `PartInduction`). What
`FiniteSums` proves of the library's `SumFunction` with them is what every proof about seconds uses:
a sum may begin with any member (`SumWithout`), adds up with another (`SumAdded`), gains what one
more value has (`SumExtended`), is the same by rows and by columns (`SumSwapped`), and counts no more
than the members of disjoint sets that its values count (`SumWithin`).

Model-checked only: liveness (`SetupEnds`, `EventuallySaved`, `IssuesSettle`, `ReloadsEnd`,
`IssueFollowsRecorder`; a temporal proof under fairness needs `ENABLED`). Beyond the theorems'
conditions, too, the runs are what there is: `WithinWindow` in a tracker that may find no recorder, and glitch thresholds
above 0 for everything but `EveryThresholdRebuilt` and the theorems that hold with any constants.

## Not modelled, and the plan

What could still be modelled, by weight:

1. *Overlapping ticks.* The poll and the debounced refresh may wait for the recorder at the same
   time and finish in either order, and a tick goes on with the `now` it began with. In
   `TrackerFrames` a tick's frames are those of the instant its query is answered.
2. *The compliance target* in `TrackedStates`: a second list, resolved, healed and counted like
   the tracked states; the flow that stores both; the percent it is compared with.
3. In `TrackerFrames`: the counts of frames, coverage, and the calendar of week, month and year
   frames (a window between any two midnights covers their seconds already).
4. *The rest of the card's installation*: YAML resources, a Lovelace that is not there, users who
   edit the resources meanwhile.

Out of reach or of no interest here: the recorder's SQL, Home Assistant's scheduler and
registry internals (modelled from how the integration uses them), form layout, translations,
logging, the card's rendering, diagnostics. `storage.py`'s `fold_into_day` and `prune_days`
have no caller in the integration, and its load lock is not contended by the callers it has.
