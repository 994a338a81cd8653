--------------------------- MODULE TrackedStates ---------------------------
(***************************************************************************)
(* Which recorded states a tracker counts.  A configured name and a        *)
(* recorded one may differ in separators ("city_centre", "city centre"):   *)
(* the config flow resolves what the user chose, setup heals what is       *)
(* stored, and frames and sensors match what is recorded, all of them over *)
(* a fold of names that is many-to-one.                                    *)
(*                                                                         *)
(* Names are in lower case, as the ledger and the coordinator hold them.   *)
(***************************************************************************)
EXTENDS Integers, FiniteSets

CONSTANTS
    Names,          \* state names, as recorded or as typed
    Fold,           \* normalize_state
    Emittable,      \* the states the entity can show
    Typable,        \* the names a user may choose or type
    ZoneMap,        \* _zone_state_map: canonical zone names and ids -> state
    AlwaysOffered,  \* offered whether recorded or not (not_home, unknown, ...)
    MaxChosen,      \* bound: how many names are chosen at once
    Blank,          \* the empty name
    NoMatch         \* match_state = None

ASSUME FoldAssumption ==
    /\ Fold \in [Names -> Names]
    /\ \A n \in Names : Fold[Fold[n]] = Fold[n]
    /\ Emittable \subseteq Names
    /\ \A s \in Emittable : Fold[s] # Blank
    /\ Typable \subseteq Names \ {Blank}
    /\ AlwaysOffered \subseteq Names \ {Blank}
    /\ DOMAIN ZoneMap \subseteq Names
    /\ \A z \in DOMAIN ZoneMap : ZoneMap[z] \in Names
    /\ Blank \in Names /\ Fold[Blank] = Blank
    /\ NoMatch \notin Names

VARIABLES
    live,       \* the entity's state
    rows,       \* the names in the recorder's rows of today
    closed,     \* those of closed days that setup has not backfilled yet
    daily,      \* the names in the ledger's buckets
    last,       \* the ledger's last_state, or NoMatch
    entry,      \* "none", "starting" or "up"
    stored,     \* CONF_STATES of the config entry
    tracked,    \* the coordinator's tracked_states
    wished,     \* history: the names the user asked for
    shown       \* history: every state the entity has shown

entity == <<live, rows, closed, shown>>
vars == <<live, rows, closed, daily, last, entry, stored, tracked, wished, shown>>
-----------------------------------------------------------------------------
(* Matching.                                                               *)

FoldHits(name, real) == {r \in real : Fold[r] = Fold[name]}

\* match_state: the name itself if it is recorded, else the one recorded name
\* that folds to the same, else none.
MatchState(name, real) ==
    IF name \in real THEN name
    ELSE IF \E r \in real : FoldHits(name, real) = {r}
    THEN CHOOSE r \in real : FoldHits(name, real) = {r}
    ELSE NoMatch

\* resolve_wanted: each recorded name once.
ResolveWanted(subset, real) == {MatchState(s, real) : s \in subset} \ {NoMatch}

\* _resolve_state: a recorded name, else the state of a zone, else the
\* canonical form of what was typed.
ResolveState(raw, seen) ==
    IF MatchState(raw, seen) # NoMatch THEN MatchState(raw, seen)
    ELSE IF Fold[raw] \in DOMAIN ZoneMap THEN ZoneMap[Fold[raw]]
    ELSE Fold[raw]

\* _resolve_states; a name that is blank in canonical form is dropped.
ResolveStates(raw, seen) == {ResolveState(s, seen) : s \in raw} \ {Blank}

\* _ledger_seen_states.
LedgerNames == daily' \cup ({last} \ {NoMatch})

\* Mutant: a value that is not recorded at present is dropped.
HealedRecordedOnly(values, real) == ResolveWanted(values, real)

\* Mutant: a value that is not recorded at present becomes None.
HealedToNone(values, real) == {MatchState(v, real) : v \in values}

\* Mutant: of several states that fold alike some one is taken.
HealedToSome(values, real) ==
    {IF FoldHits(v, real) = {} THEN v ELSE CHOOSE r \in FoldHits(v, real) : TRUE : v \in values}

\* _heal_config_states: every value that is one recorded state becomes it,
\* the others stay.
Healed(values, real) ==
    {IF MatchState(v, real) = NoMatch THEN v ELSE MatchState(v, real) : v \in values}
-----------------------------------------------------------------------------
(* What the sensors make of it.                                            *)

\* The names in today's frame and in one that reaches back to the ledger's
\* first day.  compute_frame adds the open state to each.
TodayKeys == rows \cup ({last} \ {NoMatch})
LongKeys == TodayKeys \cup daily

\* What _subset_percent and _tracked_seconds count of a frame.
Counted(keys) == ResolveWanted(tracked, keys)

\* Mutant: raw names are compared.
IsOnRaw(state) == state \in tracked

\* CurrentlyInStateBinarySensor.is_on for a live state.
IsOn(state) == \E t \in tracked : Fold[t] = Fold[state]
-----------------------------------------------------------------------------
Choices == {raw \in SUBSET Typable : raw # {} /\ Cardinality(raw) <= MaxChosen}

(* A new installation, or an entry that an earlier version wrote, with the *)
(* names as they were typed.                                               *)
Init ==
    /\ live \in Emittable
    /\ rows = {live}
    /\ closed = {}
    /\ daily = {}
    /\ last = NoMatch
    /\ shown = {live}
    /\ tracked = {}
    /\ \/ entry = "none" /\ stored = {}
       \/ entry = "starting" /\ stored \in Choices
    /\ wished = stored

\* The entity changes.  _handle_state_change puts the state it leaves into a
\* bucket and the new one into the anchor.
Change(s) ==
    /\ s # live
    /\ live' = s
    /\ rows' = rows \cup {s}
    /\ shown' = shown \cup {s}
    /\ IF entry = "up"
       THEN daily' = daily \cup {last} /\ last' = s
       ELSE UNCHANGED <<daily, last>>
    /\ UNCHANGED <<closed, entry, stored, tracked, wished>>

Midnight ==
    /\ rows # {live}
    /\ rows' = {live}
    /\ closed' = closed \cup rows
    /\ UNCHANGED <<live, daily, last, entry, stored, tracked, wished, shown>>

\* The last bucket with this name is pruned, and its rows are purged.
Age(s) ==
    /\ s \in (daily \cup closed) \ rows
    /\ daily' = daily \ {s}
    /\ closed' = closed \ {s}
    /\ UNCHANGED <<live, rows, last, entry, stored, tracked, wished, shown>>

\* The names that ten days of the recorder's rows may hold.
Recent == rows \cup closed \cup daily

\* _async_seen_states: the present state, what is always offered, and what the
\* recorder gives of its rows: the last names up to a cap, or none if it fails.
Offered(given) == {live} \cup given \cup AlwaysOffered

\* What the user asked for by name rather than by a zone's id.
Named(raw, seen) ==
    {s \in raw : MatchState(s, seen) # NoMatch \/ Fold[s] \notin DOMAIN ZoneMap}

\* The specific leg of the config flow, or an options edit: the chosen names
\* are resolved and stored, and the entry is set up (again).
Choose(raw) ==
    /\ \/ entry = "none"
       \/ entry = "up" /\ stored # {}
    /\ \E given \in SUBSET Recent :
        /\ stored' = ResolveStates(raw, Offered(given))
        /\ wished' = Named(raw, Offered(given))
    /\ entry' = "starting"
    /\ tracked' = {}
    /\ UNCHANGED <<entity, daily, last>>

\* A restart of Home Assistant.
Restart ==
    /\ entry = "up"
    /\ entry' = "starting"
    /\ tracked' = {}
    /\ UNCHANGED <<entity, daily, last, stored, wished>>

\* First refresh: the backfill writes the closed days, then the heal runs over
\* what the ledger holds; a value that changed is also written to the entry.
\* At the start of Home Assistant a fresh ledger is anchored at the live state.
SetUp ==
    /\ entry = "starting"
    /\ daily' = daily \cup closed
    /\ closed' = {}
    /\ tracked' = Healed(stored, LedgerNames)
    /\ stored' = tracked'
    /\ last' = IF last = NoMatch THEN live ELSE last
    /\ entry' = "up"
    /\ UNCHANGED <<live, rows, wished, shown>>

Next ==
    \/ \E s \in Emittable : Change(s) \/ Age(s)
    \/ Midnight
    \/ \E raw \in Choices : Choose(raw)
    \/ Restart
    \/ SetUp

Spec == Init /\ [][Next]_vars
-----------------------------------------------------------------------------
(* Properties.                                                             *)

TypeOK ==
    /\ live \in Emittable
    /\ rows \subseteq Emittable
    /\ closed \subseteq Emittable
    /\ daily \subseteq Emittable
    /\ last \in Emittable \cup {NoMatch}
    /\ entry \in {"none", "starting", "up"}
    /\ stored \subseteq Names
    /\ tracked \subseteq Names
    /\ entry = "up" => tracked = stored
    /\ wished \subseteq Typable
    /\ shown \subseteq Emittable

\* No two states the entity has shown fold alike.
Unambiguous == \A a, b \in shown : Fold[a] = Fold[b] => a = b

(* The binary sensor, which compares canonical forms with the live state,  *)
(* and the frames, which match the recorded names, agree on whether the    *)
(* state the entity is in is a tracked one, once the ledger follows it     *)
(* (normalize_state: "config flow, engine, sensors must all agree").       *)
SensorAgreesWithFrames ==
    entry = "up" /\ last = live /\ Unambiguous =>
        \A keys \in {TodayKeys, LongKeys} : IsOn(live) <=> live \in Counted(keys)

(* What the user asked for stays counted in every frame it occurs in,      *)
(* however spelled, through restarts, heals and days that age out of the   *)
(* ledger, as long as no two states of the entity fold alike.              *)
WishesStayCounted ==
    entry = "up" /\ Unambiguous =>
        \A w \in wished : \A keys \in {TodayKeys, LongKeys} :
            \A s \in keys : Fold[s] = Fold[w] => s \in Counted(keys)

\* Two names of a frame fold like s, one of which the ledger did not hold when
\* the heal ran.
LateSibling(s, keys) ==
    \E r \in FoldHits(s, keys) \ LedgerNames : FoldHits(s, keys) # {r}

(* The heal is invisible but for siblings that come later: in every frame  *)
(* of states the entity can show, recorded yet or not, the healed values   *)
(* count just the states the stored ones would, except among states that   *)
(* fold alike and of which the heal did not know all.                      *)
HealInvisible ==
    [][SetUp => \A keys \in SUBSET Emittable : \A s \in keys :
            \/ s \in ResolveWanted(tracked', keys) <=> s \in ResolveWanted(stored, keys)
            \/ LateSibling(s, keys)]_vars
=============================================================================
