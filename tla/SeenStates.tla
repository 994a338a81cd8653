----------------------------- MODULE SeenStates -----------------------------
(***************************************************************************)
(* What a coordinator remembers of the states its entity has shown: the    *)
(* set _seen, bounded by _SEEN_CAP and kept for the session, from which    *)
(* new states are announced, and the stamps last_entered and last_exited,  *)
(* which the ledger keeps over restarts.                                   *)
(*                                                                         *)
(* Setup is one step here, and of the daily buckets only the names count:  *)
(* Tracker has the rest of both.                                           *)
(***************************************************************************)
EXTENDS Integers, FiniteSets

CONSTANTS
    States,         \* the states the entity can show
    NoState,        \* no anchor, or an entity that is not there
    Cap,            \* _SEEN_CAP
    MaxTime,        \* bound: the last instant
    MaxSessions     \* bound: the sessions

ASSUME SeenAssumption ==
    /\ IsFiniteSet(States)
    /\ NoState \notin States
    /\ {Cap, MaxTime, MaxSessions} \subseteq Nat \ {0}

VARIABLES
    clock,          \* the present instant
    entity,         \* the state Home Assistant holds of the entity
    since,          \* its last_changed
    ledger,         \* the ledger in memory
    disk,           \* the ledger on disk
    live,           \* a coordinator is set up and subscribed
    seen,           \* its _seen
    sessions,       \* how many of MaxSessions began
    announced,      \* this session: how often each state was announced
    heard,          \* this session: the states of the events handled
    seed,           \* this session: what _seen began with
    before,         \* this session: the states that were stamped at its begin
    capped          \* an event found _seen full, in this session or before

source == <<clock, entity, since>>
session == <<live, sessions, seed, before>>
vars == <<source, ledger, disk, session, seen, announced, heard, capped>>

Never == 0
Instants == 1..MaxTime
Nothing == [s \in States |-> Never]
Stamped(l) == {s \in States : l.entered[s] # Never \/ l.exited[s] # Never}

EmptyLedger == [daily |-> {}, last |-> NoState, lastTs |-> Never,
                entered |-> Nothing, exited |-> Nothing]

\* _ledger_seen_states
LedgerSeen(l) == l.daily \cup ({l.last} \ {NoState})

Init ==
    /\ clock = 1 /\ since = 1
    /\ entity \in States \cup {NoState}
    /\ ledger = EmptyLedger /\ disk = EmptyLedger
    /\ live = FALSE /\ sessions = 0
    /\ seen = {} /\ seed = {} /\ before = {} /\ heard = {}
    /\ announced = [s \in States |-> 0]
    /\ capped = FALSE
-----------------------------------------------------------------------------
(* An event of the entity.                                                 *)

\* Mutant: the last place of the cap is never filled.
FullEarly == Cardinality(seen) + 1 >= Cap

\* _seen has reached its cap.
Full == Cardinality(seen) >= Cap

\* Mutant: what is seen is read off the ledger again.
SeenInLedger(new) == LedgerSeen(ledger) \cup (IF new \notin seen /\ Full THEN {} ELSE {new})

\* _seen after an event with a state.
SeenWith(new) == IF new \notin seen /\ Full THEN seen ELSE seen \cup {new}

\* Mutant: the stamps do without _seen.
StampAll(f, name, at, known) == [f EXCEPT ![name] = at]

\* Mutant: a stamp, once set, is kept.
StampFirst(f, name, at, known) ==
    IF name \in known /\ f[name] = Never THEN [f EXCEPT ![name] = at] ELSE f

\* The stamps f with that of a name, if it is one of known.
Stamp(f, name, at, known) == IF name \in known THEN [f EXCEPT ![name] = at] ELSE f

\* new_state.last_changed, of the state as the event leaves it.
ChangeTime == since'

\* _handle_state_change: fold the visit that was open, stamp, announce.
HandleStateChange(new) ==
    LET at == ChangeTime
        known == SeenWith(new)
        open == ledger.last # NoState
    IN  /\ seen' = known
        /\ ledger' =
            [daily |-> ledger.daily \cup
                         (IF open /\ at > ledger.lastTs THEN {ledger.last} ELSE {}),
             last |-> new,
             lastTs |-> at,
             entered |-> Stamp(ledger.entered, new, at, known),
             exited |-> IF open THEN Stamp(ledger.exited, ledger.last, at, known)
                        ELSE ledger.exited]
        /\ announced' = [announced EXCEPT ![new] = @ + IF new \in known \ seen THEN 1 ELSE 0]
        /\ heard' = heard \cup {new}
        /\ capped' = (capped \/ new \notin known)

Unheard == UNCHANGED <<ledger, seen, announced, heard, capped>>

\* The entity takes another state, or appears.
Change(s) ==
    /\ s # entity
    /\ clock < MaxTime
    /\ clock' = clock + 1 /\ since' = clock'
    /\ entity' = s
    /\ IF live THEN HandleStateChange(s) ELSE Unheard
    /\ UNCHANGED <<disk, session>>

\* The entity is removed: the event has no new state.
Vanish ==
    /\ entity # NoState
    /\ clock < MaxTime
    /\ clock' = clock + 1
    /\ entity' = NoState
    /\ Unheard
    /\ UNCHANGED <<since, disk, session>>

\* An attribute changes: the event repeats the state and its last_changed.
AttributeUpdate ==
    /\ live
    /\ entity # NoState
    /\ UNCHANGED source
    /\ HandleStateChange(entity)
    /\ UNCHANGED <<disk, session>>

Pass ==
    /\ clock < MaxTime
    /\ clock' = clock + 1
    /\ Unheard
    /\ UNCHANGED <<entity, since, disk, session>>
-----------------------------------------------------------------------------
(* The session.                                                            *)

\* A tick prunes the last bucket that holds a state.
Age(s) ==
    /\ live
    /\ s \in ledger.daily
    /\ ledger' = [ledger EXCEPT !.daily = @ \ {s}]
    /\ UNCHANGED <<source, disk, session, seen, announced, heard, capped>>

Flush ==
    /\ live
    /\ disk' = ledger
    /\ UNCHANGED <<source, ledger, session, seen, announced, heard, capped>>

\* The session ends, with a flush (an unload, a stop) or without (a crash).
End(flushes) ==
    /\ live
    /\ live' = FALSE
    /\ disk' = IF flushes THEN ledger ELSE disk
    /\ UNCHANGED <<source, ledger, sessions, seed, before, seen, announced, heard, capped>>

\* _seed_open_visit
SeedOpenVisit(l) ==
    IF l.last = NoState /\ entity # NoState
    THEN [l EXCEPT !.last = entity, !.lastTs = clock]
    ELSE l

\* Load and seed _seen, backfill closed days, which adds the names recorded,
\* seed again, save, anchor the open visit and subscribe.
SetUp(recorded) ==
    /\ ~live
    /\ sessions < MaxSessions
    /\ sessions' = sessions + 1
    /\ live' = TRUE
    /\ LET backfilled == [disk EXCEPT !.daily = @ \cup recorded] IN
       /\ disk' = backfilled
       /\ ledger' = SeedOpenVisit(backfilled)
       /\ seen' = LedgerSeen(disk) \cup LedgerSeen(backfilled)
       /\ seed' = seen'
       /\ before' = Stamped(disk)
    /\ announced' = [s \in States |-> 0]
    /\ heard' = {}
    /\ UNCHANGED <<source, capped>>

Next ==
    \/ \E s \in States : Change(s) \/ Age(s)
    \/ Vanish
    \/ AttributeUpdate
    \/ Pass
    \/ Flush
    \/ \E flushes \in BOOLEAN : End(flushes)
    \/ \E recorded \in SUBSET States : SetUp(recorded)

Spec == Init /\ [][Next]_vars
-----------------------------------------------------------------------------
(* Properties.                                                             *)

Ledgers == [daily : SUBSET States, last : States \cup {NoState},
            lastTs : Instants \cup {Never},
            entered : [States -> Instants \cup {Never}],
            exited : [States -> Instants \cup {Never}]]

(* The variables keep their types; an anchor has a time and one without    *)
(* has none; and what is seen now is at least what the session began with. *)
TypeOK ==
    /\ clock \in Instants /\ since \in 1..clock
    /\ entity \in States \cup {NoState}
    /\ ledger \in Ledgers /\ disk \in Ledgers
    /\ \A l \in {ledger, disk} : l.last = NoState <=> l.lastTs = Never
    /\ live \in BOOLEAN /\ sessions \in 0..MaxSessions
    /\ seen \in SUBSET States /\ seed \in SUBSET seen
    /\ before \in SUBSET States
    /\ announced \in [States -> Nat]
    /\ heard \in SUBSET States
    /\ capped \in BOOLEAN

(* No state is announced twice in a session, and none that the ledger knew *)
(* when it began, although prunes take names out of the ledger meanwhile   *)
(* (_announce_new_state, the durable _seen).                               *)
AnnouncedOnce ==
    \A s \in States : announced[s] <= IF s \in seed THEN 0 ELSE 1

(* Every other state an event shows is announced, as long as fewer than    *)
(* Cap are known (the cap of _seen).                                       *)
NewIsAnnounced ==
    \A s \in heard \ seed : announced[s] > 0 \/ Cardinality(seen) >= Cap

(* One session stamps no more states than the cap, or than it began with:  *)
(* an entity with a new state at every transition does not make the        *)
(* persisted stamps grow without bound.                                    *)
StampsBounded ==
    live => Cardinality(Stamped(ledger) \ before) <=
                IF Cardinality(seed) > Cap THEN Cardinality(seed) ELSE Cap

(* By its stamps, the state of the open visit was entered last, and any    *)
(* other was left: after restarts, crashes and removals too, unless the    *)
(* cap kept a state from being stamped (last_entered and last_exited).     *)
StampsTellVisits ==
    capped \/ \A l \in {ledger, disk}, s \in States :
        l.entered[s] # Never =>
            IF s = l.last THEN l.entered[s] >= l.exited[s] ELSE l.exited[s] >= l.entered[s]
=============================================================================
