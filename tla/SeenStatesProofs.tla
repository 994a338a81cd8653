-------------------------- MODULE SeenStatesProofs --------------------------
(* Theorems about SeenStates, for any states, any cap and any bounds.      *)
EXTENDS SeenStates, TLAPS, FiniteSetTheorems

(***************************************************************************)
(* Types.                                                                  *)
(***************************************************************************)
LEMMA Assumed ==
    /\ IsFiniteSet(States)
    /\ NoState \notin States
    /\ Cap \in Nat \ {0} /\ MaxTime \in Nat \ {0} /\ MaxSessions \in Nat \ {0}
BY SeenAssumption

\* A ledger whose anchor has a time exactly if there is one.
Anchored(l) == l.last = NoState <=> l.lastTs = Never

\* The ledger of a new tracker is a ledger.
LEMMA EmptyTyped == EmptyLedger \in Ledgers /\ Anchored(EmptyLedger)
BY Assumed DEF EmptyLedger, Ledgers, Nothing, Anchored, Never, Instants

\* What a ledger has seen are states.
LEMMA SeenTyped ==
    ASSUME NEW l \in Ledgers
    PROVE  LedgerSeen(l) \in SUBSET States
BY DEF LedgerSeen, Ledgers

\* A stamp put in leaves stamps.
LEMMA StampTyped ==
    ASSUME NEW f \in [States -> Instants \cup {Never}], NEW name \in States,
           NEW at \in Instants, NEW known
    PROVE  Stamp(f, name, at, known) \in [States -> Instants \cup {Never}]
BY DEF Stamp

\* An event keeps the types of what the handler writes.
LEMMA EventTyped ==
    ASSUME TypeOK, NEW new \in States, since' \in Instants, HandleStateChange(new)
    PROVE  /\ ledger' \in Ledgers /\ Anchored(ledger')
           /\ seen' \in SUBSET States /\ seen \subseteq seen'
           /\ seen' = SeenWith(new)
           /\ announced' \in [States -> Nat]
           /\ heard' \in SUBSET States
           /\ capped' \in BOOLEAN
<1> DEFINE at == since'
           known == SeenWith(new)
<1>1. known \in SUBSET States /\ seen \subseteq known
  BY DEF TypeOK, SeenWith
<1>2. ledger \in Ledgers
  BY DEF TypeOK
<1>3. Stamp(ledger.entered, new, at, known) \in [States -> Instants \cup {Never}]
  BY <1>2, StampTyped DEF Ledgers
<1>4. ASSUME ledger.last # NoState
      PROVE  /\ ledger.last \in States
             /\ Stamp(ledger.exited, ledger.last, at, known) \in [States -> Instants \cup {Never}]
  <2>1. ledger.last \in States
    BY <1>2, <1>4 DEF Ledgers
  <2> QED BY <1>2, <2>1, StampTyped DEF Ledgers
<1>5. ledger' = [daily |-> ledger.daily \cup
                     (IF ledger.last # NoState /\ at > ledger.lastTs THEN {ledger.last} ELSE {}),
                 last |-> new, lastTs |-> at,
                 entered |-> Stamp(ledger.entered, new, at, known),
                 exited |-> IF ledger.last # NoState
                            THEN Stamp(ledger.exited, ledger.last, at, known)
                            ELSE ledger.exited]
  BY DEF HandleStateChange, ChangeTime
<1>6. ledger.daily \cup (IF ledger.last # NoState /\ at > ledger.lastTs THEN {ledger.last} ELSE {})
        \in SUBSET States
  BY <1>2, <1>4 DEF Ledgers
<1>7. (IF ledger.last # NoState THEN Stamp(ledger.exited, ledger.last, at, known)
       ELSE ledger.exited) \in [States -> Instants \cup {Never}]
  BY <1>2, <1>4 DEF Ledgers
<1>8. ledger' \in Ledgers
  <2> HIDE DEF at, known
  <2> QED BY <1>3, <1>5, <1>6, <1>7 DEF Ledgers, at
<1>9. Anchored(ledger')
  BY <1>5, Assumed DEF Anchored, Never, Instants
<1>10. announced' \in [States -> Nat]
  BY DEF HandleStateChange, TypeOK
<1> QED BY <1>1, <1>8, <1>9, <1>10 DEF HandleStateChange, TypeOK

\* Every step keeps the variables in their ranges.
LEMMA StatesTypedStep == TypeOK /\ [Next]_vars => TypeOK'
<1> SUFFICES ASSUME TypeOK, [Next]_vars PROVE TypeOK'
  OBVIOUS
<1> USE DEF TypeOK
<1>1. ASSUME NEW s \in States, Change(s) PROVE TypeOK'
  <2>1. clock' \in Instants /\ since' \in 1..clock' /\ since' \in Instants /\ entity' \in States
    BY <1>1, Assumed DEF Change, Instants
  <2>2. CASE live
    BY <1>1, <2>1, <2>2, EventTyped DEF Change, session, Anchored
  <2>3. CASE ~live
    BY <1>1, <2>1, <2>3 DEF Change, session, Unheard
  <2> QED BY <2>2, <2>3
<1>2. ASSUME NEW s \in States, Age(s) PROVE TypeOK'
  BY <1>2 DEF Age, source, session, Ledgers
<1>3. CASE Vanish
  BY <1>3, Assumed DEF Vanish, session, Unheard, Instants
<1>4. CASE AttributeUpdate
  <2>1. since' \in Instants /\ entity \in States
    BY <1>4, Assumed DEF AttributeUpdate, source, Instants
  <2> QED BY <1>4, <2>1, EventTyped DEF AttributeUpdate, source, session, Anchored
<1>5. CASE Pass
  BY <1>5, Assumed DEF Pass, session, Unheard, Instants
<1>6. CASE Flush
  BY <1>6 DEF Flush, source, session
<1>7. ASSUME NEW flushes \in BOOLEAN, End(flushes) PROVE TypeOK'
  BY <1>7 DEF End, source
<1>8. ASSUME NEW recorded \in SUBSET States, SetUp(recorded) PROVE TypeOK'
  <2> DEFINE backfilled == [disk EXCEPT !.daily = @ \cup recorded]
  <2>1. backfilled \in Ledgers /\ Anchored(backfilled)
    BY DEF Ledgers, Anchored
  <2>2. SeedOpenVisit(backfilled) \in Ledgers /\ Anchored(SeedOpenVisit(backfilled))
    <3> HIDE DEF backfilled
    <3>1. CASE backfilled.last = NoState /\ entity # NoState
      <4>1. entity \in States /\ clock \in Instants /\ clock # Never
        BY <3>1, Assumed DEF Instants, Never
      <4> QED BY <2>1, <3>1, <4>1 DEF SeedOpenVisit, Ledgers, Anchored
    <3>2. CASE ~(backfilled.last = NoState /\ entity # NoState)
      BY <2>1, <3>2 DEF SeedOpenVisit
    <3> QED BY <3>1, <3>2
  <2>3. seen' \in SUBSET States /\ seed' = seen'
    <3>1. LedgerSeen(disk) \in SUBSET States /\ LedgerSeen(backfilled) \in SUBSET States
      BY <2>1, SeenTyped
    <3> QED BY <1>8, <3>1 DEF SetUp
  <2>4. /\ disk' = backfilled /\ ledger' = SeedOpenVisit(backfilled)
        /\ live' = TRUE /\ sessions' = sessions + 1 /\ sessions < MaxSessions
        /\ UNCHANGED <<clock, entity, since, capped>>
        /\ before' = Stamped(disk)
        /\ announced' = [s \in States |-> 0] /\ heard' = {}
    BY <1>8 DEF SetUp, source
  <2>5. before' \in SUBSET States
    BY <2>4 DEF Stamped
  <2>6. sessions' \in 0..MaxSessions
    BY <2>4, Assumed
  <2> HIDE DEF backfilled
  <2> QED BY <2>1, <2>2, <2>3, <2>4, <2>5, <2>6 DEF Anchored
<1>9. CASE UNCHANGED vars
  BY <1>9 DEF vars, source, session
<1> QED
  BY <1>1, <1>2, <1>3, <1>4, <1>5, <1>6, <1>7, <1>8, <1>9 DEF Next

(* The variables keep their types.                                         *)
THEOREM StatesTyped == Spec => []TypeOK
<1>1. Init => TypeOK
  <2> SUFFICES ASSUME Init PROVE TypeOK
    OBVIOUS
  <2>1. clock \in Instants /\ since \in 1..clock
    BY Assumed DEF Init, Instants
  <2>2. announced \in [States -> Nat] /\ sessions \in 0..MaxSessions
    BY Assumed DEF Init
  <2> QED BY <2>1, <2>2, EmptyTyped DEF Init, TypeOK, Anchored
<1> QED BY <1>1, StatesTypedStep, PTL DEF Spec

(***************************************************************************)
(* What is announced.  An announced state is one that _seen gained since   *)
(* the session began, and an event whose state _seen did not gain found it *)
(* full; _seen never shrinks.                                              *)
(***************************************************************************)
Gained ==
    \A s \in States : announced[s] = IF s \in seen \ seed THEN 1 ELSE 0

HeardOrFull ==
    \A s \in heard : s \in seen \/ Cardinality(seen) >= Cap

\* The cap bounds what is gained, and what is stamped is seen or was stamped.
SeenBounded ==
    Cardinality(seen) <= IF Cardinality(seed) > Cap THEN Cardinality(seed) ELSE Cap

StampsSeen == live => Stamped(ledger) \subseteq before \cup seen

SeenInv == Gained /\ HeardOrFull /\ SeenBounded /\ StampsSeen

\* Sets of states have a cardinality.
LEMMA Finite ==
    ASSUME NEW S \in SUBSET States
    PROVE  IsFiniteSet(S) /\ Cardinality(S) \in Nat
BY Assumed, FS_Subset, FS_CardinalityType

\* A part of a set has no more elements.
LEMMA Bigger ==
    ASSUME NEW S \in SUBSET States, NEW R \in SUBSET S
    PROVE  Cardinality(R) <= Cardinality(S)
BY Finite, FS_Subset

\* An event that finds a place adds one state to _seen.
LEMMA SeenGrows ==
    ASSUME TypeOK, SeenBounded, NEW new \in States
    PROVE  LET known == SeenWith(new) IN
           /\ Cardinality(known) <= IF Cardinality(seed) > Cap THEN Cardinality(seed) ELSE Cap
           /\ Cardinality(known) >= Cardinality(seen)
           /\ new \in known \/ Cardinality(known) >= Cap
<1>1. seen \in SUBSET States /\ seed \in SUBSET States
  BY DEF TypeOK
<1>2. Cardinality(seen) \in Nat /\ IsFiniteSet(seen) /\ Cardinality(seed) \in Nat
  BY <1>1, Finite
<1>3. CASE new \in seen
  <2>1. SeenWith(new) = seen
    BY <1>3 DEF SeenWith
  <2> QED BY <1>2, <1>3, <2>1 DEF SeenBounded
<1>4. CASE new \notin seen /\ Full
  <2>1. SeenWith(new) = seen /\ Cardinality(seen) >= Cap
    BY <1>4 DEF SeenWith, Full
  <2> QED BY <1>2, <2>1 DEF SeenBounded
<1>5. CASE new \notin seen /\ ~Full
  <2>1. SeenWith(new) = seen \cup {new} /\ ~(Cardinality(seen) >= Cap)
    BY <1>5 DEF SeenWith, Full
  <2>2. Cardinality(seen \cup {new}) = Cardinality(seen) + 1
    BY <1>2, <1>5, FS_AddElement
  <2> QED BY <1>2, <2>1, <2>2, Assumed
<1> QED BY <1>3, <1>4, <1>5

\* What an event stamps is in _seen.
LEMMA EventStamps ==
    ASSUME TypeOK, StampsSeen, live, NEW new \in States, HandleStateChange(new),
           UNCHANGED <<live, before>>
    PROVE  StampsSeen'
<1> DEFINE known == SeenWith(new)
           at == since'
<1>1. seen' = known /\ seen \subseteq known
  BY DEF HandleStateChange, SeenWith
<1>2. /\ ledger'.entered = Stamp(ledger.entered, new, at, known)
      /\ ledger'.exited = IF ledger.last # NoState
                          THEN Stamp(ledger.exited, ledger.last, at, known)
                          ELSE ledger.exited
  BY DEF HandleStateChange, ChangeTime
<1>3. ledger.entered \in [States -> Instants \cup {Never}]
      /\ ledger.exited \in [States -> Instants \cup {Never}]
  BY DEF TypeOK, Ledgers
<1>4. ASSUME NEW s \in States, s \in Stamped(ledger'), s \notin known
      PROVE  s \in before
  <2>1. ledger'.entered[s] = ledger.entered[s]
    BY <1>2, <1>3, <1>4 DEF Stamp
  <2>2. ledger'.exited[s] = ledger.exited[s]
    BY <1>2, <1>3, <1>4 DEF Stamp
  <2>3. s \in Stamped(ledger)
    BY <1>4, <2>1, <2>2 DEF Stamped
  <2> QED BY <1>1, <1>4, <2>3 DEF StampsSeen
<1>5. Stamped(ledger') \subseteq States
  BY DEF Stamped
<1> QED BY <1>1, <1>4, <1>5 DEF StampsSeen

\* An event of a state keeps what was announced with what was seen.
LEMMA EventSeenInv ==
    ASSUME TypeOK, SeenInv, live, NEW new \in States, HandleStateChange(new),
           UNCHANGED <<live, before, seed>>
    PROVE  SeenInv'
<1> DEFINE known == SeenWith(new)
<1>1. /\ seen' = known /\ seen \subseteq known /\ known \subseteq seen \cup {new}
      /\ heard' = heard \cup {new}
      /\ announced' = [announced EXCEPT ![new] = @ + IF new \in known \ seen THEN 1 ELSE 0]
  BY DEF HandleStateChange, SeenWith
<1>2. Gained'
  <2>1. seed \subseteq seen /\ announced \in [States -> Nat]
    BY DEF TypeOK
  <2> QED BY <1>1, <2>1 DEF Gained, SeenInv
<1>3. HeardOrFull'
  <2>1. Cardinality(known) >= Cardinality(seen)
        /\ (new \in known \/ Cardinality(known) >= Cap)
    BY SeenGrows DEF SeenInv
  <2>2. Cardinality(known) \in Nat /\ Cardinality(seen) \in Nat
    BY Finite DEF TypeOK, SeenWith
  <2> HIDE DEF known
  <2> QED BY <1>1, <2>1, <2>2, Assumed DEF HeardOrFull, SeenInv
<1>4. SeenBounded'
  BY <1>1, SeenGrows DEF SeenBounded, SeenInv
<1>5. StampsSeen'
  BY EventStamps DEF SeenInv
<1> QED BY <1>2, <1>3, <1>4, <1>5 DEF SeenInv

\* Every step does.
LEMMA NextSeenInv == TypeOK /\ SeenInv /\ [Next]_vars => SeenInv'
<1> SUFFICES ASSUME TypeOK, SeenInv, [Next]_vars PROVE SeenInv'
  OBVIOUS
<1>1. ASSUME NEW s \in States, Change(s) PROVE SeenInv'
  <2>1. CASE live
    BY <1>1, <2>1, EventSeenInv DEF Change, session
  <2>2. CASE ~live
    BY <1>1, <2>2 DEF Change, session, Unheard, SeenInv, Gained, HeardOrFull, SeenBounded, StampsSeen
  <2> QED BY <2>1, <2>2
<1>2. ASSUME NEW s \in States, Age(s) PROVE SeenInv'
  BY <1>2 DEF Age, session, SeenInv, Gained, HeardOrFull, SeenBounded, StampsSeen, Stamped,
              TypeOK, Ledgers
<1>3. CASE Vanish
  BY <1>3 DEF Vanish, session, Unheard, SeenInv, Gained, HeardOrFull, SeenBounded, StampsSeen
<1>4. CASE AttributeUpdate
  <2>1. entity \in States /\ HandleStateChange(entity) /\ live
    BY <1>4 DEF AttributeUpdate, TypeOK
  <2> QED BY <1>4, <2>1, EventSeenInv DEF AttributeUpdate, session
<1>5. CASE Pass
  BY <1>5 DEF Pass, session, Unheard, SeenInv, Gained, HeardOrFull, SeenBounded, StampsSeen
<1>6. CASE Flush
  BY <1>6 DEF Flush, session, SeenInv, Gained, HeardOrFull, SeenBounded, StampsSeen
<1>7. ASSUME NEW flushes \in BOOLEAN, End(flushes) PROVE SeenInv'
  BY <1>7 DEF End, SeenInv, Gained, HeardOrFull, SeenBounded, StampsSeen
<1>8. ASSUME NEW recorded \in SUBSET States, SetUp(recorded) PROVE SeenInv'
  <2>1. /\ seed' = seen' /\ announced' = [s \in States |-> 0] /\ heard' = {}
        /\ before' = Stamped(disk)
    BY <1>8 DEF SetUp
  <2>2. TypeOK'
    BY <1>8, StatesTypedStep DEF Next
  <2>3. Cardinality(seen') \in Nat
    BY <2>2, Finite DEF TypeOK
  <2>4. Stamped(ledger') = Stamped(disk)
    BY <1>8 DEF SetUp, SeedOpenVisit, Stamped, TypeOK, Ledgers
  <2>5. SeenBounded'
    BY <2>1, <2>3, Assumed DEF SeenBounded
  <2> QED BY <2>1, <2>4, <2>5 DEF SeenInv, Gained, HeardOrFull, StampsSeen
<1>9. CASE UNCHANGED vars
  BY <1>9 DEF vars, session, SeenInv, Gained, HeardOrFull, SeenBounded, StampsSeen
<1> QED
  BY <1>1, <1>2, <1>3, <1>4, <1>5, <1>6, <1>7, <1>8, <1>9 DEF Next

(* The inductive invariant of what a session saw holds: what it announced  *)
(* is what the set of seen states gained, and the stamps are of states it  *)
(* has seen (_handle_state_change, __init__).                              *)
THEOREM SeenInvariant == Spec => []SeenInv
<1>1. Init => SeenInv
  <2> SUFFICES ASSUME Init PROVE SeenInv
    OBVIOUS
  <2>1. Cardinality({}) = 0
    BY FS_EmptySet
  <2> QED BY <2>1, Assumed DEF Init, SeenInv, Gained, HeardOrFull, SeenBounded, StampsSeen
<1> QED BY <1>1, NextSeenInv, StatesTyped, PTL DEF Spec

(* No state is announced twice in a session, nor one the ledger knew when  *)
(* it began.                                                               *)
THEOREM EachAnnouncedOnce == Spec => []AnnouncedOnce
<1>1. SeenInv => AnnouncedOnce
  BY DEF SeenInv, Gained, AnnouncedOnce
<1> QED BY <1>1, SeenInvariant, PTL

(* Every state an event shows is announced, or was known, or found the cap *)
(* reached.                                                                *)
THEOREM NewOnesAnnounced == Spec => []NewIsAnnounced
<1>1. TypeOK /\ SeenInv => NewIsAnnounced
  BY DEF SeenInv, Gained, HeardOrFull, NewIsAnnounced, TypeOK
<1> QED BY <1>1, SeenInvariant, StatesTyped, PTL

(* One session stamps no more states than the cap, or than it began with.  *)
THEOREM StampsStayBounded == Spec => []StampsBounded
<1>1. TypeOK /\ SeenInv => StampsBounded
  <2> SUFFICES ASSUME TypeOK, SeenInv, live PROVE
        Cardinality(Stamped(ledger) \ before) <=
            IF Cardinality(seed) > Cap THEN Cardinality(seed) ELSE Cap
    BY DEF StampsBounded
  <2>1. Stamped(ledger) \ before \in SUBSET seen /\ seen \in SUBSET States
        /\ seed \in SUBSET States
    BY DEF SeenInv, StampsSeen, TypeOK
  <2>2. Cardinality(Stamped(ledger) \ before) <= Cardinality(seen)
    BY <2>1, Bigger
  <2>3. Stamped(ledger) \ before \in SUBSET States
    BY <2>1
  <2>4. /\ Cardinality(seen) \in Nat /\ Cardinality(seed) \in Nat
        /\ Cardinality(Stamped(ledger) \ before) \in Nat
    BY <2>1, <2>3, Finite
  <2> QED BY <2>2, <2>4, Assumed DEF SeenInv, SeenBounded
<1> QED BY <1>1, SeenInvariant, StatesTyped, PTL

(***************************************************************************)
(* What the stamps tell.  No stamp is later than the last change of the    *)
(* entity, so that of an event is the latest; a ledger without an anchor   *)
(* has never seen a state entered; and the state of the anchor, once it    *)
(* was stamped, is in _seen, so that its end is stamped too.               *)
(***************************************************************************)
Early(l) == \A s \in States : l.entered[s] <= since /\ l.exited[s] <= since

NoneEntered(l) == l.last = NoState => \A s \in States : l.entered[s] = Never

Tells(l) ==
    \A s \in States :
        l.entered[s] # Never =>
            IF s = l.last THEN l.entered[s] >= l.exited[s] ELSE l.exited[s] >= l.entered[s]

AnchorSeen ==
    live /\ ledger.last # NoState /\ ledger.entered[ledger.last] # Never => ledger.last \in seen

StampInv ==
    /\ Early(ledger) /\ Early(disk)
    /\ NoneEntered(ledger) /\ NoneEntered(disk)
    /\ capped \/ (Tells(ledger) /\ Tells(disk) /\ AnchorSeen)

\* An event of a state keeps the stamps with the visits.
LEMMA EventStampInv ==
    ASSUME TypeOK, StampInv, live, NEW new \in States, HandleStateChange(new),
           since' \in Instants, since <= since', UNCHANGED <<live, disk>>
    PROVE  StampInv'
<1> DEFINE known == SeenWith(new)
           at == since'
           prev == ledger.last
<1>1. /\ seen' = known /\ seen \subseteq known
      /\ capped' = (capped \/ new \notin known)
      /\ ledger'.last = new
      /\ ledger'.entered = Stamp(ledger.entered, new, at, known)
      /\ ledger'.exited = IF prev # NoState THEN Stamp(ledger.exited, prev, at, known)
                          ELSE ledger.exited
  BY DEF HandleStateChange, ChangeTime, SeenWith
<1>2. /\ ledger.entered \in [States -> Instants \cup {Never}]
      /\ ledger.exited \in [States -> Instants \cup {Never}]
      /\ prev \in States \cup {NoState}
      /\ disk \in Ledgers /\ since \in Nat /\ capped \in BOOLEAN
  BY Assumed DEF TypeOK, Ledgers, Instants
<1>3. Instants \cup {Never} \subseteq Nat
  BY DEF Instants, Never
<1> HIDE DEF known
<1>4. Early(ledger)'
  BY <1>1, <1>2, <1>3 DEF StampInv, Early, Stamp
<1>5. Early(disk)'
  <2>1. disk' = disk
    OBVIOUS
  <2>2. \A s \in States : disk.entered[s] \in Nat /\ disk.exited[s] \in Nat
    BY <1>2, <1>3 DEF Ledgers
  <2> QED BY <1>2, <1>3, <2>1, <2>2 DEF StampInv, Early
<1>6. NoneEntered(ledger)' /\ NoneEntered(disk)'
  BY <1>1, Assumed DEF StampInv, NoneEntered
<1>7. ASSUME ~capped' PROVE Tells(ledger)' /\ Tells(disk)' /\ AnchorSeen'
  <2>1. new \in known /\ ~capped
    BY <1>1, <1>2, <1>7
  <2>2. Tells(ledger) /\ Tells(disk) /\ AnchorSeen
    BY <2>1 DEF StampInv
  <2>3. ASSUME NEW s \in States, ledger'.entered[s] # Never
        PROVE  IF s = new THEN ledger'.entered[s] >= ledger'.exited[s]
               ELSE ledger'.exited[s] >= ledger'.entered[s]
    <3>1. /\ ledger.entered[s] \in Nat /\ ledger.exited[s] \in Nat /\ at \in Nat
          /\ ledger.entered[s] <= at /\ ledger.exited[s] <= at
      BY <1>2, <1>3 DEF StampInv, Early
    <3>2. CASE s = new
      <4>1. ledger'.entered[s] = at
        BY <1>1, <1>2, <2>1, <3>2 DEF Stamp
      <4>2. ledger'.exited[s] \in {at, ledger.exited[s]}
        BY <1>1, <1>2 DEF Stamp
      <4> QED BY <3>1, <3>2, <4>1, <4>2
    <3>3. CASE s # new
      <4>1. ledger'.entered[s] = ledger.entered[s]
        BY <1>1, <1>2, <3>3 DEF Stamp
      <4>2. CASE s = prev
        <5>1. prev # NoState /\ prev \in seen
          BY <2>2, <2>3, <4>1, <4>2, Assumed DEF AnchorSeen
        <5>2. ledger'.exited[s] = at
          BY <1>1, <1>2, <4>2, <5>1 DEF Stamp
        <5> QED BY <3>1, <3>3, <4>1, <5>2
      <4>3. CASE s # prev
        <5>1. ledger'.exited[s] = ledger.exited[s]
          BY <1>1, <1>2, <4>3 DEF Stamp
        <5>2. ledger.exited[s] >= ledger.entered[s]
          BY <2>2, <2>3, <4>1, <4>3 DEF Tells
        <5> QED BY <3>3, <4>1, <5>1, <5>2
      <4> QED BY <4>2, <4>3
    <3> QED BY <3>2, <3>3
  <2>4. Tells(ledger)'
    BY <1>1, <2>3 DEF Tells
  <2>5. Tells(disk)' /\ AnchorSeen'
    BY <1>1, <2>1, <2>2 DEF Tells, AnchorSeen
  <2> QED BY <2>4, <2>5
<1> QED BY <1>4, <1>5, <1>6, <1>7 DEF StampInv

\* A step that changes no stamp keeps the invariant if it keeps what else it
\* speaks of.
LEMMA QuietStampInv ==
    ASSUME TypeOK, StampInv, UNCHANGED <<since, capped>>,
           ledger'.entered = ledger.entered, ledger'.exited = ledger.exited,
           ledger'.last = ledger.last, disk' \in {disk, ledger},
           live' => live /\ seen' = seen
    PROVE  StampInv'
BY DEF StampInv, Early, NoneEntered, Tells, AnchorSeen

\* Every step does.
LEMMA NextStampInv == TypeOK /\ StampInv /\ [Next]_vars => StampInv'
<1> SUFFICES ASSUME TypeOK, StampInv, [Next]_vars PROVE StampInv'
  OBVIOUS
<1>1. ASSUME NEW s \in States, Change(s) PROVE StampInv'
  <2>1. since' \in Instants /\ since \in Nat /\ since <= since' /\ disk' = disk /\ live' = live
    BY <1>1, Assumed DEF Change, session, TypeOK, Instants
  <2>2. CASE live
    BY <1>1, <2>1, <2>2, EventStampInv DEF Change
  <2>3. CASE ~live
    <3>1. UNCHANGED <<ledger, capped>>
      BY <1>1, <2>3 DEF Change, Unheard
    <3>2. \A l \in {ledger, disk}, s2 \in States : l.entered[s2] \in Nat /\ l.exited[s2] \in Nat
      BY DEF TypeOK, Ledgers, Instants, Never
    <3>3. since' \in Nat
      BY <2>1 DEF Instants
    <3>4. Early(ledger)' /\ Early(disk)'
      BY <2>1, <3>1, <3>2, <3>3 DEF StampInv, Early
    <3> QED BY <2>1, <2>3, <3>1, <3>4 DEF StampInv, NoneEntered, Tells, AnchorSeen
  <2> QED BY <2>2, <2>3
<1>2. ASSUME NEW s \in States, Age(s) PROVE StampInv'
  <2>1. /\ ledger'.entered = ledger.entered /\ ledger'.exited = ledger.exited
        /\ ledger'.last = ledger.last
    BY <1>2 DEF Age, TypeOK, Ledgers
  <2> QED BY <1>2, <2>1, QuietStampInv DEF Age, source, session
<1>3. CASE Vanish
  BY <1>3, QuietStampInv DEF Vanish, session, Unheard
<1>4. CASE AttributeUpdate
  <2>1. /\ entity \in States /\ HandleStateChange(entity) /\ live
        /\ since' \in Instants /\ since <= since' /\ disk' = disk /\ live' = live
    BY <1>4, Assumed DEF AttributeUpdate, TypeOK, source, session, Instants
  <2> QED BY <2>1, EventStampInv
<1>5. CASE Pass
  BY <1>5, QuietStampInv DEF Pass, session, Unheard
<1>6. CASE Flush
  BY <1>6, QuietStampInv DEF Flush, source, session
<1>7. ASSUME NEW flushes \in BOOLEAN, End(flushes) PROVE StampInv'
  BY <1>7, QuietStampInv DEF End, source
<1>8. ASSUME NEW recorded \in SUBSET States, SetUp(recorded) PROVE StampInv'
  <2> DEFINE backfilled == [disk EXCEPT !.daily = @ \cup recorded]
  <2>1. /\ backfilled.entered = disk.entered /\ backfilled.exited = disk.exited
        /\ backfilled.last = disk.last
    BY DEF TypeOK, Ledgers
  <2>2. /\ ledger'.entered = disk.entered /\ ledger'.exited = disk.exited
        /\ disk.last # NoState => ledger'.last = disk.last
        /\ ledger'.last = NoState => disk.last = NoState
        /\ disk' = backfilled
    <3>1. backfilled \in Ledgers
      BY DEF TypeOK, Ledgers
    <3>2. ledger' = SeedOpenVisit(backfilled) /\ disk' = backfilled
      BY <1>8 DEF SetUp
    <3> HIDE DEF backfilled
    <3>3. CASE backfilled.last = NoState /\ entity # NoState
      BY <2>1, <3>1, <3>2, <3>3 DEF SeedOpenVisit, Ledgers
    <3>4. CASE ~(backfilled.last = NoState /\ entity # NoState)
      BY <2>1, <3>2, <3>4 DEF SeedOpenVisit
    <3> QED BY <3>2, <3>3, <3>4
  <2>3. UNCHANGED <<since, capped>> /\ LedgerSeen(disk) \subseteq seen'
    BY <1>8 DEF SetUp, source
  <2> HIDE DEF backfilled
  <2>4. Early(ledger)' /\ Early(disk)' /\ NoneEntered(ledger)' /\ NoneEntered(disk)'
    BY <2>1, <2>2, <2>3 DEF StampInv, Early, NoneEntered
  <2>5. ASSUME ~capped PROVE Tells(ledger)' /\ Tells(disk)' /\ AnchorSeen'
    <3>1. Tells(disk) /\ NoneEntered(disk)
      BY <2>5 DEF StampInv
    <3>2. Tells(disk)'
      BY <2>1, <2>2, <3>1 DEF Tells
    <3>3. CASE disk.last = NoState
      <4>1. \A s \in States : ledger'.entered[s] = Never
        BY <2>2, <3>1, <3>3 DEF NoneEntered
      <4>2. TypeOK'
        BY <1>8, StatesTypedStep DEF Next
      <4>3. ledger'.last \in States \cup {NoState}
        BY <4>2 DEF TypeOK, Ledgers
      <4> QED BY <3>2, <4>1, <4>3 DEF Tells, AnchorSeen
    <3>4. CASE disk.last # NoState
      <4>1. ledger'.last = disk.last /\ disk.last \in LedgerSeen(disk)
        BY <2>2, <3>4 DEF LedgerSeen
      <4> QED BY <2>2, <2>3, <3>1, <3>2, <4>1 DEF Tells, AnchorSeen
    <3> QED BY <3>3, <3>4
  <2> QED BY <2>3, <2>4, <2>5 DEF StampInv, TypeOK
<1>9. CASE UNCHANGED vars
  BY <1>9, QuietStampInv DEF vars, source, session
<1> QED
  BY <1>1, <1>2, <1>3, <1>4, <1>5, <1>6, <1>7, <1>8, <1>9 DEF Next

(* By its stamps, the state of the open visit was entered last, and any    *)
(* other was left, unless the cap kept a state from being stamped.         *)
THEOREM StampsTellTheVisits == Spec => []StampsTellVisits
<1>1. Init => StampInv
  <2> SUFFICES ASSUME Init PROVE StampInv
    OBVIOUS
  <2>1. \A s \in States : EmptyLedger.entered[s] = 0 /\ EmptyLedger.exited[s] = 0
    BY DEF EmptyLedger, Nothing, Never
  <2> QED BY <2>1 DEF Init, StampInv, Early, NoneEntered, Tells, AnchorSeen, Never
<1>2. StampInv => StampsTellVisits
  BY DEF StampInv, Tells, StampsTellVisits
<1> QED BY <1>1, <1>2, NextStampInv, StatesTyped, PTL DEF Spec
=============================================================================
