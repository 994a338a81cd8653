-------------------------- MODULE EntryDataProofs --------------------------
(***************************************************************************)
(* Proofs about what is kept of an entry: the states it is configured to   *)
(* count (TrackedStates) and the file of its ledger (LedgerFile).  For     *)
(* every set of names and every fold of them, setup's heal moves a count   *)
(* only among states that fold alike, and what the user asked for stays    *)
(* counted as long as there are none; for any number of folds and starts,  *)
(* no fold is lost and the file goes with the entry.                       *)
(***************************************************************************)
EXTENDS TrackedStates, LedgerFile, TLAPS, SequenceTheorems

-----------------------------------------------------------------------------
(* Matching.                                                               *)

\* match_state answers with a recorded name of the same canonical form, or
\* with none.
LEMMA MatchIsRecorded ==
    ASSUME NEW name, NEW real, NoMatch \notin real
    PROVE  /\ MatchState(name, real) \in real \cup {NoMatch}
           /\ MatchState(name, real) # NoMatch => Fold[MatchState(name, real)] = Fold[name]
           /\ name \in real => MatchState(name, real) = name
<1>1. CASE name \in real
  BY <1>1 DEF MatchState
<1>2. CASE name \notin real /\ \E r \in real : FoldHits(name, real) = {r}
  <2>1. MatchState(name, real) = CHOOSE r \in real : FoldHits(name, real) = {r}
    BY <1>2 DEF MatchState
  <2>2. MatchState(name, real) \in real /\ FoldHits(name, real) = {MatchState(name, real)}
    BY <1>2, <2>1
  <2> QED BY <1>2, <2>2 DEF FoldHits
<1>3. CASE name \notin real /\ ~ \E r \in real : FoldHits(name, real) = {r}
  BY <1>3 DEF MatchState
<1> QED BY <1>1, <1>2, <1>3

\* match_state finds the only recorded name of a canonical form.
LEMMA MatchFindsOnlyOne ==
    ASSUME NEW name, NEW real, NEW s \in real,
           Fold[s] = Fold[name],
           \A a \in real : Fold[a] = Fold[name] => a = s
    PROVE  MatchState(name, real) = s
<1>1. CASE name \in real
  BY <1>1 DEF MatchState
<1>2. CASE name \notin real
  <2>1. FoldHits(name, real) = {s}
    BY DEF FoldHits
  <2>2. \A r : FoldHits(name, real) = {r} => r = s
    BY <2>1
  <2>3. MatchState(name, real) = CHOOSE r \in real : FoldHits(name, real) = {r}
    BY <1>2, <2>1 DEF MatchState
  <2> QED BY <2>1, <2>2, <2>3
<1> QED BY <1>1, <1>2

\* One configured value, healed over the names in real: in any frame it
\* matches s just as before, unless s has a sibling there that is not in real.
LEMMA HealedValueMatches ==
    ASSUME NEW v, NEW real, NEW keys, NEW s \in keys, NoMatch \notin real, NoMatch \notin keys,
           MatchState(v, real) # NoMatch,
           \A r \in FoldHits(s, keys) \ real : FoldHits(s, keys) = {r}
    PROVE  MatchState(MatchState(v, real), keys) = s <=> MatchState(v, keys) = s
<1> DEFINE h == MatchState(v, real)
<1>1. h \in real /\ Fold[h] = Fold[v]
  BY MatchIsRecorded
<1>2. CASE Fold[v] # Fold[s]
  <2>1. s # NoMatch
    OBVIOUS
  <2>2. \A u : MatchState(u, keys) = s => Fold[s] = Fold[u]
    BY <2>1, MatchIsRecorded
  <2> HIDE DEF h
  <2>3. MatchState(h, keys) # s /\ MatchState(v, keys) # s
    BY <1>1, <1>2, <2>2
  <2> QED BY <2>3 DEF h
<1>3. CASE Fold[v] = Fold[s] /\ \A a \in keys : Fold[a] = Fold[s] => a = s
  <2>1. MatchState(h, keys) = s /\ MatchState(v, keys) = s
    BY <1>1, <1>3, MatchFindsOnlyOne
  <2> QED BY <2>1
<1>4. CASE Fold[v] = Fold[s] /\ \E a \in keys : Fold[a] = Fold[s] /\ a # s
  <2>1. PICK a \in keys : Fold[a] = Fold[s] /\ a # s
    BY <1>4
  <2>2. a \in FoldHits(s, keys) /\ s \in FoldHits(s, keys)
    BY <2>1 DEF FoldHits
  <2>3. a \in real /\ s \in real
    BY <2>1, <2>2
  <2>4. a \in FoldHits(v, real) /\ s \in FoldHits(v, real)
    BY <1>4, <2>1, <2>3 DEF FoldHits
  <2>5. v \in real
    BY <2>1, <2>4 DEF MatchState
  <2>6. h = v
    BY <2>5, MatchIsRecorded
  <2> QED BY <2>6
<1> QED BY <1>2, <1>3, <1>4

\* _heal_config_states and resolve_wanted: a state is counted by healed values
\* in a frame just if it was by the values, unless it has a sibling there that
\* the heal did not know.
LEMMA HealedCountsTheSame ==
    ASSUME NEW values, NEW real, NEW keys, NEW s \in keys, NoMatch \notin real, NoMatch \notin keys,
           \A r \in FoldHits(s, keys) \ real : FoldHits(s, keys) = {r}
    PROVE  s \in ResolveWanted(Healed(values, real), keys) <=> s \in ResolveWanted(values, keys)
<1> DEFINE heal(v) == IF MatchState(v, real) = NoMatch THEN v ELSE MatchState(v, real)
<1>1. \A v : MatchState(heal(v), keys) = s <=> MatchState(v, keys) = s
  BY HealedValueMatches
<1>2. Healed(values, real) = {heal(v) : v \in values}
  BY DEF Healed
<1>3. \A set : s \in ResolveWanted(set, keys) <=> \E v \in set : MatchState(v, keys) = s
  BY DEF ResolveWanted
<1> HIDE DEF heal
<1>4. s \in ResolveWanted(Healed(values, real), keys)
        <=> \E v \in values : MatchState(heal(v), keys) = s
  BY <1>2, <1>3
<1> QED BY <1>1, <1>3, <1>4
-----------------------------------------------------------------------------
(* The state machine.                                                      *)

\* What the frames can hold, the entity has shown.
KnownShown ==
    /\ live \in rows
    /\ rows \subseteq shown /\ closed \subseteq shown /\ daily \subseteq shown
    /\ last \in shown \cup {NoMatch}
    /\ entry = "up" => last # NoMatch

\* Everything the user asked for is configured, in some spelling.
WishesStored ==
    \A w \in wished : Fold[w] = Blank \/ \E t \in stored : Fold[t] = Fold[w]

Inv == TypeOK /\ KnownShown /\ WishesStored

\* A healed value is the value, or a recorded name of its canonical form.
LEMMA HealedValue ==
    ASSUME NEW values, NEW real, NoMatch \notin real
    PROVE  /\ Healed(values, real) \subseteq values \cup real
           /\ \A v \in values : \E h \in Healed(values, real) : Fold[h] = Fold[v]
<1> DEFINE heal(v) == IF MatchState(v, real) = NoMatch THEN v ELSE MatchState(v, real)
<1>1. Healed(values, real) = {heal(v) : v \in values}
  BY DEF Healed
<1>2. ASSUME NEW v \in values
      PROVE  heal(v) \in values \cup real /\ Fold[heal(v)] = Fold[v]
  BY MatchIsRecorded
<1> HIDE DEF heal
<1> QED BY <1>1, <1>2

\* A name the user asked for is stored, unless it names a zone or is blank.
LEMMA ResolvedWish ==
    ASSUME NEW raw \in SUBSET Names, NEW seen \in SUBSET Names
    PROVE  /\ ResolveStates(raw, seen) \subseteq Names
           /\ \A w \in Named(raw, seen) :
                  Fold[w] = Blank \/ \E t \in ResolveStates(raw, seen) : Fold[t] = Fold[w]
<1>1. NoMatch \notin seen
  BY FoldAssumption
<1>2. ASSUME NEW w \in raw PROVE ResolveState(w, seen) \in Names
  <2>1. MatchState(w, seen) \in seen \cup {NoMatch}
    BY <1>1, MatchIsRecorded
  <2>2. Fold[w] \in Names
    BY FoldAssumption
  <2> QED BY <2>1, <2>2, FoldAssumption DEF ResolveState
<1>3. ASSUME NEW w \in Named(raw, seen), Fold[w] # Blank
      PROVE  \E t \in ResolveStates(raw, seen) : Fold[t] = Fold[w]
  <2>1. w \in raw /\ w \in Names
    BY DEF Named
  <2>2. Fold[ResolveState(w, seen)] = Fold[w]
    <3>1. CASE MatchState(w, seen) # NoMatch
      BY <1>1, <3>1, MatchIsRecorded DEF ResolveState
    <3>2. CASE MatchState(w, seen) = NoMatch
      <4>1. Fold[w] \notin DOMAIN ZoneMap
        BY <3>2 DEF Named
      <4>2. ResolveState(w, seen) = Fold[w]
        BY <3>2, <4>1 DEF ResolveState
      <4> QED BY <2>1, <4>2, FoldAssumption
    <3> QED BY <3>1, <3>2
  <2>3. ResolveState(w, seen) # Blank
    BY <2>2, <1>3, FoldAssumption
  <2> QED BY <2>1, <2>2, <2>3 DEF ResolveStates
<1> QED BY <1>2, <1>3 DEF ResolveStates

\* The invariant holds when nothing was chosen or shown.
LEMMA InitInv == Init => Inv
<1> SUFFICES ASSUME Init PROVE Inv
  OBVIOUS
<1> USE FoldAssumption DEF Init
<1>1. TypeOK
  BY DEF TypeOK, Choices
<1>2. KnownShown
  BY DEF KnownShown
<1>3. WishesStored
  BY DEF WishesStored
<1> QED BY <1>1, <1>2, <1>3 DEF Inv

\* A setup, with its backfill and its heal, keeps the invariant.
LEMMA SetUpInv == Inv /\ SetUp => Inv'
<1> SUFFICES ASSUME Inv, SetUp PROVE Inv'
  OBVIOUS
<1> USE DEF Inv, SetUp
<1>1. daily' \subseteq Emittable /\ LedgerNames \subseteq Emittable
  BY DEF TypeOK, LedgerNames
<1>2. NoMatch \notin LedgerNames /\ LedgerNames \subseteq Names
  BY <1>1, FoldAssumption
<1>3. tracked' \subseteq stored \cup LedgerNames
  BY <1>2, HealedValue
<1>4. \A v \in stored : \E h \in stored' : Fold[h] = Fold[v]
  BY <1>2, HealedValue
<1>5. TypeOK'
  BY <1>1, <1>2, <1>3 DEF TypeOK
<1>6. KnownShown'
  BY FoldAssumption DEF KnownShown, TypeOK
<1>7. WishesStored'
  BY <1>4 DEF WishesStored
<1> QED BY <1>5, <1>6, <1>7

\* Every step keeps the invariant.
LEMMA NextInv == Inv /\ [Next]_vars => Inv'
<1> SUFFICES ASSUME Inv, [Next]_vars PROVE Inv'
  OBVIOUS
<1>1. ASSUME NEW s \in Emittable, Change(s) PROVE Inv'
  <2>1. daily' \subseteq shown /\ daily' \subseteq Emittable
    BY <1>1 DEF Inv, TypeOK, KnownShown, Change
  <2>2. TypeOK'
    BY <1>1, <2>1 DEF Inv, TypeOK, Change
  <2>3. KnownShown'
    BY <1>1, <2>1, FoldAssumption DEF Inv, TypeOK, KnownShown, Change
  <2>4. WishesStored'
    BY <1>1 DEF Inv, WishesStored, Change
  <2> QED BY <2>2, <2>3, <2>4 DEF Inv
<1>2. ASSUME NEW s \in Emittable, Age(s) PROVE Inv'
  BY <1>2 DEF Inv, TypeOK, KnownShown, WishesStored, Age
<1>3. CASE Midnight
  BY <1>3 DEF Inv, TypeOK, KnownShown, WishesStored, Midnight
<1>4. ASSUME NEW raw \in Choices, Choose(raw) PROVE Inv'
  <2>1. PICK given \in SUBSET Recent :
            /\ stored' = ResolveStates(raw, Offered(given))
            /\ wished' = Named(raw, Offered(given))
    BY <1>4 DEF Choose
  <2>2. raw \in SUBSET Names /\ Offered(given) \in SUBSET Names
    BY FoldAssumption DEF Choices, Offered, Recent, Inv, TypeOK
  <2>3. stored' \subseteq Names /\ WishesStored'
    BY <2>1, <2>2, ResolvedWish DEF WishesStored
  <2>4. wished' \subseteq Typable
    BY <2>1 DEF Named, Choices
  <2>5. TypeOK'
    BY <1>4, <2>3, <2>4 DEF Choose, entity, Inv, TypeOK
  <2>6. KnownShown'
    BY <1>4 DEF Choose, entity, Inv, KnownShown
  <2> QED BY <2>3, <2>5, <2>6 DEF Inv
<1>5. CASE Restart
  BY <1>5 DEF Inv, TypeOK, KnownShown, WishesStored, Restart, entity
<1>6. CASE SetUp
  BY <1>6, SetUpInv
<1>7. CASE UNCHANGED vars
  BY <1>7 DEF vars, Inv, TypeOK, KnownShown, WishesStored
<1> QED BY <1>1, <1>2, <1>3, <1>4, <1>5, <1>6, <1>7 DEF Next

(* The invariant that the theorems below rest on.                          *)
THEOREM Invariance == Spec => []Inv
<1>1. Init => Inv
  BY InitInv
<1>2. Inv /\ [Next]_vars => Inv'
  BY NextInv
<1> QED BY <1>1, <1>2, PTL DEF Spec

(* The tracker's names keep their types, and the coordinator tracks what   *)
(* the entry stores.                                                       *)
THEOREM NamesTyped == Spec => []TypeOK
<1>1. Inv => TypeOK
  BY DEF Inv
<1> QED BY <1>1, Invariance, PTL

\* Over states that do not fold alike, a tracked name counts the state it
\* folds to, however it is spelled.
LEMMA UnambiguousCounted ==
    ASSUME Unambiguous, NEW keys \in SUBSET shown, NEW s \in keys, NEW t \in tracked,
           Fold[t] = Fold[s], NoMatch \notin keys
    PROVE  s \in Counted(keys)
<1>1. MatchState(t, keys) = s
  BY MatchFindsOnlyOne DEF Unambiguous
<1> QED BY <1>1 DEF Counted, ResolveWanted

\* The frames' names are shown ones.
LEMMA KeysShown ==
    ASSUME Inv, NEW keys \in {TodayKeys, LongKeys}
    PROVE  keys \in SUBSET shown /\ NoMatch \notin keys /\ (last = live => live \in keys)
<1>1. keys \subseteq shown
  BY DEF Inv, KnownShown, TodayKeys, LongKeys
<1>2. shown \subseteq Names
  BY FoldAssumption DEF Inv, TypeOK
<1> QED BY <1>1, <1>2, FoldAssumption DEF Inv, KnownShown, TodayKeys, LongKeys

(* The binary sensor and the frames agree on whether the entity is in a    *)
(* tracked state (CurrentlyInStateBinarySensor.is_on, _subset_percent).    *)
THEOREM SensorsAgree == Spec => []SensorAgreesWithFrames
<1>1. Inv => SensorAgreesWithFrames
  <2> SUFFICES ASSUME Inv, entry = "up", last = live, Unambiguous,
                      NEW keys \in {TodayKeys, LongKeys}
               PROVE  IsOn(live) <=> live \in Counted(keys)
    BY DEF SensorAgreesWithFrames
  <2>1. keys \in SUBSET shown /\ NoMatch \notin keys /\ live \in keys
    BY KeysShown
  <2>2. ASSUME IsOn(live) PROVE live \in Counted(keys)
    <3>1. PICK t \in tracked : Fold[t] = Fold[live]
      BY <2>2 DEF IsOn
    <3> QED BY <2>1, <3>1, UnambiguousCounted
  <2>3. ASSUME live \in Counted(keys) PROVE IsOn(live)
    <3>1. PICK t \in tracked : MatchState(t, keys) = live /\ live # NoMatch
      BY <2>3 DEF Counted, ResolveWanted
    <3>2. Fold[live] = Fold[t]
      BY <2>1, <3>1, MatchIsRecorded
    <3> QED BY <3>2 DEF IsOn
  <2> QED BY <2>2, <2>3
<1> QED BY <1>1, Invariance, PTL

(* What the user asked for stays counted through restarts, heals and days  *)
(* that age out (_heal_config_states, _resolve_states).                    *)
THEOREM WishesAreCounted == Spec => []WishesStayCounted
<1>1. Inv => WishesStayCounted
  <2> SUFFICES ASSUME Inv, entry = "up", Unambiguous, NEW w \in wished,
                      NEW keys \in {TodayKeys, LongKeys}, NEW s \in keys,
                      Fold[s] = Fold[w]
               PROVE  s \in Counted(keys)
    BY DEF WishesStayCounted
  <2>1. keys \in SUBSET shown /\ NoMatch \notin keys
    BY KeysShown
  <2>2. Fold[w] # Blank
    BY <2>1, FoldAssumption DEF Inv, TypeOK
  <2>3. PICK t \in tracked : Fold[t] = Fold[w]
    BY <2>2 DEF Inv, WishesStored, TypeOK
  <2> QED BY <2>1, <2>3, UnambiguousCounted
<1> QED BY <1>1, Invariance, PTL

(* The heal moves no count but among siblings: in every frame, of states   *)
(* recorded when it ran or not, a state is counted after the entry is      *)
(* rewritten just if it was before, unless the frame holds two names that  *)
(* fold like it, of which the ledger lacked one (_heal_config_states).     *)
THEOREM HealMovesOnlySiblings == Spec => HealInvisible
<1> DEFINE Step == SetUp => \A keys \in SUBSET Emittable : \A s \in keys :
                      \/ s \in ResolveWanted(tracked', keys) <=> s \in ResolveWanted(stored, keys)
                      \/ LateSibling(s, keys)
<1>1. Inv /\ [Next]_vars => [Step]_vars
  <2> SUFFICES ASSUME Inv, SetUp, NEW keys \in SUBSET Emittable, NEW s \in keys,
                      ~LateSibling(s, keys)
               PROVE  s \in ResolveWanted(tracked', keys) <=> s \in ResolveWanted(stored, keys)
    OBVIOUS
  <2>1. NoMatch \notin LedgerNames /\ NoMatch \notin keys
    BY FoldAssumption DEF Inv, TypeOK, LedgerNames, SetUp
  <2>2. tracked' = Healed(stored, LedgerNames)
    BY DEF SetUp
  <2>3. \A r \in FoldHits(s, keys) \ LedgerNames : FoldHits(s, keys) = {r}
    BY DEF LateSibling
  <2> QED BY <2>1, <2>2, <2>3, HealedCountsTheSame
<1> QED BY <1>1, Invariance, PTL DEF Spec, HealInvisible

-----------------------------------------------------------------------------
(***************************************************************************)
(* Types, and what ends with a stage: a store of no coordinator has        *)
(* nothing to write, and a Home Assistant that has not loaded the          *)
(* integration has no coordinator.                                         *)
(***************************************************************************)
Folded == SUBSET (1..MaxFolds)

\* What the proofs use of the assumption on the constants.
LEMMA Assumed ==
    /\ MaxFolds \in Nat /\ MaxStarts \in Nat
    /\ \A f \in Folded : f # NoFile
BY LedgerFileAssumption DEF Folded

\* At most the snapshot at work and the newest after it.
Pending == {q \in Seq(Folded) : Len(q) <= 2}

Typed ==
    /\ home \in {"off", "on", "loaded"}
    /\ known \in BOOLEAN
    /\ stage \in {"none", "loading", "up", "closing", "failed_unload"}
    /\ ledger \in Folded
    /\ dirty \in BOOLEAN /\ failed \in BOOLEAN
    /\ writes \in Pending /\ strays \in Pending
    /\ file \in Folded \cup {NoFile}
    /\ folds \in 0..MaxFolds
    /\ written \in BOOLEAN /\ outlived \in BOOLEAN /\ faulty \in BOOLEAN

Ended ==
    /\ ~Living => writes = <<>> /\ ~dirty /\ ~failed
    /\ stage = "closing" => ~dirty
    /\ home # "loaded" => stage = "none" /\ strays = <<>>

\* A snapshot handed to the store is the last it will write.
LEMMA QueuedPending ==
    ASSUME NEW snapshot \in Folded, writes \in Pending
    PROVE  /\ Queued(snapshot) \in Pending
           /\ Queued(snapshot) # <<>>
           /\ Queued(snapshot)[Len(Queued(snapshot))] = snapshot
BY DEF Queued, Pending

\* The write that ends is the first; the last stays the last.
LEMMA TailPending ==
    ASSUME NEW q \in Pending, q # <<>>
    PROVE  /\ Head(q) \in Folded
           /\ Tail(q) \in Pending
           /\ Tail(q) = <<>> => Head(q) = q[Len(q)]
           /\ Tail(q) # <<>> => Tail(q)[Len(Tail(q))] = q[Len(q)]
<1>1. q \in Seq(Folded) /\ Len(q) <= 2
  BY DEF Pending
<1>2. /\ Len(<<>>) = 0
      /\ \A t \in Seq(Folded) : t # <<>> => Len(t) \in Nat \ {0}
  BY EmptySeq, Zenon
<1>3. Len(q) \in {1, 2}
  <2>1. \A n \in Nat \ {0} : n <= 2 => n \in {1, 2}
    OBVIOUS
  <2> QED BY <1>1, <1>2, <2>1, Zenon
<1>4. /\ Head(q) \in Folded
      /\ Tail(q) \in Seq(Folded) /\ Len(Tail(q)) = Len(q) - 1
      /\ \A i \in 1..Len(Tail(q)) : Tail(q)[i] = q[i + 1]
  BY <1>1, HeadTailProperties
<1>5. Head(q) = q[1]
  BY <1>1, <1>3
<1>6. ASSUME Len(q) = 1 PROVE Tail(q) = <<>>
  <2>1. Len(Tail(q)) \notin Nat \ {0}
    BY <1>4, <1>6
  <2> QED BY <1>2, <1>4, <2>1, Zenon
<1>7. ASSUME Len(q) = 2 PROVE Len(Tail(q)) = 1 /\ Tail(q)[1] = q[2] /\ Tail(q) # <<>>
  <2>1. Len(Tail(q)) = 1 /\ Tail(q)[1] = q[2]
    BY <1>4, <1>7
  <2>2. 1 # 0
    OBVIOUS
  <2> QED BY <1>2, <2>1, <2>2, Zenon
<1> QED BY <1>3, <1>4, <1>5, <1>6, <1>7 DEF Pending

\* The variables are in their ranges before the first setup.
LEMMA TypedInit == FileInit => Typed /\ Ended
<1>1. <<>> \in Pending
  BY EmptySeq DEF Pending
<1>2. {} \in Folded /\ 0 \in 0..MaxFolds
  BY Assumed DEF Folded
<1> QED BY <1>1, <1>2 DEF FileInit, Typed, Ended, NoLedger, Living

\* Every step keeps them there.
LEMMA TypedStep == Typed /\ Ended /\ [FileNext]_fileVars => Typed' /\ Ended'
<1> SUFFICES ASSUME Typed, Ended, [FileNext]_fileVars PROVE Typed' /\ Ended'
  OBVIOUS
<1> USE DEF Typed, Ended, Living
<1>0. <<>> \in Pending
  BY DEF Pending
<1>1. ASSUME SetUpEntry PROVE Typed' /\ Ended'
  BY <1>1 DEF SetUpEntry, history
<1>2. ASSUME NEW corrupt \in BOOLEAN, Loaded(corrupt) PROVE Typed' /\ Ended'
  BY <1>2 DEF Loaded, Held, NoLedger, Folded
<1>3. ASSUME AddFold PROVE Typed' /\ Ended'
  BY <1>3, Assumed DEF AddFold, Folded
<1>4. ASSUME Flush PROVE Typed' /\ Ended'
  BY <1>4, QueuedPending DEF Flush, history
<1>5. ASSUME WriteLands PROVE Typed' /\ Ended'
  BY <1>5, TailPending DEF WriteLands
<1>6. ASSUME WriteFails PROVE Typed' /\ Ended'
  BY <1>6, TailPending DEF WriteFails, RolledBack, history
<1>7. ASSUME Unload PROVE Typed' /\ Ended'
  BY <1>0, <1>7, QueuedPending DEF Unload
<1>8. ASSUME Closed PROVE Typed' /\ Ended'
  BY <1>8 DEF Closed
<1>9. ASSUME UnloadFails PROVE Typed' /\ Ended'
  BY <1>9 DEF UnloadFails, history
<1>10. ASSUME NEW lands \in BOOLEAN, StrayEnds(lands) PROVE Typed' /\ Ended'
  BY <1>10, TailPending DEF StrayEnds, coordinator
<1>11. ASSUME Start PROVE Typed' /\ Ended'
  BY <1>11 DEF Start, coordinator, history
<1>12. ASSUME LoadIntegration PROVE Typed' /\ Ended'
  BY <1>12 DEF LoadIntegration, Purged, coordinator
<1>13. ASSUME Remove PROVE Typed' /\ Ended'
  BY <1>13 DEF Remove, coordinator
<1>14. ASSUME Stop PROVE Typed' /\ Ended'
  BY <1>0, <1>14 DEF Stop, Ends
<1>15. ASSUME Crash PROVE Typed' /\ Ended'
  BY <1>0, <1>15 DEF Crash, Ends
<1>16. ASSUME UNCHANGED fileVars PROVE Typed' /\ Ended'
  BY <1>16 DEF fileVars, coordinator, history
<1> QED
  BY <1>1, <1>2, <1>3, <1>4, <1>5, <1>6, <1>7, <1>8, <1>9, <1>10, <1>11, <1>12,
     <1>13, <1>14, <1>15, <1>16 DEF FileNext

(* The variables stay in their ranges, and what has ended leaves nothing   *)
(* behind: a coordinator that is gone has nothing to write, an entry that  *)
(* is not loaded has no coordinator (async_unload_entry, async_shutdown).  *)
THEOREM FileTyped == FileSpec => [](Typed /\ Ended)
<1>1. FileInit => Typed /\ Ended
  BY TypedInit
<1>2. (Typed /\ Ended) /\ [FileNext]_fileVars => (Typed /\ Ended)'
  BY TypedStep
<1> QED BY <1>1, <1>2, PTL DEF FileSpec

(***************************************************************************)
(* No fold is lost.  Where the folds are is what Newest says; a living     *)
(* coordinator that has nothing dirty and no failed save has handed them   *)
(* on, to the last of its writes or to the file already.                   *)
(***************************************************************************)
Sound == known /\ ~faulty

InLedger == Sound /\ Living => 1..folds \subseteq ledger

HandedOn ==
    Sound /\ Living /\ ~dirty =>
        /\ writes # <<>> => 1..folds \subseteq writes[Len(writes)]
        /\ writes = <<>> /\ ~failed => 1..folds \subseteq Held(file)

LeftBehind ==
    Sound /\ ~Living =>
        /\ strays # <<>> => 1..folds \subseteq strays[Len(strays)]
        /\ strays = <<>> => 1..folds \subseteq Held(file)

\* Nobody reads the file while a dropped coordinator writes, but at a price.
NoStrays == Living /\ strays # <<>> => faulty

Kept == InLedger /\ HandedOn /\ LeftBehind /\ NoStrays

\* Every step hands on the folds a ledger has.
LEMMA KeptStep == Typed /\ Ended /\ Kept /\ [FileNext]_fileVars => Kept'
<1> SUFFICES ASSUME Typed, Ended, Kept, [FileNext]_fileVars PROVE Kept'
  OBVIOUS
<1> USE DEF Typed, Ended, Kept, InLedger, HandedOn, LeftBehind, NoStrays, Sound, Living, Held
<1>1. ASSUME SetUpEntry PROVE Kept'
  BY <1>1 DEF SetUpEntry, history
<1>2. ASSUME NEW corrupt \in BOOLEAN, Loaded(corrupt) PROVE Kept'
  BY <1>2 DEF Loaded
<1>3. ASSUME AddFold PROVE Kept'
  BY <1>3 DEF AddFold
<1>4. ASSUME Flush PROVE Kept'
  BY <1>4, QueuedPending DEF Flush, history
<1>5. ASSUME WriteLands PROVE Kept'
  BY <1>5, TailPending, Assumed DEF WriteLands
<1>6. ASSUME WriteFails PROVE Kept'
  BY <1>6, TailPending DEF WriteFails, RolledBack, history
<1>7. ASSUME Unload PROVE Kept'
  BY <1>7, QueuedPending DEF Unload
<1>8. ASSUME Closed PROVE Kept'
  BY <1>8 DEF Closed
<1>9. ASSUME UnloadFails PROVE Kept'
  BY <1>9 DEF UnloadFails, history
<1>10. ASSUME NEW lands \in BOOLEAN, StrayEnds(lands) PROVE Kept'
  BY <1>10, TailPending, Assumed DEF StrayEnds, coordinator
<1>11. ASSUME Start PROVE Kept'
  BY <1>11 DEF Start, coordinator, history
<1>12. ASSUME LoadIntegration PROVE Kept'
  BY <1>12 DEF LoadIntegration, Purged, coordinator
<1>13. ASSUME Remove PROVE Kept'
  BY <1>13 DEF Remove, coordinator
<1>14. ASSUME Stop PROVE Kept'
  BY <1>14, Assumed DEF Stop, Ends
<1>15. ASSUME Crash PROVE Kept'
  BY <1>15 DEF Crash, Ends
<1>16. ASSUME UNCHANGED fileVars PROVE Kept'
  BY <1>16 DEF fileVars, coordinator, history
<1> QED
  BY <1>1, <1>2, <1>3, <1>4, <1>5, <1>6, <1>7, <1>8, <1>9, <1>10, <1>11, <1>12,
     <1>13, <1>14, <1>15, <1>16 DEF FileNext

(* No fold is lost by reloads, restarts, overlapping saves and failed      *)
(* saves that a later one makes good (save, _async_flush).                 *)
THEOREM NoFoldLost == FileSpec => []FoldsKept
<1>1. FileInit => Kept
  BY DEF FileInit, Kept, InLedger, HandedOn, LeftBehind, NoStrays, Living
<1>2. Typed /\ Ended /\ Kept => FoldsKept
  BY DEF Typed, Ended, Kept, InLedger, LeftBehind, FoldsKept, Newest, Sound
<1> QED BY <1>1, <1>2, KeptStep, FileTyped, PTL DEF FileSpec

(***************************************************************************)
(* The file goes with the entry.  Once the entry is gone nothing starts    *)
(* for it; what writes then outlived it, and ends with Home Assistant,     *)
(* before the next purge.                                                  *)
(***************************************************************************)
Follows ==
    /\ known /\ written => file # NoFile
    /\ ~known /\ ~outlived => file = NoFile /\ stage = "none" /\ strays = <<>>

\* Every step keeps the file with its entry.
LEMMA FollowsStep == Typed /\ Ended /\ Follows /\ [FileNext]_fileVars => Follows'
<1> SUFFICES ASSUME Typed, Ended, Follows, [FileNext]_fileVars PROVE Follows'
  OBVIOUS
<1> USE DEF Typed, Ended, Follows, Living
<1>1. ASSUME SetUpEntry PROVE Follows'
  BY <1>1 DEF SetUpEntry, history
<1>2. ASSUME NEW corrupt \in BOOLEAN, Loaded(corrupt) PROVE Follows'
  BY <1>2 DEF Loaded
<1>3. ASSUME AddFold PROVE Follows'
  BY <1>3 DEF AddFold
<1>4. ASSUME Flush PROVE Follows'
  BY <1>4 DEF Flush, history
<1>5. ASSUME WriteLands PROVE Follows'
  BY <1>5, TailPending, Assumed DEF WriteLands
<1>6. ASSUME WriteFails PROVE Follows'
  BY <1>6 DEF WriteFails, history
<1>7. ASSUME Unload PROVE Follows'
  BY <1>7 DEF Unload
<1>8. ASSUME Closed PROVE Follows'
  BY <1>8 DEF Closed
<1>9. ASSUME UnloadFails PROVE Follows'
  BY <1>9 DEF UnloadFails, history
<1>10. ASSUME NEW lands \in BOOLEAN, StrayEnds(lands) PROVE Follows'
  BY <1>10, TailPending, Assumed DEF StrayEnds, coordinator
<1>11. ASSUME Start PROVE Follows'
  BY <1>11 DEF Start, coordinator, history
<1>12. ASSUME LoadIntegration PROVE Follows'
  BY <1>12 DEF LoadIntegration, Purged, coordinator
<1>13. ASSUME Remove PROVE Follows'
  BY <1>13 DEF Remove, coordinator
<1>14. ASSUME Stop PROVE Follows'
  BY <1>14, Assumed DEF Stop, Ends
<1>15. ASSUME Crash PROVE Follows'
  BY <1>15 DEF Crash, Ends
<1>16. ASSUME UNCHANGED fileVars PROVE Follows'
  BY <1>16 DEF fileVars, coordinator, history
<1> QED
  BY <1>1, <1>2, <1>3, <1>4, <1>5, <1>6, <1>7, <1>8, <1>9, <1>10, <1>11, <1>12,
     <1>13, <1>14, <1>15, <1>16 DEF FileNext

(* The purge and the removal leave no file of an entry that is gone, and   *)
(* take none of an entry that exists (async_remove_entry,                  *)
(* _async_purge_orphaned_storage).                                         *)
THEOREM FileGoesWithEntry == FileSpec => []FileFollowsEntry
<1>1. FileInit => Follows
  BY DEF FileInit, Follows
<1>2. Typed /\ Follows => FileFollowsEntry
  BY DEF Typed, Follows, FileFollowsEntry
<1> QED BY <1>1, <1>2, FollowsStep, FileTyped, PTL DEF FileSpec
=============================================================================
