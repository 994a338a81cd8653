--------------------------- MODULE HassDataProofs ---------------------------
(* Theorems about HassData, for any entries, versions and resources.       *)
EXTENDS HassData, TLAPS

\* What the proofs use of the assumption on the constants.
LEMMA Assumed ==
    /\ Versions \subseteq Nat /\ NoVersion \notin Versions
    /\ MaxItems \in Nat \ {0} /\ MaxSetups \in Nat
    /\ 1 \in Id
BY HassDataAssumption DEF Id

(***************************************************************************)
(* The invariant.  Installations that overlap are of the version on disk,  *)
(* which the slot names unless it was freed; each keeps the first of the   *)
(* resources, which is first for all of them, and has left to delete all   *)
(* the others that are still there.                                        *)
(***************************************************************************)
Claims ==
    \A e \in Entries : Installing(e) => mine[e] = file /\ slot \in {file, NoVersion}

Sorts(found) ==
    /\ IsFirst(found.first, DOMAIN items)
    /\ found.first \notin found.extra
    /\ DOMAIN items \subseteq {found.first} \cup found.extra
    /\ items[found.first] \in {found.url, file}

Working ==
    \A e \in Entries : stage[e] = "deleting" => work[e] \in Found /\ Sorts(work[e])

\* No installation has a call to make.
Idle == \A e \in Entries : stage[e] \notin {"paths", "deleting"}

Single(v) == \E i \in Id : items = [j \in {i} |-> v]

Registered == slot # NoVersion /\ Idle => Single(slot)

CardInv == TypeOK /\ Claims /\ Working /\ Registered

\* An installation's version is one.
LEMMA MineTyped ==
    ASSUME TypeOK, Claims, NEW e \in Entries, Installing(e)
    PROVE  mine[e] \in Versions
BY DEF TypeOK, Claims

\* What may stand for a collection.
LEMMA Collected ==
    /\ NoItems \in Collections
    /\ \A c \in Collections : DOMAIN c \subseteq Id /\ \A i \in DOMAIN c : c[i] \in Versions
    /\ \A c \in Collections, S \in SUBSET Id :
          S \subseteq DOMAIN c => [i \in S |-> c[i]] \in Collections
    /\ \A c \in Collections, i \in Id, v \in Versions :
          i \in DOMAIN c => [c EXCEPT ![i] = v] \in Collections
    /\ \A v \in Versions : [i \in {1} |-> v] \in Collections
<1>1. NoItems \in [{} -> Versions]
  BY DEF NoItems
<1>2. \A c \in Collections : \E S \in SUBSET Id : c \in [S -> Versions]
  BY DEF Collections
<1>3. \A S \in SUBSET Id : [S -> Versions] \subseteq Collections
  BY DEF Collections
<1>4. \A c \in Collections, S \in SUBSET Id :
          S \subseteq DOMAIN c => [i \in S |-> c[i]] \in [S -> Versions]
  BY <1>2
<1>5. \A c \in Collections, i \in Id, v \in Versions :
          i \in DOMAIN c => [c EXCEPT ![i] = v] \in [DOMAIN c -> Versions] /\ DOMAIN c \in SUBSET Id
  BY <1>2
<1>6. \A v \in Versions : [i \in {1} |-> v] \in [{1} -> Versions]
  OBVIOUS
<1>7. NoItems \in Collections /\ \A v \in Versions : [i \in {1} |-> v] \in Collections
  <2>1. {} \in SUBSET Id /\ {1} \in SUBSET Id
    BY Assumed
  <2> QED BY <1>1, <1>3, <1>6, <2>1
<1>8. \A c \in Collections : DOMAIN c \subseteq Id /\ \A i \in DOMAIN c : c[i] \in Versions
  BY <1>2
<1>9. \A c \in Collections, S \in SUBSET Id :
          S \subseteq DOMAIN c => [i \in S |-> c[i]] \in Collections
  BY <1>3, <1>4
<1>10. \A c \in Collections, i \in Id, v \in Versions :
          i \in DOMAIN c => [c EXCEPT ![i] = v] \in Collections
  BY <1>3, <1>5
<1> QED BY <1>7, <1>8, <1>9, <1>10

(***************************************************************************)
(* The calls of an installation.                                           *)
(***************************************************************************)
\* A call for what an installation found keeps the types, the first of the
\* resources, and what the other installations found of it.
LEMMA CallStep ==
    ASSUME CardInv, NEW e \in Entries, stage[e] \in {"paths", "deleting"},
           NEW found \in Found, Sorts(found), Call(e, found),
           UNCHANGED <<recording, file, mine, setups>>
    PROVE  CardInv' /\ items' # NoItems
<1> DEFINE f == found.first
<1>1. f \in DOMAIN items /\ f \in Id /\ (\A j \in DOMAIN items : f <= j)
  BY DEF Found, Sorts, IsFirst
<1>2. mine[e] = file /\ mine[e] \in Versions /\ slot \in {file, NoVersion}
  BY MineTyped DEF CardInv, Claims, Installing
<1>3. items \in Collections /\ DOMAIN items \subseteq Id
  BY Collected DEF CardInv, TypeOK
<1>4. CASE found.extra # {}
  <2>1. PICK i \in DOMAIN items :
            /\ IsFirst(i, found.extra)
            /\ items' = [j \in DOMAIN items \ {i} |-> items[j]]
            /\ work' = [work EXCEPT ![e] = [found EXCEPT !.extra = @ \ {i}]]
    BY <1>4 DEF Call, Delete
  <2>2. stage' = [stage EXCEPT ![e] = "deleting"] /\ slot' = slot
    BY <1>4 DEF Call, Delete
  <2>3. i \in found.extra /\ i # f
    BY <2>1 DEF IsFirst, Sorts
  <2>4. DOMAIN items' = DOMAIN items \ {i} /\ f \in DOMAIN items' /\ items'[f] = items[f]
    BY <1>1, <2>1, <2>3
  <2>5. items' \in Collections
    BY <1>3, <2>1, Collected
  <2>6. [found EXCEPT !.extra = @ \ {i}] \in Found
    BY DEF Found
  <2>7. TypeOK'
    BY <2>2, <2>1, <2>5, <2>6 DEF CardInv, TypeOK, recording
  <2>8. Claims'
    BY <2>2 DEF CardInv, Claims, Installing
  <2>9. Working'
    <3> SUFFICES ASSUME NEW o \in Entries, stage'[o] = "deleting"
                 PROVE  (work[o] \in Found /\ Sorts(work[o]))'
      BY DEF Working
    <3>1. CASE o = e
      <4>1. work'[o] = [found EXCEPT !.extra = @ \ {i}]
        BY <2>1, <3>1 DEF CardInv, TypeOK
      <4> QED BY <1>1, <2>4, <2>6, <4>1 DEF Sorts, IsFirst, Found
    <3>2. CASE o # e
      <4>1. work'[o] = work[o] /\ stage[o] = "deleting"
        BY <2>1, <2>2, <3>2 DEF CardInv, TypeOK
      <4>2. work[o] \in Found /\ Sorts(work[o])
        BY <4>1 DEF CardInv, Working
      <4>3. work[o].first = f
        BY <1>1, <1>3, <4>2 DEF Sorts, IsFirst, Found, Id
      <4> QED BY <1>1, <2>4, <4>1, <4>2, <4>3 DEF Sorts, IsFirst
    <3> QED BY <3>1, <3>2
  <2>10. ~Idle'
    BY <2>2 DEF Idle, CardInv, TypeOK
  <2> QED BY <2>4, <2>7, <2>8, <2>9, <2>10 DEF CardInv, Registered, NoItems
<1>5. CASE found.extra = {}
  <2>1. /\ items' = IF found.url = mine[e] THEN items ELSE [items EXCEPT ![f] = mine[e]]
        /\ work' = [work EXCEPT ![e] = NoWork]
        /\ stage' = [stage EXCEPT ![e] = "ending"]
        /\ slot' = slot
    BY <1>5 DEF Call, Update
  <2>2. DOMAIN items = {f} /\ items[f] \in {found.url, file}
    BY <1>1, <1>5 DEF Sorts
  <2>3. DOMAIN items' = {f} /\ items'[f] = file
    BY <1>2, <2>1, <2>2
  <2>4. items' \in Collections
    BY <1>1, <1>2, <1>3, <2>1, Collected
  <2>5. TypeOK'
    BY <2>1, <2>4 DEF CardInv, TypeOK, recording
  <2>6. Claims'
    BY <2>1 DEF CardInv, Claims, Installing
  <2>7. Working'
    <3> SUFFICES ASSUME NEW o \in Entries, stage'[o] = "deleting"
                 PROVE  (work[o] \in Found /\ Sorts(work[o]))'
      BY DEF Working
    <3>1. o # e /\ stage[o] = "deleting" /\ work'[o] = work[o]
      BY <2>1 DEF CardInv, TypeOK
    <3>2. work[o] \in Found /\ Sorts(work[o])
      BY <3>1 DEF CardInv, Working
    <3>3. work[o].first = f
      BY <2>2, <3>2 DEF Sorts, IsFirst
    <3> QED BY <2>2, <2>3, <3>1, <3>2, <3>3 DEF Sorts, IsFirst
  <2>8. Registered'
    <3>1. items' = [j \in {f} |-> file]
      BY <1>2, <2>1, <2>2, <2>4, <2>3 DEF Collections
    <3> QED BY <1>1, <1>2, <2>1, <3>1 DEF Registered, Single
  <2> QED BY <2>3, <2>5, <2>6, <2>7, <2>8 DEF CardInv, NoItems
<1> QED BY <1>4, <1>5

\* A registration that fails frees the slot and leaves the resources.
LEMMA FailStep ==
    ASSUME CardInv, NEW e \in Entries, stage[e] \in {"paths", "deleting"}, Fails(e),
           UNCHANGED <<recording, file, mine, setups>>
    PROVE  CardInv' /\ items' = items
<1>1. TypeOK'
  BY DEF CardInv, TypeOK, Fails, SlotFreed, recording
<1>2. Claims'
  BY DEF CardInv, TypeOK, Claims, Fails, SlotFreed, Installing
<1>3. Working'
  BY DEF CardInv, TypeOK, Working, Fails, Sorts, IsFirst
<1>4. Registered'
  BY DEF Registered, Fails, SlotFreed
<1> QED BY <1>1, <1>2, <1>3, <1>4 DEF CardInv, Fails

\* The registration finds no resource of the card, and creates one.
LEMMA CreateStep ==
    ASSUME CardInv, NEW e \in Entries, stage[e] = "paths", Create(e),
           UNCHANGED <<recording, file, mine, setups>>
    PROVE  CardInv' /\ items' # NoItems
<1>1. mine[e] = file /\ mine[e] \in Versions /\ slot \in {file, NoVersion}
  BY MineTyped DEF CardInv, Claims, Installing
<1>2. TypeOK'
  BY <1>1, Collected DEF CardInv, TypeOK, Create, recording
<1>3. Claims'
  BY DEF CardInv, TypeOK, Claims, Create, Installing
<1>4. \A o \in Entries : stage'[o] # "deleting"
  BY DEF CardInv, TypeOK, Working, Sorts, IsFirst, Create, NoItems
<1>5. Working'
  BY <1>4 DEF Working
<1>6. Registered'
  BY <1>1, Assumed DEF Create, Registered, Single
<1>7. items' # NoItems
  BY DEF Create, NoItems
<1> QED BY <1>2, <1>3, <1>5, <1>6, <1>7 DEF CardInv

\* A registration that begins keeps the invariant and drops no card.
LEMMA RegisterStep ==
    ASSUME CardInv, NEW e \in Entries, Register(e)
    PROVE  CardInv' /\ (items # NoItems => items' # NoItems)
<1>1. CASE Create(e)
  BY <1>1, CreateStep DEF Register
<1>2. CASE Fails(e)
  BY <1>2, FailStep DEF Register
<1>3. ASSUME NEW i \in DOMAIN items, IsFirst(i, DOMAIN items),
             Call(e, [first |-> i, url |-> items[i], extra |-> Extra(i)])
      PROVE  CardInv' /\ items' # NoItems
  <2> DEFINE found == [first |-> i, url |-> items[i], extra |-> Extra(i)]
  <2>1. found \in Found
    BY Collected DEF CardInv, TypeOK, Found, Extra
  <2>2. Sorts(found)
    BY <1>3 DEF Sorts, Extra
  <2> HIDE DEF found
  <2>3. Call(e, found)
    BY <1>3 DEF found
  <2> QED BY <2>1, <2>2, <2>3, CallStep DEF Register
<1> QED BY <1>1, <1>2, <1>3 DEF Register

\* So does each deletion of a duplicate.
LEMMA DeletedStep ==
    ASSUME CardInv, NEW e \in Entries, Deleted(e)
    PROVE  CardInv' /\ (items # NoItems => items' # NoItems)
<1>1. stage[e] = "deleting" /\ work[e] \in Found /\ Sorts(work[e])
  BY DEF Deleted, CardInv, Working
<1>2. CASE Call(e, work[e])
  BY <1>1, <1>2, CallStep DEF Deleted
<1>3. CASE Fails(e)
  BY <1>1, <1>3, FailStep DEF Deleted
<1> QED BY <1>2, <1>3 DEF Deleted

(***************************************************************************)
(* The other steps leave the resources as they are.                        *)
(***************************************************************************)
LEMMA CardInvStep ==
    ASSUME CardInv, [Next]_vars
    PROVE  CardInv' /\ (items # NoItems => items' # NoItems)
<1>1. ASSUME NEW e \in Entries, Tick(e) PROVE CardInv' /\ items' = items
  <2>1. TypeOK' /\ items' = items
    BY <1>1 DEF Tick, CardInv, TypeOK, FlagOf, card
  <2> QED BY <1>1, <2>1 DEF Tick, card, CardInv, Claims, Working, Registered, Idle, Single,
                            Sorts, IsFirst, Installing
<1>2. ASSUME NEW e \in Entries, Setup(e) PROVE CardInv' /\ items' = items
  <2>1. TypeOK' /\ items' = items
    BY <1>2, Assumed DEF Setup, CardInv, TypeOK, card, recording
  <2>2. \A o \in Entries : o # e => stage'[o] = stage[o]
    BY <1>2 DEF Setup, CardInv, TypeOK
  <2>3. stage'[e] = "version" /\ stage[e] = "absent"
    BY <1>2 DEF Setup, CardInv, TypeOK
  <2>4. file' = file /\ work' = work /\ mine' = mine /\ slot' = slot
    BY <1>2 DEF Setup, card
  <2>5. Claims'
    BY <2>2, <2>3, <2>4 DEF CardInv, Claims, Installing
  <2>6. Working'
    BY <2>1, <2>2, <2>3, <2>4 DEF CardInv, Working, Sorts, IsFirst
  <2>7. Registered'
    BY <2>1, <2>2, <2>3, <2>4 DEF CardInv, Registered, Idle, Single
  <2> QED BY <2>1, <2>5, <2>6, <2>7 DEF CardInv
<1>3. ASSUME NEW e \in Entries, Claim(e) PROVE CardInv' /\ items' = items
  <2>1. TypeOK' /\ items' = items
    BY <1>3 DEF Claim, CardInv, TypeOK, recording
  <2>2. \A o \in Entries : o # e => stage'[o] = stage[o] /\ mine'[o] = mine[o]
    BY <1>3 DEF Claim, CardInv, TypeOK
  <2>3. /\ stage[e] = "version"
        /\ \/ stage'[e] = "loaded" /\ slot' = slot
           \/ stage'[e] = "paths" /\ mine'[e] = file /\ slot' = file
    BY <1>3 DEF Claim, CardInv, TypeOK
  <2>4. file' = file /\ work' = work
    BY <1>3 DEF Claim
  <2>5. Claims'
    BY <2>2, <2>3, <2>4 DEF CardInv, Claims, Installing
  <2>6. Working'
    BY <2>1, <2>2, <2>3, <2>4 DEF CardInv, Working, Sorts, IsFirst
  <2>7. Registered'
    BY <2>1, <2>2, <2>3, <2>4 DEF CardInv, Registered, Idle, Single
  <2> QED BY <2>1, <2>5, <2>6, <2>7 DEF CardInv
<1>4. ASSUME NEW e \in Entries, SetupDone(e) PROVE CardInv' /\ items' = items
  <2>1. TypeOK' /\ items' = items
    BY <1>4 DEF SetupDone, CardInv, TypeOK, recording
  <2>2. \A o \in Entries : o # e => stage'[o] = stage[o] /\ mine'[o] = mine[o]
    BY <1>4 DEF SetupDone, CardInv, TypeOK
  <2>3. stage'[e] = "loaded" /\ stage[e] = "ending"
    BY <1>4 DEF SetupDone, CardInv, TypeOK
  <2>4. file' = file /\ work' = work /\ slot' = slot
    BY <1>4 DEF SetupDone
  <2>5. Claims'
    BY <2>2, <2>3, <2>4 DEF CardInv, Claims, Installing
  <2>6. Working'
    BY <2>1, <2>2, <2>3, <2>4 DEF CardInv, Working, Sorts, IsFirst
  <2>7. Registered'
    BY <2>1, <2>2, <2>3, <2>4 DEF CardInv, Registered, Idle, Single
  <2> QED BY <2>1, <2>5, <2>6, <2>7 DEF CardInv
<1>5. ASSUME NEW e \in Entries, Unload(e) PROVE CardInv' /\ items' = items
  <2>1. TypeOK' /\ items' = items
    BY <1>5 DEF Unload, CardInv, TypeOK, recording
  <2>2. \A o \in Entries : o # e => stage'[o] = stage[o]
    BY <1>5 DEF Unload, CardInv, TypeOK
  <2>3. stage'[e] = "absent" /\ stage[e] = "loaded" /\ slot' \in {slot, NoVersion}
    BY <1>5 DEF Unload, CardInv, TypeOK
  <2>4. file' = file /\ work' = work /\ mine' = mine
    BY <1>5 DEF Unload
  <2>5. Claims'
    BY <2>2, <2>3, <2>4 DEF CardInv, Claims, Installing
  <2>6. Working'
    BY <2>1, <2>2, <2>3, <2>4 DEF CardInv, Working, Sorts, IsFirst
  <2>7. Registered'
    BY <2>1, <2>2, <2>3, <2>4 DEF CardInv, Registered, Idle, Single
  <2> QED BY <2>1, <2>5, <2>6, <2>7 DEF CardInv
<1>6. ASSUME RecorderComes PROVE CardInv' /\ items' = items
  BY <1>6 DEF RecorderComes, card, CardInv, TypeOK, Claims, Working, Registered, Idle, Single,
              Sorts, IsFirst, Installing
<1>7. ASSUME NEW v \in Versions, NewFile(v) PROVE CardInv' /\ items' = items
  BY <1>7 DEF NewFile, recording, CardInv, TypeOK, Claims, Working, Registered, Idle, Single,
              Sorts, IsFirst, Installing
<1>8. ASSUME Restart PROVE CardInv' /\ items' = items
  <2>0. setups' \in 0..MaxSetups
    BY <1>8, Assumed DEF Restart, CardInv, TypeOK
  <2>1. TypeOK' /\ items' = items
    BY <1>8, <2>0 DEF Restart, CardInv, TypeOK
  <2>2. (\A e \in Entries : stage'[e] = "absent") /\ slot' = NoVersion
    BY <1>8 DEF Restart
  <2> QED BY <2>1, <2>2 DEF CardInv, Claims, Working, Registered, Installing
<1>9. ASSUME UNCHANGED vars PROVE CardInv' /\ items' = items
  BY <1>9 DEF vars, CardInv, TypeOK, Claims, Working, Registered, Idle, Single,
              Sorts, IsFirst, Installing
<1> QED
  BY <1>1, <1>2, <1>3, <1>4, <1>5, <1>6, <1>7, <1>8, <1>9, RegisterStep, DeletedStep DEF Next

\* The invariant holds when Home Assistant first starts.
LEMMA CardInvInit == Init => CardInv
<1> SUFFICES ASSUME Init PROVE CardInv
  OBVIOUS
<1>1. TypeOK
  <2>1. 0 \in 0..MaxSetups
    BY Assumed
  <2> QED BY <2>1 DEF Init, TypeOK
<1>2. Claims /\ Working /\ Registered
  BY DEF Init, Claims, Working, Registered, Installing
<1> QED BY <1>1, <1>2 DEF CardInv

(* The card's inductive invariant holds: the slot is claimed for what is   *)
(* installed, each installation keeps the first resource and has the       *)
(* others left to delete (_async_install_card).                            *)
THEOREM CardInvariant == Spec => []CardInv
<1>1. CardInv /\ [Next]_vars => CardInv'
  BY CardInvStep
<1> QED BY <1>1, CardInvInit, PTL DEF Spec

(* When a version holds the slot and no installation runs, the card is     *)
(* registered once, at that version, however installations of entries      *)
(* that set up together interleaved (_async_install_card).                 *)
THEOREM InstalledOnceAtRest == Spec => []InstalledOnce
<1>1. CardInv => InstalledOnce
  BY DEF CardInv, Registered, Idle, Single, InstalledOnce, Installing
<1> QED BY <1>1, CardInvariant, PTL

(* A dashboard that has the card keeps it, through duplicates deleted by   *)
(* several installations at once (_async_register_lovelace_resource).      *)
THEOREM CardIsNeverLost == Spec => CardStays
<1>1. CardInv /\ [Next]_vars => [items # NoItems => items' # NoItems]_vars
  BY CardInvStep
<1> QED BY <1>1, CardInvariant, PTL DEF Spec, CardStays
=============================================================================
