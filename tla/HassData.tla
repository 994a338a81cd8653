------------------------------ MODULE HassData ------------------------------
(***************************************************************************)
(* What the entries of the integration share: hass.data[DOMAIN], which     *)
(* holds the flag of the recorder-off issue and the slot of the card's     *)
(* installation, and the Lovelace resources the card is registered in.     *)
(*                                                                         *)
(* Setups of several entries run interleaved; each installs the card at    *)
(* its end, unless the slot says that the version on disk is installed.    *)
(***************************************************************************)
EXTENDS Integers

CONSTANTS
    Entries,        \* the config entries
    Versions,       \* what _get_version can return, oldest first
    MaxItems,       \* bound: the resources of the card there may be at first
    MaxSetups,      \* bound: setups and restarts, altogether
    NoVersion       \* the slot is free

ASSUME HassDataAssumption ==
    /\ Versions \subseteq Nat
    /\ NoVersion \notin Versions
    /\ MaxItems \in Nat \ {0}
    /\ MaxSetups \in Nat

VARIABLES
    recorder,       \* Home Assistant has a recorder
    flag,           \* hass.data's recorder_off
    issue,          \* the recorder-off Repair issue is shown
    stage,          \* where each entry's setup is
    file,           \* the version of the card in the component's directory
    slot,           \* hass.data's _card_installed
    mine,           \* the version each setup installs
    work,           \* the resources each setup still has to deal with
    items,          \* Lovelace's resources of the card: the version of each id
    setups          \* how many of MaxSetups happened

recording == <<recorder, flag, issue>>
card == <<file, slot, mine, work, items>>
vars == <<recorder, flag, issue, stage, file, slot, mine, work, items, setups>>

Id == 1..MaxItems
NoWork == [first |-> 0, url |-> NoVersion, extra |-> {}]

\* A collection of the card's resources, the ids in the order they are kept in.
Collections == UNION {[S -> Versions] : S \in SUBSET Id}
IsFirst(i, S) == i \in S /\ \A j \in S : i <= j
NoItems == [i \in {} |-> NoVersion]

Init ==
    /\ recorder \in BOOLEAN
    /\ flag = FALSE /\ issue = FALSE
    /\ stage = [e \in Entries |-> "absent"]
    /\ file \in Versions
    /\ slot = NoVersion
    /\ mine = [e \in Entries |-> NoVersion]
    /\ work = [e \in Entries |-> NoWork]
    /\ items \in {c \in Collections : \A i \in DOMAIN c : c[i] <= file}
    /\ setups = 0

\* An entry whose coordinator lives, so that its ticks run.
Living(e) == stage[e] # "absent"
-----------------------------------------------------------------------------
(* The recorder's issue.                                                   *)

\* Mutant: the flag, once set, stays set.
FlagSticks(answered) == flag \/ ~answered

\* The flag after a tick: _raise_recorder_off_issue, _clear_recorder_off_issue.
FlagOf(answered) == ~answered

\* A tick's query is answered, or there is no recorder; the issue is created
\* or deleted only when the flag says the opposite.
Tick(e) ==
    /\ Living(e)
    /\ flag' = FlagOf(recorder)
    /\ issue' = IF flag' = flag THEN issue ELSE flag'
    /\ UNCHANGED <<recorder, stage, card, setups>>

\* The recorder is set up late.
RecorderComes ==
    /\ ~recorder
    /\ recorder' = TRUE
    /\ UNCHANGED <<flag, issue, stage, card, setups>>
-----------------------------------------------------------------------------
(* Setups and the card.                                                    *)

\* async_setup_entry up to _async_install_card, which asks for the version.
Setup(e) ==
    /\ stage[e] = "absent"
    /\ setups < MaxSetups
    /\ setups' = setups + 1
    /\ stage' = [stage EXCEPT ![e] = "version"]
    /\ UNCHANGED <<recording, card>>

\* The version has been read, while the file was as it is now: skip, or claim
\* the slot; a card that is not there frees it.
Claim(e) ==
    /\ stage[e] = "version"
    /\ \/ /\ slot = file
          /\ stage' = [stage EXCEPT ![e] = "loaded"]
          /\ UNCHANGED <<slot, mine>>
       \/ /\ slot # file
          /\ slot' = file
          /\ mine' = [mine EXCEPT ![e] = file]
          /\ stage' = [stage EXCEPT ![e] = "paths"]
    /\ UNCHANGED <<recording, file, work, items, setups>>

\* Mutant: a failed installation keeps the slot.
SlotKept == slot

\* The slot after an installation that failed.
SlotFreed == NoVersion

\* The card's file is not there, or the registration raises.
Fails(e) ==
    /\ slot' = SlotFreed
    /\ stage' = [stage EXCEPT ![e] = "ending"]
    /\ work' = [work EXCEPT ![e] = NoWork]
    /\ UNCHANGED items

\* Mutant: the resource to keep is deleted with the others.
ExtraFromFirst(first) == DOMAIN items

\* existing[1:], the duplicates.
Extra(first) == DOMAIN items \ {first}

\* The next call for the resources an installation found: delete a duplicate,
\* which is an error if it is gone, or update the first, which nobody deletes,
\* if its URL was another.
Delete(e, found) ==
    /\ \E i \in DOMAIN items :
        /\ IsFirst(i, found.extra)
        /\ items' = [j \in DOMAIN items \ {i} |-> items[j]]
        /\ work' = [work EXCEPT ![e] = [found EXCEPT !.extra = @ \ {i}]]
    /\ stage' = [stage EXCEPT ![e] = "deleting"]
    /\ UNCHANGED slot

Update(e, found) ==
    /\ items' = IF found.url = mine[e] THEN items
                ELSE [items EXCEPT ![found.first] = mine[e]]
    /\ work' = [work EXCEPT ![e] = NoWork]
    /\ stage' = [stage EXCEPT ![e] = "ending"]
    /\ UNCHANGED slot

Call(e, found) ==
    IF found.extra # {} THEN Delete(e, found) ELSE Update(e, found)

Create(e) ==
    /\ items = NoItems
    /\ items' = [i \in {1} |-> mine[e]]
    /\ stage' = [stage EXCEPT ![e] = "ending"]
    /\ UNCHANGED <<slot, work>>

\* The static path is registered and the collection loaded: list the card's
\* resources and make the first call.  Each call has its effect when made.
Register(e) ==
    /\ stage[e] = "paths"
    /\ \/ Create(e)
       \/ \E i \in DOMAIN items :
            /\ IsFirst(i, DOMAIN items)
            /\ Call(e, [first |-> i, url |-> items[i], extra |-> Extra(i)])
       \/ Fails(e)
    /\ UNCHANGED <<recording, file, mine, setups>>

\* A delete's await ends.
Deleted(e) ==
    /\ stage[e] = "deleting"
    /\ Call(e, work[e]) \/ Fails(e)
    /\ UNCHANGED <<recording, file, mine, setups>>

\* Setup returns, and the entry is LOADED.
SetupDone(e) ==
    /\ stage[e] = "ending"
    /\ stage' = [stage EXCEPT ![e] = "loaded"]
    /\ mine' = [mine EXCEPT ![e] = NoVersion]
    /\ UNCHANGED <<recording, file, slot, work, items, setups>>

\* async_unload_entry: the last LOADED entry frees the slot.
Unload(e) ==
    /\ stage[e] = "loaded"
    /\ stage' = [stage EXCEPT ![e] = "absent"]
    /\ slot' = IF \E o \in Entries \ {e} : stage[o] = "loaded" THEN slot ELSE NoVersion
    /\ UNCHANGED <<recording, file, mine, work, items, setups>>

Installing(e) == stage[e] \in {"paths", "deleting", "ending"}

\* A new version of the component is put on the disk, not while the card of
\* another is being installed.
NewFile(v) ==
    /\ file < v
    /\ ~\E e \in Entries : Installing(e)
    /\ file' = v
    /\ UNCHANGED <<recording, stage, slot, mine, work, items, setups>>

\* Home Assistant starts again: its data is new, Lovelace's resources are kept.
Restart ==
    /\ setups < MaxSetups
    /\ setups' = setups + 1
    /\ recorder' \in BOOLEAN
    /\ flag' = FALSE /\ issue' = FALSE
    /\ stage' = [e \in Entries |-> "absent"]
    /\ slot' = NoVersion
    /\ mine' = [e \in Entries |-> NoVersion]
    /\ work' = [e \in Entries |-> NoWork]
    /\ UNCHANGED <<file, items>>

Next ==
    \/ \E e \in Entries :
        \/ Tick(e)
        \/ Setup(e)
        \/ Claim(e)
        \/ Register(e)
        \/ Deleted(e)
        \/ SetupDone(e)
        \/ Unload(e)
    \/ RecorderComes
    \/ \E v \in Versions : NewFile(v)
    \/ Restart

Spec == Init /\ [][Next]_vars

\* The poll timer of a living coordinator fires, and its tick ends.
Fairness == \A e \in Entries : WF_vars(Tick(e))

FairSpec == Spec /\ Fairness
-----------------------------------------------------------------------------
(* Properties.                                                             *)

Found == [first : Id, url : Versions, extra : SUBSET Id]

TypeOK ==
    /\ recorder \in BOOLEAN /\ flag \in BOOLEAN /\ issue \in BOOLEAN
    /\ stage \in [Entries -> {"absent", "version", "paths", "deleting", "ending", "loaded"}]
    /\ file \in Versions
    /\ slot \in Versions \cup {NoVersion}
    /\ mine \in [Entries -> Versions \cup {NoVersion}]
    /\ work \in [Entries -> Found \cup {NoWork}]
    /\ items \in Collections
    /\ setups \in 0..MaxSetups

(* When a version's installation holds the slot and no installation runs,  *)
(* the card is registered once, at that version: also after installations  *)
(* that ran interleaved (_async_install_card's "a duplicate run is         *)
(* harmless").                                                             *)
InstalledOnce ==
    slot # NoVersion /\ (\A e \in Entries : ~Installing(e))
        => \E i \in Id : items = [j \in {i} |-> slot]

(* A dashboard that has the card keeps it: whatever installations do at    *)
(* the same time, they leave it registered.                                *)
CardStays == [][items # NoItems => items' # NoItems]_vars

(* The recorder-off issue follows the recorder, whichever tracker saw it   *)
(* go and whichever sees it back, as long as one tracker lives.            *)
IssueFollowsRecorder ==
    \A on \in BOOLEAN :
        <>[](recorder = on /\ \E e \in Entries : stage[e] = "loaded")
            => <>[](issue = ~on)
=============================================================================
