----------------------------- MODULE LedgerFile -----------------------------
(***************************************************************************)
(* The file of one entry's ledger, through the store objects that use it:  *)
(* each coordinator has one of its own, the removal of the entry makes     *)
(* another, and a purge that knows no store deletes the files of entries   *)
(* that are gone.                                                          *)
(*                                                                         *)
(* A ledger is the set of the folds it holds.  What coordinator and store  *)
(* do at setup, and when a save fails then, is in Tracker.                 *)
(***************************************************************************)
EXTENDS Integers, Sequences

CONSTANTS
    NoFile,         \* there is no file
    MaxFolds,       \* bound: the folds
    MaxStarts       \* bound: the starts of Home Assistant

ASSUME LedgerFileAssumption ==
    /\ {MaxFolds, MaxStarts} \subseteq Nat
    /\ \A folded \in SUBSET (1..MaxFolds) : folded # NoFile

VARIABLES
    starts,         \* how many of MaxStarts happened
    home,           \* Home Assistant: "off", "on", or the integration is "loaded"
    known,          \* the entry exists
    stage,          \* its coordinator
    ledger,         \* the ledger in memory, of the coordinator and its store
    dirty,          \* _dirty
    failed,         \* the last save that ended failed
    writes,         \* the snapshots the store writes, the first at work
    strays,         \* those of a coordinator that was dropped
    file,           \* the ledger on disk
    folds,          \* how many folds were made
    written,        \* the entry's file has been written
    outlived,       \* something that writes outlived the entry
    faulty          \* folds may have been lost with a crash or a failed save

coordinator == <<stage, ledger, dirty, failed, writes>>
history == <<folds, written, outlived, faulty>>
fileVars == <<starts, home, known, coordinator, strays, file, history>>

NoLedger == {}
Held(f) == IF f = NoFile THEN NoLedger ELSE f
Living == stage \in {"up", "closing", "failed_unload"}

FileInit ==
    /\ starts = 0
    /\ home = "off"
    /\ known = TRUE
    /\ stage = "none"
    /\ ledger = NoLedger /\ dirty = FALSE /\ failed = FALSE
    /\ writes = <<>> /\ strays = <<>>
    /\ file = NoFile
    /\ folds = 0
    /\ written = FALSE /\ outlived = FALSE /\ faulty = FALSE
-----------------------------------------------------------------------------
(* The coordinator and its store.                                          *)

\* async_setup_entry, up to the read of the file.
SetUpEntry ==
    /\ home = "loaded"
    /\ known
    /\ stage = "none"
    /\ stage' = "loading"
    /\ UNCHANGED <<starts, home, known, ledger, dirty, failed, writes, strays, file, history>>

\* _load_from_disk ends: no file, or one that is corrupt, is an empty ledger.
\* The reconcile leaves the ledger dirty.
Loaded(corrupt) ==
    /\ stage = "loading"
    /\ stage' = "up"
    /\ ledger' = IF corrupt THEN NoLedger ELSE Held(file)
    /\ dirty' = TRUE /\ failed' = FALSE
    /\ faulty' = (faulty \/ corrupt \/ strays # <<>>)
    /\ UNCHANGED <<starts, home, known, writes, strays, file, folds, written, outlived>>

\* A fold, or any other change of the ledger.
AddFold ==
    /\ stage \in {"up", "failed_unload"}
    /\ folds < MaxFolds
    /\ folds' = folds + 1
    /\ ledger' = ledger \cup {folds'}
    /\ dirty' = TRUE
    /\ UNCHANGED <<starts, home, known, stage, failed, writes, strays, file,
                   written, outlived, faulty>>

\* What the store still has to write after a save: a snapshot that waits is
\* replaced by the new one.
Queued(snapshot) ==
    IF writes = <<>> THEN <<snapshot>> ELSE <<Head(writes), snapshot>>

\* _async_flush by a tick.
Flush ==
    /\ stage \in {"up", "failed_unload"}
    /\ dirty
    /\ dirty' = FALSE
    /\ writes' = Queued(ledger)
    /\ UNCHANGED <<starts, home, known, stage, ledger, failed, strays, file, history>>

\* A write lands: the file is replaced in one step.
WriteLands ==
    /\ writes # <<>>
    /\ file' = Head(writes)
    /\ writes' = Tail(writes)
    /\ failed' = FALSE
    /\ written' = TRUE
    /\ UNCHANGED <<starts, home, known, stage, ledger, dirty, strays, folds,
                   outlived, faulty>>

\* Mutant: the cache goes back to what was saved before.
RolledBackToFile == Held(file)

\* The rollback of save: previous is the object the ledger is mutated in.
RolledBack == ledger

WriteFails ==
    /\ writes # <<>>
    /\ writes' = Tail(writes)
    /\ failed' = TRUE
    /\ ledger' = RolledBack
    /\ UNCHANGED <<starts, home, known, stage, dirty, strays, file, history>>

\* An unload, async_shutdown: save what is dirty and wait for it; a write that
\* a tick began, with nothing dirty since, goes on alone.
Unload ==
    /\ stage = "up"
    /\ strays = <<>>
    /\ IF dirty
       THEN /\ stage' = "closing"
            /\ writes' = Queued(ledger)
            /\ dirty' = FALSE
            /\ UNCHANGED <<failed, strays, faulty>>
       ELSE /\ stage' = "none"
            /\ strays' = writes /\ writes' = <<>>
            /\ faulty' = (faulty \/ failed) /\ failed' = FALSE
            /\ UNCHANGED dirty
    /\ UNCHANGED <<starts, home, known, ledger, file, folds, written, outlived>>

Closed ==
    /\ stage = "closing"
    /\ writes = <<>>
    /\ stage' = "none"
    /\ faulty' = (faulty \/ failed) /\ failed' = FALSE
    /\ UNCHANGED <<starts, home, known, ledger, dirty, writes, strays, file,
                   folds, written, outlived>>

\* The platforms do not unload: the coordinator goes on.
UnloadFails ==
    /\ stage = "up"
    /\ stage' = "failed_unload"
    /\ UNCHANGED <<starts, home, known, ledger, dirty, failed, writes, strays, file, history>>

\* A write of a dropped coordinator ends.
StrayEnds(lands) ==
    /\ strays # <<>>
    /\ strays' = Tail(strays)
    /\ file' = IF lands THEN Head(strays) ELSE file
    /\ written' = (written \/ lands)
    /\ faulty' = (faulty \/ ~lands)
    /\ UNCHANGED <<starts, home, known, coordinator, folds, outlived>>
-----------------------------------------------------------------------------
(* Home Assistant and the entry.                                           *)

Start ==
    /\ home = "off"
    /\ starts < MaxStarts
    /\ starts' = starts + 1
    /\ home' = "on"
    /\ UNCHANGED <<known, coordinator, strays, file, history>>

\* Mutant: files of entries that are known are deleted, too.
PurgedAll == NoFile

\* _async_purge_orphaned_storage
Purged == IF known THEN file ELSE NoFile

\* async_setup, once per start and before any entry; an unlink may fail.
LoadIntegration ==
    /\ home = "on"
    /\ home' = "loaded"
    /\ \/ file' = Purged /\ outlived' = FALSE
       \/ ~known /\ UNCHANGED <<file, outlived>>
    /\ UNCHANGED <<starts, known, coordinator, strays, folds, written, faulty>>

\* async_remove_entry, after the unload: the file goes, whoever still writes it.
Remove ==
    /\ home # "off"
    /\ known
    /\ stage \in {"none", "failed_unload"}
    /\ known' = FALSE
    /\ file' = NoFile
    /\ outlived' = (Living \/ writes # <<>> \/ strays # <<>>)
    /\ UNCHANGED <<starts, home, coordinator, strays, folds, written, faulty>>

Ends ==
    /\ home' = "off"
    /\ stage' = "none"
    /\ dirty' = FALSE /\ failed' = FALSE
    /\ writes' = <<>> /\ strays' = <<>>
    /\ UNCHANGED <<starts, known, ledger, folds, outlived>>

\* Home Assistant stops: the writes at work end, and what is dirty is saved.
Stop ==
    /\ home # "off"
    /\ stage # "closing"
    /\ writes = <<>> /\ strays = <<>>
    /\ file' = IF Living /\ dirty THEN ledger ELSE file
    /\ written' = (written \/ (Living /\ dirty))
    /\ faulty' = (faulty \/ (Living /\ failed /\ ~dirty))
    /\ Ends

Crash ==
    /\ home # "off"
    /\ faulty' = (faulty \/ strays # <<>> \/ (Living /\ (dirty \/ failed \/ writes # <<>>)))
    /\ UNCHANGED <<file, written>>
    /\ Ends

FileNext ==
    \/ SetUpEntry
    \/ \E corrupt \in BOOLEAN : Loaded(corrupt)
    \/ AddFold
    \/ Flush
    \/ WriteLands
    \/ WriteFails
    \/ Unload
    \/ Closed
    \/ UnloadFails
    \/ \E lands \in BOOLEAN : StrayEnds(lands)
    \/ Start
    \/ LoadIntegration
    \/ Remove
    \/ Stop
    \/ Crash

FileSpec == FileInit /\ [][FileNext]_fileVars
-----------------------------------------------------------------------------
(* Properties.                                                             *)

\* The ledger a next setup would find, once what is under way has ended.
Newest ==
    CASE Living -> ledger
      [] ~Living /\ strays # <<>> -> strays[Len(strays)]
      [] OTHER -> Held(file)

(* No fold is lost by reloads, restarts, overlapping saves and saves that  *)
(* fail and are made good by a later one: as long as no crash, no corrupt  *)
(* file, no failed last save and no read of the file before a stray write  *)
(* ended comes in between (save's rollback, _async_flush).                 *)
FoldsKept == known /\ ~faulty => 1..folds \subseteq Newest

(* The file goes and stays with the entry: the purge and the removal leave *)
(* no file of an entry that is gone, unless something that writes outlived *)
(* the entry, until a purge; and they take none of an entry that exists.   *)
FileFollowsEntry ==
    IF known THEN written => file # NoFile
    ELSE ~outlived => file = NoFile
=============================================================================
