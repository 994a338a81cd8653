--------------------------- MODULE TrackerDayBook ---------------------------
(* The tracker implements a day book: the refinement mapping.              *)
EXTENDS Tracker

\* The part of a ledger the book is.
BookOf(L) == [pages |-> L.daily, sealed |-> L.last_updated_day]

\* A coordinator holds the ledger.
Held == pc \notin {"absent", "failed_unload"}

Kept == INSTANCE DayBook WITH
    Page <- Bucket,
    Blank <- EmptyDay,
    date <- DayOf(now),
    open <- Held,
    book <- BookOf(mem),
    kept <- BookOf(disk),
    underway <- IF saving = NoSave THEN {} ELSE {BookOf(saving)}

(* The tracker keeps a day book: whatever is folded, backfilled, saved,    *)
(* lost and reloaded, days are sealed one by one and stay as they were     *)
(* sealed, and the file holds a ledger the coordinator had, or none        *)
(* (_fold_visit's day filter, backfill's order of replace_day and          *)
(* set_meta, _async_flush).                                                *)
KeepsDayBook == Kept!Spec
=============================================================================
