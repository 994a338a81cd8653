------------------------------ MODULE DayBook ------------------------------
(***************************************************************************)
(* What a tracker promises of its daily buckets: a book with one page per  *)
(* local day, written in memory while it is open and kept in a file.       *)
(*                                                                         *)
(* Closed days are sealed one after the other, never today's.  While the   *)
(* book is open the page of a sealed day is final: it can only be dropped, *)
(* when it is old.  The file holds a state the open book was in, whole,    *)
(* or nothing; at most one save is under way, and nothing else writes the  *)
(* file meanwhile.                                                         *)
(***************************************************************************)
EXTENDS Integers

CONSTANTS
    Day,        \* the local days
    Page,       \* what a page can hold
    Blank,      \* the page nothing is written on
    NoDay       \* no day is sealed yet

VARIABLES
    date,       \* the local day it is
    open,       \* the book is open
    book,       \* the book in memory; a new one when it is not open
    kept,       \* the book in the file
    underway    \* the book whose save is under way, if there is one

vars == <<date, open, book, kept, underway>>

Book == [pages : [Day -> Page], sealed : Day \cup {NoDay}]

NewBook == [pages |-> [d \in Day |-> Blank], sealed |-> NoDay]

TypeOK ==
    /\ date \in Day
    /\ open \in BOOLEAN
    /\ book \in Book
    /\ kept \in Book
    /\ underway \subseteq Book

Init ==
    /\ date \in Day
    /\ open = FALSE
    /\ book = NewBook
    /\ kept = NewBook
    /\ underway = {}

NewDay ==
    /\ date' \in Day
    /\ date < date'
    /\ UNCHANGED <<open, book, kept, underway>>

\* The file is read, or is lost; what was read is taken, or rebuilt from none.
Open ==
    /\ ~open
    /\ open' = TRUE
    /\ kept' \in {kept, NewBook}
    /\ book' \in {kept', NewBook}
    /\ UNCHANGED <<date, underway>>

\* The new state of the book goes to the file in this step, or waits.
SavedOrNot ==
    \/ UNCHANGED <<kept, underway>>
    \/ underway = {} /\ kept' = book' /\ UNCHANGED underway

\* Pages of days not sealed are written.
Write ==
    /\ open
    /\ book' \in Book
    /\ book'.sealed = book.sealed
    /\ \A d \in Day : d <= book.sealed => book'.pages[d] = book.pages[d]
    /\ SavedOrNot
    /\ UNCHANGED <<date, open>>

\* The next closed day is sealed, and the file knows.
Seal(d) ==
    /\ open
    /\ underway = {}
    /\ d < date
    /\ book.sealed \in {NoDay, d - 1}
    /\ book' = [book EXCEPT !.sealed = d]
    /\ kept' = book'
    /\ UNCHANGED <<date, open, underway>>

\* Pages of days before c are dropped; a save may begin.
Prune(c) ==
    /\ open
    /\ c <= date
    /\ book' = [book EXCEPT !.pages =
                    [d \in Day |-> IF d < c THEN Blank ELSE book.pages[d]]]
    /\ \/ SavedOrNot
       \/ underway = {} /\ underway' = {book'} /\ UNCHANGED kept
    /\ UNCHANGED <<date, open>>

SaveEnds ==
    /\ underway # {}
    /\ kept' \in underway \cup {kept}
    /\ underway' = {}
    /\ UNCHANGED <<date, open, book>>

\* The book is closed, saved or not, or memory is lost.
Close ==
    /\ open
    /\ open' = FALSE
    /\ book' = NewBook
    /\ kept' \in {kept} \cup (IF underway = {} THEN {book} ELSE {})
    /\ underway' = {}
    /\ UNCHANGED date

Next ==
    \/ NewDay
    \/ Open
    \/ Write
    \/ \E d \in Day : Seal(d) \/ Prune(d)
    \/ SaveEnds
    \/ Close

Spec == Init /\ [][Next]_vars
=============================================================================
