----------------------------- MODULE TableLoader -----------------------------
(***************************************************************************)
(* How a table of the frontend loads its rows: the effect of               *)
(* TransactionsTable.tsx and FlashSalesTable.tsx that starts a load when   *)
(* the revision it is asked for changes and aborts the one before.  An     *)
(* aborted load may still be under way, or have its answer already.        *)
(***************************************************************************)
CONSTANT None  \* no load, no revision

VARIABLES
    rows,            \* the rows shown
    error,           \* is an error shown?
    loadedRevision,  \* the revision the last answer belongs to
    load,            \* the load of the current effect, or None
    overtaken        \* aborted loads that have not ended

stateVars == <<rows, error, loadedRevision>>
loaderVars == <<stateVars, load, overtaken>>

\* A load for a revision; asked says what it asks for, and when.
Load(revision, asked) == [revision |-> revision, asked |-> asked]

\* useState before the first load.
LoaderInit(nothing) ==
    /\ rows = nothing
    /\ error = FALSE
    /\ loadedRevision = None
    /\ overtaken = {}

Aborted == overtaken \cup ({load} \ {None})

\* The cleanup of the effect, and its next run.
Reload(revision, asked) ==
    /\ load' = Load(revision, asked)
    /\ overtaken' = Aborted
    /\ UNCHANGED stateVars

\* The cleanup only: nothing is asked for now.
Abort ==
    /\ load' = None
    /\ overtaken' = Aborted
    /\ UNCHANGED stateVars

\* The component is mounted anew.
Remount(nothing, revision, asked) ==
    /\ rows' = nothing
    /\ error' = FALSE
    /\ loadedRevision' = None
    /\ load' = Load(revision, asked)
    /\ overtaken' = Aborted

SetRows(l, answer) ==
    /\ rows' = answer
    /\ error' = FALSE
    /\ loadedRevision' = l.revision

\* Mutant of SetError: the revision stays the one loaded before.
SetErrorOnly(l) ==
    /\ error' = TRUE
    /\ UNCHANGED <<rows, loadedRevision>>

SetError(l) ==
    /\ error' = TRUE
    /\ loadedRevision' = l.revision
    /\ UNCHANGED rows

\* The load of the current effect ends with rows or with an error.
LoadEnds(answers) ==
    /\ load # None
    /\ load' = None
    /\ \/ \E answer \in answers : SetRows(load, answer)
       \/ SetError(load)
    /\ UNCHANGED overtaken

\* Mutant of AfterAbort: the signal is not looked at.
AfterAbortAnyway(l, answer) == SetRows(l, answer)

\* What an aborted load does with an answer it already had.
AfterAbort(l, answer) == UNCHANGED stateVars

OvertakenEnds(l, answers) ==
    /\ l \in overtaken
    /\ overtaken' = overtaken \ {l}
    /\ \E answer \in answers : AfterAbort(l, answer)
    /\ UNCHANGED load
=============================================================================
