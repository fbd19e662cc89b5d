---------------------------- MODULE SessionStore ----------------------------
(***************************************************************************)
(* The session file of src/src/session_store.cpp: the tabs to come back    *)
(* to, written anew as a whole by save_tabs, and a mark that tells whether *)
(* the last process ended properly.  SQLite keeps what was committed over  *)
(* the death of the process; of each statement it may report a failure.    *)
(*                                                                         *)
(* An operator marked "Mutant" is not part of the model: it is a way the   *)
(* code could plausibly be wrong, kept to show which property notices.     *)
(***************************************************************************)
EXTENDS Integers, Sequences

CONSTANT NoTransaction

VARIABLES
  running,      \* a process has the store open
  file,         \* what is committed: [rows, clean]
  transaction,  \* what the connection would commit, or NoTransaction
  saving,       \* the rows that save_tabs was given, or NoTransaction
  saved,        \* history: the rows of the last save that succeeded
  started       \* history: a process was marked as started and did not end properly

store == <<running, file, transaction, saving, saved, started>>

StoreInit ==
  /\ running = FALSE
  /\ file = [rows |-> <<>>, clean |-> TRUE]
  /\ transaction = NoTransaction
  /\ saving = NoTransaction
  /\ saved = <<>>
  /\ started = FALSE

Idle == running /\ saving = NoTransaction

InTransaction == transaction # NoTransaction

(* The constructor, which keeps the rows and the mark that the file has,   *)
(* and mark_started, which a program calls then.                           *)
Open ==
  /\ ~running
  /\ running' = TRUE
  /\ file' = [file EXCEPT !.clean = FALSE]
  /\ started' = TRUE
  /\ UNCHANGED <<transaction, saving, saved>>

(* mark_clean_shutdown and the destructor: what a failed save has left     *)
(* open is not committed, and the mark neither if it is a part of that.    *)
CloseProperly ==
  /\ Idle
  /\ running' = FALSE
  /\ IF InTransaction THEN UNCHANGED <<file, started>>
     ELSE file' = [file EXCEPT !.clean = TRUE] /\ started' = FALSE
  /\ transaction' = NoTransaction
  /\ UNCHANGED <<saving, saved>>

(* Mutant: the tabs are deleted outside of the transaction. *)
BeginAutocommit(rows) ==
  /\ Idle /\ ~InTransaction
  /\ file' = [file EXCEPT !.rows = <<>>]
  /\ transaction' = [file EXCEPT !.rows = <<>>]
  /\ saving' = rows
  /\ UNCHANGED <<running, saved, started>>

(* save_tabs: BEGIN IMMEDIATE and DELETE.  If BEGIN fails, because another *)
(* process has locked the file or there is a transaction already, nothing  *)
(* is changed.                                                             *)
Begin(rows) ==
  /\ Idle /\ ~InTransaction
  /\ transaction' = [file EXCEPT !.rows = <<>>]
  /\ saving' = rows
  /\ UNCHANGED <<running, file, saved, started>>

(* The DELETE after it fails: this is outside of the try block, and the    *)
(* transaction stays open.                                                 *)
DeleteFails ==
  /\ Idle /\ ~InTransaction
  /\ transaction' = file
  /\ UNCHANGED <<running, file, saving, saved, started>>

(* The next row is inserted, where nobody sees it yet.                     *)
Insert ==
  /\ running /\ saving # NoTransaction
  /\ Len(transaction.rows) < Len(saving)
  /\ transaction' = [transaction EXCEPT !.rows = Append(@, saving[Len(@) + 1])]
  /\ UNCHANGED <<running, file, saving, saved, started>>

(* Preparing, inserting or committing fails: ROLLBACK.                     *)
Rollback ==
  /\ running /\ saving # NoTransaction
  /\ transaction' = NoTransaction
  /\ saving' = NoTransaction
  /\ UNCHANGED <<running, file, saved, started>>

Commit ==
  /\ running /\ saving # NoTransaction
  /\ transaction.rows = saving
  /\ file' = transaction
  /\ saved' = saving
  /\ transaction' = NoTransaction
  /\ saving' = NoTransaction
  /\ UNCHANGED <<running, started>>

(* The death of the process: what is not committed is gone.                *)
Die ==
  /\ running
  /\ running' = FALSE
  /\ transaction' = NoTransaction
  /\ saving' = NoTransaction
  /\ UNCHANGED <<file, saved, started>>

Step == Open \/ DeleteFails \/ Insert \/ Rollback \/ Commit

-----------------------------------------------------------------------------
(* Whatever fails and whenever the process dies, the file holds the tabs   *)
(* of the last save that succeeded, all of them, and previous_exit_clean   *)
(* says "no" after a process that was marked as started and not as ended.  *)
SessionSurvives ==
  /\ file.rows = saved
  /\ started => ~file.clean
=============================================================================
