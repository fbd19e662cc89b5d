---------------------------- MODULE SavedSession ----------------------------
(***************************************************************************)
(* The tab model with its session file: save_tabs writes the tabs that the *)
(* model has, while nothing else is done to it, and the model is gone when *)
(* the process ends.                                                       *)
(***************************************************************************)
EXTENDS BrowserModel, SessionStore

(* A row of the file's table.                                              *)
Rows == [i \in DOMAIN tabs |-> [uri |-> tabs[i].uri, active |-> tabs[i].id = active]]

ProcessEnds ==
  /\ CloseProperly \/ Die
  /\ tabs' = <<>> /\ closed' = <<>> /\ active' = NoTab /\ next_id' = 1 /\ focus' = "page"

SessionInit == Init /\ StoreInit

SessionNext ==
  \/ Idle /\ Next /\ UNCHANGED store
  \/ Begin(Rows) /\ UNCHANGED vars
  \/ Step /\ UNCHANGED vars
  \/ ProcessEnds

SessionSpec == SessionInit /\ [][SessionNext]_<<vars, store>>
=============================================================================
