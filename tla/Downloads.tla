------------------------------ MODULE Downloads ------------------------------
(***************************************************************************)
(* Downloads of several browser processes that share one profile           *)
(* (src/src/native_app.cpp, src/src/user_data.cpp): the DownloadContexts   *)
(* of each process, the downloads table of the profile's database, and     *)
(* UserDataStore::reconcile_downloads, with which a process that is        *)
(* launched settles what an earlier one left behind.                       *)
(*                                                                         *)
(* A handler runs to its end on its process's main loop and is one step;   *)
(* the processes share the database only, a statement at a time, so that   *)
(* reconciling takes several.  Each download has a destination of its own; *)
(* byte counts matter only in that a file is `whole` or not.  From a       *)
(* download that was cancelled WebKit reports nothing more but its end.    *)
(*                                                                         *)
(* An operator marked "Mutant" is not part of the model: it is a way the   *)
(* code could plausibly be wrong, kept to show which property notices.     *)
(***************************************************************************)
EXTENDS Integers, FiniteSets, FiniteSetsExt, SequencesExt

CONSTANTS
  Procs,      \* browser processes
  Downloads,  \* WebKitDownloads, each with at most one DownloadContext
  Limit,      \* how many rows downloads() returns, the newest first: 500
  Nothing     \* no process, no download, no row

ASSUME DownloadsAssumption ==
  /\ IsFiniteSet(Downloads) /\ Limit \in Nat
  /\ Nothing \notin Procs \cup Downloads /\ Nothing \notin Nat

(* Ids: a download adds at most one row. *)
Rows == 1..Cardinality(Downloads)

VARIABLES
  running,    \* processes between launch and exit
  active,     \* active[p]: owner->active_downloads
  phase,      \* phase[d]: what WebKit does with d
  whole,      \* downloads whose file is complete at its destination
  context,    \* context[d]: the DownloadContext of d
  dialogs,    \* open save dialogs, by the context they point to
  status,     \* status[r]: the status in row r, or "none" if there is no row
  todo,       \* todo[p]: entries p has read in reconcile_downloads and not settled
  found,      \* found[p]: the row p looks at, and whether its file is complete
  writer,     \* history: writer[r] added row r
  asked,      \* history: downloads somebody asked to cancel
  removed,    \* history: rows that somebody removed
  left,       \* history: rows of processes that ended, not yet read by a launch
  struck      \* history: downloads that another's dialog reached

process == <<running, todo, found, left>>
download == <<active, phase, whole, context>>
table == <<status, writer, removed>>
choices == <<asked, dialogs, struck>>
vars == <<process, download, table, choices>>

Live == {"deciding", "asking", "refused", "named", "receiving"}

Statuses == {"downloading", "complete", "cancelled", "failed", "interrupted"}

(* private is context->private_mode.  History: the window the download     *)
(* came from is private (secret) and was found when it started (known).    *)
Context == [proc : Procs \cup {Nothing}, record : Rows \cup {0},
            private : BOOLEAN, secret : BOOLEAN, known : BOOLEAN, prompt : BOOLEAN,
            cancelled : BOOLEAN]

NoContext == [proc |-> Nothing, record |-> 0, private |-> FALSE, secret |-> FALSE,
              known |-> FALSE, prompt |-> FALSE, cancelled |-> FALSE]

(* The downloads under way in p.                                           *)
Under(p) == {d \in Downloads : phase[d] \in Live /\ context[d].proc = p}

TypeOK ==
  /\ running \subseteq Procs
  /\ active \in [Procs -> Seq(Downloads)]
  /\ \A p \in Procs :
       /\ IsInjective(active[p])
       /\ ToSet(active[p]) = Under(p)
       /\ active[p] # <<>> => p \in running
  /\ phase \in [Downloads -> Live \cup {"none", "gone"}]
  /\ whole \subseteq Downloads /\ dialogs \subseteq Downloads
  /\ asked \subseteq Downloads /\ struck \subseteq Downloads
  /\ context \in [Downloads -> Context]
  /\ status \in [Rows -> Statuses \cup {"none"}]
  /\ todo \in [Procs -> SUBSET [row : Rows, of : Downloads]]
  /\ found \in [Procs -> [row : Rows \cup {Nothing}, complete : BOOLEAN]]
  /\ writer \in [Rows -> Downloads \cup {Nothing}]
  /\ removed \subseteq Rows /\ left \subseteq Rows

NotLooking == [row |-> Nothing, complete |-> FALSE]

Init ==
  /\ running = {}
  /\ active = [p \in Procs |-> <<>>]
  /\ phase = [d \in Downloads |-> "none"]
  /\ whole = {} /\ dialogs = {} /\ asked = {} /\ removed = {} /\ left = {} /\ struck = {}
  /\ context = [d \in Downloads |-> NoContext]
  /\ status = [r \in Rows |-> "none"]
  /\ todo = [p \in Procs |-> {}]
  /\ found = [p \in Procs |-> NotLooking]
  /\ writer = [r \in Rows |-> Nothing]

(* UPDATE downloads SET status=? WHERE id=?, which may match no row.       *)
UpdateDownload(r, new) ==
  status' = [q \in Rows |-> IF q = r /\ status[q] # "none" THEN new ELSE status[q]]

(* The id of the next row: INTEGER PRIMARY KEY, without AUTOINCREMENT.     *)
NextRow == Max({r \in Rows : status[r] # "none"} \cup {0}) + 1

(* The rows that p has read and not settled.                               *)
Read(p) == {entry.row : entry \in todo[p]}

(* A process whose start-up is over.                                       *)
Serving(p) == p \in running /\ todo[p] = {} /\ found[p] = NotLooking

-----------------------------------------------------------------------------
(* Processes.                                                              *)

(* The n newest rows: a new row has the largest id, and the latest         *)
(* created_at, unless the clock is set back.                               *)
Newest(n) ==
  {r \in Rows : status[r] # "none"
                  /\ Cardinality({q \in Rows : q > r /\ status[q] # "none"}) < n}

(* reconcile_downloads: the newest rows are read at once; other places     *)
(* among the `Limit` are taken by rows that are not modelled ...           *)
Launch(p) ==
  /\ p \notin running
  /\ running' = running \cup {p}
  /\ \E n \in 0..Limit :
       /\ todo' = [todo EXCEPT ![p] =
            {[row |-> r, of |-> writer[r]] : r \in {q \in Newest(n) : status[q] = "downloading"}}]
       /\ left' = left \ Newest(n)
  /\ UNCHANGED <<table, choices, download, found>>

(* Mutant: any file at the destination counts, also the empty one that     *)
(* WebKit puts there first. *)
ReconcileLookExists(p) ==
  /\ found[p] = NotLooking
  /\ \E entry \in todo[p] :
       found' = [found EXCEPT ![p] = [row |-> entry.row,
                   complete |-> entry.of \in whole \/ phase[entry.of] = "receiving"]]
  /\ UNCHANGED <<table, choices, download, running, todo, left>>

(* ... and for each the file is looked at.  A whole file counts unless it  *)
(* is empty, or shorter than the last total WebKit has announced ...       *)
ReconcileLook(p) ==
  /\ found[p] = NotLooking
  /\ \E entry \in todo[p], complete \in BOOLEAN :
       /\ complete => entry.of \in whole
       /\ found' = [found EXCEPT ![p] = [row |-> entry.row, complete |-> complete]]
  /\ UNCHANGED <<table, choices, download, running, todo, left>>

(* Mutant: only complete downloads are settled. *)
ReconcileWriteComplete(p) ==
  /\ found[p] # NotLooking
  /\ IF found[p].complete THEN UpdateDownload(found[p].row, "complete") ELSE UNCHANGED status
  /\ todo' = [todo EXCEPT ![p] = {entry \in @ : entry.row # found[p].row}]
  /\ found' = [found EXCEPT ![p] = NotLooking]
  /\ UNCHANGED <<choices, download, running, writer, removed, left>>

(* ... and the row written, whatever it says by now.                       *)
ReconcileWrite(p) ==
  /\ found[p] # NotLooking
  /\ UpdateDownload(found[p].row, IF found[p].complete THEN "complete" ELSE "interrupted")
  /\ todo' = [todo EXCEPT ![p] = {entry \in @ : entry.row # found[p].row}]
  /\ found' = [found EXCEPT ![p] = NotLooking]
  /\ UNCHANGED <<choices, download, running, writer, removed, left>>

(* The process ends: by a crash, or because its last window was closed.    *)
(* In both cases its contexts and dialogs are gone and nothing is written. *)
Exit(p) ==
  /\ p \in running
  /\ running' = running \ {p}
  /\ active' = [active EXCEPT ![p] = <<>>]
  /\ phase' = [d \in Downloads |-> IF context[d].proc = p THEN "gone" ELSE phase[d]]
  /\ dialogs' = {d \in dialogs : context[d].proc # p}
  /\ left' = left \cup Read(p) \cup ({context[d].record : d \in Under(p)} \ {0})
  /\ todo' = [todo EXCEPT ![p] = {}]
  /\ found' = [found EXCEPT ![p] = NotLooking]
  /\ UNCHANGED <<table, whole, context, asked, struck>>

-----------------------------------------------------------------------------
(* A download, from signal to signal.                                      *)

(* The window is looked for among those that still have the tab: where a   *)
(* tab was closed meanwhile, private_mode stays false.                     *)
DownloadStarted(p, d) ==
  /\ Serving(p)
  /\ phase[d] = "none"
  /\ \E secret, known, prompt \in BOOLEAN :
       context' = [context EXCEPT ![d] =
         [proc |-> p, record |-> 0, private |-> known /\ secret, secret |-> secret,
          known |-> known, prompt |-> known /\ prompt, cancelled |-> FALSE]]
  /\ phase' = [phase EXCEPT ![d] = "deciding"]
  /\ active' = [active EXCEPT ![p] = Append(@, d)]
  /\ UNCHANGED <<process, table, choices, whole>>

(* A dialog if one is wanted and the window still open; else a name of     *)
(* WebKit's or Vantage's making, which may turn out to have no URI.        *)
DownloadDestination(d) ==
  /\ phase[d] = "deciding" /\ ~context[d].cancelled
  /\ \/ context[d].prompt /\ dialogs' = dialogs \cup {d} /\ phase' = [phase EXCEPT ![d] = "asking"]
     \/ \E to \in {"named", "refused"} : phase' = [phase EXCEPT ![d] = to] /\ UNCHANGED dialogs
  /\ UNCHANGED <<process, table, active, whole, context, asked, struck>>

(* The dialog holds a bare pointer.  When its download is over by now, the *)
(* memory may belong to a context allocated since, or to none.             *)
DownloadSaveDialogFinished(d) ==
  /\ d \in dialogs
  /\ dialogs' = dialogs \ {d}
  /\ \/ \E e \in IF phase[d] = "gone" THEN ToSet(active[context[d].proc]) ELSE {d} :
          /\ struck' = struck \cup ({e} \ {d})
          /\ \/ /\ phase' = IF phase[e] = "asking" THEN [phase EXCEPT ![e] = "named"] ELSE phase
                /\ UNCHANGED <<context, asked>>
             \/ /\ context' = [context EXCEPT ![e].cancelled = TRUE]
                /\ asked' = asked \cup {d}
                /\ UNCHANGED phase
     \/ phase[d] = "gone" /\ UNCHANGED <<phase, context, asked, struck>>
  /\ UNCHANGED <<process, table, active, whole>>

(* Mutant: a private download is recorded as well. *)
DownloadCreatedRecorded(d) ==
  /\ phase[d] = "named" /\ ~context[d].cancelled
  /\ phase' = [phase EXCEPT ![d] = "receiving"]
  /\ context' = [context EXCEPT ![d].record = NextRow]
  /\ status' = [status EXCEPT ![NextRow] = "downloading"]
  /\ writer' = [writer EXCEPT ![NextRow] = d]
  /\ UNCHANGED <<process, choices, active, whole, removed>>

(* Mutant: the id is guessed from how many rows there are. *)
DownloadCreatedCounting(d) ==
  /\ phase[d] = "named" /\ ~context[d].cancelled
  /\ phase' = [phase EXCEPT ![d] = "receiving"]
  /\ IF ~context[d].private /\ context[d].record = 0
     THEN /\ context' = [context EXCEPT ![d].record =
               Cardinality({r \in Rows : status[r] = "downloading"}) + 1]
          /\ status' = [status EXCEPT ![NextRow] = "downloading"]
          /\ writer' = [writer EXCEPT ![NextRow] = d]
     ELSE UNCHANGED <<context, status, writer>>
  /\ UNCHANGED <<process, choices, active, whole, removed>>

(* The row is added when the file has been created.                        *)
DownloadCreatedDestination(d) ==
  /\ phase[d] = "named" /\ ~context[d].cancelled
  /\ phase' = [phase EXCEPT ![d] = "receiving"]
  /\ IF ~context[d].private /\ context[d].record = 0
     THEN /\ context' = [context EXCEPT ![d].record = NextRow]
          /\ status' = [status EXCEPT ![NextRow] = "downloading"]
          /\ writer' = [writer EXCEPT ![NextRow] = d]
     ELSE UNCHANGED <<context, status, writer>>
  /\ UNCHANGED <<process, choices, active, whole, removed>>

(* WebKit moves the file to its destination before it reports the end.     *)
FileMoved(d) ==
  /\ phase[d] = "receiving"
  /\ whole' = whole \cup {d}
  /\ UNCHANGED <<process, table, choices, active, phase, context>>

(* What is the same at the end of every download.                          *)
Over(d) ==
  /\ phase' = [phase EXCEPT ![d] = "gone"]
  /\ \E i \in DOMAIN active[context[d].proc] :
       /\ active[context[d].proc][i] = d
       /\ active' = [active EXCEPT ![context[d].proc] = RemoveAt(@, i)]
  /\ UNCHANGED <<process, choices, whole, context, writer, removed>>

(* Mutant: WebKit's report of a cancelled download counts as a failure. *)
DownloadFailedAnyway(d) ==
  /\ phase[d] \in Live
  /\ IF ~context[d].private
     THEN UpdateDownload(context[d].record, "failed")
     ELSE UNCHANGED status
  /\ Over(d)

(* failed, and at once finished: an error, or WebKit's answer to cancel(), *)
(* which it gives for a download that was complete by then as well.        *)
DownloadFailed(d) ==
  /\ phase[d] \in Live
  /\ IF ~context[d].private /\ ~context[d].cancelled
     THEN UpdateDownload(context[d].record, "failed")
     ELSE UNCHANGED status
  /\ Over(d)

DownloadFinished(d) ==
  /\ d \in whole /\ phase[d] = "receiving" /\ ~context[d].cancelled
  /\ IF ~context[d].private
     THEN UpdateDownload(context[d].record, "complete")
     ELSE UNCHANGED status
  /\ Over(d)

-----------------------------------------------------------------------------
(* What the user and the agent do about downloads.                         *)

(* std::find_if: the place of the first of p's contexts with the record.   *)
IsFirstWithRecord(p, i, r) ==
  /\ context[active[p][i]].record = r
  /\ \A j \in 1..(i - 1) : context[active[p][j]].record # r

Cancel(d, r) ==
  /\ context' = [context EXCEPT ![d].cancelled = TRUE]
  /\ IF ~context[d].private THEN UpdateDownload(r, "cancelled") ELSE UNCHANGED status

(* Mutant: the oldest download is cancelled whichever was meant. *)
CancelOldest(p, r) ==
  /\ IF \E d \in ToSet(active[p]) : context[d].record = r
     THEN Cancel(Head(active[p]), r)
     ELSE UNCHANGED <<context, status>>
  /\ UNCHANGED <<process, active, phase, whole, dialogs, writer, removed, struck>>

(* cancel_download.  WebKit ends the download later.                       *)
CancelDownload(p, r) ==
  /\ \/ \E i \in DOMAIN active[p] : IsFirstWithRecord(p, i, r) /\ Cancel(active[p][i], r)
     \/ /\ \A d \in ToSet(active[p]) : context[d].record # r
        /\ UNCHANGED <<context, status>>
  /\ UNCHANGED <<process, active, phase, whole, dialogs, writer, removed, struck>>

(* The button beside d in the popover, which carries d's record.           *)
CancelDownloadClicked(p, d) ==
  /\ d \in ToSet(active[p])
  /\ asked' = asked \cup {d}
  /\ CancelDownload(p, context[d].record)

(* The link on vantage:downloads, of a row that is still there, and the    *)
(* agent's downloads.cancel, with any id.                                  *)
CancelById(p, r) ==
  /\ Serving(p)
  /\ asked' = asked \cup {d \in ToSet(active[p]) : context[d].record = r /\ r # 0}
  /\ CancelDownload(p, r)

(* "Remove from history", and downloads.remove: also while downloading.    *)
RemoveDownload(p, r) ==
  /\ Serving(p)
  /\ status[r] # "none"
  /\ status' = [status EXCEPT ![r] = "none"]
  /\ removed' = removed \cup {r}
  /\ UNCHANGED <<process, choices, download, writer>>

-----------------------------------------------------------------------------
Process(p) == Launch(p) \/ ReconcileLook(p) \/ ReconcileWrite(p) \/ Exit(p)

Download(d) ==
  \/ DownloadDestination(d) \/ DownloadSaveDialogFinished(d) \/ DownloadCreatedDestination(d)
  \/ FileMoved(d) \/ DownloadFailed(d) \/ DownloadFinished(d)

Next ==
  \/ \E d \in Downloads : Download(d)
  \/ \E p \in Procs :
       \/ Process(p)
       \/ \E d \in Downloads : DownloadStarted(p, d) \/ CancelDownloadClicked(p, d)
       \/ \E r \in Rows \cup {0} : CancelById(p, r)
       \/ \E r \in Rows : RemoveDownload(p, r)

Spec == Init /\ [][Next]_vars

-----------------------------------------------------------------------------
(* A row whose id was given out once: nobody removed it.                   *)
Original(r) == status[r] # "none" /\ r \notin removed

(* A row belongs to the download that added it, and to no other, as long   *)
(* as nobody removed it: what is written to it is about that download,     *)
(* from whichever of the processes that add and remove rows.               *)
RecordsAreOwn ==
  \A d \in Downloads : \A r \in Rows :
    context[d].record = r /\ Original(r) => writer[r] = d

(* "download-record writes from private windows" are suppressed            *)
(* (docs/SECURITY.md), if the window was found when the download started.  *)
PrivateLeavesNoRow ==
  \A r \in Rows : status[r] # "none" /\ context[writer[r]].secret => ~context[writer[r]].known

(* A download that is recorded as complete has its file, even if the row   *)
(* was written by a process that only looked at it from outside.           *)
CompleteMeansWhole ==
  \A r \in Rows : Original(r) /\ status[r] = "complete" => writer[r] \in whole

(* A row that says "downloading" is being downloaded by a running process; *)
(* or was, and has not been among the newest rows at any launch since, or  *)
(* the process launched is about to settle it; or a stray dialog reached   *)
(* it, which writes no row.                                                *)
NoRowIsForgotten ==
  \A r \in Rows : Original(r) /\ status[r] = "downloading" =>
    \/ phase[writer[r]] \in Live
    \/ r \in left
    \/ \E p \in running : r \in Read(p)
    \/ writer[r] \in struck

Settled(r) ==
  \/ status[r] = "cancelled"
  \/ status[r] # "downloading" /\ phase[writer[r]] = "gone"

(* That a download was cancelled, and what it ended as, is kept, unless    *)
(* the row is removed or a process that read it while the download went on *)
(* still has to settle it.                                                 *)
SettledIsKept ==
  [][\A r \in Rows :
       Original(r) /\ Settled(r) /\ status'[r] # status[r] =>
         r \in removed' \/ \E p \in running : r \in Read(p)]_vars

(* Nothing is cancelled that nobody asked to cancel, but for downloads     *)
(* without a row of their own, which all look alike to cancel_download,    *)
(* and a dialog that outlived its download.                                *)
CancelsAreMeant ==
  [][\A d \in Downloads :
       context'[d].cancelled /\ ~context[d].cancelled =>
         \/ d \in asked'
         \/ context[d].record \in removed \cup {0}
         \/ d \in struck']_vars
=============================================================================
