--------------------------- MODULE DownloadsProofs ---------------------------
(***************************************************************************)
(* Proofs about downloads, for every number of processes and downloads:    *)
(* rows belong to the downloads that added them, private downloads leave   *)
(* none, a complete one has its file, and none stays "downloading".        *)
(***************************************************************************)
EXTENDS Downloads, FiniteSetTheorems, SequenceTheorems, WellFoundedInduction, TLAPS

Contexts == [proc : Procs \cup {Nothing}, record : Nat, private : BOOLEAN, secret : BOOLEAN,
             known : BOOLEAN, prompt : BOOLEAN, cancelled : BOOLEAN]

Types ==
  /\ running \subseteq Procs /\ dialogs \subseteq Downloads
  /\ active \in [Procs -> Seq(Downloads)]
  /\ phase \in [Downloads -> Live \cup {"none", "gone"}]
  /\ context \in [Downloads -> Contexts]
  /\ status \in [Rows -> Statuses \cup {"none"}]
  /\ writer \in [Rows -> Downloads \cup {Nothing}]
  /\ todo \in [Procs -> SUBSET [row : Rows, of : Downloads]]
  /\ found \in [Procs -> [row : Rows \cup {Nothing}, complete : BOOLEAN]]

(* private_mode is never false for a private window that was found.        *)
PrivateIsKnown ==
  \A d \in Downloads : context[d].known /\ context[d].secret => context[d].private

(* A row that is there was added, and one that was added and is not there  *)
(* was removed: an id is given out again only after that.                  *)
RowsAreAdded ==
  \A r \in Rows :
    /\ status[r] # "none" => writer[r] \in Downloads
    /\ writer[r] # Nothing /\ status[r] = "none" => r \in removed

(* Who added a row knows it, from the creation of its file to its end.     *)
WritersKnowTheirRow ==
  \A r \in Rows : writer[r] \in Downloads =>
    /\ context[writer[r]].record = r
    /\ ~context[writer[r]].private
    /\ phase[writer[r]] \in {"receiving", "gone"}

RecordsAreRows ==
  \A d \in Downloads : context[d].record # 0 =>
    context[d].record \in Rows /\ writer[context[d].record] # Nothing

(* Ids are given out from 1 on, so that there are enough for all.          *)
RowsAreDense ==
  \A r \in Rows : writer[r] # Nothing => \A q \in 1..r : writer[q] # Nothing

(* A process knows its own downloads under way, each once, and no other.   *)
ActiveAreLive ==
  \A p \in Procs : \A i \in 1..Len(active[p]) :
    /\ phase[active[p][i]] \in Live
    /\ context[active[p][i]].proc = p
    /\ \A j \in 1..Len(active[p]) : active[p][i] = active[p][j] => i = j

(* A row that says "cancelled" is not of a download that goes on.          *)
CancelledIsKnown ==
  \A r \in Rows :
    Original(r) /\ status[r] = "cancelled" /\ phase[writer[r]] = "receiving" =>
      context[writer[r]].cancelled

(* Reconciling settles what it has read, in a process that runs.           *)
LookedIsRead ==
  \A p \in Procs :
    /\ todo[p] # {} => p \in running
    /\ found[p].row \in Rows => found[p].row \in Read(p)

(* What reconcile_downloads has read is about the row's own download, and  *)
(* what it has seen of the file stays true.                                *)
ReadIsOwn ==
  \A p \in Procs : \A entry \in todo[p] :
    entry.row \notin removed => writer[entry.row] = entry.of

LookIsTrue ==
  \A p \in Procs : found[p].row \in Rows /\ found[p].row \notin removed =>
    /\ writer[found[p].row] \in Downloads
    /\ found[p].complete => writer[found[p].row] \in whole

(* A dialog is open for a download that waits for it or is over; the rest  *)
(* have been reached by the dialog of another.                             *)
DialogsAreAwaited ==
  \A d \in dialogs : phase[d] \in {"asking", "gone"} \/ d \in struck

(* From a cancelled download its row is not left "downloading".            *)
CancelledIsWritten ==
  \A r \in Rows :
    Original(r) /\ status[r] = "downloading" /\ phase[writer[r]] = "receiving" =>
      ~context[writer[r]].cancelled \/ writer[r] \in struck

DownloadsInv ==
  /\ Types
  /\ PrivateIsKnown
  /\ RowsAreAdded
  /\ WritersKnowTheirRow
  /\ RecordsAreRows
  /\ ReadIsOwn
  /\ LookIsTrue
  /\ DialogsAreAwaited
  /\ CancelledIsWritten
  /\ RowsAreDense
  /\ ActiveAreLive
  /\ CancelledIsKnown
  /\ LookedIsRead
  /\ RecordsAreOwn
  /\ PrivateLeavesNoRow
  /\ CompleteMeansWhole
  /\ NoRowIsForgotten

-----------------------------------------------------------------------------
(* SQLite's next id is a natural number that no row has.                   *)
LEMMA RowsAreNumbers ==
  /\ Cardinality(Downloads) \in Nat
  /\ Rows \subseteq Nat \ {0}
BY DownloadsAssumption, FS_CardinalityType DEF Rows

LEMMA MaxExists ==
  ASSUME NEW n \in Nat, NEW S \in SUBSET (0..n), S # {}
  PROVE  Max(S) \in S /\ \A x \in S : Max(S) >= x
<1>. DEFINE Mirror == {n - x : x \in S}
<1>1. Mirror \subseteq Nat /\ Mirror # {}
  <2>1. \A x \in S : n - x \in Nat
    OBVIOUS
  <2>2. \E x \in S : n - x \in Mirror
    OBVIOUS
  <2>3. QED
    BY <2>1, <2>2
<1>2. PICK m \in Mirror : \A y \in Mirror : <<y, m>> \notin OpToRel(<, Nat)
  BY <1>1, NatLessThanWellFounded, WFMin
<1>3. PICK x \in S : m = n - x
  OBVIOUS
<1>4. ASSUME NEW y \in S
      PROVE  x >= y
  <2>1. n - y \in Mirror /\ n - y \in Nat /\ m \in Nat
    BY <1>1
  <2>2. ~(n - y < m)
    BY <1>2, <2>1 DEF OpToRel
  <2>3. QED
    BY <1>3, <2>2
<1>5. QED
  BY <1>4 DEF Max

LEMMA NextRowFollows ==
  ASSUME Types
  PROVE  /\ NextRow \in Nat \ {0}
         /\ NextRow \in Rows => status[NextRow] = "none"
         /\ NextRow - 1 # 0 => NextRow - 1 \in Rows /\ status[NextRow - 1] # "none"
<1>. DEFINE Used == {r \in Rows : status[r] # "none"} \cup {0}
<1>1. Used \in SUBSET (0..Cardinality(Downloads)) /\ Used # {}
  BY RowsAreNumbers DEF Rows
<1>2. Max(Used) \in Used /\ \A x \in Used : Max(Used) >= x
  BY <1>1, RowsAreNumbers, MaxExists
<1>3. NextRow = Max(Used) + 1
  BY Zenon DEF NextRow
<1>4. \A x \in Used : x \in Nat
  BY <1>1, RowsAreNumbers
<1>5. \A r \in Rows : r \notin Used => status[r] = "none"
  OBVIOUS
<1>6. \A x \in Used : x # 0 => x \in Rows /\ status[x] # "none"
  OBVIOUS
<1>. HIDE DEF Used
<1>7. PICK last \in Nat : last = Max(Used)
  BY <1>2, <1>4
<1>8. \A x \in Used : last >= x /\ x \in Nat
  BY <1>2, <1>4, <1>7
<1>9. last + 1 \notin Used /\ last + 1 \in Nat \ {0}
  BY <1>8
<1>10. NextRow = last + 1
  BY <1>3, <1>7
<1>11. NextRow - 1 = last /\ last \in Used
  BY <1>2, <1>7, <1>10
<1>12. QED
  BY <1>5, <1>6, <1>9, <1>10, <1>11

(* What UPDATE does to the rows: it changes one that is there, if any.     *)
LEMMA UpdateWritesOneRow ==
  ASSUME Types, NEW r, NEW new \in Statuses, UpdateDownload(r, new)
  PROVE  /\ status' \in [Rows -> Statuses \cup {"none"}]
         /\ \A q \in Rows :
              /\ status'[q] = "none" <=> status[q] = "none"
              /\ status'[q] \in {status[q], new}
              /\ q # r => status'[q] = status[q]
              /\ q = r /\ status[q] # "none" => status'[q] = new
BY DEF UpdateDownload, Types, Statuses

LEMMA DownloadsInitially ==
  Init => DownloadsInv
<1>. SUFFICES ASSUME Init PROVE DownloadsInv
  OBVIOUS
<1>1. Types /\ PrivateIsKnown
  BY DEF Init, Types, Contexts, PrivateIsKnown, NoContext, NotLooking, Live
<1>2. \A r \in Rows : status[r] = "none" /\ writer[r] = Nothing
  BY DEF Init
<1>3. Nothing \notin Downloads /\ 0 \notin Rows
  BY DownloadsAssumption, RowsAreNumbers
<1>4. \A d \in Downloads : context[d].record = 0
  BY DEF Init, NoContext
<1>5. RowsAreAdded /\ WritersKnowTheirRow /\ RecordsAreRows
  BY <1>2, <1>3, <1>4 DEF RowsAreAdded, WritersKnowTheirRow, RecordsAreRows
<1>6. ReadIsOwn /\ DialogsAreAwaited
  BY DEF Init, ReadIsOwn, DialogsAreAwaited
<1>7. CancelledIsWritten /\ RecordsAreOwn /\ PrivateLeavesNoRow /\ CompleteMeansWhole /\ NoRowIsForgotten
  BY <1>2 DEF CancelledIsWritten, RecordsAreOwn, PrivateLeavesNoRow, CompleteMeansWhole,
    NoRowIsForgotten, Original
<1>8. LookIsTrue
  BY DownloadsAssumption, RowsAreNumbers DEF Init, LookIsTrue, NotLooking
<1>9. \A p \in Procs : Len(active[p]) = 0
  BY DEF Init
<1>10. RowsAreDense /\ ActiveAreLive /\ CancelledIsKnown
  BY <1>2, <1>9 DEF RowsAreDense, ActiveAreLive, CancelledIsKnown, Original
<1>11. LookedIsRead
  BY DownloadsAssumption, RowsAreNumbers DEF Init, LookedIsRead, NotLooking
<1>12. QED
  BY <1>1, <1>5, <1>6, <1>7, <1>8, <1>10, <1>11 DEF DownloadsInv

(* Any number of rows that are there may get a status other than           *)
(* "downloading": no row begins, and none that goes on is disturbed.       *)
SettlesRows(S, new) ==
  /\ status' \in [Rows -> Statuses \cup {"none"}]
  /\ \A q \in Rows :
       /\ status'[q] = "none" <=> status[q] = "none"
       /\ status'[q] # status[q] => q \in S /\ status'[q] = new
  /\ UNCHANGED <<writer, removed>>

LEMMA SettledRowsStayAdded ==
  ASSUME DownloadsInv, NEW S, NEW new \in Statuses \ {"downloading"}, SettlesRows(S, new)
  PROVE  /\ RowsAreAdded'
         /\ \A q \in Rows : Original(q)' <=> Original(q)
         /\ \A q \in Rows : status'[q] = "downloading" => status[q] = "downloading"
BY DEF DownloadsInv, SettlesRows, RowsAreAdded, Original

LEMMA UpdateSettles ==
  ASSUME Types, NEW r, NEW new \in Statuses \ {"downloading"},
         UpdateDownload(r, new), UNCHANGED <<writer, removed>>
  PROVE  SettlesRows({r}, new)
BY UpdateWritesOneRow DEF SettlesRows

-----------------------------------------------------------------------------
LEMMA LaunchKeeps ==
  ASSUME DownloadsInv, NEW p \in Procs, Launch(p)
  PROVE  DownloadsInv'
<1>. USE DEF table, choices, download
<1>0. PICK n \in 0..Limit :
        /\ todo' = [todo EXCEPT ![p] =
             {[row |-> r, of |-> writer[r]] : r \in {q \in Newest(n) : status[q] = "downloading"}}]
        /\ left' = left \ Newest(n)
  BY DEF Launch
<1>0a. /\ p \notin running /\ running' = running \cup {p}
       /\ UNCHANGED <<table, choices, download, found>>
  BY DEF Launch
<1>0b. Newest(n) \subseteq Rows
  BY DEF Newest
<1>. DEFINE Seen == {[row |-> r, of |-> writer[r]] : r \in {q \in Newest(n) : status[q] = "downloading"}}
<1>1. Seen \in SUBSET [row : Rows, of : Downloads]
  BY <1>0b DEF DownloadsInv, RowsAreAdded
<1>2. todo' = [todo EXCEPT ![p] = Seen]
  BY <1>0
<1>3. \A entry \in Seen : writer[entry.row] = entry.of
  OBVIOUS
<1>4. \A r \in Newest(n) : status[r] = "downloading" => \E entry \in Seen : entry.row = r
  <2>1. ASSUME NEW r \in Newest(n), status[r] = "downloading"
        PROVE  [row |-> r, of |-> writer[r]] \in Seen
    BY <2>1
  <2>2. QED
    BY <2>1
<1>. HIDE DEF Seen
<1>5. todo \in [Procs -> SUBSET [row : Rows, of : Downloads]]
  BY DEF DownloadsInv, Types
<1>6. todo'[p] = Seen /\ \A q \in Procs \ {p} : todo'[q] = todo[q]
  BY <1>2, <1>5
<1>7. Types'
  BY <1>0, <1>0a, <1>1, <1>2 DEF DownloadsInv, Types
<1>8. ReadIsOwn'
  BY <1>0a, <1>3, <1>6 DEF DownloadsInv, ReadIsOwn
<1>9. NoRowIsForgotten'
  <2>. SUFFICES ASSUME NEW r \in Rows, Original(r), status[r] = "downloading",
                       phase[writer[r]] \notin Live, writer[r] \notin struck
                PROVE  r \in left' \/ \E q \in running' : r \in Read(q)'
    BY <1>0a DEF NoRowIsForgotten, Original
  <2>1. CASE r \in Newest(n)
    BY <1>0a, <1>4, <1>6, <2>1 DEF Read
  <2>2. CASE r \notin Newest(n) /\ r \in left
    BY <1>0, <2>2
  <2>3. CASE r \notin left
    <3>1. PICK q \in running : r \in Read(q)
      BY <2>3 DEF DownloadsInv, NoRowIsForgotten
    <3>2. q \in Procs /\ q # p
      BY <1>0a DEF DownloadsInv, Types
    <3>3. QED
      BY <1>0a, <1>6, <3>1, <3>2 DEF Read
  <2>4. QED
    BY <2>1, <2>2, <2>3
<1>10. LookedIsRead'
  <2>1. found' = found /\ running' = running \cup {p} /\ p \notin running
    BY <1>0a
  <2>2. todo[p] = {}
    BY <2>1 DEF DownloadsInv, LookedIsRead
  <2>3. found[p].row \notin Rows
    BY <2>2 DEF DownloadsInv, LookedIsRead, Read
  <2>4. QED
    BY <1>6, <2>1, <2>3 DEF DownloadsInv, LookedIsRead, Read
<1>11. QED
  BY <1>0a, <1>7, <1>8, <1>9, <1>10 DEF DownloadsInv, PrivateIsKnown, RowsAreAdded, WritersKnowTheirRow, RecordsAreRows,
    LookIsTrue, DialogsAreAwaited, CancelledIsWritten, RecordsAreOwn, PrivateLeavesNoRow,
    CompleteMeansWhole, RowsAreDense, ActiveAreLive, CancelledIsKnown, Original

LEMMA LookKeeps ==
  ASSUME DownloadsInv, NEW p \in Procs, ReconcileLook(p)
  PROVE  DownloadsInv'
<1>. USE DEF ReconcileLook, table, choices, download
<1>1. PICK entry \in todo[p], complete \in BOOLEAN :
        /\ complete => entry.of \in whole
        /\ found' = [found EXCEPT ![p] = [row |-> entry.row, complete |-> complete]]
  OBVIOUS
<1>2. entry.row \in Rows /\ entry.of \in Downloads /\ found \in [Procs -> [row : Rows \cup {Nothing}, complete : BOOLEAN]]
  BY DEF DownloadsInv, Types
<1>3. /\ found'[p].row = entry.row
      /\ found'[p].complete => entry.of \in whole
      /\ \A q \in Procs \ {p} : found'[q] = found[q]
  BY <1>1, <1>2
<1>4. Types'
  <2>1. [row |-> entry.row, complete |-> complete] \in [row : Rows \cup {Nothing}, complete : BOOLEAN]
    BY <1>2
  <2>2. QED
    BY <1>1, <1>2, <2>1 DEF DownloadsInv, Types
<1>5. LookIsTrue'
  <2>1. entry.row \notin removed => writer[entry.row] = entry.of
    BY DEF DownloadsInv, ReadIsOwn
  <2>2. QED
    BY <1>2, <1>3, <2>1 DEF DownloadsInv, LookIsTrue
<1>6. LookedIsRead'
  BY <1>1, <1>3 DEF DownloadsInv, LookedIsRead, Read
<1>7. QED
  BY <1>4, <1>5, <1>6 DEF DownloadsInv, PrivateIsKnown, RowsAreAdded, WritersKnowTheirRow, RecordsAreRows,
    ReadIsOwn, DialogsAreAwaited, CancelledIsWritten, RecordsAreOwn, PrivateLeavesNoRow,
    CompleteMeansWhole, NoRowIsForgotten, RowsAreDense, ActiveAreLive, CancelledIsKnown, Original, Read

(* The row that is looked at is still its download's, or was removed.      *)
LEMMA WriteKeeps ==
  ASSUME DownloadsInv, NEW p \in Procs, ReconcileWrite(p)
  PROVE  DownloadsInv'
<1>. DEFINE r == found[p].row
            new == IF found[p].complete THEN "complete" ELSE "interrupted"
<1>1. /\ UpdateDownload(r, new)
      /\ todo' = [todo EXCEPT ![p] = {entry \in todo[p] : entry.row # r}]
      /\ found' = [found EXCEPT ![p] = NotLooking]
      /\ UNCHANGED <<choices, download, running, writer, removed, left>>
  BY DEF ReconcileWrite, DownloadsInv, Types
<1>2. Types /\ new \in Statuses \ {"downloading"}
  BY DEF DownloadsInv, Statuses
<1>3. new = "complete" => found[p].complete
  OBVIOUS
<1>. HIDE DEF new
<1>4. SettlesRows({r}, new)
  BY <1>1, <1>2, UpdateSettles
<1>5. /\ RowsAreAdded'
      /\ \A q \in Rows : Original(q)' <=> Original(q)
      /\ \A q \in Rows : status'[q] = "downloading" => status[q] = "downloading"
  BY <1>2, <1>4, SettledRowsStayAdded
<1>6. \A q \in Rows : q = r /\ status[r] # "none" => status'[r] = new
  BY <1>1, <1>2, UpdateWritesOneRow
<1>7. todo'[p] = {entry \in todo[p] : entry.row # r} /\ \A q \in Procs \ {p} : todo'[q] = todo[q]
  BY <1>1, <1>2 DEF Types
<1>8. found'[p].row = Nothing /\ \A q \in Procs \ {p} : found'[q] = found[q]
  BY <1>1, <1>2 DEF Types, NotLooking
<1>9. Types'
  <2>1. status' \in [Rows -> Statuses \cup {"none"}]
    BY <1>4 DEF SettlesRows
  <2>2. todo' \in [Procs -> SUBSET [row : Rows, of : Downloads]]
    BY <1>1, <1>2 DEF Types
  <2>3. found' \in [Procs -> [row : Rows \cup {Nothing}, complete : BOOLEAN]]
    BY <1>1, <1>2 DEF Types, NotLooking
  <2>4. QED
    BY <1>1, <1>2, <2>1, <2>2, <2>3 DEF Types, download, choices
<1>10. LookIsTrue'
  <2>1. Nothing \notin Rows /\ UNCHANGED <<writer, removed, whole>>
    BY <1>1, DownloadsAssumption, RowsAreNumbers DEF download
  <2>2. QED
    BY <1>8, <2>1 DEF DownloadsInv, LookIsTrue
<1>11. ReadIsOwn'
  BY <1>1, <1>7 DEF DownloadsInv, ReadIsOwn
<1>12. CompleteMeansWhole'
  <2>1. ASSUME NEW q \in Rows, Original(q)', status'[q] = "complete"
        PROVE  writer[q] \in whole
    <3>1. CASE status[q] = "complete"
      BY <1>5, <2>1, <3>1 DEF DownloadsInv, CompleteMeansWhole
    <3>2. CASE status[q] # "complete"
      <4>1. q = r /\ found[p].complete
        BY <1>3, <1>4, <2>1, <3>2 DEF SettlesRows
      <4>2. QED
        BY <1>1, <2>1, <4>1 DEF DownloadsInv, LookIsTrue, Original
    <3>3. QED
      BY <3>1, <3>2
  <2>2. QED
    BY <1>1, <2>1 DEF CompleteMeansWhole, download
<1>13. NoRowIsForgotten'
  <2>1. ASSUME NEW q \in Rows, Original(q)', status'[q] = "downloading"
        PROVE  \/ phase[writer[q]] \in Live
               \/ q \in left
               \/ \E o \in running : q \in Read(o)'
               \/ writer[q] \in struck
    <3>1. Original(q) /\ status[q] = "downloading"
      BY <1>5, <2>1
    <3>2. q # r
      BY <1>2, <1>6, <2>1, <3>1
    <3>3. \A o : o \in Procs /\ q \in Read(o) => q \in Read(o)'
      BY <1>7, <3>2 DEF Read
    <3>4. QED
      BY <1>2, <3>1, <3>3 DEF DownloadsInv, NoRowIsForgotten, Types
  <2>2. QED
    BY <1>1, <2>1 DEF NoRowIsForgotten, download, choices
<1>14. CancelledIsWritten' /\ RecordsAreOwn' /\ PrivateLeavesNoRow'
  <2>1. \A q \in Rows : status'[q] # "none" => status[q] # "none"
    BY <1>4 DEF SettlesRows
  <2>2. QED
    BY <1>1, <1>5, <2>1 DEF DownloadsInv, CancelledIsWritten, RecordsAreOwn, PrivateLeavesNoRow, download, choices
<1>15. PrivateIsKnown' /\ WritersKnowTheirRow' /\ RecordsAreRows' /\ DialogsAreAwaited'
  BY <1>1 DEF DownloadsInv, PrivateIsKnown, WritersKnowTheirRow, RecordsAreRows, DialogsAreAwaited, download, choices
<1>16. RowsAreDense' /\ ActiveAreLive'
  BY <1>1 DEF DownloadsInv, RowsAreDense, ActiveAreLive, download
<1>17. CancelledIsKnown'
  <2>1. new # "cancelled"
    BY DEF new
  <2>2. \A q \in Rows : status'[q] = "cancelled" => status[q] = "cancelled"
    BY <1>4, <2>1 DEF SettlesRows
  <2>3. QED
    BY <1>1, <1>5, <2>2 DEF DownloadsInv, CancelledIsKnown, download
<1>18. LookedIsRead'
  <2>1. Nothing \notin Rows /\ running' = running
    BY <1>1, DownloadsAssumption, RowsAreNumbers
  <2>2. QED
    BY <1>7, <1>8, <2>1 DEF DownloadsInv, LookedIsRead, Read
<1>19. QED
  BY <1>5, <1>9, <1>10, <1>11, <1>12, <1>13, <1>14, <1>15, <1>16, <1>17, <1>18 DEF DownloadsInv

-----------------------------------------------------------------------------
(* A row that says "downloading" keeps its excuse: a row of a download     *)
(* that is under way is left behind, as one is that was only read.         *)
LEMMA ExitKeeps ==
  ASSUME DownloadsInv, NEW p \in Procs, Exit(p)
  PROVE  DownloadsInv'
<1>. USE DEF Exit, table
<1>1. /\ Types
      /\ phase' = [d \in Downloads |-> IF context[d].proc = p THEN "gone" ELSE phase[d]]
      /\ UNCHANGED <<status, writer, removed, whole, context, asked, struck>>
  BY DEF DownloadsInv
<1>2. Types'
  BY <1>1 DEF Types, NotLooking
<1>3. \A q \in Procs : todo'[q] \subseteq todo[q] /\ (q # p => todo'[q] = todo[q])
  BY <1>1 DEF Types
<1>4. \A q \in Procs : found'[q] = found[q] \/ found'[q].row = Nothing
  BY <1>1 DEF Types, NotLooking
<1>5. LookIsTrue'
  <2>1. Nothing \notin Rows
    BY DownloadsAssumption, RowsAreNumbers
  <2>2. QED
    BY <1>1, <1>4, <2>1 DEF DownloadsInv, LookIsTrue
<1>6. \A d \in Downloads : phase'[d] \in {phase[d], "gone"}
  BY <1>1
<1>7. DialogsAreAwaited'
  <2>1. ASSUME NEW d \in dialogs, context[d].proc # p
        PROVE  phase'[d] \in {"asking", "gone"} \/ d \in struck
    BY <1>1, <2>1 DEF DownloadsInv, DialogsAreAwaited, Types
  <2>2. QED
    BY <1>1, <2>1 DEF DialogsAreAwaited
<1>8. WritersKnowTheirRow' /\ CancelledIsWritten'
  <2>1. WritersKnowTheirRow'
    BY <1>1, <1>6 DEF DownloadsInv, WritersKnowTheirRow
  <2>2. \A r \in Rows : Original(r) => writer[r] \in Downloads
    BY DEF DownloadsInv, RowsAreAdded, Original
  <2>3. CancelledIsWritten'
    BY <1>1, <1>6, <2>2 DEF DownloadsInv, CancelledIsWritten, Original
  <2>4. QED
    BY <2>1, <2>3
<1>9. NoRowIsForgotten'
  <2>1. ASSUME NEW r \in Rows, Original(r), status[r] = "downloading",
               writer[r] \notin struck, r \notin left'
        PROVE  phase'[writer[r]] \in Live \/ \E q \in running' : r \in Read(q)'
    <3>1. writer[r] \in Downloads /\ context[writer[r]].record = r /\ r # 0
      BY <2>1, RowsAreNumbers DEF DownloadsInv, RowsAreAdded, WritersKnowTheirRow, Original
    <3>2. CASE phase[writer[r]] \in Live
      <4>1. CASE context[writer[r]].proc = p
        <5>1. writer[r] \in Under(p)
          BY <3>1, <3>2, <4>1 DEF Under
        <5>2. r \in {context[d].record : d \in Under(p)} \ {0}
          BY <3>1, <5>1
        <5>3. QED
          BY <2>1, <5>2
      <4>2. CASE context[writer[r]].proc # p
        BY <1>1, <3>1, <3>2, <4>2
      <4>3. QED
        BY <4>1, <4>2
    <3>3. ASSUME NEW q \in running, r \in Read(q)
          PROVE  q \in running' /\ r \in Read(q)'
      <4>1. q # p
        BY <2>1, <3>3
      <4>2. QED
        BY <1>1, <1>3, <3>3, <4>1 DEF Read, Types
    <3>4. r \notin left
      BY <2>1
    <3>5. QED
      BY <2>1, <3>2, <3>3, <3>4 DEF DownloadsInv, NoRowIsForgotten
  <2>2. QED
    BY <1>1, <2>1 DEF NoRowIsForgotten, Original
<1>10. ReadIsOwn'
  BY <1>1, <1>3 DEF DownloadsInv, ReadIsOwn
<1>11. ActiveAreLive'
  <2>1. ASSUME NEW q \in Procs, NEW i \in 1..Len(active'[q])
        PROVE  /\ phase'[active'[q][i]] \in Live
               /\ context[active'[q][i]].proc = q
               /\ \A j \in 1..Len(active'[q]) : active'[q][i] = active'[q][j] => i = j
    <3>1. active' = [active EXCEPT ![p] = <<>>]
      OBVIOUS
    <3>2. q # p /\ active'[q] = active[q]
      BY <1>1, <2>1, <3>1 DEF Types
    <3>3. active[q][i] \in Downloads
      BY <1>1, <2>1, <3>2, ElementOfSeq DEF Types
    <3>4. QED
      BY <1>1, <2>1, <3>2, <3>3 DEF DownloadsInv, ActiveAreLive
  <2>2. QED
    BY <1>1, <2>1 DEF ActiveAreLive
<1>12. CancelledIsKnown'
  <2>1. \A r \in Rows : Original(r) => writer[r] \in Downloads
    BY DEF DownloadsInv, RowsAreAdded, Original
  <2>2. QED
    BY <1>1, <1>6, <2>1 DEF DownloadsInv, CancelledIsKnown, Original
<1>13. LookedIsRead'
  <2>1. Nothing \notin Rows
    BY DownloadsAssumption, RowsAreNumbers
  <2>2. todo'[p] = {} /\ found'[p].row = Nothing /\ \A q \in Procs \ {p} : found'[q] = found[q]
    BY <1>1 DEF Types, NotLooking
  <2>3. \A q \in Procs \ {p} : q \in running => q \in running'
    OBVIOUS
  <2>4. QED
    BY <1>3, <2>1, <2>2, <2>3 DEF DownloadsInv, LookedIsRead, Read
<1>14. QED
  BY <1>1, <1>2, <1>5, <1>7, <1>8, <1>9, <1>10, <1>11, <1>12, <1>13 DEF RowsAreDense, DownloadsInv, PrivateIsKnown, RowsAreAdded,
    RecordsAreRows, RecordsAreOwn, PrivateLeavesNoRow, CompleteMeansWhole, Original

(* Only a download without a row starts, so that no row is concerned.      *)
LEMMA StartedKeeps ==
  ASSUME DownloadsInv, NEW p \in Procs, NEW d \in Downloads, DownloadStarted(p, d)
  PROVE  DownloadsInv'
<1>. USE DEF DownloadStarted, process, table, choices
<1>1. PICK secret \in BOOLEAN, known \in BOOLEAN, prompt \in BOOLEAN :
        context' = [context EXCEPT ![d] =
          [proc |-> p, record |-> 0, private |-> known /\ secret, secret |-> secret,
           known |-> known, prompt |-> known /\ prompt, cancelled |-> FALSE]]
  OBVIOUS
<1>2. Types /\ phase[d] = "none" /\ phase' = [phase EXCEPT ![d] = "deciding"]
  BY DEF DownloadsInv
<1>3. /\ context'[d].record = 0
      /\ context'[d].known /\ context'[d].secret => context'[d].private
      /\ context' \in [Downloads -> Contexts] /\ context'[d].proc = p
      /\ \A e \in Downloads \ {d} : context'[e] = context[e] /\ phase'[e] = phase[e]
  BY <1>1, <1>2 DEF Types, Contexts
<1>4. phase'[d] = "deciding" /\ Types'
  <2>1. active' \in [Procs -> Seq(Downloads)]
    <3>1. active \in [Procs -> Seq(Downloads)] /\ active' = [active EXCEPT ![p] = Append(active[p], d)]
      BY <1>2 DEF Types
    <3>2. Append(active[p], d) \in Seq(Downloads)
      BY <3>1, AppendProperties
    <3>3. QED
      BY <3>1, <3>2
  <2>2. QED
    BY <1>2, <1>3, <2>1 DEF Types, Live
<1>5. \A r \in Rows : writer[r] # d
  BY <1>2 DEF DownloadsInv, WritersKnowTheirRow
<1>6. 0 \notin Rows
  BY RowsAreNumbers
<1>7. PrivateIsKnown'
  BY <1>3 DEF DownloadsInv, PrivateIsKnown
<1>8. WritersKnowTheirRow'
  BY <1>3, <1>5 DEF DownloadsInv, WritersKnowTheirRow
<1>9. RecordsAreRows' /\ RecordsAreOwn'
  BY <1>3, <1>6 DEF DownloadsInv, RecordsAreRows, RecordsAreOwn, Original
<1>10. DialogsAreAwaited'
  <2>1. ASSUME NEW e \in dialogs
        PROVE  phase'[e] \in {"asking", "gone"} \/ e \in struck
    BY <1>2 DEF DownloadsInv, DialogsAreAwaited, Types
  <2>2. QED
    BY <2>1 DEF DialogsAreAwaited
<1>11. \A r \in Rows : status[r] # "none" => writer[r] \in Downloads \ {d}
  BY <1>5 DEF DownloadsInv, RowsAreAdded
<1>12. CancelledIsWritten' /\ PrivateLeavesNoRow' /\ NoRowIsForgotten'
  BY <1>3, <1>11 DEF DownloadsInv, CancelledIsWritten, PrivateLeavesNoRow, NoRowIsForgotten, Original, Read
<1>13. CancelledIsKnown'
  BY <1>3, <1>11 DEF DownloadsInv, CancelledIsKnown, Original
<1>14. ActiveAreLive'
  <2>1. active \in [Procs -> Seq(Downloads)] /\ active' = [active EXCEPT ![p] = Append(active[p], d)]
    BY <1>2 DEF Types
  <2>2. \A q \in Procs : \A i \in 1..Len(active[q]) : active[q][i] \in Downloads \ {d}
    <3>1. \A q \in Procs : \A i \in 1..Len(active[q]) : active[q][i] \in Downloads
      BY <2>1, ElementOfSeq
    <3>2. QED
      BY <1>2, <3>1 DEF DownloadsInv, ActiveAreLive, Live
  <2>3. ASSUME NEW q \in Procs, NEW i \in 1..Len(active'[q])
        PROVE  /\ phase'[active'[q][i]] \in Live
               /\ context'[active'[q][i]].proc = q
               /\ \A j \in 1..Len(active'[q]) : active'[q][i] = active'[q][j] => i = j
    <3>1. CASE q # p
      <4>1. active'[q] = active[q]
        BY <2>1, <3>1
      <4>2. active[q][i] \in Downloads \ {d}
        BY <2>2, <2>3, <4>1
      <4>3. context'[active[q][i]] = context[active[q][i]] /\ phase'[active[q][i]] = phase[active[q][i]]
        BY <1>3, <4>2
      <4>4. /\ phase[active[q][i]] \in Live /\ context[active[q][i]].proc = q
            /\ \A j \in 1..Len(active[q]) : active[q][i] = active[q][j] => i = j
        BY <2>3, <4>1 DEF DownloadsInv, ActiveAreLive
      <4>5. QED
        BY <4>1, <4>3, <4>4
    <3>2. CASE q = p
      <4>1. active'[p] = Append(active[p], d) /\ active[p] \in Seq(Downloads)
        BY <2>1
      <4>2. /\ Len(active'[p]) = Len(active[p]) + 1 /\ Len(active[p]) \in Nat
            /\ active'[p][Len(active[p]) + 1] = d
            /\ \A j \in 1..Len(active[p]) : active'[p][j] = active[p][j]
        BY <4>1, AppendProperties, LenProperties
      <4>3. CASE i = Len(active[p]) + 1
        BY <1>3, <1>4, <2>2, <2>3, <3>2, <4>2, <4>3 DEF Live
      <4>4. CASE i \in 1..Len(active[p])
        <5>1. active[p][i] \in Downloads \ {d}
          BY <2>2, <4>4
        <5>2. QED
          BY <1>3, <2>3, <3>2, <4>2, <4>4, <5>1 DEF DownloadsInv, ActiveAreLive
      <4>5. QED
        BY <2>3, <3>2, <4>2, <4>3, <4>4
    <3>3. QED
      BY <3>1, <3>2
  <2>4. QED
    BY <2>3 DEF ActiveAreLive
<1>15. QED
  BY <1>4, <1>7, <1>8, <1>9, <1>10, <1>12, <1>13, <1>14 DEF RowsAreDense, LookedIsRead, Read, DownloadsInv, RowsAreAdded, ReadIsOwn, LookIsTrue,
    CompleteMeansWhole, Original

(* Where the file goes is decided before there is a row.                   *)
LEMMA DestinationKeeps ==
  ASSUME DownloadsInv, NEW d \in Downloads, DownloadDestination(d)
  PROVE  DownloadsInv'
<1>. USE DEF DownloadDestination, process, table
<1>1. /\ Types /\ phase[d] = "deciding"
      /\ UNCHANGED <<status, writer, removed, todo, found, running, left, context, whole, struck, active>>
  BY DEF DownloadsInv
<1>2. PICK to \in {"asking", "named", "refused"} :
        /\ phase' = [phase EXCEPT ![d] = to]
        /\ dialogs' = IF to = "asking" THEN dialogs \cup {d} ELSE dialogs
  OBVIOUS
<1>3. phase'[d] = to /\ \A e : e # d => phase'[e] = phase[e]
  BY <1>1, <1>2 DEF Types
<1>4. Types'
  BY <1>1, <1>2 DEF Types, Live
<1>5. \A r \in Rows : writer[r] # d
  BY <1>1 DEF DownloadsInv, WritersKnowTheirRow
<1>6. DialogsAreAwaited'
  BY <1>1, <1>2, <1>3 DEF DownloadsInv, DialogsAreAwaited
<1>7. WritersKnowTheirRow' /\ CancelledIsWritten' /\ NoRowIsForgotten'
  BY <1>1, <1>3, <1>5 DEF DownloadsInv, WritersKnowTheirRow, CancelledIsWritten, NoRowIsForgotten,
    Original, Read
<1>8. CancelledIsKnown' /\ ActiveAreLive'
  BY <1>1, <1>2, <1>3, <1>5 DEF DownloadsInv, CancelledIsKnown, ActiveAreLive, Original, Live
<1>9. QED
  BY <1>1, <1>4, <1>6, <1>7, <1>8 DEF RowsAreDense, LookedIsRead, Read, DownloadsInv, PrivateIsKnown, RowsAreAdded, RecordsAreRows, ReadIsOwn,
    LookIsTrue, RecordsAreOwn, PrivateLeavesNoRow, CompleteMeansWhole, Original

(* Cancelling a context, and giving it a row, change that and nothing else. *)
LEMMA ContextCancelled ==
  ASSUME Types, NEW e, context' = [context EXCEPT ![e].cancelled = TRUE]
  PROVE  /\ context' \in [Downloads -> Contexts]
         /\ \A f \in Downloads :
              /\ context'[f].record = context[f].record /\ context'[f].private = context[f].private
              /\ context'[f].secret = context[f].secret /\ context'[f].known = context[f].known
              /\ context'[f].proc = context[f].proc
              /\ context[f].cancelled \/ f = e => context'[f].cancelled
              /\ f # e => context'[f] = context[f]
<1>. DEFINE Cancelled(c) == [c EXCEPT !.cancelled = TRUE]
<1>1. ASSUME NEW c \in Contexts
      PROVE  /\ Cancelled(c) \in Contexts
             /\ Cancelled(c).record = c.record /\ Cancelled(c).private = c.private
             /\ Cancelled(c).secret = c.secret /\ Cancelled(c).known = c.known
             /\ Cancelled(c).proc = c.proc /\ Cancelled(c).cancelled
  BY DEF Contexts
<1>2. context' = [context EXCEPT ![e] = Cancelled(context[e])]
  OBVIOUS
<1>. HIDE DEF Cancelled
<1>3. context \in [Downloads -> Contexts]
  BY DEF Types
<1>4. CASE e \in Downloads
  <2>1. context[e] \in Contexts
    BY <1>3, <1>4
  <2>2. context'[e] = Cancelled(context[e]) /\ \A f \in Downloads \ {e} : context'[f] = context[f]
    BY <1>2, <1>3, <1>4
  <2>3. context' \in [Downloads -> Contexts]
    BY <1>1, <1>2, <1>3, <2>1
  <2>4. QED
    BY <1>1, <2>1, <2>2, <2>3
<1>5. CASE e \notin Downloads
  <2>1. context' = context
    BY <1>2, <1>3, <1>5
  <2>2. QED
    BY <1>3, <1>5, <2>1
<1>6. QED
  BY <1>4, <1>5

LEMMA ContextRecorded ==
  ASSUME Types, NEW d \in Downloads, NEW n \in Nat, context' = [context EXCEPT ![d].record = n]
  PROVE  /\ context' \in [Downloads -> Contexts]
         /\ \A e \in Downloads : e # d => context'[e] = context[e]
         /\ context'[d].record = n /\ context'[d].private = context[d].private
         /\ context'[d].secret = context[d].secret /\ context'[d].known = context[d].known
         /\ context'[d].cancelled = context[d].cancelled /\ context'[d].proc = context[d].proc
<1>. DEFINE Recorded(c) == [c EXCEPT !.record = n]
<1>1. ASSUME NEW c \in Contexts
      PROVE  /\ Recorded(c) \in Contexts
             /\ Recorded(c).record = n /\ Recorded(c).private = c.private
             /\ Recorded(c).secret = c.secret /\ Recorded(c).known = c.known
             /\ Recorded(c).cancelled = c.cancelled /\ Recorded(c).proc = c.proc
  BY DEF Contexts
<1>2. context' = [context EXCEPT ![d] = Recorded(context[d])]
  OBVIOUS
<1>. HIDE DEF Recorded
<1>3. context \in [Downloads -> Contexts]
  BY DEF Types
<1>4. QED
  BY <1>1, <1>2, <1>3

(* What the answer of d's dialog does to this and to other downloads.      *)
DialogReaches(d) ==
  /\ struck \subseteq struck'
  /\ \A e \in Downloads :
       \/ phase'[e] = phase[e]
       \/ phase[e] = "asking" /\ phase'[e] = "named" /\ e \in struck' \cup {d}
  /\ \A e \in Downloads :
       /\ context'[e].record = context[e].record /\ context'[e].private = context[e].private
       /\ context'[e].secret = context[e].secret /\ context'[e].known = context[e].known
       /\ context'[e].proc = context[e].proc
       /\ context[e].cancelled => context'[e].cancelled
       /\ context'[e].cancelled # context[e].cancelled =>
            e \in struck' \/ (e = d /\ phase[d] \in {"asking", "gone"})
  /\ phase' \in [Downloads -> Live \cup {"none", "gone"}]
  /\ context' \in [Downloads -> Contexts]

(* A dialog that reaches another's context is on record for it, and its    *)
(* own download, if it still waits, has no row.                            *)
LEMMA DialogFinishedKeeps ==
  ASSUME DownloadsInv, NEW d \in Downloads, DownloadSaveDialogFinished(d)
  PROVE  DownloadsInv'
<1>1. /\ Types /\ d \in dialogs /\ dialogs' = dialogs \ {d}
      /\ UNCHANGED <<status, writer, removed, todo, found, running, left, whole, active>>
  BY DEF DownloadsInv, DownloadSaveDialogFinished, process, table
<1>2. DialogReaches(d)
  <2>1. CASE UNCHANGED <<phase, context, struck>>
    BY <1>1, <2>1 DEF Types, DialogReaches
  <2>2. ASSUME NEW e, struck' = struck \cup ({e} \ {d}), UNCHANGED context,
               phase' = IF phase[e] = "asking" THEN [phase EXCEPT ![e] = "named"] ELSE phase
        PROVE  DialogReaches(d)
    <3>1. CASE phase[e] = "asking"
      <4>1. /\ phase' \in [Downloads -> Live \cup {"none", "gone"}]
            /\ \A f \in Downloads : f # e => phase'[f] = phase[f]
            /\ e \in Downloads => phase'[e] = "named"
        BY <1>1, <2>2, <3>1 DEF Types, Live
      <4>2. QED
        BY <1>1, <2>2, <3>1, <4>1 DEF Types, DialogReaches
    <3>2. CASE phase[e] # "asking"
      BY <1>1, <2>2, <3>2 DEF Types, DialogReaches
    <3>3. QED
      BY <3>1, <3>2
  <2>3. ASSUME NEW e, struck' = struck \cup ({e} \ {d}), UNCHANGED phase,
               context' = [context EXCEPT ![e].cancelled = TRUE]
        PROVE  DialogReaches(d)
    <3>1. phase[d] \in {"asking", "gone"} \/ d \in struck
      BY <1>1 DEF DownloadsInv, DialogsAreAwaited
    <3>2. QED
      BY <1>1, <2>3, <3>1, ContextCancelled DEF Types, DialogReaches
  <2>4. QED
    BY <2>1, <2>2, <2>3 DEF DownloadSaveDialogFinished
<1>3. Types'
  BY <1>1, <1>2 DEF Types, DialogReaches
<1>4. PrivateIsKnown' /\ RecordsAreRows' /\ RecordsAreOwn'
  BY <1>1, <1>2 DEF DownloadsInv, PrivateIsKnown, RecordsAreRows, RecordsAreOwn, Original, DialogReaches
<1>5. \A r \in Rows : writer[r] \in Downloads => phase[writer[r]] \in {"receiving", "gone"}
  BY DEF DownloadsInv, WritersKnowTheirRow
<1>6. WritersKnowTheirRow' /\ PrivateLeavesNoRow'
  <2>1. \A r \in Rows : status[r] # "none" => writer[r] \in Downloads
    BY DEF DownloadsInv, RowsAreAdded
  <2>2. QED
    BY <1>1, <1>2, <1>5, <2>1 DEF DownloadsInv, WritersKnowTheirRow, PrivateLeavesNoRow,
      DialogReaches
<1>7. DialogsAreAwaited'
  BY <1>1, <1>2 DEF DownloadsInv, DialogsAreAwaited, Types, DialogReaches
<1>8. CancelledIsWritten' /\ NoRowIsForgotten' /\ CancelledIsKnown'
  <2>1. \A r \in Rows : Original(r) => writer[r] \in Downloads
    BY DEF DownloadsInv, RowsAreAdded, Original
  <2>2. \A r \in Rows : Original(r) => phase'[writer[r]] = phase[writer[r]]
    BY <1>2, <1>5, <2>1 DEF DialogReaches
  <2>3. CancelledIsWritten'
    BY <1>1, <1>2, <2>1, <2>2 DEF DownloadsInv, CancelledIsWritten, Original, DialogReaches
  <2>4. NoRowIsForgotten'
    BY <1>1, <1>2, <2>2 DEF DownloadsInv, NoRowIsForgotten, Original, Read, DialogReaches
  <2>5. CancelledIsKnown'
    BY <1>1, <1>2, <2>1, <2>2 DEF DownloadsInv, CancelledIsKnown, Original, DialogReaches
  <2>6. QED
    BY <2>3, <2>4, <2>5
<1>9. ActiveAreLive'
  <2>1. \A p \in Procs : \A i \in 1..Len(active[p]) : active[p][i] \in Downloads
    BY <1>1, ElementOfSeq DEF Types
  <2>2. \A e \in Downloads : phase[e] \in Live => phase'[e] \in Live
    BY <1>2 DEF DialogReaches, Live
  <2>3. QED
    BY <1>1, <1>2, <2>1, <2>2 DEF DownloadsInv, ActiveAreLive, DialogReaches
<1>10. QED
  BY <1>1, <1>3, <1>4, <1>6, <1>7, <1>8, <1>9 DEF RowsAreDense, LookedIsRead, Read, DownloadsInv, RowsAreAdded, ReadIsOwn, LookIsTrue,
    CompleteMeansWhole, Original

(* There is an id for a download that has none: the ids up to the next one *)
(* were given to as many others.                                           *)
LEMMA NextRowIsARow ==
  ASSUME DownloadsInv, NEW d \in Downloads, \A r \in Rows : writer[r] # d
  PROVE  NextRow \in Rows /\ \A q \in 1..(NextRow - 1) : writer[q] # Nothing
<1>. DEFINE last == NextRow - 1
            Others == Downloads \ {d}
            given == [q \in 1..last |-> writer[q]]
<1>1. NextRow \in Nat \ {0} /\ last \in Nat /\ (last # 0 => last \in Rows /\ status[last] # "none")
  BY NextRowFollows DEF DownloadsInv
<1>2. \A q \in 1..last : q \in Rows /\ writer[q] \in Others
  <2>1. last # 0 => writer[last] \in Downloads /\ last \in Rows
    BY <1>1 DEF DownloadsInv, RowsAreAdded
  <2>2. \A q \in 1..last : q \in Rows
    BY <1>1, RowsAreNumbers DEF Rows
  <2>3. \A q \in 1..last : writer[q] # Nothing
    BY <1>1, <2>1, DownloadsAssumption DEF DownloadsInv, RowsAreDense
  <2>4. QED
    BY <2>2, <2>3 DEF DownloadsInv, Types
<1>3. given \in Injection(1..last, Others)
  <2>1. ASSUME NEW q \in 1..last, NEW r \in 1..last, writer[q] = writer[r]
        PROVE  q = r
    BY <1>2, <2>1 DEF DownloadsInv, WritersKnowTheirRow
  <2>2. QED
    BY <1>2, <2>1 DEF Injection, IsInjective
<1>4. /\ IsFiniteSet(Others) /\ Cardinality(Others) = Cardinality(Downloads) - 1
      /\ Cardinality(1..last) = last
  <2>1. IsFiniteSet(Others) /\ Cardinality(Others) = Cardinality(Downloads) - 1
    BY DownloadsAssumption, FS_RemoveElement
  <2>2. Cardinality(1..last) = IF 1 > last THEN 0 ELSE last - 1 + 1
    BY <1>1, FS_Interval
  <2>3. QED
    BY <1>1, <2>1, <2>2
<1>5. last <= Cardinality(Downloads) - 1
  BY <1>3, <1>4, FS_Injection
<1>6. NextRow \in Rows
  BY <1>1, <1>5, RowsAreNumbers DEF Rows
<1>7. QED
  BY <1>2, <1>6, DownloadsAssumption

(* A row is added: its id is new, or that of a row that was removed, and   *)
(* then whatever still knows the id knows a row that is no original.       *)
LEMMA CreatedKeeps ==
  ASSUME DownloadsInv, NEW d \in Downloads, DownloadCreatedDestination(d)
  PROVE  DownloadsInv'
<1>. USE DEF DownloadCreatedDestination, process, choices
<1>1. /\ Types /\ phase[d] = "named" /\ phase' = [phase EXCEPT ![d] = "receiving"]
      /\ ~context[d].cancelled
      /\ UNCHANGED <<removed, todo, found, running, left, whole, dialogs, struck, active>>
  BY DEF DownloadsInv
<1>2. phase'[d] = "receiving" /\ \A e : e # d => phase'[e] = phase[e]
  BY <1>1 DEF Types
<1>3. \A r \in Rows : writer[r] # d
  BY <1>1 DEF DownloadsInv, WritersKnowTheirRow
<1>4. phase' \in [Downloads -> Live \cup {"none", "gone"}]
  BY <1>1 DEF Types, Live
<1>5. DialogsAreAwaited'
  BY <1>1, <1>2 DEF DownloadsInv, DialogsAreAwaited
<1>6. Nothing \notin Downloads
  BY DownloadsAssumption
<1>7. \A p \in Procs : \A i \in 1..Len(active[p]) : active[p][i] \in Downloads
  BY <1>1, ElementOfSeq DEF Types
<1>8. CASE UNCHANGED <<context, status, writer>>
  <2>1. WritersKnowTheirRow' /\ CancelledIsWritten' /\ NoRowIsForgotten'
    BY <1>1, <1>2, <1>3, <1>8 DEF DownloadsInv, WritersKnowTheirRow, CancelledIsWritten,
      NoRowIsForgotten, Original, Read
  <2>2. Types'
    BY <1>1, <1>4, <1>8 DEF Types
  <2>3. CancelledIsKnown' /\ ActiveAreLive'
    BY <1>1, <1>2, <1>3, <1>8 DEF DownloadsInv, CancelledIsKnown, ActiveAreLive, Original, Live
  <2>4. QED
    BY <1>1, <1>5, <1>8, <2>1, <2>2, <2>3 DEF RowsAreDense, LookedIsRead, Read, DownloadsInv, PrivateIsKnown, RowsAreAdded, RecordsAreRows,
      ReadIsOwn, LookIsTrue, RecordsAreOwn, PrivateLeavesNoRow, CompleteMeansWhole, Original
<1>9. CASE ~context[d].private /\ context[d].record = 0
  <2>. DEFINE n == NextRow
  <2>1. /\ context' = [context EXCEPT ![d].record = n]
        /\ status' = [status EXCEPT ![n] = "downloading"]
        /\ writer' = [writer EXCEPT ![n] = d]
    BY <1>9
  <2>2. /\ n \in Nat \ {0} /\ n \in Rows /\ status[n] = "none"
        /\ \A q \in 1..(n - 1) : writer[q] # Nothing
    BY <1>1, <1>3, NextRowFollows, NextRowIsARow
  <2>. HIDE DEF n
  <2>3. /\ \A e \in Downloads : e # d => context'[e] = context[e]
        /\ context'[d].record = n /\ ~context'[d].private /\ ~context'[d].cancelled
        /\ context'[d].proc = context[d].proc
        /\ context'[d].secret = context[d].secret /\ context'[d].known = context[d].known
        /\ context' \in [Downloads -> Contexts]
    BY <1>1, <1>9, <2>1, <2>2, ContextRecorded
  <2>4. /\ \A r \in Rows : r # n => status'[r] = status[r] /\ writer'[r] = writer[r]
        /\ status'[n] = "downloading" /\ writer'[n] = d
    BY <1>1, <2>1, <2>2 DEF Types
  <2>5. Types'
    <3>1. status' \in [Rows -> Statuses \cup {"none"}] /\ writer' \in [Rows -> Downloads \cup {Nothing}]
      BY <1>1, <2>1 DEF Types, Statuses
    <3>2. QED
      BY <1>1, <1>4, <2>3, <3>1 DEF Types
  <2>6. n \notin removed => writer[n] = Nothing
    BY <2>2 DEF DownloadsInv, RowsAreAdded
  <2>7. PrivateIsKnown'
    BY <1>9, <2>3 DEF DownloadsInv, PrivateIsKnown
  <2>8. RowsAreAdded'
    BY <1>1, <1>6, <2>4 DEF DownloadsInv, RowsAreAdded
  <2>9. WritersKnowTheirRow'
    BY <1>2, <1>3, <2>3, <2>4 DEF DownloadsInv, WritersKnowTheirRow
  <2>10. RecordsAreRows'
    BY <1>6, <2>2, <2>3, <2>4 DEF DownloadsInv, RecordsAreRows
  <2>11. RecordsAreOwn'
    <3>1. ASSUME NEW e \in Downloads, NEW r \in Rows, context'[e].record = r, Original(r)'
          PROVE  writer'[r] = e
      <4>1. CASE r = n
        <5>1. CASE e = d
          BY <2>4, <4>1, <5>1
        <5>2. CASE e # d
          <6>1. context[e].record = n /\ n \notin removed
            BY <1>1, <2>3, <3>1, <4>1, <5>2 DEF Original
          <6>2. QED
            BY <2>2, <2>6, <6>1 DEF DownloadsInv, RecordsAreRows
        <5>3. QED
          BY <5>1, <5>2
      <4>2. CASE r # n
        BY <1>1, <2>3, <2>4, <3>1, <4>2 DEF DownloadsInv, RecordsAreOwn, Original
      <4>3. QED
        BY <4>1, <4>2
    <3>2. QED
      BY <3>1 DEF RecordsAreOwn
  <2>12. ReadIsOwn'
    <3>1. ASSUME NEW p \in Procs, NEW entry \in todo[p], entry.row \notin removed
          PROVE  writer'[entry.row] = entry.of
      <4>1. writer[entry.row] = entry.of /\ entry.of \in Downloads /\ entry.row \in Rows
        BY <1>1, <3>1 DEF DownloadsInv, ReadIsOwn, Types
      <4>2. entry.row # n
        BY <1>6, <2>6, <3>1, <4>1
      <4>3. QED
        BY <2>4, <4>1, <4>2
    <3>2. QED
      BY <1>1, <3>1 DEF ReadIsOwn
  <2>13. LookIsTrue'
    <3>1. ASSUME NEW p \in Procs, found[p].row \in Rows, found[p].row \notin removed
          PROVE  found[p].row # n /\ writer[found[p].row] \in Downloads
      BY <1>6, <2>6, <3>1 DEF DownloadsInv, LookIsTrue
    <3>2. QED
      BY <1>1, <2>4, <3>1 DEF DownloadsInv, LookIsTrue
  <2>14. \A r \in Rows : r # n /\ status[r] # "none" => writer[r] \in Downloads \ {d}
    BY <1>3 DEF DownloadsInv, RowsAreAdded
  <2>15. CancelledIsWritten' /\ PrivateLeavesNoRow'
    <3>1. ASSUME NEW r \in Rows
          PROVE  /\ Original(r)' /\ status'[r] = "downloading" /\ phase'[writer'[r]] = "receiving" =>
                      ~context'[writer'[r]].cancelled \/ writer'[r] \in struck
                 /\ status'[r] # "none" /\ context'[writer'[r]].secret => ~context'[writer'[r]].known
      <4>1. CASE r = n
        BY <1>9, <2>3, <2>4, <4>1 DEF DownloadsInv, PrivateIsKnown
      <4>2. CASE r # n
        BY <1>1, <1>2, <2>3, <2>4, <2>14, <4>2 DEF DownloadsInv, CancelledIsWritten, PrivateLeavesNoRow, Original
      <4>3. QED
        BY <4>1, <4>2
    <3>2. QED
      BY <1>1, <3>1 DEF CancelledIsWritten, PrivateLeavesNoRow
  <2>16. CompleteMeansWhole'
    BY <1>1, <2>4 DEF DownloadsInv, CompleteMeansWhole, Original
  <2>17. NoRowIsForgotten'
    <3>1. ASSUME NEW r \in Rows, Original(r)', status'[r] = "downloading"
          PROVE  \/ phase'[writer'[r]] \in Live
                 \/ r \in left
                 \/ \E p \in running : r \in Read(p)
                 \/ writer'[r] \in struck
      <4>1. CASE r = n
        BY <1>2, <2>4, <4>1 DEF Live
      <4>2. CASE r # n
        BY <1>1, <1>2, <2>4, <2>14, <3>1, <4>2 DEF DownloadsInv, NoRowIsForgotten, Original
      <4>3. QED
        BY <4>1, <4>2
    <3>2. QED
      BY <1>1, <3>1 DEF NoRowIsForgotten, Read
  <2>18. RowsAreDense'
    <3>1. ASSUME NEW r \in Rows, writer'[r] # Nothing, NEW q \in 1..r
          PROVE  writer'[q] # Nothing
      <4>1. q \in Rows
        BY RowsAreNumbers DEF Rows
      <4>2. CASE q = n
        BY <1>6, <2>4, <4>2
      <4>3. CASE q # n /\ r = n
        <5>1. q \in 1..(n - 1)
          BY <2>2, <4>3
        <5>2. QED
          BY <2>2, <2>4, <4>1, <4>3, <5>1
      <4>4. CASE q # n /\ r # n
        BY <2>4, <3>1, <4>1, <4>4 DEF DownloadsInv, RowsAreDense
      <4>5. QED
        BY <4>2, <4>3, <4>4
    <3>2. QED
      BY <3>1 DEF RowsAreDense
  <2>19. ActiveAreLive'
    <3>1. \A e \in Downloads : context'[e].proc = context[e].proc
      BY <2>3
    <3>2. \A e \in Downloads : phase[e] \in Live => phase'[e] \in Live
      BY <1>2 DEF Live
    <3>3. QED
      BY <1>1, <1>7, <3>1, <3>2 DEF DownloadsInv, ActiveAreLive
  <2>20. CancelledIsKnown'
    <3>1. ASSUME NEW r \in Rows, Original(r)', status'[r] = "cancelled", phase'[writer'[r]] = "receiving"
          PROVE  context'[writer'[r]].cancelled
      <4>1. r # n
        BY <2>4, <3>1
      <4>2. QED
        BY <1>1, <1>2, <2>3, <2>4, <2>14, <3>1, <4>1 DEF DownloadsInv, CancelledIsKnown, Original
    <3>2. QED
      BY <3>1 DEF CancelledIsKnown
  <2>21. LookedIsRead'
    BY <1>1 DEF DownloadsInv, LookedIsRead, Read
  <2>22. QED
    BY <2>5, <1>5, <2>7, <2>8, <2>9, <2>10, <2>11, <2>12, <2>13, <2>15, <2>16, <2>17, <2>18, <2>19, <2>20, <2>21
    DEF DownloadsInv
<1>10. QED
  BY <1>8, <1>9

LEMMA FileMovedKeeps ==
  ASSUME DownloadsInv, NEW d \in Downloads, FileMoved(d)
  PROVE  DownloadsInv'
BY DEF FileMoved, process, table, choices, DownloadsInv, Types, PrivateIsKnown, RowsAreAdded,
  WritersKnowTheirRow, RecordsAreRows, ReadIsOwn, LookIsTrue, DialogsAreAwaited, CancelledIsWritten,
  RecordsAreOwn, PrivateLeavesNoRow, CompleteMeansWhole, NoRowIsForgotten, RowsAreDense, ActiveAreLive,
  CancelledIsKnown, LookedIsRead, Original, Read

(* What erasing a place of a vector leaves: the rest, each at its own.      *)
LEMMA ErasedVector ==
  ASSUME NEW S, NEW s \in Seq(S), NEW p \in 1..Len(s)
  PROVE  /\ RemoveAt(s, p) \in Seq(S)
         /\ \A i \in 1..Len(RemoveAt(s, p)) : \E k \in (1..Len(s)) \ {p} :
              /\ RemoveAt(s, p)[i] = s[k]
              /\ k = IF i < p THEN i ELSE i + 1
<1>. DEFINE a == SubSeq(s, 1, p - 1)
            b == SubSeq(s, p + 1, Len(s))
<1>1. Len(s) \in Nat /\ \A i \in 1..Len(s) : s[i] \in S
  BY LenProperties, ElementOfSeq
<1>2. /\ a \in Seq(S)
      /\ Len(a) = p - 1
      /\ \A i \in 1..(p - 1) : a[i] = s[i]
  BY <1>1, SubSeqProperties
<1>3. /\ b \in Seq(S)
      /\ Len(b) = Len(s) - p
      /\ \A i \in 1..(Len(s) - p) : b[i] = s[p + i]
  BY <1>1, SubSeqProperties
<1>4. RemoveAt(s, p) = a \o b
  BY DEF RemoveAt
<1>. HIDE DEF a, b
<1>5. /\ a \o b \in Seq(S)
      /\ Len(a \o b) = Len(a) + Len(b)
      /\ \A i \in 1..(Len(a) + Len(b)) :
           (a \o b)[i] = IF i <= Len(a) THEN a[i] ELSE b[i - Len(a)]
  BY <1>2, <1>3, ConcatProperties
<1>6. Len(a) + Len(b) = Len(s) - 1
  BY <1>1, <1>2, <1>3
<1>7. ASSUME NEW i \in 1..(Len(s) - 1)
      PROVE  \E k \in (1..Len(s)) \ {p} : (a \o b)[i] = s[k] /\ k = IF i < p THEN i ELSE i + 1
  <2>1. CASE i < p
    <3>1. i \in 1..(p - 1) /\ i \in (1..Len(s)) \ {p} /\ i <= Len(a) /\ i \in 1..(Len(a) + Len(b))
      BY <1>1, <1>2, <1>6, <2>1
    <3>2. QED
      BY <1>2, <1>5, <2>1, <3>1
  <2>2. CASE ~(i < p)
    <3>1. /\ i - Len(a) \in 1..(Len(s) - p) /\ p + (i - Len(a)) = i + 1
          /\ i + 1 \in (1..Len(s)) \ {p} /\ ~(i <= Len(a)) /\ i \in 1..(Len(a) + Len(b))
      BY <1>1, <1>2, <1>6, <2>2
    <3>2. (a \o b)[i] = s[i + 1]
      BY <1>3, <1>5, <3>1
    <3>3. QED
      BY <2>2, <3>1, <3>2
  <2>3. QED
    BY <2>1, <2>2
<1>8. QED
  BY <1>4, <1>5, <1>6, <1>7

(* What is left of the vectors when d is over.                             *)
LEMMA ErasedContext ==
  ASSUME Types, ActiveAreLive, NEW d \in Downloads,
         \E i \in DOMAIN active[context[d].proc] :
           /\ active[context[d].proc][i] = d
           /\ active' = [active EXCEPT ![context[d].proc] = RemoveAt(active[context[d].proc], i)]
  PROVE  /\ active' \in [Procs -> Seq(Downloads)]
         /\ \A q \in Procs : \A i \in 1..Len(active'[q]) : \E k \in 1..Len(active[q]) :
              /\ active'[q][i] = active[q][k]
              /\ active[q][k] # d
              /\ \A j \in 1..Len(active'[q]) : active'[q][i] = active'[q][j] => i = j
<1>. DEFINE p == context[d].proc
<1>1. active \in [Procs -> Seq(Downloads)]
  BY DEF Types
<1>2. PICK at \in DOMAIN active[p] :
        active[p][at] = d /\ active' = [active EXCEPT ![p] = RemoveAt(active[p], at)]
  OBVIOUS
<1>3. \A q \in Procs \ {p} : \A k \in 1..Len(active[q]) : active[q][k] # d
  BY DEF ActiveAreLive
<1>. HIDE DEF p
<1>4. ASSUME NEW q \in Procs, q # p
      PROVE  /\ active'[q] = active[q]
             /\ \A i, j \in 1..Len(active[q]) : active[q][i] = active[q][j] => i = j
  BY <1>1, <1>2, <1>4 DEF ActiveAreLive
<1>5. CASE p \notin Procs
  <2>1. active' = active
    BY <1>1, <1>2, <1>5
  <2>2. QED
    BY <1>1, <1>3, <1>4, <1>5, <2>1
<1>6. CASE p \in Procs
  <2>. DEFINE rest == RemoveAt(active[p], at)
  <2>1. active[p] \in Seq(Downloads) /\ at \in 1..Len(active[p])
    BY <1>1, <1>2, <1>6
  <2>2. /\ rest \in Seq(Downloads)
        /\ \A i \in 1..Len(rest) : \E k \in (1..Len(active[p])) \ {at} :
             rest[i] = active[p][k] /\ k = IF i < at THEN i ELSE i + 1
    BY <2>1, ErasedVector
  <2>3. active' = [active EXCEPT ![p] = rest]
    BY <1>2
  <2>. HIDE DEF rest
  <2>4. active'[p] = rest
    BY <1>1, <1>6, <2>3
  <2>5. \A i, j \in 1..Len(active[p]) : active[p][i] = active[p][j] => i = j
    BY <1>6 DEF ActiveAreLive
  <2>6. ASSUME NEW i \in 1..Len(rest)
        PROVE  \E k \in 1..Len(active[p]) :
                 /\ rest[i] = active[p][k]
                 /\ active[p][k] # d
                 /\ \A j \in 1..Len(rest) : rest[i] = rest[j] => i = j
    <3>1. PICK k \in (1..Len(active[p])) \ {at} :
            rest[i] = active[p][k] /\ k = IF i < at THEN i ELSE i + 1
      BY <2>2
    <3>2. active[p][k] # d
      BY <1>2, <2>1, <2>5, <3>1
    <3>3. ASSUME NEW j \in 1..Len(rest), rest[i] = rest[j]
          PROVE  i = j
      <4>1. PICK l \in (1..Len(active[p])) \ {at} :
              rest[j] = active[p][l] /\ l = IF j < at THEN j ELSE j + 1
        BY <2>2
      <4>2. k = l
        BY <2>5, <3>1, <3>3, <4>1
      <4>3. QED
        BY <2>1, <3>1, <4>1, <4>2
    <3>4. QED
      BY <3>1, <3>2, <3>3
  <2>7. active' \in [Procs -> Seq(Downloads)]
    BY <1>1, <1>6, <2>2, <2>3
  <2>8. QED
    BY <1>3, <1>4, <2>4, <2>6, <2>7
<1>7. QED
  BY <1>5, <1>6

(* At the end of a download its row is written, if it has one: unless it   *)
(* was cancelled, and then it has been written before.                     *)
LEMMA OverKeeps ==
  ASSUME DownloadsInv, NEW d \in Downloads, phase[d] \in Live, Over(d),
         NEW new \in {"failed", "complete"}, new = "complete" => d \in whole,
         IF ~context[d].private /\ ~context[d].cancelled
         THEN UpdateDownload(context[d].record, new)
         ELSE UNCHANGED status
  PROVE  DownloadsInv'
<1>. DEFINE r == context[d].record
<1>1. /\ Types /\ phase' = [phase EXCEPT ![d] = "gone"]
      /\ UNCHANGED <<writer, removed, todo, found, running, left, whole, context, dialogs, struck>>
  BY DEF DownloadsInv, Over, process, choices
<1>2. /\ active' \in [Procs -> Seq(Downloads)]
       /\ \A q \in Procs : \A i \in 1..Len(active'[q]) : \E k \in 1..Len(active[q]) :
            /\ active'[q][i] = active[q][k]
            /\ active[q][k] # d
            /\ \A j \in 1..Len(active'[q]) : active'[q][i] = active'[q][j] => i = j
  <2>1. ActiveAreLive
    BY DEF DownloadsInv
  <2>2. \E i \in DOMAIN active[context[d].proc] :
          /\ active[context[d].proc][i] = d
          /\ active' = [active EXCEPT ![context[d].proc] = RemoveAt(active[context[d].proc], i)]
    BY Zenon DEF Over
  <2>3. QED
    BY <1>1, <2>1, <2>2, ErasedContext
<1>3. phase'[d] = "gone" /\ \A e : e # d => phase'[e] = phase[e]
  BY <1>1 DEF Types
<1>4. new \in Statuses \ {"downloading"}
  BY DEF Statuses
<1>5. SettlesRows({r}, new)
  <2>1. CASE ~context[d].private /\ ~context[d].cancelled
    BY <1>1, <1>4, <2>1, UpdateSettles
  <2>2. CASE UNCHANGED status
    BY <1>1, <2>2 DEF SettlesRows, Types
  <2>3. QED
    BY <2>1, <2>2
<1>6. /\ RowsAreAdded'
      /\ \A q \in Rows : Original(q)' <=> Original(q)
      /\ \A q \in Rows : status'[q] = "downloading" => status[q] = "downloading"
  BY <1>4, <1>5, SettledRowsStayAdded
<1>7. Types'
  <2>1. phase' \in [Downloads -> Live \cup {"none", "gone"}]
    BY <1>1 DEF Types
  <2>2. active' \in [Procs -> Seq(Downloads)]
    BY <1>2
  <2>3. QED
    BY <1>1, <1>5, <2>1, <2>2 DEF Types, SettlesRows
<1>8. \A q \in Rows : Original(q) => writer[q] \in Downloads
  BY DEF DownloadsInv, RowsAreAdded, Original
<1>9. WritersKnowTheirRow' /\ DialogsAreAwaited'
  BY <1>1, <1>3 DEF DownloadsInv, WritersKnowTheirRow, DialogsAreAwaited
<1>10. CancelledIsWritten'
  BY <1>1, <1>3, <1>6 DEF DownloadsInv, CancelledIsWritten
<1>11. CompleteMeansWhole'
  <2>1. ASSUME NEW q \in Rows, Original(q), status'[q] = "complete"
        PROVE  writer[q] \in whole
    <3>1. CASE status[q] = "complete"
      BY <2>1, <3>1 DEF DownloadsInv, CompleteMeansWhole
    <3>2. CASE status[q] # "complete"
      <4>1. q = context[d].record /\ d \in whole
        BY <1>5, <2>1, <3>2 DEF SettlesRows
      <4>2. QED
        BY <2>1, <4>1 DEF DownloadsInv, RecordsAreOwn
    <3>3. QED
      BY <3>1, <3>2
  <2>2. QED
    BY <1>1, <1>6, <2>1 DEF CompleteMeansWhole
<1>12. NoRowIsForgotten'
  <2>1. ASSUME NEW q \in Rows, Original(q), status'[q] = "downloading", writer[q] = d
        PROVE  d \in struck
    <3>1. context[d].record = q /\ ~context[d].private /\ phase[d] = "receiving" /\ status[q] = "downloading"
      BY <1>6, <2>1 DEF DownloadsInv, WritersKnowTheirRow, Live
    <3>2. CASE context[d].cancelled
      BY <2>1, <3>1, <3>2 DEF DownloadsInv, CancelledIsWritten
    <3>3. CASE ~context[d].cancelled
      <4>1. UpdateDownload(q, new)
        BY <3>1, <3>3
      <4>2. status'[q] = new
        BY <1>1, <1>4, <3>1, <4>1, UpdateWritesOneRow
      <4>3. QED
        BY <1>4, <2>1, <4>2
    <3>4. QED
      BY <3>2, <3>3
  <2>2. QED
    BY <1>1, <1>3, <1>6, <2>1 DEF DownloadsInv, NoRowIsForgotten, Read
<1>13. RecordsAreOwn' /\ PrivateLeavesNoRow'
  <2>1. \A q \in Rows : status'[q] # "none" => status[q] # "none"
    BY <1>5 DEF SettlesRows
  <2>2. QED
    BY <1>1, <1>6, <2>1 DEF DownloadsInv, RecordsAreOwn, PrivateLeavesNoRow
<1>14. PrivateIsKnown' /\ RecordsAreRows' /\ ReadIsOwn' /\ LookIsTrue'
  BY <1>1 DEF DownloadsInv, PrivateIsKnown, RecordsAreRows, ReadIsOwn, LookIsTrue
<1>15. ActiveAreLive'
  <2>1. ASSUME NEW q \in Procs, NEW i \in 1..Len(active'[q])
        PROVE  /\ phase'[active'[q][i]] \in Live
               /\ context[active'[q][i]].proc = q
               /\ \A j \in 1..Len(active'[q]) : active'[q][i] = active'[q][j] => i = j
    <3>1. PICK k \in 1..Len(active[q]) :
            /\ active'[q][i] = active[q][k]
            /\ active[q][k] # d
            /\ \A j \in 1..Len(active'[q]) : active'[q][i] = active'[q][j] => i = j
      BY <1>2
    <3>2. QED
      BY <1>3, <3>1 DEF DownloadsInv, ActiveAreLive
  <2>2. QED
    BY <1>1, <2>1 DEF ActiveAreLive
<1>16. CancelledIsKnown' /\ LookedIsRead' /\ RowsAreDense'
  <2>1. \A q \in Rows : status'[q] = "cancelled" => status[q] = "cancelled"
    BY <1>5 DEF SettlesRows
  <2>2. CancelledIsKnown'
    BY <1>1, <1>3, <1>6, <1>8, <2>1 DEF DownloadsInv, CancelledIsKnown
  <2>3. QED
    BY <1>1, <2>2 DEF DownloadsInv, LookedIsRead, RowsAreDense, Read
<1>17. QED
  BY <1>6, <1>7, <1>9, <1>10, <1>11, <1>12, <1>13, <1>14, <1>15, <1>16 DEF DownloadsInv

LEMMA EndKeeps ==
  ASSUME DownloadsInv, NEW d \in Downloads, DownloadFailed(d) \/ DownloadFinished(d)
  PROVE  DownloadsInv'
<1>1. CASE DownloadFailed(d)
  BY <1>1, OverKeeps DEF DownloadFailed
<1>2. CASE DownloadFinished(d)
  BY <1>2, OverKeeps DEF DownloadFinished, Live
<1>3. QED
  BY <1>1, <1>2

(* Whichever context is cancelled: the row is the one that it knows.       *)
LEMMA CancelKeeps ==
  ASSUME DownloadsInv, NEW p \in Procs, NEW id, CancelDownload(p, id)
  PROVE  DownloadsInv'
<1>1. /\ Types
      /\ UNCHANGED <<phase, writer, removed, todo, found, running, left, whole, dialogs, struck, active>>
  BY DEF DownloadsInv, CancelDownload, process
<1>2. CASE UNCHANGED <<context, status>>
  BY <1>1, <1>2 DEF DownloadsInv, Types, PrivateIsKnown, RowsAreAdded,
    WritersKnowTheirRow, RecordsAreRows, ReadIsOwn, LookIsTrue, DialogsAreAwaited, CancelledIsWritten,
    RecordsAreOwn, PrivateLeavesNoRow, CompleteMeansWhole, NoRowIsForgotten, RowsAreDense, ActiveAreLive,
  CancelledIsKnown, LookedIsRead, Original, Read
<1>3. ASSUME NEW e \in Downloads, context[e].record = id, Cancel(e, id)
      PROVE  DownloadsInv'
  <2>1. /\ context' \in [Downloads -> Contexts]
        /\ \A f \in Downloads :
             /\ context'[f].record = context[f].record /\ context'[f].private = context[f].private
             /\ context'[f].secret = context[f].secret /\ context'[f].known = context[f].known
             /\ context'[f].proc = context[f].proc
             /\ context[f].cancelled \/ f = e => context'[f].cancelled
             /\ f # e => context'[f] = context[f]
    BY <1>1, <1>3, ContextCancelled DEF Cancel
  <2>2. "cancelled" \in Statuses \ {"downloading"}
    BY DEF Statuses
  <2>3. SettlesRows({id}, "cancelled")
    <3>1. CASE ~context[e].private
      BY <1>1, <1>3, <2>2, <3>1, UpdateSettles DEF Cancel
    <3>2. CASE context[e].private
      BY <1>1, <1>3, <3>2 DEF Cancel, SettlesRows, Types
    <3>3. QED
      BY <3>1, <3>2
  <2>4. /\ RowsAreAdded'
        /\ \A q \in Rows : Original(q)' <=> Original(q)
        /\ \A q \in Rows : status'[q] = "downloading" => status[q] = "downloading"
    BY <2>2, <2>3, SettledRowsStayAdded
  <2>5. \A q \in Rows :
          /\ status'[q] = "complete" => status[q] = "complete"
          /\ status'[q] # "none" => status[q] # "none"
    BY <2>3 DEF SettlesRows
  <2>6. Types'
    BY <1>1, <2>1, <2>3 DEF Types, SettlesRows
  <2>7. WritersKnowTheirRow' /\ PrivateIsKnown' /\ RecordsAreRows' /\ RecordsAreOwn'
    BY <1>1, <2>1, <2>4 DEF DownloadsInv, WritersKnowTheirRow, PrivateIsKnown, RecordsAreRows, RecordsAreOwn
  <2>8. PrivateLeavesNoRow'
    BY <1>1, <2>1, <2>5 DEF DownloadsInv, PrivateLeavesNoRow, RowsAreAdded
  <2>9. CancelledIsWritten'
    <3>1. ASSUME NEW q \in Rows, Original(q), status'[q] = "downloading", phase[writer[q]] = "receiving"
          PROVE  ~context'[writer[q]].cancelled \/ writer[q] \in struck
      <4>1. /\ writer[q] \in Downloads /\ context[writer[q]].record = q /\ ~context[writer[q]].private
            /\ status[q] = "downloading"
        BY <2>4, <3>1 DEF DownloadsInv, RowsAreAdded, WritersKnowTheirRow, Original
      <4>2. CASE writer[q] = e
        <5>1. UpdateDownload(q, "cancelled")
          BY <1>3, <4>1, <4>2 DEF Cancel
        <5>2. status'[q] = "cancelled"
          BY <1>1, <2>2, <4>1, <5>1, UpdateWritesOneRow
        <5>3. QED
          BY <3>1, <5>2
      <4>3. CASE writer[q] # e
        BY <2>1, <3>1, <4>1, <4>3 DEF DownloadsInv, CancelledIsWritten
      <4>4. QED
        BY <4>2, <4>3
    <3>2. QED
      BY <1>1, <2>4, <3>1 DEF CancelledIsWritten
  <2>10. CompleteMeansWhole' /\ NoRowIsForgotten'
    BY <1>1, <2>4, <2>5 DEF DownloadsInv, CompleteMeansWhole, NoRowIsForgotten, Read
  <2>11. ReadIsOwn' /\ LookIsTrue' /\ DialogsAreAwaited'
    BY <1>1 DEF DownloadsInv, ReadIsOwn, LookIsTrue, DialogsAreAwaited
  <2>12. CancelledIsKnown'
    <3>1. ASSUME NEW q \in Rows, Original(q), status'[q] = "cancelled", phase[writer[q]] = "receiving"
          PROVE  context'[writer[q]].cancelled
      <4>1. writer[q] \in Downloads
        BY <3>1 DEF DownloadsInv, RowsAreAdded, Original
      <4>2. CASE status[q] = "cancelled"
        BY <2>1, <3>1, <4>1, <4>2 DEF DownloadsInv, CancelledIsKnown
      <4>3. CASE status[q] # "cancelled"
        <5>1. q = id
          BY <2>3, <3>1, <4>3 DEF SettlesRows
        <5>2. writer[q] = e
          BY <1>3, <3>1, <5>1 DEF DownloadsInv, RecordsAreOwn
        <5>3. QED
          BY <2>1, <4>1, <5>2
      <4>4. QED
        BY <4>2, <4>3
    <3>2. QED
      BY <1>1, <2>4, <3>1 DEF CancelledIsKnown
  <2>13. ActiveAreLive'
    <3>1. \A q \in Procs : \A i \in 1..Len(active[q]) : active[q][i] \in Downloads
      BY <1>1, ElementOfSeq DEF Types
    <3>2. QED
      BY <1>1, <2>1, <3>1 DEF DownloadsInv, ActiveAreLive
  <2>14. LookedIsRead' /\ RowsAreDense'
    BY <1>1 DEF DownloadsInv, LookedIsRead, RowsAreDense, Read
  <2>15. QED
    BY <2>4, <2>6, <2>7, <2>8, <2>9, <2>10, <2>11, <2>12, <2>13, <2>14 DEF DownloadsInv
<1>4. \A i \in DOMAIN active[p] : active[p][i] \in Downloads
  BY <1>1, ElementOfSeq DEF Types
<1>5. QED
  BY <1>2, <1>3, <1>4 DEF CancelDownload, IsFirstWithRecord

(* From then on nothing is claimed of the row or of its id.                *)
LEMMA RemoveKeeps ==
  ASSUME DownloadsInv, NEW p \in Procs, NEW r \in Rows, RemoveDownload(p, r)
  PROVE  DownloadsInv'
<1>. USE DEF RemoveDownload, process, choices, download
<1>1. /\ Types /\ status' = [status EXCEPT ![r] = "none"] /\ removed' = removed \cup {r}
      /\ UNCHANGED <<phase, context, writer, todo, found, running, left, whole, dialogs, struck, active>>
  BY DEF DownloadsInv
<1>2. status'[r] = "none" /\ \A q \in Rows : q # r => status'[q] = status[q]
  BY <1>1 DEF Types
<1>3. Types' /\ RowsAreAdded'
  <2>1. status' \in [Rows -> Statuses \cup {"none"}]
    BY <1>1 DEF Types
  <2>2. QED
    BY <1>1, <1>2, <2>1 DEF DownloadsInv, Types, RowsAreAdded
<1>4. \A q \in Rows : Original(q)' => Original(q) /\ status'[q] = status[q]
  BY <1>1, <1>2 DEF Original
<1>5. CancelledIsWritten' /\ CancelledIsKnown' /\ RecordsAreOwn' /\ CompleteMeansWhole' /\ NoRowIsForgotten'
  BY <1>1, <1>4 DEF DownloadsInv, CancelledIsWritten, CancelledIsKnown, RecordsAreOwn, CompleteMeansWhole,
    NoRowIsForgotten, Read
<1>6. PrivateLeavesNoRow'
  BY <1>1, <1>2 DEF DownloadsInv, PrivateLeavesNoRow
<1>7. QED
  BY <1>1, <1>3, <1>5, <1>6 DEF DownloadsInv, PrivateIsKnown, WritersKnowTheirRow, RecordsAreRows,
    ReadIsOwn, LookIsTrue, DialogsAreAwaited, RowsAreDense, ActiveAreLive, LookedIsRead, Read

-----------------------------------------------------------------------------
LEMMA StutterKeeps ==
  ASSUME DownloadsInv, UNCHANGED vars
  PROVE  DownloadsInv'
BY DEF vars, process, download, table, choices, DownloadsInv, Types, PrivateIsKnown, RowsAreAdded,
  WritersKnowTheirRow, RecordsAreRows, ReadIsOwn, LookIsTrue, DialogsAreAwaited, CancelledIsWritten,
  RecordsAreOwn, PrivateLeavesNoRow, CompleteMeansWhole, NoRowIsForgotten, RowsAreDense, ActiveAreLive,
  CancelledIsKnown, LookedIsRead, Original, Read

LEMMA NextKeeps ==
  ASSUME DownloadsInv, [Next]_vars
  PROVE  DownloadsInv'
<1>1. ASSUME NEW d \in Downloads, Download(d)
      PROVE  DownloadsInv'
  BY <1>1, DestinationKeeps, DialogFinishedKeeps, CreatedKeeps, FileMovedKeeps, EndKeeps DEF Download
<1>2. ASSUME NEW p \in Procs, Process(p)
      PROVE  DownloadsInv'
  BY <1>2, LaunchKeeps, LookKeeps, WriteKeeps, ExitKeeps DEF Process
<1>3. ASSUME NEW p \in Procs, NEW d \in Downloads, DownloadStarted(p, d) \/ CancelDownloadClicked(p, d)
      PROVE  DownloadsInv'
  BY <1>3, StartedKeeps, CancelKeeps DEF CancelDownloadClicked
<1>4. ASSUME NEW p \in Procs, NEW r \in Rows \cup {0}, CancelById(p, r)
      PROVE  DownloadsInv'
  BY <1>4, CancelKeeps DEF CancelById
<1>5. ASSUME NEW p \in Procs, NEW r \in Rows, RemoveDownload(p, r)
      PROVE  DownloadsInv'
  BY <1>5, RemoveKeeps
<1>6. QED
  BY <1>1, <1>2, <1>3, <1>4, <1>5, StutterKeeps DEF Next

LEMMA DownloadsInvariant ==
  Spec => []DownloadsInv
<1>1. Init => DownloadsInv
  BY DownloadsInitially
<1>2. DownloadsInv /\ [Next]_vars => DownloadsInv'
  BY NextKeeps
<1>3. QED
  BY <1>1, <1>2, PTL DEF Spec

(* A row is written for the download that added it, and for no other.      *)
THEOREM RecordsStayOwn ==
  Spec => []RecordsAreOwn
<1>1. DownloadsInv => RecordsAreOwn
  BY DEF DownloadsInv
<1>2. QED
  BY <1>1, DownloadsInvariant, PTL

(* No download of a private window that was found is in the table.         *)
THEOREM PrivateStaysUnrecorded ==
  Spec => []PrivateLeavesNoRow
<1>1. DownloadsInv => PrivateLeavesNoRow
  BY DEF DownloadsInv
<1>2. QED
  BY <1>1, DownloadsInvariant, PTL

(* What is recorded as complete is, whoever recorded it.                   *)
THEOREM CompleteStaysWhole ==
  Spec => []CompleteMeansWhole
<1>1. DownloadsInv => CompleteMeansWhole
  BY DEF DownloadsInv
<1>2. QED
  BY <1>1, DownloadsInvariant, PTL

(* A row that says "downloading" is downloaded, or will be settled by the  *)
(* next launch.                                                            *)
THEOREM RowsAreRemembered ==
  Spec => []NoRowIsForgotten
<1>1. DownloadsInv => NoRowIsForgotten
  BY DEF DownloadsInv
<1>2. QED
  BY <1>1, DownloadsInvariant, PTL

-----------------------------------------------------------------------------
(* Somebody asks for each cancellation, unless by a download without a row *)
(* of its own, or through a dialog that outlived its download.             *)
LEMMA CancelledByAnswer ==
  ASSUME DownloadsInv, NEW e \in Downloads, DownloadSaveDialogFinished(e),
         NEW d \in Downloads, context'[d].cancelled, ~context[d].cancelled
  PROVE  d \in asked' \/ d \in struck'
<1>1. PICK f : /\ struck' = struck \cup ({f} \ {e})
               /\ context' = [context EXCEPT ![f].cancelled = TRUE]
               /\ asked' = asked \cup {e}
  BY DEF DownloadSaveDialogFinished
<1>2. f = d
  BY <1>1, ContextCancelled DEF DownloadsInv
<1>3. QED
  BY <1>1, <1>2

LEMMA CancelledById ==
  ASSUME DownloadsInv, NEW p \in Procs, NEW id, CancelDownload(p, id),
         NEW d \in Downloads, context'[d].cancelled, ~context[d].cancelled
  PROVE  d \in ToSet(active[p]) /\ context[d].record = id
<1>1. PICK i \in DOMAIN active[p] : context[active[p][i]].record = id /\ Cancel(active[p][i], id)
  BY DEF CancelDownload, IsFirstWithRecord
<1>2. active[p][i] = d
  BY <1>1, ContextCancelled DEF DownloadsInv, Cancel
<1>3. QED
  BY <1>1, <1>2 DEF ToSet

(* A row that nobody removed tells its download from all others.           *)
LEMMA RecordTells ==
  ASSUME DownloadsInv, NEW c \in Downloads, NEW d \in Downloads,
         context[c].record = context[d].record, context[d].record \notin removed \cup {0}
  PROVE  c = d
<1>. DEFINE r == context[d].record
<1>1. r \in Rows /\ writer[r] # Nothing
  BY DEF DownloadsInv, RecordsAreRows
<1>2. Original(r)
  BY <1>1 DEF DownloadsInv, RowsAreAdded, Original
<1>3. QED
  BY <1>1, <1>2 DEF DownloadsInv, RecordsAreOwn

LEMMA CancelsOfAStep ==
  ASSUME DownloadsInv, [Next]_vars,
         NEW d \in Downloads, context'[d].cancelled, ~context[d].cancelled
  PROVE  \/ d \in asked'
         \/ context[d].record \in removed \cup {0}
         \/ d \in struck'
<1>1. context' # context
  OBVIOUS
<1>2. ASSUME NEW e \in Downloads, DownloadSaveDialogFinished(e)
      PROVE  d \in asked' \/ d \in struck'
  BY <1>2, CancelledByAnswer
<1>3. ASSUME NEW e \in Downloads, DownloadCreatedDestination(e)
      PROVE  FALSE
  <2>1. NextRow \in Nat /\ Types
    BY NextRowFollows DEF DownloadsInv
  <2>2. context' = [context EXCEPT ![e].record = NextRow]
    BY <1>1, <1>3 DEF DownloadCreatedDestination
  <2>3. QED
    BY <2>1, <2>2, ContextRecorded
<1>4. ASSUME NEW p \in Procs, NEW e \in Downloads, DownloadStarted(p, e)
      PROVE  FALSE
  <2>1. PICK c : c.cancelled = FALSE /\ context' = [context EXCEPT ![e] = c]
    BY <1>4 DEF DownloadStarted
  <2>2. QED
    BY <2>1 DEF DownloadsInv, Types
<1>5. ASSUME NEW p \in Procs, NEW e \in Downloads, CancelDownloadClicked(p, e)
      PROVE  d \in asked' \/ context[d].record \in removed \cup {0}
  <2>1. CancelDownload(p, context[e].record) /\ e \in asked'
    BY <1>5 DEF CancelDownloadClicked
  <2>2. context[d].record = context[e].record
    BY <2>1, CancelledById
  <2>3. QED
    BY <2>1, <2>2, RecordTells
<1>6. ASSUME NEW p \in Procs, NEW r \in Rows \cup {0}, CancelById(p, r)
      PROVE  d \in asked' \/ context[d].record = 0
  <2>1. CancelDownload(p, r) /\ {c \in ToSet(active[p]) : context[c].record = r /\ r # 0} \subseteq asked'
    BY <1>6 DEF CancelById
  <2>2. d \in ToSet(active[p]) /\ context[d].record = r
    BY <2>1, CancelledById
  <2>3. QED
    BY <2>1, <2>2
<1>7. ~UNCHANGED vars
  BY <1>1 DEF vars, download
<1>8. \A e \in Downloads :
        ~(DownloadDestination(e) \/ FileMoved(e) \/ DownloadFailed(e) \/ DownloadFinished(e))
  BY <1>1 DEF DownloadDestination, FileMoved, DownloadFailed, DownloadFinished, Over
<1>9. \A p \in Procs : ~Process(p) /\ \A r \in Rows : ~RemoveDownload(p, r)
  BY <1>1 DEF Process, Launch, ReconcileLook, ReconcileWrite, Exit, RemoveDownload, download
<1>10. QED
  BY <1>2, <1>3, <1>4, <1>5, <1>6, <1>7, <1>8, <1>9 DEF Next, Download

THEOREM CancelsStayMeant ==
  Spec => CancelsAreMeant
<1>1. DownloadsInv /\ [Next]_vars =>
        [\A d \in Downloads :
           context'[d].cancelled /\ ~context[d].cancelled =>
             \/ d \in asked'
             \/ context[d].record \in removed \cup {0}
             \/ d \in struck']_vars
  BY CancelsOfAStep
<1>2. QED
  BY <1>1, DownloadsInvariant, PTL DEF Spec, CancelsAreMeant

(* How a download ended is not written over, but by a process that read    *)
(* its row before that and settles what it has read.                       *)
LEMMA SettledOfAStep ==
  ASSUME DownloadsInv, [Next]_vars,
         NEW r \in Rows, Original(r), Settled(r), status'[r] # status[r]
  PROVE  r \in removed' \/ \E p \in running : r \in Read(p)
<1>1. status' # status /\ writer[r] \in Downloads
  BY DEF DownloadsInv, RowsAreAdded, Original
<1>2. ASSUME NEW e \in Downloads, DownloadCreatedDestination(e)
      PROVE  FALSE
  <2>1. status' = [status EXCEPT ![NextRow] = "downloading"] /\ (NextRow \in Rows => status[NextRow] = "none")
    BY <1>1, <1>2, NextRowFollows DEF DownloadsInv, DownloadCreatedDestination
  <2>2. QED
    BY <2>1 DEF DownloadsInv, Types, Original
<1>3. ASSUME NEW e \in Downloads, DownloadFailed(e) \/ DownloadFinished(e)
      PROVE  FALSE
  <2>1. /\ \E new \in Statuses : UpdateDownload(context[e].record, new)
        /\ ~context[e].cancelled /\ phase[e] \in Live
    BY <1>1, <1>3 DEF DownloadFailed, DownloadFinished, Statuses, Live
  <2>2. r = context[e].record
    BY <2>1, UpdateWritesOneRow DEF DownloadsInv
  <2>3. writer[r] = e
    BY <2>2 DEF DownloadsInv, RecordsAreOwn
  <2>4. status[r] = "cancelled" /\ phase[e] = "receiving"
    BY <2>1, <2>3 DEF DownloadsInv, WritersKnowTheirRow, Settled, Live
  <2>5. QED
    BY <2>1, <2>3, <2>4 DEF DownloadsInv, CancelledIsKnown
<1>4. ASSUME NEW p \in Procs, NEW id, CancelDownload(p, id)
      PROVE  FALSE
  <2>1. PICK i \in DOMAIN active[p] :
          context[active[p][i]].record = id /\ UpdateDownload(id, "cancelled")
    BY <1>1, <1>4 DEF CancelDownload, IsFirstWithRecord, Cancel
  <2>2. "cancelled" \in Statuses
    BY DEF Statuses
  <2>3. r = id /\ status'[r] = "cancelled"
    BY <2>1, <2>2, UpdateWritesOneRow DEF DownloadsInv, Original
  <2>4. active[p][i] \in Downloads /\ i \in 1..Len(active[p])
    BY <2>1, ElementOfSeq DEF DownloadsInv, Types
  <2>5. writer[r] = active[p][i]
    BY <2>1, <2>3, <2>4 DEF DownloadsInv, RecordsAreOwn
  <2>6. phase[writer[r]] \in Live
    BY <2>4, <2>5 DEF DownloadsInv, ActiveAreLive
  <2>7. QED
    BY <2>3, <2>6 DEF Settled, Live
<1>5. ASSUME NEW p \in Procs, ReconcileWrite(p)
      PROVE  p \in running /\ r \in Read(p)
  <2>1. PICK new \in Statuses : UpdateDownload(found[p].row, new)
    BY <1>5 DEF ReconcileWrite, Statuses
  <2>2. r = found[p].row
    BY <2>1, UpdateWritesOneRow DEF DownloadsInv
  <2>3. r \in Read(p)
    BY <2>2 DEF DownloadsInv, LookedIsRead
  <2>4. QED
    BY <2>3 DEF DownloadsInv, LookedIsRead, Read
<1>6. ASSUME NEW p \in Procs, NEW q \in Rows, RemoveDownload(p, q)
      PROVE  r \in removed'
  <2>1. status' = [status EXCEPT ![q] = "none"] /\ removed' = removed \cup {q}
    BY <1>6 DEF RemoveDownload
  <2>2. QED
    BY <2>1 DEF DownloadsInv, Types
<1>7. ~UNCHANGED vars
  BY <1>1 DEF vars, table
<1>8. \A e \in Downloads :
        /\ ~(DownloadDestination(e) \/ DownloadSaveDialogFinished(e) \/ FileMoved(e))
        /\ \A p \in Procs : ~DownloadStarted(p, e)
  BY <1>1 DEF DownloadDestination, DownloadSaveDialogFinished, FileMoved, DownloadStarted, table
<1>9. \A p \in Procs : ~(Launch(p) \/ ReconcileLook(p) \/ Exit(p))
  BY <1>1 DEF Launch, ReconcileLook, Exit, table
<1>10. QED
  BY <1>2, <1>3, <1>4, <1>5, <1>6, <1>7, <1>8, <1>9
  DEF Next, Download, Process, CancelDownloadClicked, CancelById

THEOREM SettledStaysKept ==
  Spec => SettledIsKept
<1>1. DownloadsInv /\ [Next]_vars =>
        [\A r \in Rows :
           Original(r) /\ Settled(r) /\ status'[r] # status[r] =>
             r \in removed' \/ \E p \in running : r \in Read(p)]_vars
  BY SettledOfAStep
<1>2. QED
  BY <1>1, DownloadsInvariant, PTL DEF Spec, SettledIsKept
=============================================================================
