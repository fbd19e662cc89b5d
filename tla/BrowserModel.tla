---------------------------- MODULE BrowserModel ----------------------------
(***************************************************************************)
(* The toolkit-independent tab model of src/src/browser_model.cpp: an      *)
(* ordered list of open tabs, a bounded stack of closed ones, the active   *)
(* tab and the focus target.  One action per public member function.       *)
(*                                                                         *)
(* A tab is abstracted to the fields the functions read or write: its id,  *)
(* its URI, the loading and discarded flags and its lifecycle.  The title, *)
(* the private and the audible flag are carried along by every function    *)
(* and read by none.                                                       *)
(*                                                                         *)
(* An operator marked "Mutant" is not part of the model: it is a way the   *)
(* code could plausibly be wrong, kept to show which property notices.     *)
(***************************************************************************)
EXTENDS Integers, FiniteSets, SequencesExt

CONSTANTS
  Uris,         \* URIs a caller opens
  ClosedLimit,  \* closed_limit_, 25 unless the constructor is told otherwise
  MaxId,        \* bound: new_tab and reopen_closed stop when ids run out
  NoTab         \* the empty std::optional<TabId>

ASSUME ModelAssumption ==
  /\ ClosedLimit \in Nat
  /\ MaxId \in Nat
  /\ NoTab \notin Nat

VARIABLES
  tabs,     \* tabs_: the open tabs, in tab-strip order
  closed,   \* closed_: the closed tabs, oldest first
  active,   \* active_: an id, or NoTab
  next_id,  \* next_id_
  focus     \* focus_

vars == <<tabs, closed, active, next_id, focus>>

FocusTarget == {"page", "address", "command_palette"}

Tab == [id : Nat, uri : Uris, loading : BOOLEAN, discarded : BOOLEAN,
        lifecycle : {"live", "closed"}]

-----------------------------------------------------------------------------
(* find: the position of the tab with an id, and the ids that have one.    *)

Ids == {tabs[i].id : i \in DOMAIN tabs}

PositionOf(id) == CHOOSE i \in DOMAIN tabs : tabs[i].id = id

NewTab(uri, activate) ==
  /\ next_id <= MaxId
  /\ tabs' = Append(tabs, [id |-> next_id, uri |-> uri, loading |-> FALSE,
                           discarded |-> FALSE, lifecycle |-> "live"])
  /\ next_id' = next_id + 1
  /\ active' = IF activate THEN next_id ELSE active
  /\ UNCHANGED <<closed, focus>>

Activate(id) ==
  /\ id \in Ids
  /\ tabs' = [tabs EXCEPT ![PositionOf(id)].discarded = FALSE]
  /\ active' = id
  /\ focus' = "page"
  /\ UNCHANGED <<closed, next_id>>

(* discard_to_limit walks the tabs in order and stops as soon as no more   *)
(* than `limit` are resident; the active tab, the loading ones and those   *)
(* already discarded are passed over.                                      *)
Resident == {i \in DOMAIN tabs : ~tabs[i].discarded}

(* Mutant: a loading tab is discarded. *)
DiscardableWhileLoading == {i \in Resident : tabs[i].id # active}

Discardable ==
  {i \in Resident : tabs[i].id # active /\ ~tabs[i].loading}

DiscardedBy(limit) ==
  {i \in Discardable :
     Cardinality({j \in Discardable : j < i}) + limit < Cardinality(Resident)}

DiscardToLimit(limit) ==
  /\ tabs' = [i \in DOMAIN tabs |->
                [tabs[i] EXCEPT !.discarded = @ \/ i \in DiscardedBy(limit)]]
  /\ UNCHANGED <<closed, active, next_id, focus>>

(* The closed stack after `tab` was closed: nothing is kept with a limit   *)
(* of zero, and the oldest entry goes when the limit is exceeded.          *)
PushClosed(tab) ==
  LET pushed == Append(closed, [tab EXCEPT !.lifecycle = "closed"])
  IN  IF ClosedLimit = 0 THEN closed
      ELSE IF Len(pushed) > ClosedLimit THEN Tail(pushed) ELSE pushed

(* Mutant: the activity is not handed over. *)
SuccessorForgotten(p) == active

(* The tab that takes the place of the one closed at position p.           *)
Successor(p) ==
  IF Len(tabs) = 1 THEN NoTab
  ELSE IF p < Len(tabs) THEN tabs[p + 1].id ELSE tabs[p - 1].id

CloseTab(id) ==
  LET p == PositionOf(id)
  IN  /\ id \in Ids
      /\ closed' = PushClosed(tabs[p])
      /\ tabs' = RemoveAt(tabs, p)
      /\ active' = IF active = id THEN Successor(p) ELSE active
      /\ UNCHANGED <<next_id, focus>>

(* Mutant: the reopened tab comes back under its old id. *)
ReopenClosedOldId ==
  /\ closed # <<>>
  /\ tabs' = Append(tabs, [Last(closed) EXCEPT !.loading = FALSE, !.lifecycle = "live"])
  /\ closed' = Front(closed)
  /\ active' = Last(closed).id
  /\ UNCHANGED <<next_id, focus>>

ReopenClosed ==
  /\ closed # <<>>
  /\ next_id <= MaxId
  /\ tabs' = Append(tabs, [Last(closed) EXCEPT !.id = next_id, !.loading = FALSE,
                                               !.lifecycle = "live"])
  /\ closed' = Front(closed)
  /\ next_id' = next_id + 1
  /\ active' = next_id
  /\ UNCHANGED focus

DuplicateTab(id) ==
  /\ id \in Ids
  /\ NewTab(tabs[PositionOf(id)].uri, TRUE)

(* destination is the 0-based position the tab is dropped in front of; the *)
(* erase shifts it by one when the tab came from further left.             *)
MoveTab(id, destination) ==
  LET p == PositionOf(id)
      d == IF destination > p - 1 THEN destination - 1 ELSE destination
  IN  /\ id \in Ids
      /\ destination <= Len(tabs)
      /\ tabs' = InsertAt(RemoveAt(tabs, p), d + 1, tabs[p])
      /\ UNCHANGED <<closed, active, next_id, focus>>

(* find() returns a mutable Tab*: a caller may report that a tab started   *)
(* or finished loading through it.                                         *)
SetLoading(id, loading) ==
  /\ id \in Ids
  /\ tabs' = [tabs EXCEPT ![PositionOf(id)].loading = loading]
  /\ UNCHANGED <<closed, active, next_id, focus>>

SetFocus(target) ==
  /\ focus' = target
  /\ UNCHANGED <<tabs, closed, active, next_id>>

Init ==
  /\ tabs = <<>>
  /\ closed = <<>>
  /\ active = NoTab
  /\ next_id = 1
  /\ focus = "page"

Next ==
  \/ \E uri \in Uris, activate \in BOOLEAN : NewTab(uri, activate)
  \/ \E id \in Ids : Activate(id)
  \/ \E limit \in 0..MaxId : DiscardToLimit(limit)
  \/ \E id \in Ids : CloseTab(id)
  \/ ReopenClosed
  \/ \E id \in Ids : DuplicateTab(id)
  \/ \E id \in Ids, destination \in 0..MaxId : MoveTab(id, destination)
  \/ \E id \in Ids, loading \in BOOLEAN : SetLoading(id, loading)
  \/ \E target \in FocusTarget : SetFocus(target)

Spec == Init /\ [][Next]_vars

-----------------------------------------------------------------------------
(* Every variable has its type, every open tab is live, every entry of the *)
(* closed stack is closed, and the stack respects its limit.               *)
TypeOK ==
  /\ tabs \in Seq(Tab)
  /\ closed \in Seq(Tab)
  /\ active \in Nat \cup {NoTab}
  /\ next_id \in Nat
  /\ focus \in FocusTarget
  /\ \A i \in DOMAIN tabs : tabs[i].lifecycle = "live"
  /\ \A i \in DOMAIN closed : closed[i].lifecycle = "closed"
  /\ Len(closed) <= ClosedLimit

(* An id names one open tab: no operation, reordering and reopening        *)
(* included, leaves two tabs with the same id or an id the counter has not *)
(* passed (find() returns the first match and relies on it).               *)
UniqueIds ==
  /\ \A i, j \in DOMAIN tabs : tabs[i].id = tabs[j].id => i = j
  /\ \A i \in DOMAIN tabs : tabs[i].id < next_id

(* The active tab is an open one: close_tab hands the activity over before *)
(* it returns, so a caller may dereference the tab it finds by that id.      *)
ActiveIsOpen == active # NoTab => active \in Ids

(* An id that appears in the strip was never in it before: ids of closed   *)
(* tabs are not given out again, not even to the tab reopened from them    *)
(* (tests/browser_model.cpp, the `ids` block).                             *)
IdsNeverReused == [][\A id \in Ids' \ Ids : id >= next_id]_vars

(* discard_to_limit does its job: afterwards no more than the limit is     *)
(* resident, unless all that is left is protected; it stops there; and     *)
(* memory pressure never takes the page under the user, nor one that is    *)
(* still loading.                                                          *)
DiscardIsExact ==
  [][\A limit \in 0..MaxId : DiscardToLimit(limit) =>
       /\ Cardinality(Resident') <= limit \/ Discardable' = {}
       /\ Resident' # Resident => Cardinality(Resident') >= limit
       /\ \A i \in Resident \ Resident' : tabs[i].id # active /\ ~tabs[i].loading]_vars
=============================================================================
