----------------------------- MODULE WindowTabs -----------------------------
(***************************************************************************)
(* The native shell's windows and tabs (src/src/native_app.cpp): opening,  *)
(* selecting, closing, reopening, dragging and detaching tabs, closing     *)
(* windows, and the agent doing the same.  Every handler runs to its end   *)
(* on the GTK main loop and is one step here; a handler that defers its    *)
(* work with g_idle_add leaves a pointer in a queue, and other handlers    *)
(* run before the idle callback does.                                      *)
(*                                                                         *)
(* A TabState is known by its address, as in the code: a freed address may *)
(* be given to the next tab, and a pointer to it then leads to that tab.   *)
(* A pointer to an address that is free leads nowhere: of the outcomes of  *)
(* following one, the model has the call that finds nothing.  Likewise a   *)
(* handler that reaches a closed window works on its WindowState, which is *)
(* never freed.                                                            *)
(*                                                                         *)
(* An operator marked "Mutant" is not part of the model: it is a way the   *)
(* code could plausibly be wrong, kept to show which property notices.     *)
(***************************************************************************)
EXTENDS Integers, FiniteSets, SequencesExt

CONSTANTS
  Addrs,           \* addresses the allocator gives to TabStates
  Nil,             \* the null pointer
  Free,            \* the contents of an address that holds no TabState
  ClosedTabLimit,  \* closed_tab_limit, 25
  MaxWindows,      \* bound: how many windows are ever opened
  MaxTabs,         \* bound: how many tabs are ever opened
  MaxIdle          \* bound: idle callbacks that wait at the same time

ASSUME WindowTabsAssumption ==
  /\ Nil \notin Addrs
  /\ Free \notin [id : Nat, window : Nat, session : Nat, closing : BOOLEAN]
  /\ ClosedTabLimit \in Nat \ {0}
  /\ MaxWindows \in Nat /\ MaxTabs \in Nat /\ MaxIdle \in Nat

VARIABLES
  app_mode,        \* owner->app_mode: launched with --app, which never changes
  windows,         \* owner->windows, by window id; closed ones are kept
  tab,             \* tab[a]: the TabState at address a, or Free
  next_tab_id,     \* owner->next_tab_id
  idle,            \* close_tab_deferred and detach_tab_deferred callbacks queued
  dragging,        \* owner->dragging_tab
  drag_outcome,    \* what tab_drop_completed and tab_drag_cancelled say
  pending_detach   \* owner->pending_tab_detach

vars == <<app_mode, windows, tab, next_tab_id, idle, dragging, drag_outcome, pending_detach>>

(* closed_uris counts closed_tab_uris; session is the window whose         *)
(* private_session the tab's view was made with, 0 for the shared one; id  *)
(* in a callback is the id the tab had when it was queued (history).       *)
Window == [tabs : Seq(Addrs), view : Addrs \cup {Nil}, private : BOOLEAN,
           closed : BOOLEAN, closed_uris : 0..ClosedTabLimit]

Tab == [id : Nat, window : Nat, session : Nat, closing : BOOLEAN]

Callback == [kind : {"close", "detach"}, tab : Addrs, id : Nat]

TypeOK ==
  /\ app_mode \in BOOLEAN
  /\ windows \in Seq(Window)
  /\ tab \in [Addrs -> Tab \cup {Free}]
  /\ next_tab_id \in Nat
  /\ idle \in Seq(Callback)
  /\ dragging \in Addrs \cup {Nil}
  /\ drag_outcome \in {"none", "completed", "cancelled"}
  /\ pending_detach \in Addrs \cup {Nil}

-----------------------------------------------------------------------------
Open(w) == w \in DOMAIN windows /\ ~windows[w].closed

(* The application runs until its last window is gone.                     *)
Running == \E w \in DOMAIN windows : Open(w)

Live == {a \in Addrs : tab[a] # Free}

Position(tabs, a) == CHOOSE i \in DOMAIN tabs : tabs[i] = a

(* A new WindowState, before it has a tab.                                 *)
Blank(private) ==
  [tabs |-> <<>>, view |-> Nil, private |-> private, closed |-> FALSE, closed_uris |-> 0]

(* Room for one more window, one being kept for a tab that waits to be     *)
(* detached.                                                               *)
RoomForWindow ==
  Len(windows) + (IF pending_detach = Nil THEN 0 ELSE 1) < MaxWindows

(* A window after tab a was put into its list at position i and selected.  *)
TabPut(win, i, a) == [win EXCEPT !.tabs = InsertAt(@, i, a), !.view = a]

(* A new tab goes behind the active one.                                   *)
WithTab(win, a) ==
  LET i == IF win.view \in Range(win.tabs) THEN Position(win.tabs, win.view)
           ELSE Len(win.tabs)
  IN  TabPut(win, i + 1, a)

(* Mutant: the tab that was shown stays selected after it is gone. *)
WithoutTabUnselected(win, i) ==
  LET rest == RemoveAt(win.tabs, i)
  IN  [win EXCEPT !.tabs = rest, !.closed = @ \/ rest = <<>>]

(* Mutant: whatever tab is removed, its neighbour is selected. *)
WithoutTabReselecting(win, i) ==
  LET rest == RemoveAt(win.tabs, i)
  IN  [win EXCEPT
         !.tabs = rest,
         !.closed = @ \/ rest = <<>>,
         !.view = IF rest = <<>> THEN Nil
                  ELSE rest[IF i <= Len(rest) THEN i ELSE Len(rest)]]

(* A window after the tab at position i is gone.  The last one takes the   *)
(* window with it (gtk_window_close runs window_closing) and leaves no     *)
(* view to follow; another tab is selected in place of the active one.     *)
WithoutTab(win, i) ==
  LET rest == RemoveAt(win.tabs, i)
  IN  [win EXCEPT
         !.tabs = rest,
         !.closed = @ \/ rest = <<>>,
         !.view = IF rest = <<>> THEN Nil
                  ELSE IF @ # win.tabs[i] THEN @
                  ELSE rest[IF i <= Len(rest) THEN i ELSE Len(rest)]]

(* A window that remembers the address of one more closed tab, forgetting  *)
(* the oldest beyond the limit, and one that gives the newest back.        *)
ClosedUriPushed(win) ==
  [win EXCEPT !.closed_uris = IF @ < ClosedTabLimit THEN @ + 1 ELSE @]

ClosedUriPopped(win) == [win EXCEPT !.closed_uris = @ - 1]

(* Mutant: tabs are numbered by how many there are. *)
NewTabStateCounted(w, private) ==
  [id |-> Cardinality(Live) + 1, window |-> w, session |-> IF private THEN w ELSE 0,
   closing |-> FALSE]

(* The TabState that new_tab makes for window w.                           *)
NewTabState(w, private) ==
  [id |-> next_tab_id, window |-> w, session |-> IF private THEN w ELSE 0,
   closing |-> FALSE]

-----------------------------------------------------------------------------
(* create_window with its initial tab.                                     *)
CreateWindow(private) ==
  /\ RoomForWindow
  /\ next_tab_id <= MaxTabs
  /\ \E a \in Addrs \ Live :
       /\ windows' = Append(windows, WithTab(Blank(private), a))
       /\ tab' = [tab EXCEPT ![a] = NewTabState(Len(windows) + 1, private)]
  /\ next_tab_id' = next_tab_id + 1
  /\ UNCHANGED <<idle, dragging, drag_outcome, pending_detach>>

(* new_tab; in an app window that has its tab, a new window.               *)
NewTab(w) ==
  IF app_mode /\ windows[w].tabs # <<>> THEN CreateWindow(windows[w].private)
  ELSE /\ next_tab_id <= MaxTabs
       /\ \E a \in Addrs \ Live :
            /\ windows' = [windows EXCEPT ![w] = WithTab(@, a)]
            /\ tab' = [tab EXCEPT ![a] = NewTabState(w, windows[w].private)]
       /\ next_tab_id' = next_tab_id + 1
       /\ UNCHANGED <<idle, dragging, drag_outcome, pending_detach>>

(* close_tab, given a pointer to a tab that exists.                        *)
CloseTab(a) ==
  LET w == tab[a].window
  IN  /\ windows' = [windows EXCEPT ![w] =
                       ClosedUriPushed(WithoutTab(@, Position(@.tabs, a)))]
      /\ tab' = [tab EXCEPT ![a] = Free]

(* Mutant: the tab is put into the target and stays in the source. *)
MovedBetweenCopying(ws, a, target, destination) ==
  [ws EXCEPT ![target] = TabPut(@, destination + 1, a)]

(* The effect of move_tab_to_window between two windows of ws, where       *)
(* `destination` is a 0-based position in the target.                      *)
MovedBetween(ws, a, target, destination) ==
  LET source == tab[a].window
  IN  [ws EXCEPT
         ![source] = WithoutTab(@, Position(@.tabs, a)),
         ![target] = TabPut(@, destination + 1, a)]

(* Its effect within a window: the selection stays.                        *)
MovedWithin(ws, a, w, destination) ==
  LET i == Position(ws[w].tabs, a)
      d == IF destination > i - 1 THEN destination - 1 ELSE destination
  IN  [ws EXCEPT ![w].tabs = InsertAt(RemoveAt(@, i), d + 1, a)]

(* Mutant: a tab may be dropped on any window. *)
MovableAnywhere(a, target) == Open(tab[a].window) /\ Open(target)

(* The early returns of tab_dropped and move_tab_to_window.                *)
Movable(a, target) ==
  /\ Open(tab[a].window) /\ Open(target)
  /\ windows[tab[a].window].private = windows[target].private

-----------------------------------------------------------------------------
(* What the user does in an open window.                                   *)

(* Ctrl+N, Ctrl+Shift+N and the menu items behind them.                    *)
MenuNewWindow(private) == ~app_mode /\ CreateWindow(private)

(* "Open in new window" in a page's context menu, and a link an app window *)
(* opens: create_window's `private_mode` has its default, false.           *)
ContextOpenWindow(w) == Open(w) /\ CreateWindow(FALSE)

(* The button, Ctrl+T, context_open, decide_policy, page_action.           *)
UserNewTab(w) == Open(w) /\ NewTab(w)

(* tab_selected, and Ctrl with a digit.                                    *)
SelectTab(a) ==
  /\ windows' = [windows EXCEPT ![tab[a].window].view = a]
  /\ UNCHANGED <<tab, next_tab_id, idle, dragging, drag_outcome, pending_detach>>

UserSelectTab(a) == Open(tab[a].window) /\ SelectTab(a)

TabStripScrolled(w, step) ==
  /\ Open(w)
  /\ LET i == Position(windows[w].tabs, windows[w].view) + step
     IN  i \in DOMAIN windows[w].tabs /\ SelectTab(windows[w].tabs[i])

(* Ctrl+W closes the active tab at once; it closes an app window.          *)
CloseActiveTab(w) ==
  /\ Open(w) /\ ~app_mode
  /\ CloseTab(windows[w].view)
  /\ UNCHANGED <<next_tab_id, idle, dragging, drag_outcome, pending_detach>>

(* The close button and the middle button close a tab when the loop idles. *)
QueueTabClose(a) ==
  /\ ~app_mode
  /\ Open(tab[a].window)
  /\ ~tab[a].closing
  /\ Len(idle) < MaxIdle
  /\ tab' = [tab EXCEPT ![a].closing = TRUE]
  /\ idle' = Append(idle, [kind |-> "close", tab |-> a, id |-> tab[a].id])
  /\ UNCHANGED <<windows, next_tab_id, dragging, drag_outcome, pending_detach>>

ReopenClosedTab(w) ==
  /\ Open(w) /\ ~app_mode
  /\ windows[w].closed_uris > 0
  /\ next_tab_id <= MaxTabs
  /\ \E a \in Addrs \ Live :
       /\ windows' = [windows EXCEPT ![w] = WithTab(ClosedUriPopped(@), a)]
       /\ tab' = [tab EXCEPT ![a] = NewTabState(w, windows[w].private)]
  /\ next_tab_id' = next_tab_id + 1
  /\ UNCHANGED <<idle, dragging, drag_outcome, pending_detach>>

(* window_closing: the WindowState and its TabStates stay.                 *)
CloseWindow(w) ==
  /\ Open(w)
  /\ windows' = [windows EXCEPT ![w].closed = TRUE]
  /\ UNCHANGED <<tab, next_tab_id, idle, dragging, drag_outcome, pending_detach>>

-----------------------------------------------------------------------------
(* Dragging a tab.                                                         *)

TabDragBegin(a) ==
  /\ ~app_mode
  /\ Open(tab[a].window)
  /\ dragging = Nil
  /\ dragging' = a
  /\ drag_outcome' = "none"
  /\ UNCHANGED <<windows, tab, next_tab_id, idle, pending_detach>>

(* tab_dropped: onto a tab strip, in front of position `destination`.      *)
TabDropped(target, destination) ==
  /\ dragging # Nil
  /\ drag_outcome = "none"
  /\ Open(target)
  /\ destination <= Len(windows[target].tabs)
  /\ tab[dragging] # Free /\ Movable(dragging, target)
  /\ drag_outcome' = "completed"
  /\ IF tab[dragging].window = target
     THEN /\ windows' = MovedWithin(windows, dragging, target, destination)
          /\ UNCHANGED tab
     ELSE /\ windows' = MovedBetween(windows, dragging, target, destination)
          /\ tab' = [tab EXCEPT ![dragging].window = target]
  /\ UNCHANGED <<next_tab_id, idle, dragging, pending_detach>>

(* queue_tab_detach: one detach waits at a time.                           *)
QueueTabDetach(a) ==
  IF pending_detach # Nil THEN UNCHANGED <<idle, pending_detach>>
  ELSE /\ Len(idle) < MaxIdle /\ RoomForWindow
       /\ pending_detach' = a
       /\ idle' = Append(idle, [kind |-> "detach", tab |-> a,
                                id |-> IF tab[a] = Free THEN 0 ELSE tab[a].id])

(* tab_drag_cancel: Escape leaves the tab where it is, a drop outside of   *)
(* every window detaches it.                                               *)
TabDragCancel(by_user) ==
  /\ dragging # Nil
  /\ drag_outcome = "none"
  /\ drag_outcome' = "cancelled"
  /\ IF by_user THEN UNCHANGED <<idle, pending_detach>> ELSE QueueTabDetach(dragging)
  /\ UNCHANGED <<windows, tab, next_tab_id, dragging>>

(* tab_drag_end: a drag that was neither dropped nor cancelled detaches.   *)
TabDragEnd ==
  /\ dragging # Nil
  /\ dragging' = Nil
  /\ drag_outcome' = "none"
  /\ IF drag_outcome = "none" THEN QueueTabDetach(dragging)
     ELSE UNCHANGED <<idle, pending_detach>>
  /\ UNCHANGED <<windows, tab, next_tab_id>>

-----------------------------------------------------------------------------
(* The idle callbacks, in the order they were queued.                      *)

CloseTabDeferred ==
  /\ idle # <<>> /\ Head(idle).kind = "close"
  /\ idle' = Tail(idle)
  /\ IF tab[Head(idle).tab] # Free THEN CloseTab(Head(idle).tab)
     ELSE UNCHANGED <<windows, tab>>
  /\ UNCHANGED <<next_tab_id, dragging, drag_outcome, pending_detach>>

(* The new window gets the tab before it gets one of its own; the search   *)
(* for the tab compares pointers and looks at open windows only.           *)
DetachTabDeferred ==
  LET a == Head(idle).tab
      w == Len(windows) + 1
  IN  /\ idle # <<>> /\ Head(idle).kind = "detach"
      /\ idle' = Tail(idle)
      /\ pending_detach' = IF pending_detach = a THEN Nil ELSE pending_detach
      /\ IF pending_detach = a /\ tab[a] # Free /\ Open(tab[a].window)
         THEN /\ windows' = MovedBetween(
                              Append(windows, Blank(windows[tab[a].window].private)),
                              a, w, 0)
              /\ tab' = [tab EXCEPT ![a].window = w]
         ELSE UNCHANGED <<windows, tab>>
      /\ UNCHANGED <<next_tab_id, dragging, drag_outcome>>

-----------------------------------------------------------------------------
(* The agent.                                                              *)

(* agent_window: without an id it is the first window ever opened.         *)
AgentWindows(id) == IF id = 0 THEN {1} ELSE {w \in DOMAIN windows : w = id /\ Open(w)}

(* agent_tab: without an id the tab that the first open window shows;      *)
(* given one, closed windows are searched like open ones.                  *)
AgentTabs(id) ==
  IF id # 0 THEN {a \in Live : tab[a].id = id}
  ELSE {windows[w].view : w \in {v \in DOMAIN windows :
                                   Open(v) /\ \A u \in 1..(v - 1) : ~Open(u)}}

AgentNewWindow(private) == ~app_mode /\ CreateWindow(private)

AgentNewTab(id) == ~app_mode /\ \E w \in AgentWindows(id) : NewTab(w)

AgentSelectTab(id) == ~app_mode /\ \E a \in AgentTabs(id) : SelectTab(a)

AgentCloseTab(id) ==
  /\ ~app_mode
  /\ \E a \in AgentTabs(id) : CloseTab(a)
  /\ UNCHANGED <<next_tab_id, idle, dragging, drag_outcome, pending_detach>>

-----------------------------------------------------------------------------
(* activate() opens the first window.                                      *)
Init ==
  \E app \in BOOLEAN, private \in BOOLEAN, a \in Addrs :
    /\ app_mode = app
    /\ app_mode => ~private
    /\ windows = <<WithTab(Blank(private), a)>>
    /\ tab = [b \in Addrs |-> IF b # a THEN Free
                              ELSE [id |-> 1, window |-> 1, closing |-> FALSE,
                                    session |-> IF private THEN 1 ELSE 0]]
    /\ next_tab_id = 2
    /\ idle = <<>>
    /\ dragging = Nil
    /\ drag_outcome = "none"
    /\ pending_detach = Nil

(* What the keys, the buttons and the menus reach; keys that reach no tab  *)
(* are left out.  Without a tab strip (app_mode) few of them are bound.    *)
UserStep ==
  \/ \E private \in BOOLEAN : MenuNewWindow(private)
  \/ \E w \in DOMAIN windows :
       \/ ContextOpenWindow(w) \/ UserNewTab(w) \/ CloseActiveTab(w)
       \/ ReopenClosedTab(w) \/ CloseWindow(w)
       \/ \E step \in {1, -1} : TabStripScrolled(w, step)
       \/ \E destination \in 0..MaxTabs : TabDropped(w, destination)
  \/ \E a \in Live : UserSelectTab(a) \/ QueueTabClose(a) \/ TabDragBegin(a)
  \/ \E by_user \in BOOLEAN : TabDragCancel(by_user)
  \/ TabDragEnd

(* The browser.* methods. *)
AgentStep ==
  \/ \E private \in BOOLEAN : AgentNewWindow(private)
  \/ \E id \in 0..MaxWindows : AgentNewTab(id)
  \/ \E id \in 0..MaxTabs : AgentSelectTab(id) \/ AgentCloseTab(id)

IdleStep == CloseTabDeferred \/ DetachTabDeferred

Next == Running /\ UNCHANGED app_mode /\ (UserStep \/ AgentStep \/ IdleStep)

Spec == Init /\ [][Next]_vars

-----------------------------------------------------------------------------
(* Every TabState is in the list of one window, once, and it is the window *)
(* it points back to: no drag, detach or close leaves a tab in two windows *)
(* or in none.                                                             *)
EachTabHasOneHome ==
  /\ \A a \in Live :
       /\ tab[a].window \in DOMAIN windows
       /\ \E i \in DOMAIN windows[tab[a].window].tabs : windows[tab[a].window].tabs[i] = a
  /\ \A w \in DOMAIN windows : \A i, j \in DOMAIN windows[w].tabs :
       /\ windows[w].tabs[i] \in Live
       /\ tab[windows[w].tabs[i]].window = w
       /\ i # j => windows[w].tabs[i] # windows[w].tabs[j]

(* A window that is open shows one of its own tabs (so Ctrl+W, the address *)
(* bar and the agent's default tab have a target): none stays open empty,  *)
(* or showing a tab that was closed or moved away. A window of an --app    *)
(* launch has no strip to show another tab with, and holds just that one.  *)
OpenWindowsShowATab ==
  \A w \in DOMAIN windows : Open(w) =>
    /\ windows[w].view \in Range(windows[w].tabs)
    /\ app_mode => windows[w].tabs = <<windows[w].view>>

(* A tab whose page lives in a private session is never shown among        *)
(* ordinary tabs, nor the reverse, however it was dragged about.           *)
PrivacyFollowsTabs ==
  \A a \in Live : tab[a].session # 0 <=> windows[tab[a].window].private

(* "IDs are never reused during a Vantage process lifetime"                *)
(* (docs/AGENT-REFERENCE.md), and they are unique.                         *)
TabIds == {tab[a].id : a \in Live}

HandlesAreNotRebound ==
  [][/\ \A a, b \in Live : tab[a].id = tab[b].id => a = b
     /\ \A id \in TabIds' \ TabIds : id >= next_tab_id]_vars

(* What a window shows changes only because the user or the agent selects  *)
(* another tab, or because the tab shown is gone, or a tab was added.      *)
SelectionIsKept ==
  [][\A w \in DOMAIN windows :
       LET before == windows[w]
           after == windows'[w]
       IN  /\ Open(w)
           /\ before.view \in Range(after.tabs)
           /\ Range(after.tabs) \subseteq Range(before.tabs)
           /\ after.view # before.view
           => after.tabs = before.tabs]_vars

(* "Verify human and agent actions interleave safely."                     *)
(* (docs/handover/AGENT-NATIVE-BROWSER.md): the idle callback closes the   *)
(* tab that was clicked, or nothing.                                       *)
OnlyTheClickedTabCloses ==
  [][CloseTabDeferred => TabIds \ TabIds' \subseteq {Head(idle).id}]_vars
=============================================================================
