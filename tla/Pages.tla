------------------------------- MODULE Pages -------------------------------
(***************************************************************************)
(* Windows, the tabs in them and the documents in the tabs                 *)
(* (src/src/native_app.cpp), as the find bar and the agent's page methods  *)
(* meet them.  Both run scripts in a tab's document, by messages to the    *)
(* page's process, while tabs are selected, moved and closed and the pages *)
(* change.  FindInPage and AgentPage say what such an event means to them, *)
(* and PageScripts puts the three together.                                *)
(***************************************************************************)
EXTENDS Integers, Sequences, FiniteSets

CONSTANTS
  Window, Tab,     \* windows of one privacy, and tabs
  Query,           \* texts that are looked for
  Contents,        \* what a page may contain: how often each text
  MaxOperations    \* bound: what users, the agent and pages undertake in all

Closed == "closed"

ASSUME PagesAssumption ==
  /\ Closed \notin Window \cup Tab
  /\ Contents \subseteq [Query -> Nat] /\ Contents # {}
  /\ MaxOperations \in Nat

VARIABLES
  home,        \* the window each tab is in, or Closed
  view,        \* WindowState::view, as the tab each window shows, or Closed
  document,    \* the number of each tab's document
  content,     \* what is in the document
  revision,    \* how often the document's elements have changed
  operations   \* how much was undertaken

pages == <<home, view, document, content, revision>>

PagesTypeOK ==
  /\ home \in [Tab -> Window \cup {Closed}]
  /\ view \in [Window -> Tab \cup {Closed}]
  /\ document \in [Tab -> Nat]
  /\ content \in [Tab -> Contents]
  /\ revision \in [Tab -> Nat]
  /\ operations \in Nat

(* Every window begins with a tab of its own, and has others beside it.    *)
PagesInit ==
  /\ home \in [Tab -> Window]
  /\ view \in [Window -> Tab]
  /\ \A w \in Window : home[view[w]] = w
  /\ content \in [Tab -> Contents]
  /\ document = [t \in Tab |-> 0]
  /\ revision = [t \in Tab |-> 0]
  /\ operations = 0

Undertake == operations < MaxOperations /\ operations' = operations + 1

Beside(t) == {u \in Tab \ {t} : home[u] = home[t]}

(* select_tab, of the tab that is shown too.                               *)
Select(t) ==
  /\ Undertake
  /\ home[t] # Closed
  /\ view' = [view EXCEPT ![home[t]] = t]
  /\ UNCHANGED <<home, document, content, revision>>

(* What the window of `t` shows without it: `u`, if it showed `t`.         *)
ViewWithout(t, u) ==
  IF view[home[t]] = t THEN [view EXCEPT ![home[t]] = u] ELSE view

Neighbours(t) == IF Beside(t) = {} THEN {Closed} ELSE Beside(t)

(* move_tab_to_window; a window that has given its last tab closes.        *)
Move(t, w, u) ==
  /\ Undertake
  /\ home[t] \notin {w, Closed} /\ view[w] # Closed
  /\ u \in Neighbours(t)
  /\ home' = [home EXCEPT ![t] = w]
  /\ view' = [ViewWithout(t, u) EXCEPT ![w] = t]
  /\ UNCHANGED <<document, content, revision>>

(* close_tab.                                                              *)
Close(t, u) ==
  /\ Undertake
  /\ home[t] # Closed
  /\ u \in Neighbours(t)
  /\ home' = [home EXCEPT ![t] = Closed]
  /\ view' = ViewWithout(t, u)
  /\ UNCHANGED <<document, content, revision>>

(* A new document is committed in the tab.                                 *)
Navigate(t, c) ==
  /\ Undertake
  /\ home[t] # Closed
  /\ document' = [document EXCEPT ![t] = @ + 1]
  /\ content' = [content EXCEPT ![t] = c]
  /\ revision' = [revision EXCEPT ![t] = 0]
  /\ UNCHANGED <<home, view>>

(* A script of the page changes its document.                              *)
Mutate(t, c) ==
  /\ Undertake
  /\ home[t] # Closed
  /\ content' = [content EXCEPT ![t] = c]
  /\ revision' = [revision EXCEPT ![t] = @ + 1]
  /\ UNCHANGED <<home, view, document>>
=============================================================================
