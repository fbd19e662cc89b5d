----------------------------- MODULE FindInPage -----------------------------
(***************************************************************************)
(* The find bar (src/src/native_app.cpp).  Every window has one; what is   *)
(* typed there is looked for by a script in the tab that is shown, which   *)
(* marks the matches and answers with their number some time later.  When  *)
(* it does not, WebKit's own search counts them.  Both answers come after  *)
(* the user may have typed something else, or gone to another tab.         *)
(*                                                                         *)
(* The page keeps the generation of the last search it has run, and that   *)
(* comes from whichever window the tab was in.                             *)
(*                                                                         *)
(* An operator marked "Mutant" is not part of the model: it is a way the   *)
(* code could plausibly be wrong, kept to show which property notices.     *)
(***************************************************************************)
EXTENDS Pages

CONSTANT
  Mute             \* contents of documents in which the search script fails

ASSUME FindAssumption == Mute \subseteq Contents

VARIABLES
  bar,      \* the fields of each window's find bar
  found,    \* what the search scripts have left in each tab's document
  toPage,   \* what each tab's process was told to do, oldest first
  toShell,  \* what it has answered
  fresh,    \* history: the shown document is the one last looked through
  misled    \* history: bars that took the count of a tab they did not show

find == <<bar, found, toPage, toShell, fresh, misled>>

NoText == "no text"

Unmarked == [generation |-> 0, query |-> NoText, matches |-> 0, index |-> 0]

Search(w, generation, query) ==
  [kind |-> "search", window |-> w, generation |-> generation, query |-> query]
Clear(generation) == [kind |-> "clear", generation |-> generation]
Step(by) == [kind |-> "step", by |-> by]
Count(query) == [kind |-> "count", query |-> query]

Answer(w, generation, count) ==
  [kind |-> "answer", window |-> w, generation |-> generation, count |-> count]
Counted(count) == [kind |-> "counted", count |-> count]
Unheard == [kind |-> "unheard"]

Bar == [visible : BOOLEAN, query : Query \cup {NoText}, generation : Nat,
        custom : BOOLEAN, total : Nat, current : Nat]

PageMessage ==
  [kind : {"search"}, window : Window, generation : Nat, query : Query]
    \cup [kind : {"clear"}, generation : Nat] \cup [kind : {"step"}, by : {-1, 1}]
    \cup [kind : {"count"}, query : Query \cup {NoText}]

ShellMessage ==
  [kind : {"answer"}, window : Window, generation : Nat, count : Int]
    \cup [kind : {"counted"}, count : Nat] \cup {Unheard}

FindTypeOK ==
  /\ bar \in [Window -> Bar]
  /\ found \in [Tab -> [generation : Nat, query : Query \cup {NoText},
                        matches : Nat, index : Nat]]
  /\ toPage \in [Tab -> Seq(PageMessage)]
  /\ toShell \in [Tab -> Seq(ShellMessage)]
  /\ fresh \in [Window -> BOOLEAN]
  /\ misled \subseteq Window

FindInit ==
  /\ bar = [w \in Window |-> [visible |-> FALSE, query |-> NoText, generation |-> 0,
                              custom |-> FALSE, total |-> 0, current |-> 0]]
  /\ found = [t \in Tab |-> Unmarked]
  /\ toPage = [t \in Tab |-> <<>>]
  /\ toShell = [t \in Tab |-> <<>>]
  /\ fresh = [w \in Window |-> FALSE]
  /\ misled = {}

-----------------------------------------------------------------------------
(* The window's side.                                                      *)

(* find_changed: what it makes of the bar, and what it tells the page.     *)
Changed(b) ==
  LET next == [b EXCEPT !.generation = @ + 1, !.custom = FALSE]
  IN  IF b.query = NoText THEN [next EXCEPT !.total = 0, !.current = 0] ELSE next

Told(w, b) ==
  IF b.query = NoText THEN Clear(b.generation + 1) ELSE Search(w, b.generation + 1, b.query)

(* select_tab looks again in the window's new tab if the bar is there.     *)
LookAgain(ws) ==
  LET looking == {w \in ws : bar[w].visible /\ view'[w] # Closed}
  IN  /\ bar' = [w \in Window |-> IF w \in looking THEN Changed(bar[w]) ELSE bar[w]]
      /\ toPage' = [t \in Tab |->
           IF \E w \in looking : view'[w] = t
           THEN Append(toPage[t], Told(home'[t], bar[home'[t]])) ELSE toPage[t]]
      /\ fresh' = [w \in Window |->
           IF w \in looking THEN TRUE ELSE fresh[w] /\ view'[w] = view[w]]
      /\ UNCHANGED <<found, toShell, misled>>

(* The entry's "changed" signal.                                           *)
Type(w, query) ==
  /\ Undertake
  /\ bar[w].visible /\ view[w] # Closed /\ query # bar[w].query
  /\ LET typed == [bar[w] EXCEPT !.query = query]
     IN  /\ bar' = [bar EXCEPT ![w] = Changed(typed)]
         /\ toPage' = [toPage EXCEPT ![view[w]] = Append(@, Told(w, typed))]
  /\ fresh' = [fresh EXCEPT ![w] = TRUE]
  /\ UNCHANGED <<pages, found, toShell, misled>>

(* find_next and find_previous.                                            *)
FindNext(w, by) ==
  LET b == bar[w]
  IN  /\ Undertake
      /\ b.visible /\ view[w] # Closed /\ b.total > 0
      /\ bar' = [bar EXCEPT ![w].current =
                   IF by = 1 THEN (b.current % b.total) + 1
                   ELSE IF b.current <= 1 THEN b.total ELSE b.current - 1]
      /\ toPage' = IF b.custom THEN [toPage EXCEPT ![view[w]] = Append(@, Step(by))]
                   ELSE toPage
      /\ UNCHANGED <<pages, found, toShell, fresh, misled>>

ShowFind(w) ==
  /\ Undertake
  /\ view[w] # Closed /\ ~bar[w].visible
  /\ bar' = [bar EXCEPT ![w].visible = TRUE]
  /\ UNCHANGED <<pages, found, toPage, toShell, fresh, misled>>

(* close_find: the numbers stay in the bar.                                *)
CloseFind(w) ==
  /\ Undertake
  /\ bar[w].visible /\ view[w] # Closed
  /\ bar' = [bar EXCEPT ![w].visible = FALSE, ![w].generation = @ + 1]
  /\ toPage' = [toPage EXCEPT ![view[w]] = Append(@, Clear(bar[w].generation + 1))]
  /\ fresh' = [fresh EXCEPT ![w] = FALSE]
  /\ UNCHANGED <<pages, found, toShell, misled>>

(* Mutant: an answer is believed whenever it comes. *)
BelievedAlways(t, answer) == TRUE

(* find_evaluated drops the answer to a search that was not the window's   *)
(* last, or is of a tab that the window does not show any more.            *)
Believed(t, answer) ==
  answer.generation = bar[answer.window].generation /\ view[answer.window] = t

(* find_evaluated.  Without an answer of the script it is WebKit's search  *)
(* that marks and counts.                                                  *)
FindEvaluated(t, answer) ==
  LET w == answer.window
  IN  IF ~Believed(t, answer) THEN UNCHANGED <<bar, toPage, misled>>
      ELSE IF answer.count >= 0
      THEN /\ bar' = [bar EXCEPT ![w].custom = TRUE, ![w].total = answer.count,
                                 ![w].current = IF answer.count > 0 THEN 1 ELSE 0]
           /\ misled' = misled \ {w}
           /\ UNCHANGED toPage
      ELSE /\ bar' = [bar EXCEPT ![w].custom = FALSE]
           /\ toPage' = [toPage EXCEPT ![t] = Append(@, Count(bar[w].query))]
           /\ UNCHANGED misled

(* find_counted, which is connected to the window the tab is in.  It does  *)
(* not ask whether that window shows the tab.                              *)
FindCounted(t, count) ==
  LET w == home[t]
  IN  /\ bar' = IF bar[w].custom THEN bar
                ELSE [bar EXCEPT ![w].total = count,
                                 ![w].current = IF count > 0 THEN 1 ELSE 0]
      /\ misled' = IF bar[w].custom THEN misled
                   ELSE IF view[w] = t THEN misled \ {w} ELSE misled \cup {w}
      /\ UNCHANGED toPage

Answered(t) ==
  /\ home[t] # Closed /\ toShell[t] # <<>>
  /\ LET message == Head(toShell[t])
     IN  \/ message.kind = "answer" /\ FindEvaluated(t, message)
         \/ message.kind = "counted" /\ FindCounted(t, message.count)
         \/ message.kind = "unheard" /\ UNCHANGED <<bar, toPage, misled>>
  /\ toShell' = [toShell EXCEPT ![t] = Tail(@)]
  /\ UNCHANGED <<pages, operations, found, fresh>>

-----------------------------------------------------------------------------
(* The page's side: the scripts that the window sends.                     *)

(* The search does nothing if the page has run a later one; a `clear` is   *)
(* always done.  In a mute document the search has taken the marks away    *)
(* and noted its generation when it fails.                                 *)
Outdated(t, message) == found[t].generation > message.generation

Occurrences(t, query) == IF query = NoText THEN 0 ELSE content[t][query]

Marks(t, message) ==
  CASE message.kind = "search" /\ ~Outdated(t, message) /\ content[t] \in Mute ->
         [found[t] EXCEPT !.generation = message.generation]
    [] message.kind = "search" /\ ~Outdated(t, message) /\ content[t] \notin Mute ->
         [generation |-> message.generation, query |-> message.query,
          matches |-> Occurrences(t, message.query), index |-> 0]
    [] message.kind = "clear" -> [Unmarked EXCEPT !.generation = message.generation]
    [] message.kind = "step" /\ found[t].matches > 0 ->
         [found[t] EXCEPT !.index = (@ + message.by + found[t].matches) % found[t].matches]
    [] OTHER -> found[t]

Answers(t, message) ==
  CASE message.kind = "search" ->
         <<Answer(message.window, message.generation,
                  IF Outdated(t, message) THEN -2
                  ELSE IF content[t] \in Mute THEN -1 ELSE Occurrences(t, message.query))>>
    [] message.kind = "count" -> <<Counted(Occurrences(t, message.query))>>
    [] OTHER -> <<>>

RunScript(t) ==
  /\ home[t] # Closed /\ toPage[t] # <<>>
  /\ LET message == Head(toPage[t])
     IN  /\ found' = [found EXCEPT ![t] = Marks(t, message)]
         /\ toShell' = [toShell EXCEPT ![t] = @ \o Answers(t, message)]
  /\ toPage' = [toPage EXCEPT ![t] = Tail(@)]
  /\ UNCHANGED <<pages, operations, bar, fresh, misled>>

(* The scripts move elements of the document.                              *)
Touches(t) ==
  toPage[t] # <<>> /\ Head(toPage[t]).kind \in {"search", "clear"}
  /\ (found[t].matches > 0 \/ Marks(t, Head(toPage[t])).matches > 0)

-----------------------------------------------------------------------------
(* What the events of Pages mean to the find bars.                         *)

FindSelected(t) == LookAgain({home[t]})
FindMoved(t, w) == LookAgain({w} \cup IF view[home[t]] = t THEN {home[t]} ELSE {})

(* Nothing is heard any more of a tab that is closed.                      *)
FindClosed(t) == LookAgain(IF view[home[t]] = t THEN {home[t]} ELSE {})

Unfresh(t) == fresh' = [w \in Window |-> fresh[w] /\ view[w] # t]

(* A new document has no marks; if it is in a new process, what the old    *)
(* one was told is not done, and a search ends with an error; to the other *)
(* scripts nobody listens.                                                 *)
Failure(message) ==
  IF message.kind = "search" THEN Answer(message.window, message.generation, -1) ELSE Unheard

FindNavigated(t, process) ==
  /\ found' = [found EXCEPT ![t] = Unmarked]
  /\ IF process
     THEN /\ toPage' = [toPage EXCEPT ![t] = <<>>]
          /\ toShell' = [toShell EXCEPT ![t] =
               @ \o [i \in 1..Len(toPage[t]) |-> Failure(toPage[t][i])]]
     ELSE UNCHANGED <<toPage, toShell>>
  /\ Unfresh(t)
  /\ UNCHANGED <<bar, misled>>

FindMutated(t) == Unfresh(t) /\ UNCHANGED <<bar, found, toPage, toShell, misled>>

-----------------------------------------------------------------------------
FindEvents ==
  \/ \E t \in Tab : Select(t) /\ FindSelected(t)
  \/ \E t \in Tab, w \in Window : \E u \in Neighbours(t) : Move(t, w, u) /\ FindMoved(t, w)
  \/ \E t \in Tab : \E u \in Neighbours(t) : Close(t, u) /\ FindClosed(t)
  \/ \E t \in Tab, c \in Contents, process \in BOOLEAN :
       Navigate(t, c) /\ FindNavigated(t, process)
  \/ \E t \in Tab, c \in Contents : Mutate(t, c) /\ FindMutated(t)

FindBarStep(w) ==
  \/ ShowFind(w) \/ CloseFind(w)
  \/ \E query \in Query \cup {NoText} : Type(w, query)
  \/ \E by \in {-1, 1} : FindNext(w, by)

FindSteps ==
  \/ FindEvents
  \/ \E w \in Window : FindBarStep(w)
  \/ \E t \in Tab : RunScript(t) \/ Answered(t)

FindStart == PagesInit /\ FindInit

FindSpec == FindStart /\ [][FindSteps]_<<pages, operations, find>>

-----------------------------------------------------------------------------
Settled(w) ==
  /\ view[w] # Closed /\ bar[w].visible /\ fresh[w] /\ bar[w].query # NoText
  /\ toPage[view[w]] = <<>> /\ toShell[view[w]] = <<>>

BarCountsThePage(w) ==
  /\ bar[w].total = content[view[w]][bar[w].query]
  /\ bar[w].current <= bar[w].total
  /\ bar[w].current = 0 <=> bar[w].total = 0

NumberIsTheMarks(w) ==
  LET marks == found[view[w]]
  IN  /\ marks.query = bar[w].query
      /\ marks.matches = bar[w].total
      /\ marks.matches > 0 => marks.index + 1 = bar[w].current

(* Once all answers are there, the bar shows how often its text is in the  *)
(* document one sees, and a place among those: not the number of an        *)
(* earlier text, of another tab, or of a search in another window.  When   *)
(* the marks are those of the script, they are of that text, and "2 / 5"   *)
(* is shown while the second of them is the current one.  Only a bar that  *)
(* took the count of a tab it did not show, and none of its own since, may *)
(* be wrong.                                                               *)
BarTellsTheTruth ==
  \A w \in Window : Settled(w) /\ w \notin misled =>
    BarCountsThePage(w) /\ (bar[w].custom => NumberIsTheMarks(w))
=============================================================================
