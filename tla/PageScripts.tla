---------------------------- MODULE PageScripts ----------------------------
(***************************************************************************)
(* The find bars and the agent, in the same documents.  Their scripts run  *)
(* in worlds of their own, but the document is one: that the search puts   *)
(* marks into it is a change that the agent's MutationObserver sees.       *)
(***************************************************************************)
EXTENDS FindInPage, AgentPage

vars == <<pages, operations, find, agent>>

TypeOK == PagesTypeOK /\ FindTypeOK /\ AgentTypeOK

Init == PagesInit /\ FindInit /\ AgentInit

-----------------------------------------------------------------------------
(* Events of the tabs.                                                     *)

SelectTab(t) == Select(t) /\ FindSelected(t) /\ UNCHANGED agent

MoveTab(t, w) ==
  \E u \in Neighbours(t) : Move(t, w, u) /\ FindMoved(t, w) /\ UNCHANGED agent

CloseTab(t) == \E u \in Neighbours(t) : Close(t, u) /\ FindClosed(t) /\ AgentClosed(t)

Commit(t, c, process) == Navigate(t, c) /\ FindNavigated(t, process) /\ AgentNavigated(t)

Change(t, c) == Mutate(t, c) /\ FindMutated(t) /\ AgentMutated(t)

(* A script of the find bar runs in the page.                              *)
Mark(t) ==
  /\ RunScript(t)
  /\ refs' = IF Touches(t) THEN [refs EXCEPT ![t] = Observed(@)] ELSE refs
  /\ UNCHANGED <<handles, waits, fetch>>

-----------------------------------------------------------------------------
FindStep(w) == FindBarStep(w) /\ UNCHANGED agent

Look(p) == WaitFinished(p, FALSE) \/ WaitFinished(p, TRUE)

WaitStep(p) == p \in DOMAIN waits /\ (Look(p) \/ WaitCheck(p) \/ Expire(p)) /\ UNCHANGED find

FetchStep ==
  /\ \/ \E length \in 0..MaxResponse : SendReady(length)
     \/ \E n \in 0..MaxResponse : ReadReady(n)
     \/ Probed \/ ReadFails
  /\ UNCHANGED find

AgentRequest ==
  /\ \E t \in Tab : Snapshot(t) \/ \E text \in Query : Asks(t, text)
  /\ UNCHANGED find

Next ==
  \/ \E t \in Tab : SelectTab(t) \/ CloseTab(t) \/ Mark(t)
  \/ \E t \in Tab, w \in Window : MoveTab(t, w)
  \/ \E t \in Tab, c \in Contents : Change(t, c) \/ \E process \in BOOLEAN : Commit(t, c, process)
  \/ \E t \in Tab : Answered(t) /\ UNCHANGED agent
  \/ \E w \in Window : FindStep(w)
  \/ \E p \in Requests : WaitStep(p)
  \/ AgentRequest \/ FetchStep

(* The timers of the main loop fire, and time passes.  That a page's       *)
(* process answers is not assumed: it may hang.                            *)
Fairness ==
  \A p \in Requests :
    /\ WF_vars(p \in DOMAIN waits /\ WaitCheck(p) /\ UNCHANGED find)
    /\ WF_vars(p \in DOMAIN waits /\ Expire(p) /\ UNCHANGED find)

Spec == Init /\ [][Next]_vars /\ Fairness
=============================================================================
