----------------------------- MODULE AgentPage -----------------------------
(***************************************************************************)
(* What the agent does in a page and takes from the net                    *)
(* (src/src/native_app.cpp): page.snapshot names elements by references,   *)
(* page.interact acts on one, page.wait looks every 50 ms whether a text   *)
(* has appeared, and net.fetch reads a response up to a limit.  All of     *)
(* them are answered later, when the page may be another.                  *)
(*                                                                         *)
(* An operator marked "Mutant" is not part of the model: it is a way the   *)
(* code could plausibly be wrong, kept to show which property notices.     *)
(***************************************************************************)
EXTENDS Pages

CONSTANTS
  MaxResponse,  \* bound: bytes of a response
  MaxBytes,     \* net.fetch's max_bytes
  Chunk         \* size of the buffer that a response is read into

ASSUME AgentPageAssumption ==
  MaxResponse \in Nat /\ MaxBytes \in Nat \ {0} /\ Chunk \in Nat \ {0}

VARIABLES
  refs,       \* __vantageAgentState of each tab's document
  handles,    \* the references that clients have been given
  waits,      \* the AgentWaitState of each page.wait, and its answer
  fetch       \* the AgentFetchResult of a net.fetch, and its answer

agent == <<refs, handles, waits, fetch>>

(* No snapshot was taken of the document yet.                              *)
NoRefs == [generation |-> 0, named |-> FALSE]

Handle == [tab : Tab, document : Nat, revision : Nat, generation : Nat]

(* In `seen`, whether the text was there at each look from outside since   *)
(* the request: a subset of BOOLEAN.                                       *)
WaitState == [status : {"asked", "asleep", "true", "timeout", "error", "lost"},
              tab : Tab, text : Query, expired : BOOLEAN, seen : SUBSET BOOLEAN]

(* "unprobed" is answered like "ok", after a probe that failed.            *)
FetchState == [status : {"none", "reading", "probing", "ok", "unprobed", "error"},
               left : 0..MaxResponse, length : 0..MaxResponse,
               body : 0..MaxResponse, truncated : BOOLEAN]

AgentTypeOK ==
  /\ refs \in [Tab -> [generation : Nat, named : BOOLEAN]]
  /\ handles \subseteq Handle
  /\ waits \in Seq(WaitState)
  /\ fetch \in FetchState

AgentInit ==
  /\ refs = [t \in Tab |-> NoRefs]
  /\ handles = {}
  /\ waits = <<>>
  /\ fetch = [status |-> "none", left |-> 0, length |-> 0, body |-> 0, truncated |-> FALSE]

Present(t, text) == content[t][text] > 0

-----------------------------------------------------------------------------
(* References.                                                             *)

(* page.snapshot, as its script runs: the references of the last one go.   *)
(* A reference is "@e", the generation, and the element's place.           *)
Snapshot(t) ==
  /\ Undertake
  /\ home[t] # Closed
  /\ LET generation == IF refs[t].generation = 0 THEN 1 ELSE refs[t].generation
     IN  /\ refs' = [refs EXCEPT ![t] = [generation |-> generation, named |-> TRUE]]
         /\ handles' = handles \cup {[tab |-> t, document |-> document[t],
                                      revision |-> revision[t], generation |-> generation]}
  /\ UNCHANGED <<pages, waits, fetch>>

(* The document's element that page.interact finds by a reference.         *)
Resolves(handle) ==
  refs[handle.tab].named /\ refs[handle.tab].generation = handle.generation

(* Mutant: the observer forgets the references, and not the generation. *)
ObservedWithoutGeneration(state) == [state EXCEPT !.named = FALSE]

(* The MutationObserver's callback, at the end of the script that changed  *)
(* the document.                                                           *)
Observed(state) ==
  IF state.generation = 0 THEN state
  ELSE [generation |-> state.generation + 1, named |-> FALSE]

-----------------------------------------------------------------------------
(* page.wait.                                                              *)

Asks(t, text) ==
  /\ Undertake
  /\ home[t] # Closed
  /\ waits' = Append(waits, [status |-> "asked", tab |-> t, text |-> text,
                             expired |-> FALSE, seen |-> {Present(t, text)}])
  /\ UNCHANGED <<pages, refs, handles, fetch>>

Ends(p, status) == waits' = [waits EXCEPT ![p].status = status]

(* Mutant: a wait asks on after its time. *)
OutcomeForEver(p, present) == IF present THEN "true" ELSE "asleep"

(* Mutant: the time that is allowed is looked at before the answer is. *)
OutcomeInTime(p, present) ==
  IF waits[p].expired THEN "timeout" ELSE IF present THEN "true" ELSE "asleep"

(* agent_wait_finished, of what the page has answered.                     *)
Outcome(p, present) ==
  IF present THEN "true" ELSE IF waits[p].expired THEN "timeout" ELSE "asleep"

(* The page is asked, and answers; that of a tab which has been closed     *)
(* meanwhile, or changed its process, answers with an error.               *)
WaitFinished(p, fails) ==
  LET t == waits[p].tab
  IN  /\ waits[p].status = "asked"
      /\ home[t] = Closed => fails
      /\ Ends(p, IF fails THEN "error" ELSE Outcome(p, Present(t, waits[p].text)))
      /\ UNCHANGED <<pages, operations, refs, handles, fetch>>

(* agent_wait_check, 50 ms later.  The view it asks is not held: without   *)
(* its tab it may be gone, and what comes of the wait is not defined.      *)
WaitCheck(p) ==
  /\ waits[p].status = "asleep"
  /\ Ends(p, IF home[waits[p].tab] = Closed THEN "lost" ELSE "asked")
  /\ UNCHANGED <<pages, operations, refs, handles, fetch>>

Requests == 1..MaxOperations

Pending(p) == p \in DOMAIN waits /\ waits[p].status \in {"asked", "asleep"}

Questioned(p) == p \in DOMAIN waits /\ waits[p].status = "asked"

(* The time allowed, of 0 to 30 s, runs out.                               *)
Expire(p) ==
  /\ Pending(p) /\ ~waits[p].expired
  /\ waits' = [waits EXCEPT ![p].expired = TRUE]
  /\ UNCHANGED <<pages, operations, refs, handles, fetch>>

-----------------------------------------------------------------------------
(* net.fetch.                                                              *)

LeastOf(a, b) == IF a <= b THEN a ELSE b

(* agent_fetch_send_ready: the response has begun.                         *)
SendReady(length) ==
  /\ Undertake
  /\ fetch.status = "none"
  /\ fetch' = [fetch EXCEPT !.status = "reading", !.left = length, !.length = length]
  /\ UNCHANGED <<pages, refs, handles, waits>>

(* agent_fetch_read_chunk: one byte more than there is room for.           *)
Want(state) == LeastOf(Chunk, MaxBytes - state.body + 1)

(* Mutant: a response that has filled the body is not read on. *)
FilledWhole(state) == [state EXCEPT !.status = "ok"]

(* At the limit one byte more is tried, to learn whether there is one.     *)
Filled(state) == [state EXCEPT !.status = "probing"]

(* agent_fetch_read_ready, of `n` bytes.                                   *)
Received(state, n) ==
  LET room == MaxBytes - state.body
      kept == [state EXCEPT !.left = @ - n, !.body = @ + LeastOf(n, room)]
  IN  IF n = 0 THEN [kept EXCEPT !.status = "ok"]
      ELSE IF n > room THEN [kept EXCEPT !.status = "ok", !.truncated = TRUE]
      ELSE IF n = room THEN Filled(kept) ELSE kept

ReadReady(n) ==
  /\ fetch.status = "reading"
  /\ n <= LeastOf(fetch.left, Want(fetch))
  /\ n = 0 <=> fetch.left = 0
  /\ fetch' = Received(fetch, n)
  /\ UNCHANGED <<pages, operations, refs, handles, waits>>

(* The probe's answer.  An error is cleared and counts as the end, bytes   *)
(* being left or not.                                                      *)
Probed ==
  /\ fetch.status = "probing"
  /\ \/ fetch' = [fetch EXCEPT !.status = "ok", !.truncated = fetch.left > 0]
     \/ fetch' = [fetch EXCEPT !.status = "unprobed"]
  /\ UNCHANGED <<pages, operations, refs, handles, waits>>

ReadFails ==
  /\ fetch.status = "reading"
  /\ fetch' = [fetch EXCEPT !.status = "error"]
  /\ UNCHANGED <<pages, operations, refs, handles, waits>>

-----------------------------------------------------------------------------
(* What the events of Pages mean to the agent's requests.                  *)

(* What a wait would have found if it had looked when the page changed.    *)
Watched == waits' = [p \in DOMAIN waits |->
  IF Pending(p) /\ home'[waits[p].tab] # Closed
  THEN [waits[p] EXCEPT !.seen = @ \cup {content'[waits[p].tab][waits[p].text] > 0}]
  ELSE waits[p]]

AgentNavigated(t) ==
  /\ refs' = [refs EXCEPT ![t] = NoRefs]
  /\ Watched
  /\ UNCHANGED <<handles, fetch>>

AgentMutated(t) ==
  /\ refs' = [refs EXCEPT ![t] = Observed(@)]
  /\ Watched
  /\ UNCHANGED <<handles, fetch>>

AgentClosed(t) ==
  /\ refs' = [refs EXCEPT ![t] = NoRefs]
  /\ UNCHANGED <<handles, waits, fetch>>

-----------------------------------------------------------------------------
(* "It never retargets a stale reference to a different element"           *)
(* (docs/AGENT-GUIDE.md): as long as the document is the same, a reference *)
(* is only found while the elements are those that it was given for.       *)
RefsAreNotRetargeted ==
  \A h \in handles :
    home[h.tab] # Closed /\ h.document = document[h.tab] /\ Resolves(h) =>
      h.revision = revision[h.tab]

(* page.wait answers that the text is there only if it was, at some time   *)
(* since the request, and says "timeout" only if it was missing at some.   *)
WaitsAreHonest ==
  \A p \in DOMAIN waits :
    /\ waits[p].status = "true" => TRUE \in waits[p].seen
    /\ waits[p].status = "timeout" => FALSE \in waits[p].seen

(* page.wait is answered in the end, unless its tab is closed, whatever    *)
(* the page becomes, if the page answers whatever it is asked.  The time   *)
(* that is allowed does not help against a page that keeps silent: it is   *)
(* looked at only when an answer has come.                                 *)
WaitsEnd ==
  \A p \in Requests :
    (Questioned(p) ~> ~Questioned(p)) => (Pending(p) ~> ~Pending(p))

(* A fetched body is the whole response or its first max_bytes, and is     *)
(* called truncated in the second case only, a response that is exactly    *)
(* as long as the limit included; and always then, unless the byte after   *)
(* the limit could not be read for an error.                               *)
FetchIsMarkedTruncated ==
  /\ fetch.status \in {"ok", "unprobed"} =>
       /\ fetch.body = LeastOf(fetch.length, MaxBytes)
       /\ fetch.truncated => fetch.length > MaxBytes
  /\ fetch.status = "ok" => (fetch.length > MaxBytes => fetch.truncated)
=============================================================================
