------------------------- MODULE PageScriptsProofs -------------------------
(***************************************************************************)
(* Proofs about the agent's requests in pages (AgentPage), composed with   *)
(* the find bars as in PageScripts, and about the find bars (FindInPage),  *)
(* alone and with the agent: for every number of windows, tabs, requests   *)
(* and searches, every content of pages, and every length of a response,   *)
(* of the buffer and of the limit.                                         *)
(***************************************************************************)
EXTENDS PageScripts, SequenceTheorems, TLAPS

(* The part of Pages that the agent's requests depend on.                  *)
PlacesOK ==
  /\ home \in [Tab -> Window \cup {Closed}]
  /\ document \in [Tab -> Nat]
  /\ content \in [Tab -> Contents]
  /\ revision \in [Tab -> Nat]

-----------------------------------------------------------------------------
(* What a step may be, as far as tabs and the agent are concerned.         *)

Quiet == UNCHANGED <<home, document, content, revision, agent>>

Moved(t, w) ==
  /\ home[t] # Closed
  /\ home' = [home EXCEPT ![t] = w]
  /\ UNCHANGED <<document, content, revision, agent>>

Gone(t) ==
  /\ home' = [home EXCEPT ![t] = Closed]
  /\ refs' = [refs EXCEPT ![t] = NoRefs]
  /\ UNCHANGED <<document, content, revision, handles, waits, fetch>>

Committed(t, c) ==
  /\ document' = [document EXCEPT ![t] = @ + 1]
  /\ content' = [content EXCEPT ![t] = c]
  /\ revision' = [revision EXCEPT ![t] = 0]
  /\ refs' = [refs EXCEPT ![t] = NoRefs]
  /\ Watched
  /\ UNCHANGED <<home, handles, fetch>>

Altered(t, c) ==
  /\ content' = [content EXCEPT ![t] = c]
  /\ revision' = [revision EXCEPT ![t] = @ + 1]
  /\ refs' = [refs EXCEPT ![t] = Observed(@)]
  /\ Watched
  /\ UNCHANGED <<home, document, handles, fetch>>

Marked(t) ==
  /\ refs' = [refs EXCEPT ![t] = Observed(@)]
  /\ UNCHANGED <<home, document, content, revision, handles, waits, fetch>>

WaitProgress(p) ==
  WaitFinished(p, FALSE) \/ WaitFinished(p, TRUE) \/ WaitCheck(p) \/ Expire(p)

FetchProgress ==
  \/ \E length \in 0..MaxResponse : SendReady(length)
  \/ \E n \in 0..MaxResponse : ReadReady(n)
  \/ Probed \/ ReadFails

LEMMA StepKinds ==
  ASSUME [Next]_vars
  PROVE  \/ Quiet
         \/ \E t \in Tab, w \in Window : Moved(t, w)
         \/ \E t \in Tab : Gone(t)
         \/ \E t \in Tab, c \in Contents : Committed(t, c)
         \/ \E t \in Tab, c \in Contents : Altered(t, c)
         \/ \E t \in Tab : Marked(t)
         \/ \E t \in Tab : Snapshot(t)
         \/ \E t \in Tab, text \in Query : Asks(t, text)
         \/ \E p \in DOMAIN waits : WaitProgress(p)
         \/ FetchProgress
<1>1. CASE UNCHANGED vars
  BY <1>1 DEF vars, pages, Quiet
<1>2. CASE \E t \in Tab : SelectTab(t)
  BY <1>2 DEF SelectTab, Select, Quiet
<1>3. CASE \E t \in Tab : CloseTab(t)
  BY <1>3 DEF CloseTab, Close, AgentClosed, Gone
<1>4. CASE \E t \in Tab : Mark(t)
  BY <1>4 DEF Mark, RunScript, pages, Marked, Quiet, agent
<1>5. CASE \E t \in Tab, w \in Window : MoveTab(t, w)
  BY <1>5 DEF MoveTab, Move, Moved
<1>6. CASE \E t \in Tab, c \in Contents : Change(t, c)
  BY <1>6 DEF Change, Mutate, AgentMutated, Altered
<1>7. CASE \E t \in Tab, c \in Contents : \E process \in BOOLEAN : Commit(t, c, process)
  BY <1>7 DEF Commit, Navigate, AgentNavigated, Committed
<1>8. CASE \E t \in Tab : Answered(t) /\ UNCHANGED agent
  BY <1>8 DEF Answered, pages, Quiet
<1>9. CASE \E w \in Window : FindStep(w)
  BY <1>9 DEF FindStep, FindBarStep, ShowFind, CloseFind, Type, FindNext, pages, Quiet
<1>10. CASE \E p \in Requests : WaitStep(p)
  BY <1>10 DEF WaitStep, Look, WaitProgress
<1>11. CASE AgentRequest
  BY <1>11 DEF AgentRequest
<1>12. CASE FetchStep
  BY <1>12 DEF FetchStep, FetchProgress
<1>5a. QED
  BY <1>1, <1>2, <1>3, <1>4, <1>5, <1>6, <1>7, <1>8, <1>9, <1>10, <1>11, <1>12 DEF Next

LEMMA PlacesKept ==
  ASSUME PlacesOK, [Next]_vars
  PROVE  PlacesOK'
<1>1. CASE UNCHANGED <<home, document, content, revision>>
  BY <1>1 DEF PlacesOK
<1>2. CASE \E t \in Tab, w \in Window : Moved(t, w)
  BY <1>2 DEF PlacesOK, Moved
<1>3. CASE \E t \in Tab : Gone(t)
  BY <1>3 DEF PlacesOK, Gone
<1>4. CASE \E t \in Tab, c \in Contents : Committed(t, c)
  BY <1>4 DEF PlacesOK, Committed
<1>5. CASE \E t \in Tab, c \in Contents : Altered(t, c)
  BY <1>5 DEF PlacesOK, Altered
<1>6. Quiet => UNCHANGED <<home, document, content, revision>>
  BY DEF Quiet
<1>7. (\E t \in Tab : Marked(t)) \/ (\E t \in Tab : Snapshot(t))
        \/ (\E t \in Tab, text \in Query : Asks(t, text))
      => UNCHANGED <<home, document, content, revision>>
  BY DEF Marked, Snapshot, Asks, pages
<1>8. (\E p \in DOMAIN waits : WaitProgress(p)) => UNCHANGED <<home, document, content, revision>>
  BY DEF WaitProgress, WaitFinished, WaitCheck, Expire, pages
<1>9. FetchProgress => UNCHANGED <<home, document, content, revision>>
  BY DEF FetchProgress, SendReady, ReadReady, Probed, ReadFails, pages
<1>10. QED
  BY <1>1, <1>2, <1>3, <1>4, <1>5, <1>6, <1>7, <1>8, <1>9, StepKinds

LEMMA PlacesInitially ==
  PagesInit => PlacesOK
BY DEF PagesInit, PlacesOK

-----------------------------------------------------------------------------
(* net.fetch: what is in the body has been taken from what was left, and   *)
(* while it is read on there is room; it is full when the probe is sent.   *)

FetchInv ==
  /\ fetch \in FetchState
  /\ fetch.status \in {"reading", "probing"} => fetch.body + fetch.left = fetch.length
  /\ fetch.status = "none" => fetch.body = 0
  /\ fetch.status \in {"none", "reading"} => fetch.body < MaxBytes
  /\ fetch.status \in {"none", "reading", "probing"} => ~fetch.truncated
  /\ fetch.status = "probing" => fetch.body = MaxBytes
  /\ FetchIsMarkedTruncated

LEMMA FetchInitially ==
  AgentInit => FetchInv
BY AgentPageAssumption DEF AgentInit, FetchInv, FetchState, FetchIsMarkedTruncated

(* A fetch whose numbers need not be within the bounds.                    *)
Loose == [status : {"none", "reading", "probing", "ok", "unprobed", "error"},
          left : Int, length : Int, body : Int, truncated : BOOLEAN]

Bounded(s) == s.left \in 0..MaxResponse /\ s.length \in 0..MaxResponse /\ s.body \in 0..MaxResponse

LEMMA Bounds ==
  ASSUME NEW s
  PROVE  s \in FetchState <=> s \in Loose /\ Bounded(s)
BY AgentPageAssumption DEF FetchState, Loose, Bounded

(* The fields after some bytes were taken, after the response has begun,   *)
(* and at the end.                                                         *)
Take(s, left, body) == [s EXCEPT !.left = left, !.body = body]

LEMMA Taken ==
  ASSUME NEW s \in Loose, NEW left \in Int, NEW body \in Int
  PROVE  LET r == Take(s, left, body)
         IN  /\ r \in Loose /\ r.status = s.status /\ r.length = s.length
             /\ r.left = left /\ r.body = body /\ r.truncated = s.truncated
BY DEF Loose, Take

LEMMA Begun ==
  ASSUME NEW s \in Loose, NEW length \in Int
  PROVE  LET r == [s EXCEPT !.status = "reading", !.left = length, !.length = length]
         IN  /\ r \in Loose /\ r.status = "reading" /\ r.length = length
             /\ r.left = length /\ r.body = s.body /\ r.truncated = s.truncated
BY DEF Loose

LEMMA Became ==
  ASSUME NEW s \in Loose, NEW status \in {"probing", "ok", "unprobed", "error"}
  PROVE  LET r == [s EXCEPT !.status = status]
         IN  /\ r \in Loose /\ r.status = status /\ r.length = s.length
             /\ r.left = s.left /\ r.body = s.body /\ r.truncated = s.truncated
BY DEF Loose

LEMMA MarksTruncated ==
  ASSUME NEW s \in Loose
  PROVE  LET r == [s EXCEPT !.status = "ok", !.truncated = TRUE]
         IN  /\ r \in Loose /\ r.status = "ok" /\ r.length = s.length
             /\ r.left = s.left /\ r.body = s.body /\ r.truncated = TRUE
BY DEF Loose

LEMMA MarksWhole ==
  ASSUME NEW s \in Loose
  PROVE  LET r == [s EXCEPT !.status = "ok", !.truncated = FALSE]
         IN  /\ r \in Loose /\ r.status = "ok" /\ r.length = s.length
             /\ r.left = s.left /\ r.body = s.body /\ r.truncated = FALSE
BY DEF Loose

LEMMA SendReadyKeeps ==
  ASSUME FetchInv, NEW length \in 0..MaxResponse, SendReady(length)
  PROVE  FetchInv'
<1>1. fetch \in Loose /\ Bounded(fetch) /\ length \in Int
  BY Bounds, AgentPageAssumption DEF FetchInv
<1>2. /\ fetch' \in Loose /\ fetch'.status = "reading" /\ fetch'.length = length
      /\ fetch'.left = length /\ fetch'.body = fetch.body /\ fetch'.truncated = fetch.truncated
  BY <1>1, Begun DEF SendReady
<1>3. fetch.body = 0 /\ fetch.body < MaxBytes /\ ~fetch.truncated
  BY DEF SendReady, FetchInv
<1>4. Bounded(fetch') /\ fetch'.body + fetch'.left = fetch'.length
  BY <1>1, <1>2, <1>3, AgentPageAssumption DEF Bounded
<1>5. fetch' \in FetchState
  BY <1>2, <1>4, Bounds
<1>6. QED
  BY <1>2, <1>3, <1>4, <1>5 DEF FetchInv, FetchIsMarkedTruncated

(* The four ways a read can end: the response is over, it has more than    *)
(* there is room for, it fills the body, or it leaves room.                *)
LEMMA ReadReadyKeeps ==
  ASSUME FetchInv, NEW n \in 0..MaxResponse, ReadReady(n)
  PROVE  FetchInv'
<1> DEFINE room == MaxBytes - fetch.body
<1> DEFINE left == fetch.left - n
<1> DEFINE body == fetch.body + LeastOf(n, room)
<1> DEFINE kept == Take(fetch, left, body)
<1>1. /\ fetch \in Loose /\ Bounded(fetch) /\ fetch.status = "reading"
      /\ fetch.body + fetch.left = fetch.length
      /\ fetch.body < MaxBytes /\ fetch.truncated = FALSE
  BY Bounds DEF ReadReady, FetchInv, Loose
<1>2. /\ fetch.body \in 0..MaxResponse /\ fetch.left \in 0..MaxResponse
      /\ fetch.length \in 0..MaxResponse /\ MaxBytes \in Nat /\ MaxResponse \in Nat
      /\ room \in Nat /\ room > 0
  BY <1>1, AgentPageAssumption DEF Bounded
<1>3. n <= fetch.left /\ n <= room + 1 /\ (n = 0 <=> fetch.left = 0)
  BY <1>2, AgentPageAssumption DEF ReadReady, LeastOf, Want
<1>4. /\ left \in 0..MaxResponse /\ body \in 0..MaxResponse
      /\ n <= room => body + left = fetch.length
      /\ n < room => body < MaxBytes
      /\ n >= room => body = MaxBytes
      /\ n > room => fetch.length > MaxBytes
      /\ n = 0 => body = fetch.length
  BY <1>1, <1>2, <1>3 DEF LeastOf
<1>5. fetch' = IF n = 0 THEN [kept EXCEPT !.status = "ok"]
               ELSE IF n > room THEN [kept EXCEPT !.status = "ok", !.truncated = TRUE]
               ELSE IF n = room THEN [kept EXCEPT !.status = "probing"] ELSE kept
  BY DEF ReadReady, Received, Filled, Take
<1>5a. left \in Int /\ body \in Int
  BY <1>2, <1>4
<1> HIDE DEF room, left, body
<1>6. /\ kept \in Loose /\ kept.status = "reading" /\ kept.length = fetch.length
      /\ kept.left = left /\ kept.body = body /\ kept.truncated = FALSE
  <2>1. /\ kept \in Loose /\ kept.status = fetch.status /\ kept.length = fetch.length
        /\ kept.left = left /\ kept.body = body /\ kept.truncated = fetch.truncated
    BY <1>1, <1>5a, Taken
  <2>2. QED
    BY <1>1, <2>1
<1> HIDE DEF kept
<1>7. Bounded(kept)
  BY <1>2, <1>4, <1>6 DEF Bounded
<1>8. CASE n = 0
  <2>1. /\ fetch' \in Loose /\ fetch'.status = "ok" /\ fetch'.length = kept.length
        /\ fetch'.left = kept.left /\ fetch'.body = kept.body /\ fetch'.truncated = FALSE
    BY <1>5, <1>6, <1>8, Became
  <2>2. fetch' \in FetchState /\ fetch'.body = fetch'.length /\ fetch'.length \in Nat
    BY <1>2, <1>4, <1>6, <1>7, <1>8, <2>1, Bounds DEF Bounded
  <2>3. fetch'.body <= MaxBytes
    BY <1>2, <1>4, <1>6, <1>8, <2>1
  <2>4. QED
    BY <1>2, <2>1, <2>2, <2>3 DEF FetchInv, FetchIsMarkedTruncated, LeastOf
<1>9. CASE n > room
  <2>1. /\ fetch' \in Loose /\ fetch'.status = "ok" /\ fetch'.length = kept.length
        /\ fetch'.left = kept.left /\ fetch'.body = kept.body /\ fetch'.truncated = TRUE
    <3>1. fetch' = [kept EXCEPT !.status = "ok", !.truncated = TRUE]
      BY <1>2, <1>5, <1>9
    <3>2. QED
      BY <1>6, <3>1, MarksTruncated
  <2>2. fetch' \in FetchState
    BY <1>7, <2>1, Bounds DEF Bounded
  <2>3. room \in Nat /\ n \in Nat
    BY <1>2
  <2>4. body = MaxBytes /\ fetch.length > MaxBytes
    BY <1>4, <1>9, <2>3
  <2>5. fetch'.body = MaxBytes /\ fetch'.length > MaxBytes
    BY <1>6, <2>1, <2>4
  <2>6. LeastOf(fetch'.length, MaxBytes) = MaxBytes
    BY <1>2, <1>6, <2>1, <2>5 DEF LeastOf
  <2>7. fetch'.truncated <=> fetch'.length > MaxBytes
    BY <2>1, <2>5
  <2>8. QED
    BY <2>1, <2>2, <2>5, <2>6, <2>7 DEF FetchInv, FetchIsMarkedTruncated
<1>10. CASE n = room
  <2>1. /\ fetch' \in Loose /\ fetch'.status = "probing" /\ fetch'.length = kept.length
        /\ fetch'.left = kept.left /\ fetch'.body = kept.body /\ fetch'.truncated = FALSE
    <3>1. fetch' = [kept EXCEPT !.status = "probing"]
      BY <1>2, <1>5, <1>10
    <3>2. QED
      BY <1>6, <3>1, Became
  <2>2. /\ fetch' \in FetchState /\ fetch'.body = MaxBytes
        /\ fetch'.body + fetch'.left = fetch'.length
    BY <1>2, <1>4, <1>6, <1>7, <1>10, <2>1, Bounds DEF Bounded
  <2>3. QED
    BY <2>1, <2>2 DEF FetchInv, FetchIsMarkedTruncated
<1>11. CASE 0 < n /\ n < room
  <2>1. fetch' = kept
    BY <1>2, <1>5, <1>11
  <2>2. /\ fetch' \in FetchState /\ fetch'.body < MaxBytes
        /\ fetch'.body + fetch'.left = fetch'.length
    BY <1>2, <1>4, <1>6, <1>7, <1>11, <2>1, Bounds
  <2>3. QED
    BY <1>6, <2>1, <2>2 DEF FetchInv, FetchIsMarkedTruncated
<1>12. QED
  BY <1>2, <1>8, <1>9, <1>10, <1>11

LEMMA EndsKeep ==
  ASSUME FetchInv, Probed \/ ReadFails
  PROVE  FetchInv'
<1>1. fetch \in Loose /\ Bounded(fetch)
  BY Bounds DEF FetchInv
<1>2. /\ fetch.body \in Int /\ fetch.left \in Nat /\ fetch.length \in Int /\ MaxBytes \in Nat
  BY <1>1, AgentPageAssumption DEF Bounded
<1>3. CASE Probed
  <2>1. /\ fetch.body = MaxBytes /\ fetch.body + fetch.left = fetch.length
        /\ fetch.truncated = FALSE
    BY <1>1, <1>3 DEF Probed, FetchInv, Loose
  <2>2. CASE fetch.left > 0 /\ fetch' = [fetch EXCEPT !.status = "ok", !.truncated = fetch.left > 0]
    <3>1. fetch' = [fetch EXCEPT !.status = "ok", !.truncated = TRUE]
      BY <2>2
    <3>2. /\ fetch' \in Loose /\ fetch'.status = "ok" /\ fetch'.length = fetch.length
          /\ fetch'.left = fetch.left /\ fetch'.body = fetch.body /\ fetch'.truncated = TRUE
      BY <1>1, <3>1, MarksTruncated
    <3>3. fetch.left > 0
      BY <2>2
    <3>3a. fetch' \in FetchState /\ fetch'.body = MaxBytes /\ fetch'.length > MaxBytes
      BY <1>1, <1>2, <2>1, <3>2, <3>3, Bounds DEF Bounded
    <3>4. LeastOf(fetch'.length, MaxBytes) = MaxBytes
      BY <1>2, <3>2, <3>3a DEF LeastOf
    <3>5. FetchIsMarkedTruncated'
      BY <3>2, <3>3a, <3>4 DEF FetchIsMarkedTruncated
    <3>6. QED
      BY <3>2, <3>3a, <3>5 DEF FetchInv
  <2>3. CASE fetch.left = 0 /\ fetch' = [fetch EXCEPT !.status = "ok", !.truncated = fetch.left > 0]
    <3>0. (fetch.left > 0) = FALSE
      BY <2>3
    <3>1. fetch' = [fetch EXCEPT !.status = "ok", !.truncated = FALSE]
      BY <2>3, <3>0
    <3>2. /\ fetch' \in Loose /\ fetch'.status = "ok" /\ fetch'.length = fetch.length
          /\ fetch'.left = fetch.left /\ fetch'.body = fetch.body /\ fetch'.truncated = FALSE
      BY <1>1, <3>1, MarksWhole
    <3>3. fetch.left = 0
      BY <2>3
    <3>3a. fetch' \in FetchState /\ fetch'.body = MaxBytes /\ fetch'.length = MaxBytes
      BY <1>1, <1>2, <2>1, <3>2, <3>3, Bounds DEF Bounded
    <3>4. LeastOf(fetch'.length, MaxBytes) = MaxBytes /\ ~(fetch'.length > MaxBytes)
      BY <1>2, <3>2, <3>3a DEF LeastOf
    <3>5. FetchIsMarkedTruncated'
      BY <3>2, <3>3a, <3>4 DEF FetchIsMarkedTruncated
    <3>6. QED
      BY <3>2, <3>3a, <3>5 DEF FetchInv
  <2>4. CASE fetch' = [fetch EXCEPT !.status = "unprobed"]
    <3>1. /\ fetch' \in Loose /\ fetch'.status = "unprobed" /\ fetch'.length = fetch.length
          /\ fetch'.left = fetch.left /\ fetch'.body = fetch.body /\ fetch'.truncated = FALSE
      BY <1>1, <2>1, <2>4, Became
    <3>2. fetch' \in FetchState /\ fetch'.body = MaxBytes /\ fetch'.length >= MaxBytes
      BY <1>1, <1>2, <2>1, <3>1, Bounds DEF Bounded
    <3>3. QED
      BY <1>2, <3>1, <3>2 DEF FetchInv, FetchIsMarkedTruncated, LeastOf
  <2>5. QED
    BY <1>2, <1>3, <2>2, <2>3, <2>4 DEF Probed
<1>4. CASE ReadFails
  <2>1. /\ fetch' \in Loose /\ fetch'.status = "error" /\ fetch'.length = fetch.length
        /\ fetch'.left = fetch.left /\ fetch'.body = fetch.body
    BY <1>1, <1>4, Became DEF ReadFails
  <2>2. fetch' \in FetchState
    BY <1>1, <2>1, Bounds DEF Bounded
  <2>3. QED
    BY <2>1, <2>2 DEF FetchInv, FetchIsMarkedTruncated
<1>5. QED
  BY <1>3, <1>4

LEMMA FetchStepKeeps ==
  ASSUME FetchInv, [Next]_vars
  PROVE  FetchInv'
<1>1. CASE UNCHANGED fetch
  BY <1>1 DEF FetchInv, FetchIsMarkedTruncated
<1>2. CASE FetchProgress
  BY <1>2, SendReadyKeeps, ReadReadyKeeps, EndsKeep DEF FetchProgress
<1>3. \/ FetchProgress
      \/ UNCHANGED fetch
  <2>1. Quiet => UNCHANGED fetch
    BY DEF Quiet, agent
  <2>2. (\E t \in Tab, w \in Window : Moved(t, w)) => UNCHANGED fetch
    BY DEF Moved, agent
  <2>3. (\E t \in Tab : Gone(t)) \/ (\E t \in Tab : Marked(t)) => UNCHANGED fetch
    BY DEF Gone, Marked
  <2>4. (\E t \in Tab, c \in Contents : Committed(t, c))
          \/ (\E t \in Tab, c \in Contents : Altered(t, c)) => UNCHANGED fetch
    BY DEF Committed, Altered
  <2>5. (\E t \in Tab : Snapshot(t)) \/ (\E t \in Tab, text \in Query : Asks(t, text))
          => UNCHANGED fetch
    BY DEF Snapshot, Asks
  <2>6. (\E p \in DOMAIN waits : WaitProgress(p)) => UNCHANGED fetch
    BY DEF WaitProgress, WaitFinished, WaitCheck, Expire
  <2>7. QED
    BY <2>1, <2>2, <2>3, <2>4, <2>5, <2>6, StepKinds
<1>4. QED
  BY <1>1, <1>2, <1>3

(* However long the response, the limit and the chunks it comes in: a body *)
(* that is delivered is the whole response or its first max_bytes, and     *)
(* `truncated` says which, unless the probe after the limit has failed.    *)
THEOREM TruncationIsMarked == Spec => []FetchIsMarkedTruncated
<1>1. FetchInv => FetchIsMarkedTruncated
  BY DEF FetchInv
<1>2. FetchInv /\ [Next]_vars => FetchInv'
  BY FetchStepKeeps
<1>3. QED
  BY FetchInitially, <1>1, <1>2, PTL DEF Spec, Init
-----------------------------------------------------------------------------
(* References: one that was given in the same document is of a generation  *)
(* that the document has reached, and of the same elements while it is the *)
(* latest.                                                                 *)

RefState == [generation : Nat, named : BOOLEAN]

HandleOK(h) ==
  /\ h.document <= document[h.tab]
  /\ home[h.tab] # Closed /\ h.document = document[h.tab] =>
       /\ 1 <= h.generation /\ h.generation <= refs[h.tab].generation
       /\ h.generation = refs[h.tab].generation => h.revision = revision[h.tab]

RefsInv ==
  /\ PlacesOK
  /\ refs \in [Tab -> RefState]
  /\ handles \subseteq Handle
  /\ \A h \in handles : HandleOK(h)

LEMMA RefsInitially ==
  PagesInit /\ AgentInit => RefsInv
BY PlacesInitially DEF AgentInit, RefsInv, RefState, NoRefs

LEMMA NoRefsAre ==
  NoRefs \in RefState /\ NoRefs.generation = 0
BY DEF NoRefs, RefState

(* The observer's callback leads to a generation of its own, unless no     *)
(* snapshot was taken.                                                     *)
LEMMA ObservedIs ==
  ASSUME NEW s \in RefState
  PROVE  /\ Observed(s) \in RefState
         /\ Observed(s).generation = IF s.generation = 0 THEN 0 ELSE s.generation + 1
BY DEF Observed, RefState

LEMMA HandleFields ==
  ASSUME NEW h \in Handle
  PROVE  h.tab \in Tab /\ h.document \in Nat /\ h.revision \in Nat /\ h.generation \in Nat
BY DEF Handle

(* A step that gives no reference keeps what holds of each.                *)
LEMMA HandlesKept ==
  ASSUME RefsInv, [Next]_vars, UNCHANGED handles, refs' \in [Tab -> RefState],
         \A h \in handles : HandleOK(h)'
  PROVE  RefsInv'
BY PlacesKept DEF RefsInv

LEMMA SnapshotKeepsRefs ==
  ASSUME RefsInv, NEW t \in Tab, Snapshot(t), [Next]_vars
  PROVE  RefsInv'
<1> DEFINE generation == IF refs[t].generation = 0 THEN 1 ELSE refs[t].generation
           new == [tab |-> t, document |-> document[t], revision |-> revision[t],
                   generation |-> generation]
           state == [generation |-> generation, named |-> TRUE]
<1>1. /\ document \in [Tab -> Nat] /\ revision \in [Tab -> Nat] /\ refs \in [Tab -> RefState]
      /\ handles \subseteq Handle
  BY DEF RefsInv, PlacesOK
<1>2. refs[t].generation \in Nat
  BY <1>1 DEF RefState
<1>3. generation \in Nat /\ generation >= 1 /\ generation >= refs[t].generation
  BY <1>2
<1>4. refs[t].generation # 0 => generation = refs[t].generation
  OBVIOUS
<1>5. /\ refs' = [refs EXCEPT ![t] = state] /\ handles' = handles \cup {new}
      /\ UNCHANGED <<home, document, revision>>
  BY DEF Snapshot, pages
<1> HIDE DEF generation
<1>6. /\ new \in Handle /\ new.tab = t /\ new.document = document[t]
      /\ new.revision = revision[t] /\ new.generation = generation
  BY <1>1, <1>3 DEF Handle
<1>7. state \in RefState /\ state.generation = generation
  BY <1>3 DEF RefState
<1> HIDE DEF new, state
<1>8. /\ refs' \in [Tab -> RefState] /\ refs'[t].generation = generation
      /\ \A u \in Tab : u # t => refs'[u] = refs[u]
  BY <1>1, <1>5, <1>7
<1>9. ASSUME NEW h \in handles
      PROVE  HandleOK(h)'
  <2>1. h \in Handle /\ HandleOK(h)
    BY <1>1 DEF RefsInv
  <2>2. h.tab \in Tab /\ h.document \in Nat /\ h.revision \in Nat /\ h.generation \in Nat
    BY <2>1, HandleFields
  <2>3. CASE h.tab = t
    BY <1>2, <1>3, <1>4, <1>5, <1>8, <2>1, <2>2, <2>3 DEF HandleOK
  <2>4. CASE h.tab # t
    BY <1>5, <1>8, <2>1, <2>2, <2>4 DEF HandleOK
  <2>5. QED
    BY <2>3, <2>4
<1>10. PICK given \in Handle : given = new
  BY <1>6
<1>11. HandleOK(given)'
  BY <1>1, <1>3, <1>5, <1>6, <1>8, <1>10 DEF HandleOK
<1>12. \A h \in handles' : HandleOK(h)'
  BY <1>5, <1>9, <1>10, <1>11
<1>13. QED
  BY <1>1, <1>5, <1>6, <1>8, <1>12, PlacesKept DEF RefsInv

LEMMA RefsStepKeeps ==
  ASSUME RefsInv, [Next]_vars
  PROVE  RefsInv'
<1>1. /\ home \in [Tab -> Window \cup {Closed}] /\ document \in [Tab -> Nat]
      /\ revision \in [Tab -> Nat] /\ refs \in [Tab -> RefState]
  BY DEF RefsInv, PlacesOK
<1>2. \A h \in handles : h.tab \in Tab /\ h.document \in Nat /\ h.revision \in Nat
                           /\ h.generation \in Nat /\ HandleOK(h)
  BY HandleFields DEF RefsInv
<1>3. \A t \in Tab : refs[t] \in RefState /\ refs[t].generation \in Nat
  BY <1>1 DEF RefState
<1>4. CASE UNCHANGED <<home, document, revision, refs, handles>>
  BY <1>1, <1>4, HandlesKept DEF HandleOK, RefsInv
<1>5. CASE \E t \in Tab, w \in Window : Moved(t, w)
  <2>1. PICK t \in Tab, w \in Window : Moved(t, w)
    BY <1>5
  <2>2. /\ home[t] # Closed /\ home' = [home EXCEPT ![t] = w]
        /\ UNCHANGED <<document, revision, refs, handles>>
    BY <2>1 DEF Moved, agent
  <2>3. \A h \in handles : HandleOK(h)'
    BY <1>1, <1>2, <2>2 DEF HandleOK
  <2>4. QED
    BY <1>1, <2>2, <2>3, HandlesKept
<1>6. CASE \E t \in Tab : Gone(t)
  <2>1. PICK t \in Tab : Gone(t)
    BY <1>6
  <2>2. /\ home' = [home EXCEPT ![t] = Closed] /\ refs' = [refs EXCEPT ![t] = NoRefs]
        /\ UNCHANGED <<document, revision, handles>>
    BY <2>1 DEF Gone
  <2>3. \A h \in handles : HandleOK(h)'
    BY <1>1, <1>2, <2>2 DEF HandleOK
  <2>4. refs' \in [Tab -> RefState]
    BY <1>1, <2>2, NoRefsAre
  <2>5. QED
    BY <2>2, <2>3, <2>4, HandlesKept
<1>7. CASE \E t \in Tab, c \in Contents : Committed(t, c)
  <2>1. PICK t \in Tab, c \in Contents : Committed(t, c)
    BY <1>7
  <2>2. /\ document' = [document EXCEPT ![t] = @ + 1] /\ revision' = [revision EXCEPT ![t] = 0]
        /\ refs' = [refs EXCEPT ![t] = NoRefs] /\ UNCHANGED <<home, handles>>
    BY <2>1 DEF Committed
  <2>3. \A h \in handles : HandleOK(h)'
    BY <1>1, <1>2, <2>2 DEF HandleOK
  <2>4. refs' \in [Tab -> RefState]
    BY <1>1, <2>2, NoRefsAre
  <2>5. QED
    BY <2>2, <2>3, <2>4, HandlesKept
<1>8. CASE \E t \in Tab, c \in Contents : Altered(t, c) \/ Marked(t)
  <2>1. PICK t \in Tab, c \in Contents : Altered(t, c) \/ Marked(t)
    BY <1>8
  <2>2. /\ refs' = [refs EXCEPT ![t] = Observed(@)] /\ UNCHANGED <<home, document, handles>>
        /\ \A u \in Tab : u # t => revision'[u] = revision[u]
    BY <1>1, <2>1 DEF Altered, Marked
  <2>3. /\ refs' \in [Tab -> RefState] /\ \A u \in Tab : u # t => refs'[u] = refs[u]
        /\ refs'[t].generation = IF refs[t].generation = 0 THEN 0 ELSE refs[t].generation + 1
    BY <1>1, <2>2, ObservedIs
  <2>4. ASSUME NEW h \in handles
        PROVE  HandleOK(h)'
    <3>1. CASE h.tab = t
      BY <1>1, <1>2, <1>3, <2>2, <2>3, <3>1 DEF HandleOK
    <3>2. CASE h.tab # t
      BY <1>2, <2>2, <2>3, <3>2 DEF HandleOK
    <3>3. QED
      BY <3>1, <3>2
  <2>5. QED
    BY <2>2, <2>3, <2>4, HandlesKept
<1>9. CASE \E t \in Tab : Snapshot(t)
  BY <1>9, SnapshotKeepsRefs
<1>10. (\E t \in Tab, text \in Query : Asks(t, text)) \/ Quiet
         => UNCHANGED <<home, document, revision, refs, handles>>
  BY DEF Asks, pages, Quiet, agent
<1>11. (\E p \in DOMAIN waits : WaitProgress(p))
         => UNCHANGED <<home, document, revision, refs, handles>>
  BY DEF WaitProgress, WaitFinished, WaitCheck, Expire, pages
<1>12. FetchProgress => UNCHANGED <<home, document, revision, refs, handles>>
  BY DEF FetchProgress, SendReady, ReadReady, Probed, ReadFails, pages
<1>13. Contents # {}
  BY PagesAssumption
<1>14. QED
  BY <1>4, <1>5, <1>6, <1>7, <1>8, <1>9, <1>10, <1>11, <1>12, <1>13, StepKinds

(* Whatever the pages, the find bars and the agent do: while a tab has the *)
(* same document, a reference that is found is one of its present elements.*)
THEOREM ReferencesStay == Spec => []RefsAreNotRetargeted
<1>1. RefsInv => RefsAreNotRetargeted
  BY DEF RefsInv, HandleOK, RefsAreNotRetargeted, Resolves
<1>2. RefsInv /\ [Next]_vars => RefsInv'
  BY RefsStepKeeps
<1>3. QED
  BY RefsInitially, <1>1, <1>2, PTL DEF Spec, Init
-----------------------------------------------------------------------------
(* page.wait: while a wait is not answered and its tab is open, what would *)
(* be seen now is among what was to be seen since the request.             *)

Unanswered(w) == w.status \in {"asked", "asleep"}

SeesNow(w) ==
  home[w.tab] # Closed =>
    /\ Present(w.tab, w.text) => TRUE \in w.seen
    /\ ~Present(w.tab, w.text) => FALSE \in w.seen

Honest(w) ==
  /\ w.status = "true" => TRUE \in w.seen
  /\ w.status = "timeout" => FALSE \in w.seen

WaitsInv ==
  /\ PlacesOK
  /\ waits \in Seq(WaitState)
  /\ \A p \in DOMAIN waits : Honest(waits[p]) /\ (Unanswered(waits[p]) => SeesNow(waits[p]))

LEMMA WaitsInitially ==
  PagesInit /\ AgentInit => WaitsInv
BY PlacesInitially DEF AgentInit, WaitsInv

(* A wait with another status; one whose time is out; one that has seen.   *)
Ended(w, status) == [w EXCEPT !.status = status]
Late(w) == [w EXCEPT !.expired = TRUE]
Seeing(w, present) == [w EXCEPT !.seen = @ \cup {present}]

LEMMA EndedIs ==
  ASSUME NEW w \in WaitState, NEW status \in {"asked", "asleep", "true", "timeout", "error", "lost"}
  PROVE  LET v == Ended(w, status)
         IN  /\ v \in WaitState /\ v.status = status /\ v.tab = w.tab /\ v.text = w.text
             /\ v.seen = w.seen
BY DEF Ended, WaitState

LEMMA LateIs ==
  ASSUME NEW w \in WaitState
  PROVE  /\ Late(w) \in WaitState /\ Late(w).status = w.status /\ Late(w).tab = w.tab
         /\ Late(w).text = w.text /\ Late(w).seen = w.seen
BY DEF Late, WaitState

LEMMA SeeingIs ==
  ASSUME NEW w \in WaitState, NEW present \in BOOLEAN
  PROVE  LET v == Seeing(w, present)
         IN  /\ v \in WaitState /\ v.status = w.status /\ v.tab = w.tab /\ v.text = w.text
             /\ v.seen = w.seen \cup {present}
BY DEF Seeing, WaitState

LEMMA WaitFields ==
  ASSUME NEW w \in WaitState
  PROVE  w.tab \in Tab /\ w.text \in Query /\ w.seen \subseteq BOOLEAN
BY DEF WaitState

(* One wait becomes another.                                               *)
LEMMA OneWait ==
  ASSUME waits \in Seq(WaitState), NEW p \in DOMAIN waits, NEW v \in WaitState,
         waits' = [waits EXCEPT ![p] = v]
  PROVE  /\ waits' \in Seq(WaitState) /\ DOMAIN waits' = DOMAIN waits /\ waits'[p] = v
         /\ \A q \in DOMAIN waits : q # p => waits'[q] = waits[q]
OBVIOUS

(* What holds of the waits when the page that one asks is not changed.     *)
LEMMA OneWaitKeeps ==
  ASSUME WaitsInv, [Next]_vars, UNCHANGED <<home, content>>,
         NEW p \in DOMAIN waits, NEW v \in WaitState, waits' = [waits EXCEPT ![p] = v],
         Honest(v), Unanswered(v) => SeesNow(v)
  PROVE  WaitsInv'
<1>1. /\ waits' \in Seq(WaitState) /\ DOMAIN waits' = DOMAIN waits /\ waits'[p] = v
      /\ \A q \in DOMAIN waits : q # p => waits'[q] = waits[q]
  BY OneWait DEF WaitsInv
<1>2. ASSUME NEW q \in DOMAIN waits
      PROVE  Honest(waits'[q]) /\ (Unanswered(waits'[q]) => SeesNow(waits'[q]))
  BY <1>1 DEF WaitsInv
<1>3. \A w : SeesNow(w) => SeesNow(w)'
  BY DEF SeesNow, Present
<1>4. ASSUME NEW q \in DOMAIN waits'
      PROVE  Honest(waits[q])' /\ (Unanswered(waits[q])' => SeesNow(waits[q])')
  BY <1>1, <1>2 DEF Honest, Unanswered, SeesNow, Present
<1>5. QED
  BY <1>1, <1>4, PlacesKept DEF WaitsInv

LEMMA WaitProgressKeeps ==
  ASSUME WaitsInv, NEW p \in DOMAIN waits, WaitProgress(p), [Next]_vars
  PROVE  WaitsInv'
<1>1. waits \in Seq(WaitState) /\ waits[p] \in WaitState
  BY DEF WaitsInv
<1>2. Honest(waits[p]) /\ (Unanswered(waits[p]) => SeesNow(waits[p]))
  BY DEF WaitsInv
<1>3. UNCHANGED <<home, content>>
  BY DEF WaitProgress, WaitFinished, WaitCheck, Expire, pages
<1>4. ASSUME NEW status \in {"asked", "asleep", "true", "timeout", "error", "lost"},
             Ends(p, status), Unanswered(waits[p]),
             status = "true" => TRUE \in waits[p].seen,
             status = "timeout" => FALSE \in waits[p].seen
      PROVE  WaitsInv'
  <2>1. waits' = [waits EXCEPT ![p] = Ended(waits[p], status)]
    BY <1>1, <1>4 DEF Ends, Ended
  <2>2. PICK v \in WaitState : v = Ended(waits[p], status)
    BY <1>1, EndedIs
  <2>3. /\ v.status = status /\ v.tab = waits[p].tab /\ v.text = waits[p].text
        /\ v.seen = waits[p].seen
    BY <1>1, <2>2, EndedIs
  <2>4. Honest(v) /\ SeesNow(v)
    BY <1>2, <1>4, <2>3 DEF Honest, SeesNow
  <2>5. QED
    BY <1>3, <2>1, <2>2, <2>4, OneWaitKeeps
<1>5. CASE Expire(p)
  <2>1. waits' = [waits EXCEPT ![p] = Late(waits[p])]
    BY <1>1, <1>5 DEF Expire, Late
  <2>2. PICK v \in WaitState : v = Late(waits[p])
    BY <1>1, LateIs
  <2>3. /\ v.status = waits[p].status /\ v.tab = waits[p].tab /\ v.text = waits[p].text
        /\ v.seen = waits[p].seen
    BY <1>1, <2>2, LateIs
  <2>4. Honest(v) /\ (Unanswered(v) => SeesNow(v))
    BY <1>2, <2>3 DEF Honest, SeesNow, Unanswered
  <2>5. QED
    BY <1>3, <2>1, <2>2, <2>4, OneWaitKeeps
<1>6. CASE WaitCheck(p)
  BY <1>4, <1>6 DEF WaitCheck, Unanswered
<1>7. CASE WaitFinished(p, TRUE)
  BY <1>4, <1>7 DEF WaitFinished, Unanswered
<1>8. CASE WaitFinished(p, FALSE)
  <2> DEFINE present == Present(waits[p].tab, waits[p].text)
  <2>1. Unanswered(waits[p]) /\ Ends(p, Outcome(p, present)) /\ home[waits[p].tab] # Closed
    BY <1>8 DEF WaitFinished, Unanswered
  <2>2. (present => TRUE \in waits[p].seen) /\ (~present => FALSE \in waits[p].seen)
    BY <1>2, <2>1 DEF SeesNow
  <2> HIDE DEF present
  <2>3. /\ Outcome(p, present) \in {"true", "timeout", "asleep"}
        /\ Outcome(p, present) = "true" => present
        /\ Outcome(p, present) = "timeout" => ~present
    BY DEF Outcome
  <2>4. QED
    BY <1>4, <2>1, <2>2, <2>3
<1>9. QED
  BY <1>5, <1>6, <1>7, <1>8 DEF WaitProgress

(* Where the page of a wait changes, the wait sees it.                     *)
LEMMA WatchedKeeps ==
  ASSUME WaitsInv, [Next]_vars, Watched, UNCHANGED home
  PROVE  WaitsInv'
<1>1. waits \in Seq(WaitState) /\ DOMAIN waits = 1..Len(waits) /\ Len(waits) \in Nat
  BY DEF WaitsInv
<1>2. PlacesOK'
  BY PlacesKept DEF WaitsInv
<1>3. waits' = [p \in 1..Len(waits) |->
                  IF Unanswered(waits[p]) /\ home[waits[p].tab] # Closed
                  THEN Seeing(waits[p], content'[waits[p].tab][waits[p].text] > 0)
                  ELSE waits[p]]
  BY <1>1 DEF Watched, Pending, Unanswered, Seeing
<1>4. ASSUME NEW p \in 1..Len(waits)
      PROVE  /\ waits'[p] \in WaitState /\ Honest(waits'[p])
             /\ Unanswered(waits'[p]) => SeesNow(waits[p])'
  <2> DEFINE present == content'[waits[p].tab][waits[p].text] > 0
  <2>1. waits[p] \in WaitState /\ Honest(waits[p])
    BY <1>1 DEF WaitsInv
  <2>2. present \in BOOLEAN /\ (present => present = TRUE) /\ (~present => present = FALSE)
    OBVIOUS
  <2> HIDE DEF present
  <2>3. CASE Unanswered(waits[p]) /\ home[waits[p].tab] # Closed
    <3>1. waits'[p] = Seeing(waits[p], present)
      BY <1>3, <2>3 DEF present
    <3>2. /\ waits'[p] \in WaitState /\ waits'[p].status = waits[p].status
          /\ waits'[p].tab = waits[p].tab /\ waits'[p].text = waits[p].text
          /\ waits'[p].seen = waits[p].seen \cup {present}
      BY <2>1, <2>2, <3>1, SeeingIs
    <3>3. Honest(waits'[p])
      BY <2>1, <3>2 DEF Honest
    <3>4. (present => TRUE \in waits'[p].seen) /\ (~present => FALSE \in waits'[p].seen)
      BY <2>2, <3>2
    <3>5. SeesNow(waits[p])'
      BY <3>2, <3>4 DEF SeesNow, Present, present
    <3>6. QED
      BY <3>2, <3>3, <3>5
  <2>4. CASE ~(Unanswered(waits[p]) /\ home[waits[p].tab] # Closed)
    <3>1. waits'[p] = waits[p]
      BY <1>3, <2>4
    <3>2. Unanswered(waits'[p]) => SeesNow(waits[p])'
      BY <2>4, <3>1 DEF SeesNow
    <3>3. QED
      BY <2>1, <3>1, <3>2
  <2>5. QED
    BY <2>3, <2>4
<1>5. DOMAIN waits' = 1..Len(waits) /\ waits' \in Seq(WaitState)
  BY <1>1, <1>3, <1>4
<1>6. \A p \in DOMAIN waits' : Honest(waits[p])' /\ (Unanswered(waits[p])' => SeesNow(waits[p])')
  BY <1>4, <1>5 DEF Honest, Unanswered
<1>7. QED
  BY <1>2, <1>5, <1>6 DEF WaitsInv

LEMMA AsksKeeps ==
  ASSUME WaitsInv, NEW t \in Tab, NEW text \in Query, Asks(t, text), [Next]_vars
  PROVE  WaitsInv'
<1> DEFINE new == [status |-> "asked", tab |-> t, text |-> text,
                   expired |-> FALSE, seen |-> {Present(t, text)}]
<1>1. /\ waits' = Append(waits, new) /\ waits \in Seq(WaitState) /\ UNCHANGED <<home, content>>
      /\ PlacesOK'
  BY PlacesKept DEF Asks, pages, WaitsInv
<1>2. /\ Present(t, text) \in BOOLEAN
      /\ Present(t, text) => Present(t, text) = TRUE
      /\ ~Present(t, text) => Present(t, text) = FALSE
  BY DEF Present
<1>3. new \in WaitState /\ new.status = "asked" /\ new.tab = t /\ new.text = text
      /\ new.seen = {Present(t, text)}
  BY <1>2 DEF WaitState
<1> HIDE DEF new
<1>4. PICK v \in WaitState : v = new
  BY <1>3
<1>5. Honest(v) /\ SeesNow(v)
  BY <1>2, <1>3, <1>4 DEF Honest, SeesNow
<1>6. /\ waits' \in Seq(WaitState) /\ DOMAIN waits' = 1..(Len(waits) + 1)
      /\ DOMAIN waits = 1..Len(waits) /\ Len(waits) \in Nat
      /\ waits'[Len(waits) + 1] = v
      /\ \A p \in DOMAIN waits : waits'[p] = waits[p]
  BY <1>1, <1>4
<1>7. ASSUME NEW p \in DOMAIN waits'
      PROVE  Honest(waits'[p]) /\ (Unanswered(waits'[p]) => SeesNow(waits'[p]))
  <2>1. p \in DOMAIN waits \/ p = Len(waits) + 1
    BY <1>6
  <2>2. QED
    BY <1>5, <1>6, <2>1 DEF WaitsInv
<1>8. \A p \in DOMAIN waits' : Honest(waits[p])' /\ (Unanswered(waits[p])' => SeesNow(waits[p])')
  BY <1>1, <1>7 DEF Honest, Unanswered, SeesNow, Present
<1>9. QED
  BY <1>1, <1>6, <1>8 DEF WaitsInv

LEMMA WaitsStepKeeps ==
  ASSUME WaitsInv, [Next]_vars
  PROVE  WaitsInv'
<1>1. home \in [Tab -> Window \cup {Closed}] /\ waits \in Seq(WaitState)
  BY DEF WaitsInv, PlacesOK
<1>2. CASE /\ UNCHANGED <<content, waits>>
           /\ \A t \in Tab : home'[t] # Closed => home[t] # Closed
  <2>1. ASSUME NEW p \in DOMAIN waits
        PROVE  Honest(waits[p])' /\ (Unanswered(waits[p])' => SeesNow(waits[p])')
    <3>1. waits[p] \in WaitState /\ Honest(waits[p])
            /\ (Unanswered(waits[p]) => SeesNow(waits[p]))
      BY DEF WaitsInv
    <3>2. waits[p].tab \in Tab
      BY <3>1, WaitFields
    <3>3. QED
      BY <1>2, <3>1, <3>2 DEF Honest, Unanswered, SeesNow, Present
  <2>2. QED
    BY <1>1, <1>2, <2>1, PlacesKept DEF WaitsInv
<1>3. CASE Watched /\ UNCHANGED home
  BY <1>3, WatchedKeeps
<1>4. CASE \E t \in Tab, text \in Query : Asks(t, text)
  BY <1>4, AsksKeeps
<1>5. CASE \E p \in DOMAIN waits : WaitProgress(p)
  BY <1>5, WaitProgressKeeps
<1>6. (\E t \in Tab, w \in Window : Moved(t, w)) \/ (\E t \in Tab : Gone(t))
        => /\ UNCHANGED <<content, waits>>
           /\ \A t \in Tab : home'[t] # Closed => home[t] # Closed
  BY <1>1 DEF Moved, Gone, agent
<1>7. (\E t \in Tab : Marked(t)) \/ (\E t \in Tab : Snapshot(t)) \/ Quiet \/ FetchProgress
        => UNCHANGED <<home, content, waits>>
  BY DEF Marked, Snapshot, Quiet, FetchProgress, SendReady, ReadReady, Probed, ReadFails,
         pages, agent
<1>8. (\E t \in Tab, c \in Contents : Committed(t, c))
        \/ (\E t \in Tab, c \in Contents : Altered(t, c)) => Watched /\ UNCHANGED home
  BY DEF Committed, Altered
<1>9. QED
  BY <1>2, <1>3, <1>4, <1>5, <1>6, <1>7, <1>8, StepKinds

(* Whatever happens to the pages between two looks: "true" and "timeout"   *)
(* are answers that were right at some time since the request.             *)
THEOREM AnswersAreHonest == Spec => []WaitsAreHonest
<1>1. WaitsInv => WaitsAreHonest
  BY DEF WaitsInv, Honest, WaitsAreHonest
<1>2. WaitsInv /\ [Next]_vars => WaitsInv'
  BY WaitsStepKeeps
<1>3. QED
  BY WaitsInitially, <1>1, <1>2, PTL DEF Spec, Init
-----------------------------------------------------------------------------
(* The find bars.  A window whose bar has looked through the document it   *)
(* stands over is followed from the search that it has sent to the number  *)
(* that it shows: `b` is its bar, `out` and `in` are what its tab's page   *)
(* was told and has answered, `marks` is what the scripts have left in the *)
(* document, `count` is how often the bar's text is in it, and `lied` says *)
(* that the bar took the count of another tab.                             *)

(* The search with this window's number, or the answer to it.              *)
Own(w, generation, m) ==
  m.kind \in {"search", "answer"} /\ m.window = w /\ m.generation = generation

(* The search is still to be run, and is the last thing that the page was  *)
(* told.                                                                   *)
Awaited(w, b, out, in) ==
  /\ ~b.custom
  /\ out # <<>> /\ out[Len(out)] = Search(w, b.generation, b.query)
  /\ \A i \in 1..(Len(out) - 1) : ~Own(w, b.generation, out[i])
  /\ \A i \in 1..Len(in) : ~Own(w, b.generation, in[i])

(* It has run, and its answer is the last to come.                         *)
Run(w, b, out, in, marks, count) ==
  /\ ~b.custom
  /\ out = <<>> /\ in # <<>>
  /\ Own(w, b.generation, in[Len(in)])
  /\ \A i \in 1..(Len(in) - 1) : ~Own(w, b.generation, in[i])
  /\ in[Len(in)].count >= 0 =>
       /\ in[Len(in)].count = count
       /\ marks.query = b.query /\ marks.matches = count /\ marks.index = 0

(* The way of the current mark, by the steps that are still to be made, to *)
(* the one that the bar shows.                                             *)
Leads(way, out, marks, b) ==
  /\ way \in [0..Len(out) -> 0..(b.total - 1)]
  /\ way[0] = marks.index /\ way[Len(out)] = b.current - 1
  /\ \A i \in 1..Len(out) : way[i] = (way[i - 1] + out[i].by + b.total) % b.total

(* The answer was taken: the marks are those of the bar's text, but for    *)
(* the steps that are still to be made.                                    *)
MarksShown(b, out, in, marks, count) ==
  /\ b.custom
  /\ in = <<>> /\ \A i \in 1..Len(out) : out[i].kind = "step"
  /\ b.total = count /\ marks.query = b.query /\ marks.matches = count
  /\ count = 0 => b.current = 0
  /\ count > 0 => /\ b.current \in 1..count
                  /\ \E way \in [0..Len(out) -> 0..(count - 1)] : Leads(way, out, marks, b)

(* The script has failed, and WebKit counts, or its count is to be taken.  *)
Counts(b, out, in, count) ==
  /\ ~b.custom
  /\ \/ out = <<Count(b.query)>> /\ in = <<>>
     \/ out = <<>> /\ in = <<Counted(count)>>

(* WebKit's count was taken, and perhaps that of another tab since.        *)
CountShown(b, out, in, count, lied) ==
  /\ ~b.custom /\ out = <<>> /\ in = <<>>
  /\ ~lied => b.total = count /\ b.current <= b.total /\ (b.current = 0 <=> b.total = 0)

Followed(w, b, out, in, marks, count, lied) ==
  \/ Awaited(w, b, out, in) \/ Run(w, b, out, in, marks, count)
  \/ MarksShown(b, out, in, marks, count)
  \/ Counts(b, out, in, count) \/ CountShown(b, out, in, count, lied)

(* No search is of a later generation than its window's bar.               *)
NotAhead ==
  \A t \in Tab :
    /\ \A i \in 1..Len(toPage[t]) : toPage[t][i].kind = "search" =>
         toPage[t][i].generation <= bar[toPage[t][i].window].generation
    /\ \A i \in 1..Len(toShell[t]) : toShell[t][i].kind = "answer" =>
         toShell[t][i].generation <= bar[toShell[t][i].window].generation

FollowsSearch(w) ==
  LET t == view[w] IN
  fresh[w] /\ bar[w].query # NoText =>
    Followed(w, bar[w], toPage[t], toShell[t], found[t], content[t][bar[w].query], w \in misled)

FindTypes ==
  /\ home \in [Tab -> Window \cup {Closed}]
  /\ view \in [Window -> Tab \cup {Closed}]
  /\ content \in [Tab -> Contents]
  /\ FindTypeOK

(* A document that was looked through is shown by a bar that is there, and *)
(* by no other window.                                                     *)
FindInv ==
  /\ FindTypes
  /\ \A w \in Window : view[w] # Closed => home[view[w]] = w
  /\ \A w \in Window : fresh[w] => bar[w].visible /\ view[w] # Closed
  /\ NotAhead
  /\ \A w \in Window : FollowsSearch(w)

-----------------------------------------------------------------------------
(* Places of matches go round, and messages are queued.                    *)

LEMMA Around ==
  ASSUME NEW n \in Nat \ {0}, NEW c \in 1..n
  PROVE  /\ (c - 1 + 1 + n) % n = (c % n) + 1 - 1
         /\ c % n \in 0..(n - 1)
         /\ c <= 1 => (c - 1 + (-1) + n) % n = n - 1
         /\ c > 1 => (c - 1 + (-1) + n) % n = c - 2
<1>1. c < n => c % n = c
  BY SMT
<1>2. n % n = 0
  BY SMT
<1>3. \A a \in 0..(n - 1) : a % n = a /\ (a + n) % n = a
  BY SMT
<1>4. (n + n) % n = 0
  BY SMT
<1> QED
  BY <1>1, <1>2, <1>3, <1>4, SMT

LEMMA QueueHead ==
  ASSUME NEW S, NEW s \in Seq(S), s # <<>>
  PROVE  /\ Len(s) \in Nat \ {0} /\ Head(s) = s[1] /\ Head(s) \in S
         /\ Tail(s) \in Seq(S) /\ Len(Tail(s)) = Len(s) - 1
         /\ \A i \in 1..(Len(s) - 1) : Tail(s)[i] = s[i + 1]
         /\ Len(s) = 1 => Tail(s) = <<>>
<1>1. Len(s) \in Nat \ {0} /\ Head(s) = s[1] /\ Head(s) \in S
      /\ Tail(s) \in Seq(S) /\ Len(Tail(s)) = Len(s) - 1
      /\ \A i \in 1..(Len(s) - 1) : Tail(s)[i] = s[i + 1]
  BY EmptySeq, ElementOfSeq
<1>2. Len(s) = 1 => Tail(s) = <<>>
  <2> DEFINE rest == Tail(s)
  <2>1. rest \in Seq(S) /\ Len(rest) = Len(s) - 1
    BY <1>1
  <2> HIDE DEF rest
  <2>2. Len(s) = 1 => rest = <<>>
    BY <1>1, <2>1, EmptySeq
  <2> QED
    BY <2>2 DEF rest
<1> QED
  BY <1>1, <1>2

LEMMA QueueEnd ==
  ASSUME NEW S, NEW s \in Seq(S), NEW m \in S
  PROVE  /\ Append(s, m) \in Seq(S) /\ Len(s) \in Nat
         /\ Len(Append(s, m)) = Len(s) + 1 /\ Append(s, m) # <<>>
         /\ Append(s, m)[Len(s) + 1] = m
         /\ \A i \in 1..Len(s) : Append(s, m)[i] = s[i]
         /\ s \o <<m>> = Append(s, m) /\ s \o <<>> = s
         /\ s = <<>> => Append(s, m) = <<m>>
<1>1. /\ Append(s, m) \in Seq(S) /\ Len(s) \in Nat
      /\ Len(Append(s, m)) = Len(s) + 1 /\ Append(s, m) # <<>>
      /\ Append(s, m)[Len(s) + 1] = m
      /\ \A i \in 1..Len(s) : Append(s, m)[i] = s[i]
  BY AppendProperties
<1>2. s \o <<m>> = Append(s, m)
  BY AppendIsConcat
<1>3. s \o <<>> = s
  BY ConcatEmptySeq
<1>4. s = <<>> => Append(s, m) = <<m>>
  OBVIOUS
<1> QED
  BY <1>1, <1>2, <1>3, <1>4

LEMMA QueueJoin ==
  ASSUME NEW S, NEW s \in Seq(S), NEW more \in Seq(S)
  PROVE  /\ s \o more \in Seq(S) /\ Len(s) \in Nat /\ Len(more) \in Nat
         /\ Len(s \o more) = Len(s) + Len(more)
         /\ \A i \in 1..Len(s) : (s \o more)[i] = s[i]
         /\ \A i \in 1..Len(more) : (s \o more)[Len(s) + i] = more[i]
<1>1. /\ s \o more \in Seq(S) /\ Len(s) \in Nat /\ Len(more) \in Nat
      /\ Len(s \o more) = Len(s) + Len(more)
  OBVIOUS
<1>2. \A i \in 1..Len(s) : (s \o more)[i] = s[i]
  OBVIOUS
<1>3. \A i \in 1..Len(more) : (s \o more)[Len(s) + i] = more[i]
  OBVIOUS
<1> QED
  BY <1>1, <1>2, <1>3

-----------------------------------------------------------------------------
(* A search is sent.                                                       *)

LEMMA ChangedFacts ==
  ASSUME NEW w \in Window, NEW b \in Bar
  PROVE  /\ Changed(b) \in Bar /\ Changed(b).visible = b.visible /\ Changed(b).query = b.query
         /\ Changed(b).generation = b.generation + 1 /\ ~Changed(b).custom
         /\ Told(w, b) \in PageMessage
         /\ Told(w, b).kind = "search" =>
              Told(w, b).window = w /\ Told(w, b).generation = b.generation + 1
         /\ b.query # NoText => Told(w, b) = Search(w, b.generation + 1, b.query)
<1> DEFINE numbered == [b EXCEPT !.generation = @ + 1]
           next == [numbered EXCEPT !.custom = FALSE]
           noTotal == [next EXCEPT !.total = 0]
           none == [noTotal EXCEPT !.current = 0]
<1>1. /\ numbered \in Bar /\ numbered.visible = b.visible /\ numbered.query = b.query
      /\ numbered.generation = b.generation + 1
  BY DEF Bar
<1> HIDE DEF numbered
<1>2. /\ next \in Bar /\ next.visible = b.visible /\ next.query = b.query
      /\ next.generation = b.generation + 1 /\ next.custom = FALSE
  BY <1>1 DEF Bar
<1> HIDE DEF next
<1>3. /\ noTotal \in Bar /\ noTotal.visible = b.visible /\ noTotal.query = b.query
      /\ noTotal.generation = b.generation + 1 /\ noTotal.custom = FALSE
  BY <1>2 DEF Bar
<1> HIDE DEF noTotal
<1>4. /\ none \in Bar /\ none.visible = b.visible /\ none.query = b.query
      /\ none.generation = b.generation + 1 /\ none.custom = FALSE
  BY <1>3 DEF Bar
<1> HIDE DEF none
<1>5. Changed(b) = IF b.query = NoText THEN none ELSE next
  BY DEF Changed, none, noTotal, next, numbered
<1>6. b.generation + 1 \in Nat /\ b.query \in Query \cup {NoText}
  BY DEF Bar
<1>7. CASE b.query = NoText
  <2>1. Told(w, b) = [kind |-> "clear", generation |-> b.generation + 1]
    BY <1>7 DEF Told, Clear
  <2>2. [kind |-> "clear", generation |-> b.generation + 1] \in PageMessage
    BY <1>6 DEF PageMessage
  <2>3. Told(w, b).kind = "clear"
    BY <2>1
  <2> QED
    BY <1>4, <1>5, <1>7, <2>1, <2>2, <2>3
<1>8. CASE b.query # NoText
  <2>1. Told(w, b) = Search(w, b.generation + 1, b.query)
    BY <1>8 DEF Told
  <2>2. /\ Search(w, b.generation + 1, b.query) \in PageMessage
        /\ Search(w, b.generation + 1, b.query).window = w
        /\ Search(w, b.generation + 1, b.query).generation = b.generation + 1
    BY <1>6, <1>8 DEF PageMessage, Search
  <2> QED
    BY <1>2, <1>5, <1>8, <2>1, <2>2
<1> QED
  BY <1>7, <1>8

(* A search that has just been sent is the latest of its window.           *)
LEMMA AskedIsAwaited ==
  ASSUME NEW w \in Window, NEW b \in Bar, b.query # NoText,
         NEW out \in Seq(PageMessage), NEW in \in Seq(ShellMessage),
         \A i \in 1..Len(out) : out[i].kind = "search" /\ out[i].window = w => out[i].generation <= b.generation,
         \A i \in 1..Len(in) : in[i].kind = "answer" /\ in[i].window = w => in[i].generation <= b.generation
  PROVE  Awaited(w, Changed(b), Append(out, Told(w, b)), in)
<1> DEFINE m == Told(w, b)
           c == Changed(b)
<1>1. c \in Bar /\ c.query = b.query /\ c.generation = b.generation + 1 /\ ~c.custom
      /\ m \in PageMessage /\ m = Search(w, c.generation, c.query)
  BY ChangedFacts
<1>2. b.generation \in Nat
  BY DEF Bar
<1> HIDE DEF m, c
<1>3. /\ Len(Append(out, m)) = Len(out) + 1 /\ Append(out, m) # <<>> /\ Len(out) \in Nat
      /\ Append(out, m)[Len(out) + 1] = m
      /\ \A i \in 1..Len(out) : Append(out, m)[i] = out[i]
  BY <1>1, QueueEnd
<1>4. \A i \in 1..Len(out) : ~Own(w, c.generation, out[i])
  <2> TAKE i \in 1..Len(out)
  <2>1. out[i] \in PageMessage
    OBVIOUS
  <2> QED
    BY <1>1, <1>2, <2>1 DEF Own, PageMessage
<1>5. \A i \in 1..Len(in) : ~Own(w, c.generation, in[i])
  <2> TAKE i \in 1..Len(in)
  <2>1. in[i] \in ShellMessage
    OBVIOUS
  <2> QED
    BY <1>1, <1>2, <2>1 DEF Own, ShellMessage, Unheard
<1>6. Awaited(w, c, Append(out, m), in)
  BY <1>1, <1>3, <1>4, <1>5 DEF Awaited
<1> QED
  BY <1>6 DEF m, c

(* What a window is shown is followed as long as nothing happens to it.    *)
LEMMA Untouched ==
  ASSUME NEW w \in Window, FollowsSearch(w),
         fresh'[w] =>
           /\ fresh[w] /\ view'[w] = view[w] /\ bar'[w] = bar[w]
           /\ toPage'[view[w]] = toPage[view[w]] /\ toShell'[view[w]] = toShell[view[w]]
           /\ found'[view[w]] = found[view[w]] /\ content'[view[w]] = content[view[w]]
           /\ w \in misled' <=> w \in misled
  PROVE  FollowsSearch(w)'
<1> SUFFICES ASSUME fresh'[w], bar'[w].query # NoText
             PROVE  Followed(w, bar'[w], toPage'[view'[w]], toShell'[view'[w]], found'[view'[w]],
                             content'[view'[w]][bar'[w].query], w \in misled')
  BY DEF FollowsSearch
<1>1. Followed(w, bar[w], toPage[view[w]], toShell[view[w]], found[view[w]],
               content[view[w]][bar[w].query], w \in misled)
  BY DEF FollowsSearch
<1>2. CASE w \in misled
  BY <1>1, <1>2 DEF Followed, CountShown
<1>3. CASE w \notin misled
  BY <1>1, <1>3 DEF Followed, CountShown
<1> QED
  BY <1>2, <1>3

LEMMA TypeOfSearch ==
  ASSUME FindInv, NEW w \in Window, fresh[w]
  PROVE  view[w] \in Tab /\ home[view[w]] = w /\ home[view[w]] # Closed
BY PagesAssumption DEF FindInv, FindTypes

LEMMA BarNumbers ==
  ASSUME FindInv
  PROVE  \A w \in Window : bar[w] \in Bar /\ bar[w].generation \in Nat
BY DEF FindInv, FindTypes, FindTypeOK, Bar

LEMMA Generations ==
  ASSUME FindInv, NEW w \in Window, NEW t \in Tab
  PROVE  /\ toPage[t] \in Seq(PageMessage) /\ toShell[t] \in Seq(ShellMessage) /\ bar[w] \in Bar
         /\ \A i \in 1..Len(toPage[t]) : toPage[t][i].kind = "search" /\ toPage[t][i].window = w =>
              toPage[t][i].generation <= bar[w].generation
         /\ \A i \in 1..Len(toShell[t]) : toShell[t][i].kind = "answer" /\ toShell[t][i].window = w =>
              toShell[t][i].generation <= bar[w].generation
BY DEF FindInv, FindTypes, FindTypeOK, NotAhead

(* A window whose tab is looked through again.                             *)
LEMMA Looked ==
  ASSUME FindInv, NEW w \in Window, NEW t \in Tab, NEW b \in Bar, b.generation = bar[w].generation,
         view'[w] = t, bar'[w] = Changed(b), toPage'[t] = Append(toPage[t], Told(w, b)),
         toShell'[t] = toShell[t]
  PROVE  FollowsSearch(w)'
<1> SUFFICES ASSUME bar'[w].query # NoText
             PROVE  Followed(w, bar'[w], toPage'[t], toShell'[t], found'[t],
                             content'[t][bar'[w].query], w \in misled')
  BY DEF FollowsSearch
<1>1. b.query # NoText
  BY ChangedFacts
<1>2. Awaited(w, Changed(b), Append(toPage[t], Told(w, b)), toShell[t])
  BY <1>1, AskedIsAwaited, Generations
<1> QED
  BY <1>2 DEF Followed

(* What is sent to a page, or answered by it, keeps to the generations.    *)
LEMMA GenerationsKept ==
  ASSUME FindInv, FindTypes',
         \A w \in Window : bar'[w].generation >= bar[w].generation,
         \A t \in Tab : \A i \in 1..Len(toPage'[t]) : toPage'[t][i].kind = "search" =>
            \/ \E j \in 1..Len(toPage[t]) : toPage'[t][i] = toPage[t][j]
            \/ toPage'[t][i].generation = bar'[toPage'[t][i].window].generation,
         \A t \in Tab : \A i \in 1..Len(toShell'[t]) : toShell'[t][i].kind = "answer" =>
            \/ \E j \in 1..Len(toShell[t]) : toShell'[t][i] = toShell[t][j]
            \/ \E j \in 1..Len(toPage[t]) :
                 /\ toPage[t][j].kind = "search" /\ toPage[t][j].window = toShell'[t][i].window
                 /\ toPage[t][j].generation = toShell'[t][i].generation
  PROVE  NotAhead'
<1>1. \A w \in Window : bar[w].generation \in Nat /\ bar'[w].generation \in Nat
  BY DEF FindInv, FindTypes, FindTypeOK, Bar
<1>2. \A m \in PageMessage : m.kind = "search" => m.window \in Window /\ m.generation \in Nat
  BY DEF PageMessage
<1>3. \A m \in ShellMessage : m.kind = "answer" => m.window \in Window /\ m.generation \in Nat
  BY DEF ShellMessage, Unheard
<1>4. ASSUME NEW t \in Tab, NEW i \in 1..Len(toPage'[t]), toPage'[t][i].kind = "search"
      PROVE  toPage'[t][i].generation <= bar'[toPage'[t][i].window].generation
  <2>1. toPage'[t] \in Seq(PageMessage) /\ toPage[t] \in Seq(PageMessage)
    BY DEF FindInv, FindTypes, FindTypeOK
  <2>2. toPage'[t][i] \in PageMessage
    BY <2>1
  <2>3. toPage'[t][i].window \in Window /\ toPage'[t][i].generation \in Nat
    BY <1>2, <1>4, <2>2
  <2>4. CASE toPage'[t][i].generation = bar'[toPage'[t][i].window].generation
    BY <1>1, <2>3, <2>4
  <2>5. CASE \E j \in 1..Len(toPage[t]) : toPage'[t][i] = toPage[t][j]
    <3>1. toPage'[t][i].generation <= bar[toPage'[t][i].window].generation
      BY <1>4, <2>5 DEF FindInv, NotAhead
    <3> QED
      BY <1>1, <2>3, <3>1
  <2> QED
    BY <1>4, <2>4, <2>5
<1>5. ASSUME NEW t \in Tab, NEW i \in 1..Len(toShell'[t]), toShell'[t][i].kind = "answer"
      PROVE  toShell'[t][i].generation <= bar'[toShell'[t][i].window].generation
  <2>1. toShell'[t] \in Seq(ShellMessage)
    BY DEF FindTypes, FindTypeOK
  <2>2. toShell'[t][i] \in ShellMessage
    BY <2>1
  <2>3. toShell'[t][i].window \in Window /\ toShell'[t][i].generation \in Nat
    BY <1>3, <1>5, <2>2
  <2>4. toShell'[t][i].generation <= bar[toShell'[t][i].window].generation
    <3>1. CASE \E j \in 1..Len(toShell[t]) : toShell'[t][i] = toShell[t][j]
      BY <1>5, <3>1 DEF FindInv, NotAhead
    <3>2. CASE \E j \in 1..Len(toPage[t]) :
                 /\ toPage[t][j].kind = "search" /\ toPage[t][j].window = toShell'[t][i].window
                 /\ toPage[t][j].generation = toShell'[t][i].generation
      BY <3>2 DEF FindInv, NotAhead
    <3> QED
      BY <1>5, <3>1, <3>2
  <2> QED
    BY <1>1, <2>3, <2>4
<1> QED
  BY <1>4, <1>5 DEF NotAhead

LEMMA LookAgainKeeps ==
  ASSUME FindInv, NEW ws \in SUBSET Window, LookAgain(ws),
         home' \in [Tab -> Window \cup {Closed}], view' \in [Window -> Tab \cup {Closed}],
         \A w \in Window : view'[w] # Closed => home'[view'[w]] = w,
         content' = content
  PROVE  FindInv'
<1> DEFINE looking == {w \in ws : bar[w].visible /\ view'[w] # Closed}
<1>1. \A w \in Window : bar[w] \in Bar
  BY DEF FindInv, FindTypes, FindTypeOK
<1>2. \A w \in Window : bar'[w] = IF w \in looking THEN Changed(bar[w]) ELSE bar[w]
  BY DEF LookAgain
<1>3. \A t \in Tab : toPage'[t] = IF \E w \in looking : view'[w] = t
                                  THEN Append(toPage[t], Told(home'[t], bar[home'[t]])) ELSE toPage[t]
  BY DEF LookAgain
<1>4. \A w \in Window : fresh'[w] = IF w \in looking THEN TRUE ELSE fresh[w] /\ view'[w] = view[w]
  BY DEF LookAgain
<1>5. \A w \in looking : w \in Window /\ bar[w].visible /\ view'[w] \in Tab /\ home'[view'[w]] = w
  OBVIOUS
<1> HIDE DEF looking
<1>6. bar' \in [Window -> Bar]
  BY <1>1, <1>2, <1>5, ChangedFacts DEF LookAgain
<1>7. UNCHANGED <<found, toShell, misled>>
  BY DEF LookAgain
<1>8. \A w \in looking : toPage'[view'[w]] = Append(toPage[view'[w]], Told(w, bar[w]))
  BY <1>3, <1>5
<1>9. ASSUME NEW t \in Tab
      PROVE  \/ toPage'[t] = toPage[t]
             \/ \E w \in looking : t = view'[w]
  BY <1>3
<1>10. toPage' \in [Tab -> Seq(PageMessage)]
  <2>1. ASSUME NEW t \in Tab PROVE toPage'[t] \in Seq(PageMessage)
    <3>1. toPage[t] \in Seq(PageMessage)
      BY DEF FindInv, FindTypes, FindTypeOK
    <3>2. ASSUME NEW w \in looking, t = view'[w] PROVE toPage'[t] \in Seq(PageMessage)
      <4>1. Told(w, bar[w]) \in PageMessage
        BY <1>1, <1>5, ChangedFacts
      <4>2. Append(toPage[t], Told(w, bar[w])) \in Seq(PageMessage)
        BY <3>1, <4>1, QueueEnd
      <4>3. toPage'[t] = Append(toPage[t], Told(w, bar[w]))
        BY <1>8, <3>2
      <4> QED
        BY <4>2, <4>3
    <3> QED
      BY <1>9, <3>1, <3>2
  <2>2. toPage' = [t \in Tab |-> toPage'[t]]
    BY DEF LookAgain
  <2> QED
    BY <2>1, <2>2
<1>11. FindTypes'
  <2>1. fresh' \in [Window -> BOOLEAN]
    BY <1>4 DEF LookAgain, FindInv, FindTypes, FindTypeOK
  <2> QED
    BY <1>6, <1>7, <1>10, <2>1 DEF FindInv, FindTypes, FindTypeOK
<1>12. NotAhead'
  <2>1. \A w \in Window : bar'[w].generation >= bar[w].generation
    BY <1>1, <1>2, ChangedFacts DEF Bar
  <2>2. ASSUME NEW t \in Tab, NEW i \in 1..Len(toPage'[t]), toPage'[t][i].kind = "search"
        PROVE  \/ \E j \in 1..Len(toPage[t]) : toPage'[t][i] = toPage[t][j]
               \/ toPage'[t][i].generation = bar'[toPage'[t][i].window].generation
    <3>1. CASE toPage'[t] = toPage[t]
      BY <3>1
    <3>2. ASSUME NEW w \in looking, t = view'[w]
          PROVE  \/ \E j \in 1..Len(toPage[t]) : toPage'[t][i] = toPage[t][j]
                 \/ toPage'[t][i].generation = bar'[toPage'[t][i].window].generation
      <4>1. toPage'[t] = Append(toPage[t], Told(w, bar[w])) /\ toPage[t] \in Seq(PageMessage)
        BY <1>8, <3>2 DEF FindInv, FindTypes, FindTypeOK
      <4>2. w \in Window /\ bar[w] \in Bar
        BY <1>1, <1>5
      <4>3. Told(w, bar[w]) \in PageMessage
            /\ (Told(w, bar[w]).kind = "search" =>
                  Told(w, bar[w]).window = w /\ Told(w, bar[w]).generation = bar'[w].generation)
        BY <1>2, <4>2, ChangedFacts
      <4>4. Len(toPage'[t]) = Len(toPage[t]) + 1 /\ Len(toPage[t]) \in Nat
            /\ toPage'[t][Len(toPage[t]) + 1] = Told(w, bar[w])
            /\ \A j \in 1..Len(toPage[t]) : toPage'[t][j] = toPage[t][j]
        BY <4>1, <4>3, QueueEnd
      <4>5. CASE i = Len(toPage[t]) + 1
        BY <2>2, <4>3, <4>4, <4>5
      <4>6. CASE i \in 1..Len(toPage[t])
        BY <4>4, <4>6
      <4> QED
        BY <4>4, <4>5, <4>6
    <3> QED
      BY <1>9, <3>1, <3>2
  <2> QED
    BY <1>7, <1>11, <2>1, <2>2, GenerationsKept
<1>13. \A w \in Window : fresh'[w] => bar'[w].visible /\ view'[w] # Closed
  <2> TAKE w \in Window
  <2>1. CASE w \in looking
    BY <1>1, <1>2, <1>5, <2>1, ChangedFacts, PagesAssumption
  <2>2. CASE w \notin looking
    BY <1>2, <1>4, <2>2 DEF FindInv
  <2> QED
    BY <2>1, <2>2
<1>14. ASSUME NEW w \in Window PROVE FollowsSearch(w)'
  <2>1. CASE w \in looking
    <3>1. bar[w] \in Bar /\ view'[w] \in Tab /\ bar'[w] = Changed(bar[w])
          /\ toPage'[view'[w]] = Append(toPage[view'[w]], Told(w, bar[w]))
          /\ toShell'[view'[w]] = toShell[view'[w]]
      BY <1>1, <1>2, <1>5, <1>7, <1>8, <2>1
    <3> QED
      BY <3>1, Looked
  <2>2. CASE w \notin looking
    <3>1. SUFFICES ASSUME fresh'[w]
                   PROVE  /\ fresh[w] /\ view'[w] = view[w] /\ bar'[w] = bar[w]
                          /\ toPage'[view[w]] = toPage[view[w]]
      BY <1>7, Untouched DEF FindInv
    <3>2. fresh[w] /\ view'[w] = view[w] /\ bar'[w] = bar[w]
      BY <1>2, <1>4, <2>2, <3>1
    <3>3. view[w] \in Tab /\ home'[view[w]] = w
      BY <3>2, TypeOfSearch, PagesAssumption
    <3>4. \A v \in looking : view'[v] # view[w]
      BY <1>5, <2>2, <3>3
    <3> QED
      BY <1>9, <3>2, <3>3, <3>4
  <2> QED
    BY <2>1, <2>2
<1> QED
  BY <1>11, <1>12, <1>13, <1>14 DEF FindInv

LEMMA SelectKeepsFind ==
  ASSUME FindInv, NEW t \in Tab, Select(t), FindSelected(t)
  PROVE  FindInv'
<1>1. home[t] \in Window
  BY DEF Select, FindInv, FindTypes
<1>2. view' = [view EXCEPT ![home[t]] = t] /\ home' = home /\ content' = content
  BY DEF Select
<1>3. \A w \in Window : view'[w] # Closed => home'[view'[w]] = w
  BY <1>1, <1>2 DEF FindInv, FindTypes
<1> QED
  BY <1>1, <1>2, <1>3, LookAgainKeeps DEF FindSelected, FindInv, FindTypes

LEMMA NeighbourFacts ==
  ASSUME FindInv, NEW t \in Tab, home[t] # Closed, NEW u \in Neighbours(t)
  PROVE  /\ home[t] \in Window
         /\ u \in Tab \cup {Closed} /\ u # t
         /\ u # Closed => u \in Tab /\ home[u] = home[t]
BY PagesAssumption DEF Neighbours, Beside, FindInv, FindTypes

LEMMA MoveKeepsFind ==
  ASSUME FindInv, NEW t \in Tab, NEW w \in Window, NEW u \in Neighbours(t),
         Move(t, w, u), FindMoved(t, w)
  PROVE  FindInv'
<1>1. home[t] \in Window /\ home[t] # w /\ home[t] # Closed /\ u # t
      /\ u \in Tab \cup {Closed} /\ (u # Closed => home[u] = home[t])
  BY NeighbourFacts DEF Move
<1>2. home' = [home EXCEPT ![t] = w] /\ content' = content
      /\ view' = [ViewWithout(t, u) EXCEPT ![w] = t]
  BY DEF Move
<1>3. ViewWithout(t, u) \in [Window -> Tab \cup {Closed}]
      /\ \A v \in Window : ViewWithout(t, u)[v] = IF v = home[t] /\ view[v] = t THEN u ELSE view[v]
  BY <1>1 DEF ViewWithout, FindInv, FindTypes
<1>4. home' \in [Tab -> Window \cup {Closed}] /\ view' \in [Window -> Tab \cup {Closed}]
  BY <1>2, <1>3 DEF FindInv, FindTypes
<1>5. ASSUME NEW v \in Window, view'[v] # Closed PROVE home'[view'[v]] = v
  <2>1. CASE v = w
    BY <1>2, <1>3, <2>1 DEF FindInv, FindTypes
  <2>2. CASE v # w
    <3>1. view'[v] = IF v = home[t] /\ view[v] = t THEN u ELSE view[v]
      BY <1>2, <1>3, <2>2
    <3>2. view'[v] \in Tab /\ view'[v] # t /\ home[view'[v]] = v
      BY <1>1, <1>5, <3>1 DEF FindInv, FindTypes
    <3> QED
      BY <1>2, <3>2 DEF FindInv, FindTypes
  <2> QED
    BY <2>1, <2>2
<1>6. PICK ws \in SUBSET Window : LookAgain(ws)
  BY <1>1 DEF FindMoved
<1> QED
  BY <1>2, <1>4, <1>5, <1>6, LookAgainKeeps

LEMMA CloseKeepsFind ==
  ASSUME FindInv, NEW t \in Tab, NEW u \in Neighbours(t), Close(t, u), FindClosed(t)
  PROVE  FindInv'
<1>1. home[t] \in Window /\ home[t] # Closed /\ u # t
      /\ u \in Tab \cup {Closed} /\ (u # Closed => home[u] = home[t])
  BY NeighbourFacts DEF Close
<1>2. home' = [home EXCEPT ![t] = Closed] /\ content' = content /\ view' = ViewWithout(t, u)
  BY DEF Close
<1>3. view' \in [Window -> Tab \cup {Closed}]
      /\ \A v \in Window : view'[v] = IF v = home[t] /\ view[v] = t THEN u ELSE view[v]
  BY <1>1, <1>2 DEF ViewWithout, FindInv, FindTypes
<1>4. home' \in [Tab -> Window \cup {Closed}]
  BY <1>2 DEF FindInv, FindTypes
<1>5. ASSUME NEW v \in Window, view'[v] # Closed PROVE home'[view'[v]] = v
  <2>1. view'[v] \in Tab /\ view'[v] # t /\ home[view'[v]] = v
    BY <1>1, <1>3, <1>5 DEF FindInv, FindTypes
  <2> QED
    BY <1>2, <2>1 DEF FindInv, FindTypes
<1>6. PICK ws \in SUBSET Window : LookAgain(ws)
  BY <1>1 DEF FindClosed
<1> QED
  BY <1>2, <1>3, <1>4, <1>5, <1>6, LookAgainKeeps

-----------------------------------------------------------------------------
(* What the user does with a bar.                                          *)

LEMMA TypeKeepsFind ==
  ASSUME FindInv, NEW w \in Window, NEW query \in Query \cup {NoText}, Type(w, query)
  PROVE  FindInv'
<1> DEFINE b == [bar[w] EXCEPT !.query = query]
           t == view[w]
<1>1. bar[w] \in Bar /\ t \in Tab /\ home[t] = w
  BY DEF Type, FindInv, FindTypes, FindTypeOK
<1>2. b \in Bar /\ b.generation = bar[w].generation /\ b.visible
  BY <1>1 DEF Type, Bar
<1>3. bar' = [bar EXCEPT ![w] = Changed(b)] /\ toPage' = [toPage EXCEPT ![t] = Append(@, Told(w, b))]
      /\ fresh' = [fresh EXCEPT ![w] = TRUE] /\ UNCHANGED <<pages, found, toShell, misled>>
  BY DEF Type
<1> HIDE DEF b
<1>4. /\ Changed(b) \in Bar /\ Changed(b).visible /\ Changed(b).generation = bar[w].generation + 1
      /\ Told(w, b) \in PageMessage
      /\ Told(w, b).kind = "search" =>
           Told(w, b).window = w /\ Told(w, b).generation = Changed(b).generation
  BY <1>2, ChangedFacts
<1>5. bar' \in [Window -> Bar] /\ bar'[w] = Changed(b) /\ \A v \in Window \ {w} : bar'[v] = bar[v]
  BY <1>3, <1>4 DEF FindInv, FindTypes, FindTypeOK
<1>6. toPage[t] \in Seq(PageMessage)
  BY <1>1 DEF FindInv, FindTypes, FindTypeOK
<1>7. /\ toPage' \in [Tab -> Seq(PageMessage)] /\ toPage'[t] = Append(toPage[t], Told(w, b))
      /\ \A u \in Tab \ {t} : toPage'[u] = toPage[u]
  BY <1>1, <1>3, <1>4, <1>6, QueueEnd DEF FindInv, FindTypes, FindTypeOK
<1>8. FindTypes'
  BY <1>3, <1>5, <1>7 DEF FindInv, FindTypes, FindTypeOK, pages
<1>9. NotAhead'
  <2>1. \A v \in Window : bar'[v].generation >= bar[v].generation
    BY <1>1, <1>4, <1>5, BarNumbers
  <2>2. ASSUME NEW u \in Tab, NEW i \in 1..Len(toPage'[u]), toPage'[u][i].kind = "search"
        PROVE  \/ \E j \in 1..Len(toPage[u]) : toPage'[u][i] = toPage[u][j]
               \/ toPage'[u][i].generation = bar'[toPage'[u][i].window].generation
    <3>1. CASE u # t
      BY <1>7, <3>1
    <3>2. CASE u = t
      <4>1. Len(toPage'[t]) = Len(toPage[t]) + 1 /\ Len(toPage[t]) \in Nat
            /\ toPage'[t][Len(toPage[t]) + 1] = Told(w, b)
            /\ \A j \in 1..Len(toPage[t]) : toPage'[t][j] = toPage[t][j]
        BY <1>4, <1>6, <1>7, QueueEnd
      <4>2. CASE i = Len(toPage[t]) + 1
        BY <1>4, <1>5, <2>2, <3>2, <4>1, <4>2
      <4>3. CASE i \in 1..Len(toPage[t])
        BY <3>2, <4>1, <4>3
      <4> QED
        BY <3>2, <4>1, <4>2, <4>3
    <3> QED
      BY <3>1, <3>2
  <2> QED
    BY <1>3, <1>8, <2>1, <2>2, GenerationsKept
<1>10. \A v \in Window : (view'[v] # Closed => home'[view'[v]] = v)
                         /\ (fresh'[v] => bar'[v].visible /\ view'[v] # Closed)
  BY <1>1, <1>3, <1>4, <1>5, PagesAssumption DEF FindInv, FindTypes, FindTypeOK, pages
<1>11. ASSUME NEW v \in Window PROVE FollowsSearch(v)'
  <2>1. CASE v = w
    <3>1. bar'[w] = Changed(b) /\ view'[w] = t /\ toShell'[t] = toShell[t]
          /\ toPage'[t] = Append(toPage[t], Told(w, b))
      BY <1>3, <1>5, <1>7 DEF pages
    <3> QED
      BY <1>1, <1>2, <2>1, <3>1, Looked
  <2>2. CASE v # w
    <3>1. fresh[v] => view[v] \in Tab /\ view[v] # t
      BY <1>1, <2>2, TypeOfSearch
    <3>2. bar'[v] = bar[v] /\ fresh'[v] = fresh[v] /\ view'[v] = view[v] /\ content' = content
      BY <1>3, <1>5, <2>2 DEF pages, FindInv, FindTypes, FindTypeOK
    <3> QED
      BY <1>3, <1>7, <3>1, <3>2, Untouched DEF FindInv
  <2> QED
    BY <2>1, <2>2
<1> QED
  BY <1>8, <1>9, <1>10, <1>11 DEF FindInv

LEMMA ShowFindKeepsFind ==
  ASSUME FindInv, NEW w \in Window, ShowFind(w)
  PROVE  FindInv'
<1> DEFINE b == [bar[w] EXCEPT !.visible = TRUE]
<1>1. bar[w] \in Bar
  BY DEF FindInv, FindTypes, FindTypeOK
<1>2. b \in Bar /\ b.visible /\ b.generation = bar[w].generation
  BY <1>1 DEF Bar
<1>3. bar' = [bar EXCEPT ![w] = b] /\ UNCHANGED <<pages, found, toPage, toShell, fresh, misled>>
  BY DEF ShowFind
<1> HIDE DEF b
<1>4. bar' \in [Window -> Bar] /\ bar'[w] = b /\ \A v \in Window \ {w} : bar'[v] = bar[v]
  BY <1>2, <1>3 DEF FindInv, FindTypes, FindTypeOK
<1>5. FindTypes'
  BY <1>3, <1>4 DEF FindInv, FindTypes, FindTypeOK, pages
<1>6. NotAhead'
  <2>1. \A v \in Window : bar'[v].generation >= bar[v].generation
    BY <1>1, <1>2, <1>4, BarNumbers
  <2> QED
    BY <1>3, <1>5, <2>1, GenerationsKept
<1>7. ~fresh[w]
  BY DEF ShowFind, FindInv
<1>8. \A v \in Window : (view'[v] # Closed => home'[view'[v]] = v)
                        /\ (fresh'[v] => bar'[v].visible /\ view'[v] # Closed)
  BY <1>3, <1>4, <1>7 DEF FindInv, FindTypes, FindTypeOK, pages
<1>9. ASSUME NEW v \in Window PROVE FollowsSearch(v)'
  BY <1>3, <1>4, <1>7, Untouched DEF FindInv, pages
<1> QED
  BY <1>5, <1>6, <1>8, <1>9 DEF FindInv

LEMMA CloseFindKeepsFind ==
  ASSUME FindInv, NEW w \in Window, CloseFind(w)
  PROVE  FindInv'
<1> DEFINE hidden == [bar[w] EXCEPT !.visible = FALSE]
           b == [hidden EXCEPT !.generation = @ + 1]
           t == view[w]
           m == Clear(bar[w].generation + 1)
<1>1. bar[w] \in Bar /\ t \in Tab /\ home[t] = w
  BY DEF CloseFind, FindInv, FindTypes, FindTypeOK
<1>2. hidden \in Bar /\ hidden.generation = bar[w].generation
  BY <1>1 DEF Bar
<1>3. fresh' = [fresh EXCEPT ![w] = FALSE] /\ UNCHANGED <<pages, found, toShell, misled>>
      /\ bar' = [bar EXCEPT ![w] = b] /\ toPage' = [toPage EXCEPT ![t] = Append(@, m)]
  BY DEF CloseFind
<1> HIDE DEF hidden
<1>4. b \in Bar /\ b.generation = bar[w].generation + 1
  BY <1>2 DEF Bar
<1>5. m \in PageMessage /\ m.kind = "clear"
  BY <1>1 DEF Bar, Clear, PageMessage
<1> HIDE DEF b, m
<1>6. bar' \in [Window -> Bar] /\ bar'[w] = b /\ \A v \in Window \ {w} : bar'[v] = bar[v]
  BY <1>3, <1>4 DEF FindInv, FindTypes, FindTypeOK
<1>7. toPage[t] \in Seq(PageMessage)
  BY <1>1 DEF FindInv, FindTypes, FindTypeOK
<1>8. /\ toPage' \in [Tab -> Seq(PageMessage)] /\ toPage'[t] = Append(toPage[t], m)
      /\ \A u \in Tab \ {t} : toPage'[u] = toPage[u]
  BY <1>1, <1>3, <1>5, <1>7, QueueEnd DEF FindInv, FindTypes, FindTypeOK
<1>9. FindTypes'
  BY <1>3, <1>6, <1>8 DEF FindInv, FindTypes, FindTypeOK, pages
<1>10. NotAhead'
  <2>1. \A v \in Window : bar'[v].generation >= bar[v].generation
    BY <1>1, <1>4, <1>6, BarNumbers
  <2>2. ASSUME NEW u \in Tab, NEW i \in 1..Len(toPage'[u]), toPage'[u][i].kind = "search"
        PROVE  \E j \in 1..Len(toPage[u]) : toPage'[u][i] = toPage[u][j]
    <3>1. CASE u # t
      BY <1>8, <3>1
    <3>2. CASE u = t
      <4>1. Len(toPage'[t]) = Len(toPage[t]) + 1 /\ Len(toPage[t]) \in Nat
            /\ toPage'[t][Len(toPage[t]) + 1] = m
            /\ \A j \in 1..Len(toPage[t]) : toPage'[t][j] = toPage[t][j]
        BY <1>5, <1>7, <1>8, QueueEnd
      <4>2. i \in 1..Len(toPage[t])
        BY <1>5, <2>2, <3>2, <4>1
      <4> QED
        BY <3>2, <4>1, <4>2
    <3> QED
      BY <3>1, <3>2
  <2> QED
    BY <1>3, <1>9, <2>1, <2>2, GenerationsKept
<1>11. \A v \in Window : fresh'[v] => fresh[v] /\ v # w
  BY <1>3 DEF FindInv, FindTypes, FindTypeOK
<1>12. \A v \in Window : (view'[v] # Closed => home'[view'[v]] = v)
                         /\ (fresh'[v] => bar'[v].visible /\ view'[v] # Closed)
  BY <1>3, <1>6, <1>11 DEF FindInv, pages
<1>13. ASSUME NEW v \in Window PROVE FollowsSearch(v)'
  <2>1. fresh'[v] => fresh[v] /\ bar'[v] = bar[v] /\ toPage'[view[v]] = toPage[view[v]]
    <3>1. fresh'[v] => view[v] \in Tab /\ view[v] # t
      BY <1>1, <1>11, TypeOfSearch
    <3> QED
      BY <1>6, <1>8, <1>11, <3>1
  <2> QED
    BY <1>3, <2>1, Untouched DEF FindInv, pages
<1> QED
  BY <1>9, <1>10, <1>12, <1>13 DEF FindInv

-----------------------------------------------------------------------------
(* What becomes of the documents.                                          *)

LEMMA MutateKeepsFind ==
  ASSUME FindInv, NEW t \in Tab, NEW c \in Contents, Mutate(t, c), FindMutated(t)
  PROVE  FindInv'
<1>1. UNCHANGED <<home, view, bar, found, toPage, toShell, misled>>
      /\ content' = [content EXCEPT ![t] = c]
      /\ fresh' = [w \in Window |-> fresh[w] /\ view[w] # t]
  BY DEF Mutate, FindMutated, Unfresh
<1>2. FindTypes'
  BY <1>1 DEF FindInv, FindTypes, FindTypeOK
<1>3. NotAhead'
  BY <1>1 DEF FindInv, NotAhead
<1>4. ASSUME NEW w \in Window PROVE FollowsSearch(w)'
  <2>1. fresh'[w] => fresh[w] /\ content'[view[w]] = content[view[w]]
    BY <1>1, TypeOfSearch DEF FindInv, FindTypes
  <2> QED
    BY <1>1, <2>1, Untouched DEF FindInv
<1> QED
  BY <1>1, <1>2, <1>3, <1>4 DEF FindInv

LEMMA FailureFacts ==
  ASSUME NEW m \in PageMessage
  PROVE  /\ Failure(m) \in ShellMessage
         /\ Failure(m).kind = "answer" =>
              /\ m.kind = "search" /\ Failure(m).window = m.window
              /\ Failure(m).generation = m.generation
BY DEF Failure, PageMessage, ShellMessage, Answer, Unheard

LEMMA NavigateKeepsFind ==
  ASSUME FindInv, NEW t \in Tab, NEW c \in Contents, NEW process \in BOOLEAN,
         Navigate(t, c), FindNavigated(t, process)
  PROVE  FindInv'
<1> DEFINE failures == [i \in 1..Len(toPage[t]) |-> Failure(toPage[t][i])]
<1>1. UNCHANGED <<home, view, bar, misled>> /\ content' = [content EXCEPT ![t] = c]
      /\ found' = [found EXCEPT ![t] = Unmarked]
      /\ fresh' = [w \in Window |-> fresh[w] /\ view[w] # t]
  BY DEF Navigate, FindNavigated, Unfresh
<1>2. \/ UNCHANGED <<toPage, toShell>>
      \/ /\ toPage' = [toPage EXCEPT ![t] = <<>>]
         /\ toShell' = [toShell EXCEPT ![t] = @ \o failures]
  BY DEF FindNavigated
<1>3. toPage[t] \in Seq(PageMessage) /\ toShell[t] \in Seq(ShellMessage)
      /\ Len(toPage[t]) \in Nat /\ Len(toShell[t]) \in Nat
  BY DEF FindInv, FindTypes, FindTypeOK
<1>4. \A i \in 1..Len(toPage[t]) : toPage[t][i] \in PageMessage
  BY <1>3
<1>5. failures \in Seq(ShellMessage) /\ Len(failures) = Len(toPage[t])
      /\ \A i \in 1..Len(toPage[t]) : failures[i] = Failure(toPage[t][i])
  BY <1>3, <1>4, FailureFacts
<1> HIDE DEF failures
<1>6. /\ toShell[t] \o failures \in Seq(ShellMessage)
      /\ Len(toShell[t] \o failures) = Len(toShell[t]) + Len(toPage[t])
      /\ \A i \in 1..Len(toShell[t]) : (toShell[t] \o failures)[i] = toShell[t][i]
      /\ \A i \in 1..Len(toPage[t]) : (toShell[t] \o failures)[Len(toShell[t]) + i] = failures[i]
  <2> DEFINE heard == toShell[t]
  <2>1. heard \in Seq(ShellMessage)
    BY <1>3
  <2> HIDE DEF heard
  <2>2. failures \in Seq(ShellMessage)
    BY <1>5
  <2>3. /\ heard \o failures \in Seq(ShellMessage)
        /\ Len(heard \o failures) = Len(heard) + Len(failures)
        /\ \A i \in 1..Len(heard) : (heard \o failures)[i] = heard[i]
        /\ \A i \in 1..Len(failures) : (heard \o failures)[Len(heard) + i] = failures[i]
    BY <2>1, <2>2, QueueJoin
  <2> QED
    BY <1>5, <2>3 DEF heard
<1>7. toPage' \in [Tab -> Seq(PageMessage)] /\ toShell' \in [Tab -> Seq(ShellMessage)]
  <2>1. toShell[t] \o failures \in Seq(ShellMessage)
    BY <1>6
  <2>2. <<>> \in Seq(PageMessage)
    OBVIOUS
  <2>3. toPage \in [Tab -> Seq(PageMessage)] /\ toShell \in [Tab -> Seq(ShellMessage)]
    BY DEF FindInv, FindTypes, FindTypeOK
  <2> HIDE DEF failures
  <2>4. CASE UNCHANGED <<toPage, toShell>>
    BY <2>3, <2>4
  <2>5. CASE /\ toPage' = [toPage EXCEPT ![t] = <<>>]
             /\ toShell' = [toShell EXCEPT ![t] = @ \o failures]
    <3> DEFINE joined == toShell[t] \o failures
    <3>1. joined \in Seq(ShellMessage) /\ toShell' = [toShell EXCEPT ![t] = joined]
      BY <2>1, <2>5
    <3> HIDE DEF joined
    <3> QED
      BY <2>2, <2>3, <2>5, <3>1
  <2> QED
    BY <1>2, <2>4, <2>5
<1>8. FindTypes'
  BY <1>1, <1>7 DEF FindInv, FindTypes, FindTypeOK, Unmarked
<1>9. \A u \in Tab \ {t} : toPage'[u] = toPage[u] /\ toShell'[u] = toShell[u]
  BY <1>2 DEF FindInv, FindTypes, FindTypeOK
<1>10. \/ toPage'[t] = toPage[t] /\ toShell'[t] = toShell[t]
       \/ toPage'[t] = <<>> /\ toShell'[t] = toShell[t] \o failures
  BY <1>2 DEF FindInv, FindTypes, FindTypeOK
<1>11. NotAhead'
  <2>1. \A v \in Window : bar'[v].generation >= bar[v].generation
    BY <1>1 DEF Bar, FindInv, FindTypes, FindTypeOK
  <2>2. ASSUME NEW u \in Tab, NEW i \in 1..Len(toPage'[u]), toPage'[u][i].kind = "search"
        PROVE  \E j \in 1..Len(toPage[u]) : toPage'[u][i] = toPage[u][j]
    BY <1>9, <1>10
  <2>3. ASSUME NEW u \in Tab, NEW i \in 1..Len(toShell'[u]), toShell'[u][i].kind = "answer"
        PROVE  \/ \E j \in 1..Len(toShell[u]) : toShell'[u][i] = toShell[u][j]
               \/ \E j \in 1..Len(toPage[u]) :
                    /\ toPage[u][j].kind = "search" /\ toPage[u][j].window = toShell'[u][i].window
                    /\ toPage[u][j].generation = toShell'[u][i].generation
    <3>1. CASE toShell'[u] = toShell[u]
      BY <3>1
    <3>2. CASE u = t /\ toShell'[t] = toShell[t] \o failures
      <4>1. CASE i <= Len(toShell[t])
        BY <1>3, <1>6, <3>2, <4>1
      <4>2. CASE i > Len(toShell[t])
        <5>1. PICK j \in 1..Len(toPage[t]) : i = Len(toShell[t]) + j
          <6> DEFINE told == Len(toPage[t])
                     heard == Len(toShell[t])
          <6>1. told \in Nat
            BY <1>3
          <6>2. heard \in Nat
            BY <1>3
          <6>3. i \in 1..(heard + told)
            BY <1>6, <3>2
          <6>4. i > heard
            BY <4>2
          <6> HIDE DEF told, heard
          <6>5. i - heard \in 1..told /\ i = heard + (i - heard)
            BY <6>1, <6>2, <6>3, <6>4
          <6> QED
            BY <6>5 DEF told, heard
        <5>2. toShell'[u][i] = Failure(toPage[t][j])
          BY <1>3, <1>5, <1>6, <3>2, <4>2, <5>1
        <5>3. toPage[t][j] \in PageMessage
          BY <1>4, <5>1
        <5>4. Failure(toPage[t][j]).kind = "answer"
          BY <2>3, <5>2
        <5>5. /\ toPage[t][j].kind = "search" /\ toPage[t][j].window = Failure(toPage[t][j]).window
              /\ toPage[t][j].generation = Failure(toPage[t][j]).generation
          <6> DEFINE m == toPage[t][j]
          <6>1. m \in PageMessage /\ Failure(m).kind = "answer"
            BY <5>3, <5>4
          <6> HIDE DEF m
          <6>2. m.kind = "search" /\ Failure(m).window = m.window /\ Failure(m).generation = m.generation
            BY <6>1, FailureFacts
          <6> QED
            BY <6>2 DEF m
        <5> QED
          BY <3>2, <5>2, <5>5
      <4> QED
        BY <1>3, <1>6, <3>2, <4>1, <4>2
    <3> QED
      BY <1>9, <1>10, <3>1, <3>2
  <2> QED
    BY <1>8, <2>1, <2>2, <2>3, GenerationsKept
<1>12. ASSUME NEW w \in Window PROVE FollowsSearch(w)'
  <2>1. fresh'[w] => /\ fresh[w] /\ content'[view[w]] = content[view[w]]
                     /\ found'[view[w]] = found[view[w]]
                     /\ toPage'[view[w]] = toPage[view[w]] /\ toShell'[view[w]] = toShell[view[w]]
    BY <1>1, <1>9, TypeOfSearch DEF FindInv, FindTypes, FindTypeOK
  <2> QED
    BY <1>1, <2>1, Untouched DEF FindInv
<1> QED
  BY <1>1, <1>8, <1>11, <1>12 DEF FindInv
-----------------------------------------------------------------------------
(* Going to the next match and to the one before.                          *)

Stepped(b, by) ==
  IF by = 1 THEN (b.current % b.total) + 1
  ELSE IF b.current <= 1 THEN b.total ELSE b.current - 1

LEMMA SteppedFacts ==
  ASSUME NEW b \in Bar, NEW by \in {-1, 1}, b.total > 0
  PROVE  /\ b.total \in Nat \ {0} /\ b.current \in Nat /\ Stepped(b, by) \in Nat \ {0}
         /\ b.current \in 1..b.total =>
              /\ Stepped(b, by) \in 1..b.total
              /\ (b.current - 1 + by + b.total) % b.total = Stepped(b, by) - 1
<1>1. b.total \in Nat \ {0} /\ b.current \in Nat
  BY DEF Bar
<1>2. b.current % b.total \in Nat
  BY <1>1
<1>3. Stepped(b, by) \in Nat \ {0}
  BY <1>1, <1>2 DEF Stepped
<1>4. ASSUME b.current \in 1..b.total
      PROVE  /\ Stepped(b, by) \in 1..b.total
             /\ (b.current - 1 + by + b.total) % b.total = Stepped(b, by) - 1
  <2> DEFINE n == b.total
             c == b.current
  <2>1. n \in Nat \ {0}
    BY <1>1
  <2>2. c \in 1..n
    BY <1>4
  <2> HIDE DEF n, c
  <2>3. /\ c % n \in 0..(n - 1) /\ (c - 1 + 1 + n) % n = (c % n) + 1 - 1
        /\ c <= 1 => (c - 1 + (-1) + n) % n = n - 1
        /\ c > 1 => (c - 1 + (-1) + n) % n = c - 2
    BY <2>1, <2>2, Around
  <2>4. CASE by = 1
    <3>1. Stepped(b, by) = (c % n) + 1
      BY <2>4 DEF Stepped, n, c
    <3>2. (c - 1 + by + n) % n = Stepped(b, by) - 1
      BY <2>3, <2>4, <3>1
    <3> QED
      BY <2>1, <2>3, <3>1, <3>2 DEF n, c
  <2>5. CASE by = -1
    <3>1. Stepped(b, by) = IF c <= 1 THEN n ELSE c - 1
      BY <2>5 DEF Stepped, n, c
    <3>2. (c - 1 + by + n) % n = Stepped(b, by) - 1
      BY <2>1, <2>2, <2>3, <2>5, <3>1
    <3>3. Stepped(b, by) \in 1..n
      BY <2>1, <2>2, <3>1
    <3> QED
      BY <3>2, <3>3 DEF n, c
  <2> QED
    BY <2>4, <2>5
<1> QED
  BY <1>1, <1>3, <1>4

LEMMA WayGrows ==
  ASSUME NEW n \in Nat, NEW m \in Nat, NEW way \in [0..n -> 0..(m - 1)], NEW last \in 0..(m - 1)
  PROVE  \E further \in [0..(n + 1) -> 0..(m - 1)] :
           /\ \A i \in 0..n : further[i] = way[i]
           /\ further[n + 1] = last
<1> DEFINE further == [i \in 0..(n + 1) |-> IF i <= n THEN way[i] ELSE last]
<1>1. further \in [0..(n + 1) -> 0..(m - 1)]
  OBVIOUS
<1>2. \A i \in 0..n : further[i] = way[i]
  OBVIOUS
<1>3. further[n + 1] = last
  OBVIOUS
<1> HIDE DEF further
<1> QED
  BY <1>1, <1>2, <1>3

LEMMA StepIsFollowed ==
  ASSUME NEW w \in Window, NEW b \in Bar, NEW by \in {-1, 1}, b.total > 0,
         NEW out \in Seq(PageMessage), NEW in, NEW marks, NEW count \in Nat, NEW lied \in BOOLEAN,
         Followed(w, b, out, in, marks, count, lied),
         NEW c, c.generation = b.generation, c.query = b.query, c.custom = b.custom,
         c.total = b.total, c.current = Stepped(b, by),
         NEW told, told = IF b.custom THEN Append(out, Step(by)) ELSE out
  PROVE  Followed(w, c, told, in, marks, count, lied)
<1>1. /\ c.generation = b.generation /\ c.query = b.query /\ c.custom = b.custom
      /\ c.total = b.total /\ c.current = Stepped(b, by)
  OBVIOUS
<1>2. b.total \in Nat \ {0} /\ b.current \in Nat /\ Stepped(b, by) \in Nat \ {0}
  BY SteppedFacts
<1>3. CASE ~b.custom
  <2>1. CASE Awaited(w, b, out, in)
    BY <1>1, <1>3, <2>1 DEF Awaited, Followed
  <2>2. CASE Run(w, b, out, in, marks, count)
    BY <1>1, <1>3, <2>2 DEF Run, Followed
  <2>3. CASE Counts(b, out, in, count)
    BY <1>1, <1>3, <2>3 DEF Counts, Followed
  <2>4. CASE CountShown(b, out, in, count, lied)
    <3>1. ~lied => b.current \in 1..b.total
      BY <1>2, <2>4 DEF CountShown
    <3>2. ~lied => Stepped(b, by) \in 1..b.total
      BY <3>1, SteppedFacts
    <3>3. CountShown(c, out, in, count, lied)
      BY <1>1, <1>2, <2>4, <3>2 DEF CountShown
    <3> QED
      BY <1>3, <3>3 DEF Followed
  <2> QED
    BY <1>3, <2>1, <2>2, <2>3, <2>4 DEF Followed, MarksShown
<1>4. CASE b.custom
  <2>1. MarksShown(b, out, in, marks, count)
    BY <1>4 DEF Followed, Awaited, Run, Counts, CountShown
  <2>2. count = b.total /\ b.current \in 1..b.total /\ Len(out) \in Nat
    BY <1>2, <2>1 DEF MarksShown
  <2>3. PICK way \in [0..Len(out) -> 0..(count - 1)] : Leads(way, out, marks, b)
    BY <1>2, <2>1, <2>2 DEF MarksShown
  <2>4. Stepped(b, by) \in 1..b.total
        /\ (b.current - 1 + by + b.total) % b.total = Stepped(b, by) - 1
    BY <2>2, SteppedFacts
  <2>5. Step(by) \in PageMessage /\ Step(by).kind = "step" /\ Step(by).by = by
    BY DEF Step, PageMessage
  <2> DEFINE more == Append(out, Step(by))
  <2>6. /\ Len(more) = Len(out) + 1
        /\ more[Len(out) + 1] = Step(by)
        /\ \A i \in 1..Len(out) : more[i] = out[i]
    BY <2>5, QueueEnd
  <2> HIDE DEF more
  <2>n. Len(out) \in Nat
    BY <2>2
  <2>l. Stepped(b, by) - 1 \in 0..(count - 1)
    BY <1>2, <2>2, <2>4
  <2>7. PICK further \in [0..(Len(out) + 1) -> 0..(count - 1)] :
          /\ \A i \in 0..Len(out) : further[i] = way[i]
          /\ further[Len(out) + 1] = Stepped(b, by) - 1
    BY <2>n, <2>l, WayGrows
  <2>8. Leads(further, more, marks, c)
    <3>1. further[0] = marks.index
      BY <2>n, <2>3, <2>7 DEF Leads
    <3>2. further[Len(more)] = c.current - 1
      BY <1>1, <2>6, <2>7
    <3>3. ASSUME NEW i \in 1..(Len(out) + 1)
          PROVE  further[i] = (further[i - 1] + more[i].by + b.total) % b.total
      <4>1. CASE i <= Len(out)
        <5>1. i \in 1..Len(out) /\ i \in 0..Len(out) /\ i - 1 \in 0..Len(out)
          BY <2>n, <4>1
        <5>2. further[i] = way[i] /\ further[i - 1] = way[i - 1] /\ more[i] = out[i]
          BY <2>6, <2>7, <5>1
        <5>3. way[i] = (way[i - 1] + out[i].by + b.total) % b.total
          BY <2>3, <5>1 DEF Leads
        <5> QED
          BY <5>2, <5>3
      <4>2. CASE i = Len(out) + 1
        <5>1. further[i] = Stepped(b, by) - 1 /\ further[i - 1] = way[Len(out)] /\ more[i].by = by
          BY <2>n, <2>5, <2>6, <2>7, <4>2
        <5>2. way[Len(out)] = b.current - 1
          BY <2>3 DEF Leads
        <5> QED
          BY <2>4, <5>1, <5>2
      <4> QED
        BY <2>n, <4>1, <4>2
    <3>4. Len(more) = Len(out) + 1 /\ c.total = count /\ c.total = b.total
      BY <1>1, <2>2, <2>6
    <3> QED
      BY <2>7, <3>1, <3>2, <3>3, <3>4 DEF Leads
  <2>9. \A i \in 1..Len(more) : more[i].kind = "step"
    <3> SUFFICES ASSUME NEW i \in 1..(Len(out) + 1) PROVE more[i].kind = "step"
      BY <2>6
    <3>1. CASE i = Len(out) + 1
      BY <2>5, <2>6, <3>1
    <3>2. CASE i \in 1..Len(out)
      BY <2>1, <2>6, <3>2 DEF MarksShown
    <3> QED
      BY <2>n, <3>1, <3>2
  <2>10. MarksShown(c, more, in, marks, count)
    <3>1. further \in [0..Len(more) -> 0..(count - 1)]
      BY <2>6, <2>7
    <3>2. c.custom /\ c.total = count /\ c.query = b.query /\ c.current \in 1..count /\ count > 0
      BY <1>1, <1>2, <1>4, <2>2, <2>4
    <3> QED
      BY <2>1, <2>8, <2>9, <3>1, <3>2 DEF MarksShown
  <2> QED
    BY <1>4, <2>10 DEF Followed, more
<1> QED
  BY <1>3, <1>4

LEMMA FindNextKeepsFind ==
  ASSUME FindInv, NEW w \in Window, NEW by \in {-1, 1}, FindNext(w, by)
  PROVE  FindInv'
<1> DEFINE b == bar[w]
           c == [b EXCEPT !.current = Stepped(b, by)]
           t == view[w]
           out == IF b.custom THEN Append(toPage[t], Step(by)) ELSE toPage[t]
<1>1. b \in Bar /\ t \in Tab /\ home[t] = w /\ b.total > 0
  BY DEF FindNext, FindInv, FindTypes, FindTypeOK
<1>2. /\ c \in Bar /\ c.visible = b.visible /\ c.generation = b.generation /\ c.query = b.query
      /\ c.custom = b.custom /\ c.total = b.total /\ c.current = Stepped(b, by)
  BY <1>1, SteppedFacts DEF Bar
<1>3. bar' = [bar EXCEPT ![w] = c] /\ UNCHANGED <<pages, found, toShell, fresh, misled>>
  BY DEF FindNext, Stepped
<1>4. toPage[t] \in Seq(PageMessage) /\ toShell[t] \in Seq(ShellMessage)
  BY <1>1 DEF FindInv, FindTypes, FindTypeOK
<1>5. Step(by) \in PageMessage /\ Step(by).kind = "step"
  BY DEF Step, PageMessage
<1>6. out \in Seq(PageMessage)
  <2>1. Append(toPage[t], Step(by)) \in Seq(PageMessage)
    BY <1>4, <1>5, QueueEnd
  <2> QED
    BY <1>4, <2>1
<1>7. toPage' = [toPage EXCEPT ![t] = out]
  BY DEF FindNext, FindInv, FindTypes, FindTypeOK
<1> HIDE DEF c
<1>8. bar' \in [Window -> Bar] /\ bar'[w] = c /\ \A v \in Window \ {w} : bar'[v] = bar[v]
  BY <1>2, <1>3 DEF FindInv, FindTypes, FindTypeOK
<1>9. ASSUME NEW i \in 1..Len(out), out[i].kind = "search"
      PROVE  \E j \in 1..Len(toPage[t]) : out[i] = toPage[t][j]
  <2>1. CASE out = toPage[t]
    BY <2>1
  <2>2. CASE out = Append(toPage[t], Step(by))
    <3>1. Len(out) = Len(toPage[t]) + 1 /\ Len(toPage[t]) \in Nat
          /\ out[Len(toPage[t]) + 1] = Step(by)
          /\ \A j \in 1..Len(toPage[t]) : out[j] = toPage[t][j]
      BY <1>4, <1>5, <2>2, QueueEnd
    <3>2. i \in 1..Len(toPage[t])
      BY <1>5, <1>9, <3>1
    <3> QED
      BY <3>1, <3>2
  <2> QED
    BY <2>1, <2>2
<1>10. ASSUME fresh[w], b.query # NoText
       PROVE  Followed(w, c, out, toShell[t], found[t], content[t][b.query], w \in misled)
  <2>1. Followed(w, b, toPage[t], toShell[t], found[t], content[t][b.query], w \in misled)
    BY <1>10 DEF FindInv, FollowsSearch
  <2>2. content[t][b.query] \in Nat
    BY <1>1, <1>10, PagesAssumption DEF FindInv, FindTypes, Bar
  <2> DEFINE lied == w \in misled
  <2>3. lied \in BOOLEAN
    OBVIOUS
  <2>4. out = IF b.custom THEN Append(toPage[t], Step(by)) ELSE toPage[t]
    OBVIOUS
  <2>5. toPage[t] \in Seq(PageMessage)
    BY <1>4
  <2>6. Followed(w, b, toPage[t], toShell[t], found[t], content[t][b.query], lied)
    BY <2>1
  <2>7. b \in Bar /\ b.total > 0
    BY <1>1
  <2> HIDE DEF lied, out, b
  <2>8. Followed(w, c, out, toShell[t], found[t], content[t][b.query], lied)
    BY <1>2, <2>2, <2>3, <2>4, <2>5, <2>6, <2>7, StepIsFollowed
  <2> QED
    BY <2>8 DEF lied
<1> HIDE DEF out
<1>11. toPage' \in [Tab -> Seq(PageMessage)] /\ toPage'[t] = out
       /\ \A u \in Tab \ {t} : toPage'[u] = toPage[u]
  BY <1>1, <1>6, <1>7 DEF FindInv, FindTypes, FindTypeOK
<1>12. FindTypes'
  BY <1>3, <1>8, <1>11 DEF FindInv, FindTypes, FindTypeOK, pages
<1>13. NotAhead'
  <2>1. \A v \in Window : bar'[v].generation >= bar[v].generation
    BY <1>2, <1>8, BarNumbers
  <2>2. ASSUME NEW u \in Tab, NEW i \in 1..Len(toPage'[u]), toPage'[u][i].kind = "search"
        PROVE  \E j \in 1..Len(toPage[u]) : toPage'[u][i] = toPage[u][j]
    <3>1. CASE u = t
      BY <1>9, <1>11, <2>2, <3>1
    <3>2. CASE u # t
      BY <1>11, <2>2, <3>2
    <3> QED
      BY <3>1, <3>2
  <2> QED
    BY <1>3, <1>12, <2>1, <2>2, GenerationsKept
<1>14. \A v \in Window : (view'[v] # Closed => home'[view'[v]] = v)
                         /\ (fresh'[v] => bar'[v].visible /\ view'[v] # Closed)
  BY <1>2, <1>3, <1>8 DEF FindInv, pages
<1>15. ASSUME NEW v \in Window PROVE FollowsSearch(v)'
  <2>1. CASE v = w
    BY <1>2, <1>3, <1>8, <1>10, <1>11, <2>1 DEF FollowsSearch, pages
  <2>2. CASE v # w
    <3>1. fresh[v] => view[v] \in Tab /\ view[v] # t
      BY <1>1, <2>2, TypeOfSearch
    <3> QED
      BY <1>3, <1>8, <1>11, <2>2, <3>1, Untouched DEF FindInv, pages
  <2> QED
    BY <2>1, <2>2
<1> QED
  BY <1>12, <1>13, <1>14, <1>15 DEF FindInv
-----------------------------------------------------------------------------
(* A script runs in a page.                                                *)

Found == [generation : Nat, query : Query \cup {NoText}, matches : Nat, index : Nat]

LEMMA OccurrencesAre ==
  ASSUME FindInv, NEW t \in Tab, NEW query \in Query \cup {NoText}
  PROVE  /\ Occurrences(t, query) \in Nat
         /\ query # NoText => Occurrences(t, query) = content[t][query]
BY PagesAssumption DEF Occurrences, FindInv, FindTypes

LEMMA MarksFacts ==
  ASSUME FindInv, NEW t \in Tab, NEW m \in PageMessage
  PROVE  /\ Marks(t, m) \in Found
         /\ m.kind = "search" /\ ~Outdated(t, m) /\ content[t] \notin Mute =>
              /\ Marks(t, m).query = m.query /\ Marks(t, m).index = 0
              /\ Marks(t, m).matches = Occurrences(t, m.query)
         /\ m.kind = "step" =>
              /\ Marks(t, m).query = found[t].query /\ Marks(t, m).matches = found[t].matches
              /\ found[t].matches > 0 =>
                   Marks(t, m).index = (found[t].index + m.by + found[t].matches) % found[t].matches
<1>1. found[t] \in Found
  BY DEF FindInv, FindTypes, FindTypeOK, Found
<1>2. CASE m.kind = "search"
  <2>1. m.generation \in Nat /\ m.query \in Query
    BY <1>2 DEF PageMessage
  <2>2. CASE Outdated(t, m)
    BY <1>1, <1>2, <2>2 DEF Marks
  <2>3. CASE ~Outdated(t, m) /\ content[t] \in Mute
    <3>1. Marks(t, m) = [found[t] EXCEPT !.generation = m.generation]
      BY <1>2, <2>3 DEF Marks
    <3> QED
      BY <1>1, <1>2, <2>1, <2>3, <3>1 DEF Found
  <2>4. CASE ~Outdated(t, m) /\ content[t] \notin Mute
    <3>1. Marks(t, m) = [generation |-> m.generation, query |-> m.query,
                         matches |-> Occurrences(t, m.query), index |-> 0]
      BY <1>2, <2>4 DEF Marks
    <3>2. Occurrences(t, m.query) \in Nat
      BY <2>1, OccurrencesAre
    <3> QED
      BY <1>2, <2>1, <2>4, <3>1, <3>2 DEF Found
  <2> QED
    BY <2>2, <2>3, <2>4
<1>3. CASE m.kind = "clear"
  <2>1. Marks(t, m) = [Unmarked EXCEPT !.generation = m.generation]
    BY <1>3 DEF Marks
  <2>2. m.generation \in Nat
    BY <1>3 DEF PageMessage
  <2> QED
    BY <1>3, <2>1, <2>2 DEF Unmarked, Found
<1>4. CASE m.kind = "step"
  <2>1. m.by \in {-1, 1}
    BY <1>4 DEF PageMessage
  <2>2. CASE found[t].matches > 0
    <3> DEFINE next == (found[t].index + m.by + found[t].matches) % found[t].matches
    <3>1. Marks(t, m) = [found[t] EXCEPT !.index = next]
      BY <1>4, <2>2 DEF Marks
    <3>2. next \in Nat
      BY <1>1, <2>1, <2>2 DEF Found
    <3> HIDE DEF next
    <3>3. Marks(t, m) \in Found /\ Marks(t, m).query = found[t].query
          /\ Marks(t, m).matches = found[t].matches /\ Marks(t, m).index = next
      BY <1>1, <3>1, <3>2 DEF Found
    <3> QED
      BY <1>4, <3>3 DEF next
  <2>3. CASE ~(found[t].matches > 0)
    BY <1>1, <1>4, <2>3 DEF Marks
  <2> QED
    BY <2>2, <2>3
<1>5. CASE m.kind \notin {"search", "clear", "step"}
  BY <1>1, <1>5 DEF Marks
<1> QED
  BY <1>2, <1>3, <1>4, <1>5

LEMMA AnswersFacts ==
  ASSUME FindInv, NEW t \in Tab, NEW m \in PageMessage
  PROVE  \/ /\ m.kind = "search"
            /\ \E c \in Int :
                 /\ Answers(t, m) = <<Answer(m.window, m.generation, c)>>
                 /\ Answer(m.window, m.generation, c) \in ShellMessage
                 /\ c >= 0 =>
                      /\ c = Occurrences(t, m.query)
                      /\ ~Outdated(t, m) /\ content[t] \notin Mute
         \/ /\ m.kind = "count" /\ Answers(t, m) = <<Counted(Occurrences(t, m.query))>>
            /\ Counted(Occurrences(t, m.query)) \in ShellMessage
         \/ m.kind \notin {"search", "count"} /\ Answers(t, m) = <<>>
<1>1. CASE m.kind = "search"
  <2>1. m.window \in Window /\ m.generation \in Nat /\ m.query \in Query
    BY <1>1 DEF PageMessage
  <2> DEFINE c == IF Outdated(t, m) THEN -2
                  ELSE IF content[t] \in Mute THEN -1 ELSE Occurrences(t, m.query)
  <2>2. Occurrences(t, m.query) \in Nat
    BY <2>1, OccurrencesAre
  <2>3. c \in Int
    BY <2>2
  <2>4. c >= 0 => c = Occurrences(t, m.query) /\ ~Outdated(t, m) /\ content[t] \notin Mute
    OBVIOUS
  <2>5. Answers(t, m) = <<Answer(m.window, m.generation, c)>>
    BY <1>1 DEF Answers
  <2> HIDE DEF c
  <2>6. Answer(m.window, m.generation, c) \in ShellMessage
    BY <2>1, <2>3 DEF Answer, ShellMessage
  <2> QED
    BY <1>1, <2>3, <2>4, <2>5, <2>6
<1>2. CASE m.kind = "count"
  <2>1. m.query \in Query \cup {NoText}
    BY <1>2 DEF PageMessage
  <2>2. Counted(Occurrences(t, m.query)) \in ShellMessage
    BY <2>1, OccurrencesAre DEF Counted, ShellMessage
  <2> QED
    BY <1>2, <2>2 DEF Answers
<1>3. CASE m.kind \notin {"search", "count"}
  BY <1>3 DEF Answers
<1> QED
  BY <1>1, <1>2, <1>3
LEMMA WayShrinks ==
  ASSUME NEW n \in Nat \ {0}, NEW m \in Nat, NEW way \in [0..n -> 0..(m - 1)]
  PROVE  \E rest \in [0..(n - 1) -> 0..(m - 1)] : \A i \in 0..(n - 1) : rest[i] = way[i + 1]
<1> DEFINE rest == [i \in 0..(n - 1) |-> way[i + 1]]
<1>1. rest \in [0..(n - 1) -> 0..(m - 1)]
  OBVIOUS
<1>2. \A i \in 0..(n - 1) : rest[i] = way[i + 1]
  OBVIOUS
<1> HIDE DEF rest
<1> QED
  BY <1>1, <1>2

(* The search that is awaited is run, or one before it.                    *)
LEMMA RunOfAwaited ==
  ASSUME NEW w \in Window, NEW b \in Bar, NEW out \in Seq(PageMessage), NEW in \in Seq(ShellMessage),
         out # <<>>, Awaited(w, b, out, in), NEW answers, NEW marks, NEW count \in Nat,
         \/ answers = <<>> /\ Head(out).kind # "search"
         \/ /\ Head(out).kind # "search"
            /\ \E a \in ShellMessage : answers = <<a>> /\ a.kind # "answer" /\ a.kind # "search"
         \/ /\ Head(out).kind = "search"
            /\ \E a \in ShellMessage :
                 /\ answers = <<a>> /\ a.kind = "answer"
                 /\ a.window = Head(out).window /\ a.generation = Head(out).generation
                 /\ a.count >= 0 /\ Head(out).query = b.query =>
                      /\ a.count = count
                      /\ marks.query = b.query /\ marks.matches = count /\ marks.index = 0
  PROVE  \/ Awaited(w, b, Tail(out), in \o answers)
         \/ Run(w, b, Tail(out), in \o answers, marks, count)
<1> DEFINE n == Len(out)
           rest == Tail(out)
           told == in \o answers
<1>1. /\ n \in Nat \ {0} /\ Head(out) = out[1] /\ rest \in Seq(PageMessage) /\ Len(rest) = n - 1
      /\ \A i \in 1..(n - 1) : rest[i] = out[i + 1]
      /\ n = 1 => rest = <<>>
  BY QueueHead
<1>2. \/ told = in
      \/ \E a \in ShellMessage : told = Append(in, a) /\ answers = <<a>>
  <2>1. CASE answers = <<>>
    BY <2>1, ConcatEmptySeq
  <2>2. ASSUME NEW a \in ShellMessage, answers = <<a>> PROVE told = Append(in, a)
    BY <2>2, QueueEnd
  <2> QED
    BY <2>1, <2>2
<1>3. Len(in) \in Nat
  OBVIOUS
<1>4. ~b.custom /\ out[n] = Search(w, b.generation, b.query)
      /\ (\A i \in 1..(n - 1) : ~Own(w, b.generation, out[i]))
      /\ (\A i \in 1..Len(in) : ~Own(w, b.generation, in[i]))
  BY DEF Awaited
<1>5. CASE n = 1
  <2>1. Head(out) = Search(w, b.generation, b.query)
    BY <1>1, <1>4, <1>5
  <2>2. Head(out).kind = "search" /\ Head(out).window = w /\ Head(out).generation = b.generation
        /\ Head(out).query = b.query
    BY <2>1 DEF Search
  <2>3. PICK a \in ShellMessage :
          /\ answers = <<a>> /\ a.kind = "answer" /\ a.window = w /\ a.generation = b.generation
          /\ a.count >= 0 => /\ a.count = count
                             /\ marks.query = b.query /\ marks.matches = count /\ marks.index = 0
    BY <2>2
  <2>4. told = Append(in, a)
    BY <2>3, QueueEnd
  <2>5. /\ Len(told) = Len(in) + 1 /\ told # <<>> /\ told[Len(in) + 1] = a
        /\ \A i \in 1..Len(in) : told[i] = in[i]
    BY <2>4, QueueEnd
  <2> HIDE DEF told, rest
  <2>6. Own(w, b.generation, told[Len(told)]) /\ told[Len(told)] = a
    BY <2>3, <2>5 DEF Own
  <2>7. \A i \in 1..(Len(told) - 1) : ~Own(w, b.generation, told[i])
    BY <1>3, <1>4, <2>5
  <2> QED
    BY <1>1, <1>4, <1>5, <2>3, <2>5, <2>6, <2>7 DEF Run, told, rest
<1>6. CASE n # 1
  <2> HIDE DEF rest, n
  <2>1. n - 1 \in Nat \ {0} /\ Len(rest) = n - 1 /\ rest # <<>>
    BY <1>1, <1>6, EmptySeq
  <2>2. rest[Len(rest)] = Search(w, b.generation, b.query)
    BY <1>1, <1>4, <2>1
  <2>3. \A i \in 1..(Len(rest) - 1) : ~Own(w, b.generation, rest[i])
    <3> TAKE i \in 1..(Len(rest) - 1)
    <3>1. i \in 1..(n - 1) /\ i + 1 \in 1..(n - 1)
      BY <1>1, <2>1
    <3> QED
      BY <1>1, <1>4, <3>1
  <2>4. ~Own(w, b.generation, out[1])
    BY <1>4, <2>1
  <2>5. \A i \in 1..Len(told) : ~Own(w, b.generation, told[i])
    <3>1. CASE told = in
      BY <1>4, <3>1
    <3>2. CASE told # in
      <4>1. PICK a \in ShellMessage : told = Append(in, a) /\ answers = <<a>>
        BY <1>2, <3>2
      <4>2. /\ Len(told) = Len(in) + 1 /\ told[Len(in) + 1] = a
            /\ \A i \in 1..Len(in) : told[i] = in[i]
        BY <4>1, QueueEnd
      <4>3. ~Own(w, b.generation, a)
        BY <1>1, <2>4, <4>1 DEF Own
      <4> HIDE DEF told
      <4> QED
        BY <1>3, <1>4, <4>2, <4>3
    <3> QED
      BY <3>1, <3>2
  <2>6. Awaited(w, b, rest, told)
    BY <1>4, <2>1, <2>2, <2>3, <2>5 DEF Awaited
  <2> QED
    BY <2>6 DEF rest
<1> QED
  BY <1>5, <1>6
(* The page makes the oldest of the steps that it still has to make.       *)
LEMMA StepIsMade ==
  ASSUME NEW b \in Bar, NEW out \in Seq(PageMessage), NEW in, NEW marks, NEW count \in Nat,
         out # <<>>, MarksShown(b, out, in, marks, count),
         NEW next, next.query = marks.query, next.matches = marks.matches,
         marks.matches > 0 =>
           next.index = (marks.index + Head(out).by + marks.matches) % marks.matches
  PROVE  MarksShown(b, Tail(out), in, next, count)
<1> DEFINE n == Len(out)
           rest == Tail(out)
<1>1. /\ n \in Nat \ {0} /\ Head(out) = out[1] /\ rest \in Seq(PageMessage) /\ Len(rest) = n - 1
      /\ \A i \in 1..(n - 1) : rest[i] = out[i + 1]
  BY QueueHead
<1>2. /\ b.custom /\ in = <<>> /\ b.total = count
      /\ marks.query = b.query /\ marks.matches = count
      /\ \A i \in 1..n : out[i].kind = "step"
      /\ count = 0 => b.current = 0
  BY DEF MarksShown
<1>3. Head(out) = out[1]
  BY <1>1
<1> HIDE DEF n, rest
<1>4. \A i \in 1..Len(rest) : rest[i].kind = "step"
  <2> TAKE i \in 1..Len(rest)
  <2>1. i \in 1..(n - 1) /\ i + 1 \in 1..n
    BY <1>1
  <2> QED
    BY <1>1, <1>2, <2>1
<1>5. ASSUME count > 0
      PROVE  b.current \in 1..count /\ \E way \in [0..(n - 1) -> 0..(count - 1)] : Leads(way, rest, next, b)
  <2>1. PICK way \in [0..n -> 0..(count - 1)] : Leads(way, out, marks, b)
    BY <1>5 DEF MarksShown, n
  <2>2. /\ way[0] = marks.index /\ way[n] = b.current - 1
        /\ \A i \in 1..n : way[i] = (way[i - 1] + out[i].by + b.total) % b.total
    BY <2>1 DEF Leads, n
  <2>3. PICK further \in [0..(n - 1) -> 0..(count - 1)] :
          \A i \in 0..(n - 1) : further[i] = way[i + 1]
    <3>1. n \in Nat \ {0}
      BY <1>1
    <3> QED
      BY <3>1, WayShrinks
  <2>4. further[0] = next.index
    <3>1. 0 \in 0..(n - 1) /\ 1 \in 1..n
      BY <1>1
    <3>2. further[0] = way[1]
      BY <2>3, <3>1
    <3>3. way[1] = (way[0] + out[1].by + b.total) % b.total
      BY <2>2, <3>1
    <3> QED
      BY <1>2, <1>3, <1>5, <2>2, <3>2, <3>3
  <2>5. further[n - 1] = b.current - 1
    BY <1>1, <2>2, <2>3
  <2>6. \A i \in 1..(n - 1) : further[i] = (further[i - 1] + rest[i].by + b.total) % b.total
    <3> TAKE i \in 1..(n - 1)
    <3>1. i \in 0..(n - 1) /\ i - 1 \in 0..(n - 1) /\ i + 1 \in 1..n /\ i - 1 + 1 = i /\ i + 1 - 1 = i
      BY <1>1
    <3>2. further[i] = way[i + 1] /\ further[i - 1] = way[i] /\ rest[i] = out[i + 1]
      BY <1>1, <2>3, <3>1
    <3>3. \A k \in 1..n : k = i + 1 => way[k] = (way[i] + out[k].by + b.total) % b.total
      BY <2>2, <3>1
    <3> QED
      BY <3>1, <3>2, <3>3
  <2>7. Leads(further, rest, next, b)
    BY <1>1, <1>2, <2>3, <2>4, <2>5, <2>6 DEF Leads
  <2>8. b.current \in 1..count
    BY <1>5 DEF MarksShown
  <2> QED
    BY <2>3, <2>7, <2>8
<1>6. MarksShown(b, rest, in, next, count)
  BY <1>1, <1>2, <1>4, <1>5 DEF MarksShown
<1> QED
  BY <1>6 DEF rest

(* The window sees its tab's page run the next script.                     *)
LEMMA RunIsFollowed ==
  ASSUME FindInv, NEW w \in Window, fresh[w], bar[w].query # NoText,
         NEW t, t = view[w], toPage[t] # <<>>
  PROVE  Followed(w, bar[w], Tail(toPage[t]), toShell[t] \o Answers(t, Head(toPage[t])),
                  Marks(t, Head(toPage[t])), content[t][bar[w].query], w \in misled)
<1> DEFINE b == bar[w]
           out == toPage[t]
           in == toShell[t]
           m == Head(out)
           count == content[t][b.query]
           lied == w \in misled
<1>1. t \in Tab
  BY TypeOfSearch
<1>2. b \in Bar
  BY DEF FindInv, FindTypes, FindTypeOK
<1>3. b.query \in Query
  BY <1>2 DEF Bar
<1>4. out \in Seq(PageMessage)
  BY <1>1 DEF FindInv, FindTypes, FindTypeOK
<1>5. in \in Seq(ShellMessage)
  BY <1>1 DEF FindInv, FindTypes, FindTypeOK
<1>6. count \in Nat /\ Occurrences(t, b.query) = count
  BY <1>1, <1>3, OccurrencesAre
<1>7. m \in PageMessage
  BY <1>4, QueueHead
<1>8. Followed(w, b, out, in, found[t], count, lied)
  BY DEF FindInv, FollowsSearch
<1> DEFINE answers == Answers(t, m)
           marks == Marks(t, m)
<1>9. CASE Awaited(w, b, out, in)
  <2>1. \/ answers = <<>> /\ m.kind # "search"
        \/ /\ m.kind # "search"
           /\ \E a \in ShellMessage : answers = <<a>> /\ a.kind # "answer" /\ a.kind # "search"
        \/ /\ m.kind = "search"
           /\ \E a \in ShellMessage :
                /\ answers = <<a>> /\ a.kind = "answer"
                /\ a.window = m.window /\ a.generation = m.generation
                /\ a.count >= 0 /\ m.query = b.query =>
                     /\ a.count = count
                     /\ marks.query = b.query /\ marks.matches = count /\ marks.index = 0
    <3>1. CASE m.kind = "search"
      <4>1. PICK c \in Int :
              /\ answers = <<Answer(m.window, m.generation, c)>>
              /\ Answer(m.window, m.generation, c) \in ShellMessage
              /\ c >= 0 => c = Occurrences(t, m.query) /\ ~Outdated(t, m) /\ content[t] \notin Mute
        BY <1>1, <1>7, <3>1, AnswersFacts
      <4>2. c >= 0 /\ m.query = b.query =>
              c = count /\ marks.query = b.query /\ marks.matches = count /\ marks.index = 0
        BY <1>1, <1>6, <1>7, <3>1, <4>1, MarksFacts
      <4> DEFINE a == Answer(m.window, m.generation, c)
      <4>3. a.kind = "answer" /\ a.window = m.window /\ a.generation = m.generation /\ a.count = c
        BY DEF Answer
      <4>4. answers = <<a>> /\ a \in ShellMessage
        BY <4>1
      <4> HIDE DEF a, answers, marks
      <4> QED
        BY <3>1, <4>2, <4>3, <4>4
    <3>2. CASE m.kind = "count"
      <4>1. answers = <<Counted(Occurrences(t, m.query))>>
            /\ Counted(Occurrences(t, m.query)) \in ShellMessage
        BY <1>1, <1>7, <3>2, AnswersFacts
      <4>2. Counted(Occurrences(t, m.query)).kind = "counted"
        BY DEF Counted
      <4> QED
        BY <3>2, <4>1, <4>2
    <3>3. CASE m.kind \notin {"search", "count"}
      BY <1>1, <1>7, <3>3, AnswersFacts
    <3> QED
      BY <3>1, <3>2, <3>3
  <2> HIDE DEF answers, marks, b, out, in, count, lied
  <2>2. \/ Awaited(w, b, Tail(out), in \o answers)
        \/ Run(w, b, Tail(out), in \o answers, marks, count)
    <3>1. out # <<>>
      BY DEF out
    <3>2. count \in Nat
      BY <1>6
    <3> QED
      BY <1>2, <1>4, <1>5, <1>9, <2>1, <3>1, <3>2, RunOfAwaited DEF m
  <2>3. Followed(w, b, Tail(out), in \o answers, marks, count, lied)
    BY <2>2 DEF Followed
  <2> QED
    BY <2>3 DEF answers, marks, b, out, in, count, lied
<1>10. CASE MarksShown(b, out, in, found[t], count)
  <2>1. m.kind = "step"
    <3>1. Len(out) \in Nat \ {0} /\ m = out[1]
      BY <1>4, QueueHead
    <3> QED
      BY <1>10, <3>1 DEF MarksShown
  <2>2. answers = <<>>
    BY <1>1, <1>7, <2>1, AnswersFacts
  <2>3. in \o answers = in
    <3> HIDE DEF in, answers
    <3> QED
      BY <1>5, <2>2, ConcatEmptySeq
  <2>4. marks.query = found[t].query /\ marks.matches = found[t].matches
        /\ (found[t].matches > 0 =>
              marks.index = (found[t].index + m.by + found[t].matches) % found[t].matches)
    BY <1>1, <1>7, <2>1, MarksFacts
  <2>5. MarksShown(b, Tail(out), in, marks, count)
    <3>1. out # <<>>
      OBVIOUS
    <3>2. count \in Nat
      BY <1>6
    <3> HIDE DEF b, out, in, count, marks
    <3> QED
      BY <1>2, <1>4, <1>10, <2>4, <3>1, <3>2, StepIsMade DEF m
  <2> QED
    BY <2>3, <2>5 DEF Followed
<1>11. CASE Counts(b, out, in, count)
  <2>1. out = <<Count(b.query)>> /\ in = <<>>
    BY <1>11 DEF Counts
  <2>2. m = Count(b.query) /\ m.kind = "count" /\ m.query = b.query /\ Tail(out) = <<>>
    BY <2>1 DEF Count
  <2>3. answers = <<Counted(count)>>
    BY <1>1, <1>6, <1>7, <2>2, AnswersFacts
  <2>4. in \o answers = <<Counted(count)>>
    BY <2>1, <2>3
  <2>5. Counts(b, Tail(out), in \o answers, count)
    BY <1>11, <2>2, <2>4 DEF Counts
  <2> QED
    BY <2>5 DEF Followed
<1> QED
  BY <1>8, <1>9, <1>10, <1>11 DEF Followed, Run, CountShown
LEMMA RunScriptKeepsFind ==
  ASSUME FindInv, NEW t \in Tab, RunScript(t)
  PROVE  FindInv'
<1> DEFINE out == toPage[t]
           in == toShell[t]
           m == Head(out)
           answers == Answers(t, m)
           marks == Marks(t, m)
           told == in \o answers
<1>1. out \in Seq(PageMessage) /\ in \in Seq(ShellMessage) /\ out # <<>>
  BY DEF RunScript, FindInv, FindTypes, FindTypeOK
<1>2. /\ found' = [found EXCEPT ![t] = marks]
      /\ toPage' = [toPage EXCEPT ![t] = Tail(out)]
      /\ toShell' = [toShell EXCEPT ![t] = @ \o answers]
      /\ UNCHANGED <<pages, operations, bar, fresh, misled>>
  BY DEF RunScript
<1>3. /\ Len(out) \in Nat \ {0} /\ m = out[1] /\ Tail(out) \in Seq(PageMessage)
      /\ Len(Tail(out)) = Len(out) - 1
      /\ \A i \in 1..(Len(out) - 1) : Tail(out)[i] = out[i + 1]
  BY <1>1, QueueHead
<1>4. m \in PageMessage
  BY <1>1, QueueHead
<1>5. marks \in Found
  BY <1>4, MarksFacts
<1>6. \/ told = in
      \/ \E a \in ShellMessage :
           /\ told = Append(in, a)
           /\ a.kind = "answer" =>
                m.kind = "search" /\ a.window = m.window /\ a.generation = m.generation
  <2>1. CASE m.kind = "search"
    <3>1. PICK c \in Int : /\ answers = <<Answer(m.window, m.generation, c)>>
                           /\ Answer(m.window, m.generation, c) \in ShellMessage
      BY <1>4, <2>1, AnswersFacts
    <3>2. told = Append(in, Answer(m.window, m.generation, c))
      <4> DEFINE a == Answer(m.window, m.generation, c)
      <4>1. answers = <<a>> /\ a \in ShellMessage
        BY <3>1
      <4> HIDE DEF a, answers, in
      <4> QED
        BY <1>1, <4>1, QueueEnd DEF a
    <3>3. Answer(m.window, m.generation, c).window = m.window
          /\ Answer(m.window, m.generation, c).generation = m.generation
      BY DEF Answer
    <3> QED
      BY <2>1, <3>1, <3>2, <3>3
  <2>2. CASE m.kind = "count"
    <3> DEFINE a == Counted(Occurrences(t, m.query))
    <3>1. answers = <<a>> /\ a \in ShellMessage
      BY <1>4, <2>2, AnswersFacts
    <3>2. a.kind = "counted"
      BY DEF Counted
    <3> HIDE DEF a, answers, in
    <3>3. told = Append(in, a)
      BY <1>1, <3>1, QueueEnd
    <3> QED
      BY <3>1, <3>2, <3>3
  <2>3. CASE m.kind \notin {"search", "count"}
    <3>1. answers = <<>>
      BY <1>4, <2>3, AnswersFacts
    <3> HIDE DEF answers, in
    <3> QED
      BY <1>1, <3>1, ConcatEmptySeq
  <2> QED
    BY <2>1, <2>2, <2>3
<1>7. /\ told \in Seq(ShellMessage)
      /\ \A i \in 1..Len(told) : told[i].kind = "answer" =>
           \/ \E j \in 1..Len(in) : told[i] = in[j]
           \/ m.kind = "search" /\ m.window = told[i].window /\ m.generation = told[i].generation
  <2>1. CASE told = in
    BY <1>1, <2>1
  <2>2. ASSUME NEW a \in ShellMessage, told = Append(in, a),
               a.kind = "answer" =>
                 m.kind = "search" /\ a.window = m.window /\ a.generation = m.generation
        PROVE  /\ told \in Seq(ShellMessage)
               /\ \A i \in 1..Len(told) : told[i].kind = "answer" =>
                    \/ \E j \in 1..Len(in) : told[i] = in[j]
                    \/ m.kind = "search" /\ m.window = told[i].window /\ m.generation = told[i].generation
    <3> HIDE DEF told, in, m
    <3>1. /\ told \in Seq(ShellMessage) /\ Len(in) \in Nat /\ Len(told) = Len(in) + 1
          /\ told[Len(in) + 1] = a /\ \A i \in 1..Len(in) : told[i] = in[i]
      BY <1>1, <2>2, QueueEnd
    <3>2. \A i \in 1..Len(told) : i \in 1..Len(in) \/ i = Len(in) + 1
      BY <3>1
    <3> QED
      BY <2>2, <3>1, <3>2
  <2> QED
    BY <1>6, <2>1, <2>2
<1> HIDE DEF marks, answers
<1>8. /\ found'[t] = marks /\ toPage'[t] = Tail(out) /\ toShell'[t] = told
      /\ \A u \in Tab \ {t} : found'[u] = found[u] /\ toPage'[u] = toPage[u] /\ toShell'[u] = toShell[u]
  BY <1>2 DEF FindInv, FindTypes, FindTypeOK
<1>9. FindTypes'
  <2>1. found' \in [Tab -> Found]
    BY <1>2, <1>5 DEF FindInv, FindTypes, FindTypeOK, Found
  <2>2. toPage' \in [Tab -> Seq(PageMessage)]
    BY <1>2, <1>3 DEF FindInv, FindTypes, FindTypeOK
  <2>3. toShell' = [toShell EXCEPT ![t] = told]
    BY <1>2
  <2> HIDE DEF told
  <2>4. toShell' \in [Tab -> Seq(ShellMessage)]
    BY <1>7, <2>3 DEF FindInv, FindTypes, FindTypeOK
  <2> QED
    BY <1>2, <2>1, <2>2, <2>4 DEF FindInv, FindTypes, FindTypeOK, Found, pages
<1>10. NotAhead'
  <2>1. \A v \in Window : bar'[v].generation >= bar[v].generation
    BY <1>2, BarNumbers
  <2>2. ASSUME NEW u \in Tab, NEW i \in 1..Len(toPage'[u]), toPage'[u][i].kind = "search"
        PROVE  \E j \in 1..Len(toPage[u]) : toPage'[u][i] = toPage[u][j]
    <3>1. CASE u = t
      <4> DEFINE rest == Tail(out)
                 n == Len(out)
      <4>n. n \in Nat \ {0} /\ toPage'[t] = rest /\ Len(rest) = n - 1
        BY <1>3, <1>8
      <4>i. i \in 1..Len(toPage'[t])
        BY <3>1
      <4> HIDE DEF rest, n
      <4>j. i \in 1..(n - 1) /\ i + 1 \in 1..n
        BY <4>n, <4>i
      <4>1. i \in 1..(Len(out) - 1) /\ i + 1 \in 1..Len(out)
        BY <4>j DEF n
      <4> QED
        BY <1>3, <1>8, <3>1, <4>1
    <3>2. CASE u # t
      BY <1>8, <2>2, <3>2
    <3> QED
      BY <3>1, <3>2
  <2>3. ASSUME NEW u \in Tab, NEW i \in 1..Len(toShell'[u]), toShell'[u][i].kind = "answer"
        PROVE  \/ \E j \in 1..Len(toShell[u]) : toShell'[u][i] = toShell[u][j]
               \/ \E j \in 1..Len(toPage[u]) :
                    /\ toPage[u][j].kind = "search" /\ toPage[u][j].window = toShell'[u][i].window
                    /\ toPage[u][j].generation = toShell'[u][i].generation
    <3>1. CASE u = t
      <4>1. 1 \in 1..Len(out)
        BY <1>3
      <4> HIDE DEF told
      <4> QED
        BY <1>3, <1>7, <1>8, <2>3, <3>1, <4>1
    <3>2. CASE u # t
      BY <1>8, <2>3, <3>2
    <3> QED
      BY <3>1, <3>2
  <2> QED
    BY <1>9, <2>1, <2>2, <2>3, GenerationsKept
<1>11. ASSUME NEW w \in Window PROVE FollowsSearch(w)'
  <2>1. CASE fresh[w] /\ bar[w].query # NoText /\ view[w] = t
    <3>1. Followed(w, bar[w], Tail(out), told, marks, content[t][bar[w].query], w \in misled)
      BY <1>1, <2>1, RunIsFollowed DEF marks, answers
    <3> HIDE DEF out, told
    <3> QED
      BY <1>2, <1>8, <2>1, <3>1 DEF FollowsSearch, pages
  <2>2. CASE view[w] # t
    <3>1. fresh[w] => view[w] \in Tab \ {t}
      BY <2>2, TypeOfSearch
    <3> QED
      BY <1>2, <1>8, <3>1, Untouched DEF FindInv, pages
  <2>3. CASE ~fresh[w] \/ bar[w].query = NoText
    BY <1>2, <2>3 DEF FollowsSearch
  <2> QED
    BY <2>1, <2>2, <2>3
<1> QED
  BY <1>2, <1>9, <1>10, <1>11 DEF FindInv, pages
-----------------------------------------------------------------------------
(* The window takes what the page has answered.                            *)

LEMMA TakenAwaited ==
  ASSUME NEW w, NEW b, NEW out, NEW in \in Seq(ShellMessage), in # <<>>,
         Awaited(w, b, out, in)
  PROVE  Awaited(w, b, out, Tail(in)) /\ ~Own(w, b.generation, Head(in))
<1> DEFINE n == Len(in)
           rest == Tail(in)
<1>1. /\ n \in Nat \ {0} /\ Head(in) = in[1] /\ Len(rest) = n - 1
      /\ \A i \in 1..(n - 1) : rest[i] = in[i + 1]
  BY QueueHead
<1>2. \A i \in 1..n : ~Own(w, b.generation, in[i])
  BY DEF Awaited
<1> HIDE DEF n, rest
<1>3. \A i \in 1..(n - 1) : i + 1 \in 1..n
  BY <1>1
<1>4. \A i \in 1..Len(rest) : ~Own(w, b.generation, rest[i])
  BY <1>1, <1>2, <1>3
<1>5. ~Own(w, b.generation, Head(in))
  BY <1>1, <1>2
<1> QED
  BY <1>4, <1>5 DEF Awaited, rest

LEMMA TakenRun ==
  ASSUME NEW w, NEW b, NEW out, NEW in \in Seq(ShellMessage), in # <<>>,
         NEW marks, NEW count, Run(w, b, out, in, marks, count)
  PROVE  \/ Run(w, b, out, Tail(in), marks, count) /\ ~Own(w, b.generation, Head(in))
         \/ /\ Tail(in) = <<>> /\ Own(w, b.generation, Head(in))
            /\ Head(in).count >= 0 =>
                 /\ Head(in).count = count
                 /\ marks.query = b.query /\ marks.matches = count /\ marks.index = 0
<1> DEFINE n == Len(in)
           rest == Tail(in)
<1>1. /\ n \in Nat \ {0} /\ Head(in) = in[1] /\ rest \in Seq(ShellMessage) /\ Len(rest) = n - 1
      /\ \A i \in 1..(n - 1) : rest[i] = in[i + 1]
      /\ n = 1 => rest = <<>>
  BY QueueHead
<1>2. /\ ~b.custom /\ out = <<>>
      /\ Own(w, b.generation, in[n])
      /\ \A i \in 1..(n - 1) : ~Own(w, b.generation, in[i])
      /\ in[n].count >= 0 =>
           /\ in[n].count = count
           /\ marks.query = b.query /\ marks.matches = count /\ marks.index = 0
  BY DEF Run
<1>3. Head(in) = in[1]
  BY <1>1
<1> HIDE DEF n, rest
<1>4. CASE n = 1
  BY <1>1, <1>2, <1>3, <1>4 DEF rest
<1>5. CASE n # 1
  <2>1. n - 1 \in Nat \ {0} /\ 1 \in 1..(n - 1) /\ rest # <<>>
    BY <1>1, <1>5, EmptySeq
  <2>2. rest[Len(rest)] = in[n]
    BY <1>1, <2>1
  <2>3. \A i \in 1..(Len(rest) - 1) : ~Own(w, b.generation, rest[i])
    <3> TAKE i \in 1..(Len(rest) - 1)
    <3>1. i \in 1..(n - 1) /\ i + 1 \in 1..(n - 1)
      BY <1>1, <2>1
    <3> QED
      BY <1>1, <1>2, <3>1
  <2>4. Run(w, b, out, rest, marks, count)
    BY <1>2, <2>1, <2>2, <2>3 DEF Run
  <2>5. ~Own(w, b.generation, Head(in))
    BY <1>2, <1>3, <2>1
  <2> QED
    BY <2>4, <2>5 DEF rest
<1> QED
  BY <1>4, <1>5

(* What is not meant for the window changes nothing.                       *)
LEMMA PassedIsFollowed ==
  ASSUME NEW w, NEW b, NEW out, NEW in \in Seq(ShellMessage), in # <<>>,
         NEW marks, NEW count, NEW lied, Followed(w, b, out, in, marks, count, lied),
         ~Own(w, b.generation, Head(in)), Head(in).kind # "counted"
  PROVE  Followed(w, b, out, Tail(in), marks, count, lied)
<1>1. CASE Awaited(w, b, out, in)
  BY <1>1, TakenAwaited DEF Followed
<1>2. CASE Run(w, b, out, in, marks, count)
  BY <1>2, TakenRun DEF Followed
<1>3. CASE Counts(b, out, in, count)
  <2>1. in = <<Counted(count)>>
    BY <1>3 DEF Counts
  <2>2. Head(in).kind = "counted"
    BY <2>1 DEF Counted
  <2> QED
    BY <2>2
<1> QED
  BY <1>1, <1>2, <1>3 DEF Followed, MarksShown, CountShown

(* The count of the tab that is shown: of its document, or too early to    *)
(* matter.                                                                 *)
LEMMA CountIsFollowed ==
  ASSUME NEW w, NEW b, NEW out, NEW in \in Seq(ShellMessage), in # <<>>,
         NEW marks, NEW count \in Nat, NEW lied, Followed(w, b, out, in, marks, count, lied),
         Head(in).kind = "counted",
         NEW c, c.generation = b.generation, c.query = b.query, c.custom = b.custom,
         c.total = Head(in).count, c.current = IF Head(in).count > 0 THEN 1 ELSE 0
  PROVE  ~b.custom /\ Followed(w, c, out, Tail(in), marks, count, FALSE)
<1>1. CASE Awaited(w, b, out, in)
  <2>1. Awaited(w, b, out, Tail(in))
    BY <1>1, TakenAwaited
  <2>2. ~b.custom /\ Awaited(w, c, out, Tail(in))
    BY <2>1 DEF Awaited
  <2> QED
    BY <2>2 DEF Followed
<1>2. CASE Run(w, b, out, in, marks, count)
  <2>1. Run(w, b, out, Tail(in), marks, count)
    BY <1>2, TakenRun DEF Own
  <2>2. ~b.custom /\ Run(w, c, out, Tail(in), marks, count)
    BY <2>1 DEF Run
  <2> QED
    BY <2>2 DEF Followed
<1>3. CASE Counts(b, out, in, count)
  <2>1. ~b.custom /\ out = <<>> /\ in = <<Counted(count)>>
    BY <1>3 DEF Counts
  <2>2. Head(in).count = count /\ Tail(in) = <<>>
    BY <2>1 DEF Counted
  <2>3. CountShown(c, out, Tail(in), count, FALSE)
    BY <2>1, <2>2 DEF CountShown
  <2> QED
    BY <2>1, <2>3 DEF Followed
<1> QED
  BY <1>1, <1>2, <1>3 DEF Followed, MarksShown, CountShown

(* The count of another tab spoils the numbers of the bar and no more.     *)
LEMMA WrongCountIsFollowed ==
  ASSUME NEW w, NEW b, NEW out, NEW in,
         NEW marks, NEW count, NEW lied, Followed(w, b, out, in, marks, count, lied), ~b.custom,
         NEW c, c.generation = b.generation, c.query = b.query, c.custom = b.custom
  PROVE  Followed(w, c, out, in, marks, count, TRUE)
<1>1. CASE Awaited(w, b, out, in)
  BY <1>1 DEF Awaited, Followed
<1>2. CASE Run(w, b, out, in, marks, count)
  BY <1>2 DEF Run, Followed
<1>3. CASE Counts(b, out, in, count)
  BY <1>3 DEF Counts, Followed
<1>4. CASE CountShown(b, out, in, count, lied)
  BY <1>4 DEF CountShown, Followed
<1> QED
  BY <1>1, <1>2, <1>3, <1>4 DEF Followed, MarksShown

(* The answer to the search that was the window's last.                    *)
LEMMA AnswerIsFollowed ==
  ASSUME NEW w, NEW b, NEW out, NEW in \in Seq(ShellMessage), in # <<>>,
         NEW marks, NEW count \in Nat, NEW lied, Followed(w, b, out, in, marks, count, lied),
         Own(w, b.generation, Head(in)),
         NEW c, c.query = b.query,
         Head(in).count >= 0 =>
           /\ c.custom /\ c.total = Head(in).count
           /\ c.current = IF Head(in).count > 0 THEN 1 ELSE 0,
         ~(Head(in).count >= 0) => ~c.custom,
         NEW told, told = IF Head(in).count >= 0 THEN out ELSE Append(out, Count(b.query))
  PROVE  \A truth \in BOOLEAN : Followed(w, c, told, Tail(in), marks, count, truth)
<1>1. Run(w, b, out, in, marks, count)
  <2>1. ~Awaited(w, b, out, in)
    BY TakenAwaited
  <2>2. ~Counts(b, out, in, count)
    <3> SUFFICES ASSUME in = <<Counted(count)>> PROVE FALSE
      BY DEF Counts
    <3> QED
      BY DEF Counted, Own
  <2> QED
    BY <2>1, <2>2 DEF Followed, MarksShown, CountShown
<1>2. /\ out = <<>> /\ Tail(in) = <<>>
      /\ Head(in).count >= 0 =>
           /\ Head(in).count = count
           /\ marks.query = b.query /\ marks.matches = count /\ marks.index = 0
  BY <1>1, TakenRun DEF Run
<1>3. CASE Head(in).count >= 0
  <2>1. /\ told = <<>> /\ Len(told) = 0 /\ c.custom /\ c.total = count
        /\ c.current = IF count > 0 THEN 1 ELSE 0
        /\ marks.query = c.query /\ marks.matches = count /\ marks.index = 0
    BY <1>2, <1>3
  <2>2. ASSUME count > 0
        PROVE  \E way \in [0..0 -> 0..(count - 1)] : Leads(way, told, marks, c)
    <3> DEFINE way == [i \in 0..0 |-> 0]
    <3>1. way \in [0..0 -> 0..(count - 1)] /\ way[0] = 0
      BY <2>2
    <3> HIDE DEF way
    <3>2. Leads(way, told, marks, c)
      BY <2>1, <2>2, <3>1 DEF Leads
    <3> QED
      BY <3>1, <3>2
  <2>3. count > 0 => c.current \in 1..count
    BY <2>1
  <2>4. MarksShown(c, told, Tail(in), marks, count)
    <3>1. ASSUME count > 0
          PROVE  \E way \in [0..Len(told) -> 0..(count - 1)] : Leads(way, told, marks, c)
      BY <2>1, <2>2, <3>1
    <3>2. /\ c.custom /\ Tail(in) = <<>> /\ c.total = count
          /\ marks.query = c.query /\ marks.matches = count
      BY <1>2, <2>1
    <3>3. \A i \in 1..Len(told) : told[i].kind = "step"
      BY <2>1
    <3>4. count = 0 => c.current = 0
      BY <2>1
    <3> QED
      BY <2>3, <3>1, <3>2, <3>3, <3>4 DEF MarksShown
  <2> QED
    BY <2>4 DEF Followed
<1>4. CASE ~(Head(in).count >= 0)
  <2>1. told = <<Count(c.query)>>
    BY <1>2, <1>4
  <2>2. Counts(c, told, Tail(in), count)
    BY <1>2, <1>4, <2>1 DEF Counts
  <2> QED
    BY <2>2 DEF Followed
<1> QED
  BY <1>3, <1>4
LEMMA CountIsNoSearch ==
  ASSUME NEW out \in Seq(PageMessage), NEW query \in Query \cup {NoText}
  PROVE  LET more == Append(out, Count(query))
         IN  /\ more \in Seq(PageMessage)
             /\ \A i \in 1..Len(more) : more[i].kind = "search" => \E j \in 1..Len(out) : more[i] = out[j]
<1> DEFINE more == Append(out, Count(query))
<1>1. Count(query) \in PageMessage /\ Count(query).kind = "count"
  BY DEF Count, PageMessage
<1>2. /\ more \in Seq(PageMessage) /\ Len(out) \in Nat /\ Len(more) = Len(out) + 1
      /\ more[Len(out) + 1] = Count(query) /\ \A i \in 1..Len(out) : more[i] = out[i]
  BY <1>1, QueueEnd
<1> HIDE DEF more
<1>3. \A i \in 1..Len(more) : i \in 1..Len(out) \/ i = Len(out) + 1
  BY <1>2
<1>4. \A i \in 1..Len(more) : more[i].kind = "search" => \E j \in 1..Len(out) : more[i] = out[j]
  BY <1>1, <1>2, <1>3
<1> QED
  BY <1>2, <1>4 DEF more

(* What is common to all that a window may make of an answer.              *)
LEMMA TakingKeepsFind ==
  ASSUME FindInv, NEW t \in Tab, Answered(t),
         bar' \in [Window -> Bar], misled' \in SUBSET Window,
         \A w \in Window : bar'[w].visible = bar[w].visible /\ bar'[w].generation = bar[w].generation,
         \/ UNCHANGED toPage
         \/ \E query \in Query \cup {NoText} : toPage' = [toPage EXCEPT ![t] = Append(@, Count(query))],
         \A w \in Window : FollowsSearch(w)'
  PROVE  FindInv'
<1> DEFINE out == toPage[t]
           in == toShell[t]
           rest == Tail(in)
           n == Len(in)
<1>1. out \in Seq(PageMessage) /\ in \in Seq(ShellMessage) /\ in # <<>>
  BY DEF Answered, FindInv, FindTypes, FindTypeOK
<1>2. toShell' = [toShell EXCEPT ![t] = rest] /\ UNCHANGED <<pages, operations, found, fresh>>
  BY DEF Answered
<1>3. /\ n \in Nat \ {0} /\ rest \in Seq(ShellMessage) /\ Len(rest) = n - 1
      /\ \A i \in 1..(n - 1) : rest[i] = in[i + 1]
  BY <1>1, QueueHead
<1> HIDE DEF rest
<1>4. /\ toShell' \in [Tab -> Seq(ShellMessage)] /\ toShell'[t] = rest
      /\ \A u \in Tab \ {t} : toShell'[u] = toShell[u]
  BY <1>2, <1>3 DEF FindInv, FindTypes, FindTypeOK
<1>6. ASSUME NEW query \in Query \cup {NoText}, toPage' = [toPage EXCEPT ![t] = Append(@, Count(query))]
      PROVE  /\ toPage' \in [Tab -> Seq(PageMessage)]
             /\ \A u \in Tab : \A i \in 1..Len(toPage'[u]) : toPage'[u][i].kind = "search" =>
                  \E j \in 1..Len(toPage[u]) : toPage'[u][i] = toPage[u][j]
  <2> DEFINE more == Append(out, Count(query))
  <2>1. toPage' = [toPage EXCEPT ![t] = more]
    BY <1>6
  <2>2. /\ more \in Seq(PageMessage)
        /\ \A i \in 1..Len(more) : more[i].kind = "search" => \E j \in 1..Len(out) : more[i] = out[j]
    BY <1>1, CountIsNoSearch
  <2> HIDE DEF more
  <2>3. toPage' \in [Tab -> Seq(PageMessage)] /\ toPage'[t] = more
        /\ \A u \in Tab \ {t} : toPage'[u] = toPage[u]
    BY <2>1, <2>2 DEF FindInv, FindTypes, FindTypeOK
  <2>4. ASSUME NEW u \in Tab, NEW i \in 1..Len(toPage'[u]), toPage'[u][i].kind = "search"
        PROVE  \E j \in 1..Len(toPage[u]) : toPage'[u][i] = toPage[u][j]
    <3>1. CASE u = t
      BY <2>2, <2>3, <2>4, <3>1
    <3>2. CASE u # t
      BY <2>3, <2>4, <3>2
    <3> QED
      BY <3>1, <3>2
  <2> QED
    BY <2>3, <2>4
<1>7. /\ toPage' \in [Tab -> Seq(PageMessage)]
      /\ \A u \in Tab : \A i \in 1..Len(toPage'[u]) : toPage'[u][i].kind = "search" =>
           \E j \in 1..Len(toPage[u]) : toPage'[u][i] = toPage[u][j]
  <2>1. CASE UNCHANGED toPage
    BY <2>1 DEF FindInv, FindTypes, FindTypeOK
  <2> QED
    BY <1>6, <2>1
<1>8. FindTypes'
  BY <1>2, <1>4, <1>7 DEF FindInv, FindTypes, FindTypeOK, pages
<1>9. NotAhead'
  <2>1. \A v \in Window : bar'[v].generation >= bar[v].generation
    BY BarNumbers
  <2>2. ASSUME NEW u \in Tab, NEW i \in 1..Len(toShell'[u]), toShell'[u][i].kind = "answer"
        PROVE  \E j \in 1..Len(toShell[u]) : toShell'[u][i] = toShell[u][j]
    <3>1. CASE u = t
      <4> HIDE DEF n
      <4>1. i \in 1..(n - 1) /\ i + 1 \in 1..n
        BY <1>3, <1>4, <3>1
      <4> QED
        BY <1>3, <1>4, <3>1, <4>1 DEF n
    <3>2. CASE u # t
      BY <1>4, <2>2, <3>2
    <3> QED
      BY <3>1, <3>2
  <2> QED
    BY <1>7, <1>8, <2>1, <2>2, GenerationsKept
<1> QED
  BY <1>2, <1>8, <1>9 DEF FindInv, pages

(* What a window that shows the tab has been following.                    *)
LEMMA ShownIsFollowed ==
  ASSUME FindInv, NEW t \in Tab, Answered(t), NEW w \in Window, fresh'[w], bar[w].query # NoText
  PROVE  /\ fresh[w] /\ view'[w] = view[w] /\ view[w] \in Tab /\ home[view[w]] = w
         /\ found' = found /\ content' = content
         /\ content[view[w]][bar[w].query] \in Nat
         /\ toShell'[view[w]] = IF view[w] = t THEN Tail(toShell[t]) ELSE toShell[view[w]]
         /\ toShell[t] \in Seq(ShellMessage) /\ toShell[t] # <<>>
         /\ Followed(w, bar[w], toPage[view[w]], toShell[view[w]], found[view[w]],
                     content[view[w]][bar[w].query], w \in misled)
<1>1. UNCHANGED <<pages, fresh, found>> /\ toShell' = [toShell EXCEPT ![t] = Tail(@)]
      /\ toShell[t] # <<>>
  BY DEF Answered
<1>2. fresh[w] /\ view'[w] = view[w] /\ view[w] \in Tab /\ home[view[w]] = w /\ content' = content
  BY <1>1, TypeOfSearch DEF pages
<1>3. toShell[t] \in Seq(ShellMessage) /\ bar[w].query \in Query
  BY DEF FindInv, FindTypes, FindTypeOK, Bar
<1>4. content[view[w]][bar[w].query] \in Nat
  BY <1>2, <1>3, PagesAssumption DEF FindInv, FindTypes
<1>5. toShell'[view[w]] = IF view[w] = t THEN Tail(toShell[t]) ELSE toShell[view[w]]
  BY <1>1, <1>2 DEF FindInv, FindTypes, FindTypeOK
<1>6. Followed(w, bar[w], toPage[view[w]], toShell[view[w]], found[view[w]],
                     content[view[w]][bar[w].query], w \in misled)
  BY <1>2 DEF FindInv, FollowsSearch
<1> QED
  BY <1>1, <1>2, <1>3, <1>4, <1>5, <1>6

(* An answer to a search that was not the last, an answer for a tab that   *)
(* is not shown any more, or no answer.                                    *)
LEMMA PassedKeepsFind ==
  ASSUME FindInv, NEW t \in Tab, Answered(t), UNCHANGED <<bar, toPage, misled>>,
         Head(toShell[t]).kind # "counted",
         Head(toShell[t]).kind = "answer" => ~Believed(t, Head(toShell[t]))
  PROVE  FindInv'
<1>1. ASSUME NEW w \in Window PROVE FollowsSearch(w)'
  <2> SUFFICES ASSUME fresh'[w], bar[w].query # NoText
               PROVE  Followed(w, bar[w], toPage[view[w]], toShell'[view[w]], found[view[w]],
                               content[view[w]][bar[w].query], w \in misled)
    <3>1. bar' = bar /\ toPage' = toPage /\ misled' = misled
      OBVIOUS
    <3> QED
      BY <3>1, ShownIsFollowed DEF FollowsSearch
  <2> DEFINE in == toShell[t]
             lied == w \in misled
  <2>1. /\ view[w] \in Tab /\ home[view[w]] = w
        /\ toShell'[view[w]] = IF view[w] = t THEN Tail(in) ELSE toShell[view[w]]
        /\ Followed(w, bar[w], toPage[view[w]], toShell[view[w]], found[view[w]],
                    content[view[w]][bar[w].query], lied)
    BY ShownIsFollowed
  <2>2. in \in Seq(ShellMessage) /\ in # <<>>
    BY ShownIsFollowed
  <2> HIDE DEF lied
  <2>3. CASE view[w] # t
    BY <2>1, <2>3 DEF lied
  <2>4. CASE view[w] = t
    <3>1. Head(in) \in ShellMessage
      BY <2>2, QueueHead
    <3>2. ~Own(w, bar[w].generation, Head(in)) /\ Head(in).kind # "counted"
      BY <2>4, <3>1 DEF Own, Believed, ShellMessage, Unheard
    <3>3. Followed(w, bar[w], toPage[t], in, found[t], content[t][bar[w].query], lied)
      BY <2>1, <2>4
    <3>4. toShell'[t] = Tail(in)
      BY <2>1, <2>4
    <3> HIDE DEF in
    <3>5. Followed(w, bar[w], toPage[t], Tail(in), found[t], content[t][bar[w].query], lied)
      BY <2>2, <3>2, <3>3, PassedIsFollowed
    <3> QED
      BY <2>4, <3>4, <3>5 DEF lied
  <2> QED
    BY <2>3, <2>4
<1>2. bar' \in [Window -> Bar] /\ misled' \in SUBSET Window
  BY DEF FindInv, FindTypes, FindTypeOK
<1> QED
  BY <1>1, <1>2, TakingKeepsFind
(* A native count, for the window that the tab is in.                      *)
LEMMA CountedKeepsFind ==
  ASSUME FindInv, NEW t \in Tab, Answered(t),
         Head(toShell[t]).kind = "counted", FindCounted(t, Head(toShell[t]).count)
  PROVE  FindInv'
<1> DEFINE in == toShell[t]
           v == home[t]
           number == Head(in).count
           total == [bar[v] EXCEPT !.total = number]
           c == [total EXCEPT !.current = IF number > 0 THEN 1 ELSE 0]
<1>1. in \in Seq(ShellMessage) /\ in # <<>> /\ v \in Window
  BY DEF Answered, FindInv, FindTypes, FindTypeOK
<1>2. Head(in) \in ShellMessage
  BY <1>1, QueueHead
<1>3. number \in Nat
  BY <1>2 DEF ShellMessage, Unheard
<1>4. bar[v] \in Bar
  BY <1>1 DEF FindInv, FindTypes, FindTypeOK
<1>5. /\ UNCHANGED toPage
      /\ bar[v].custom => bar' = bar /\ misled' = misled
      /\ ~bar[v].custom => /\ bar' = [bar EXCEPT ![v] = c]
                           /\ misled' = IF view[v] = t THEN misled \ {v} ELSE misled \cup {v}
  <2>1. CASE bar[v].custom
    BY <2>1 DEF FindCounted
  <2>2. CASE ~bar[v].custom
    BY <2>2 DEF FindCounted
  <2> QED
    BY <2>1, <2>2
<1> HIDE DEF number
<1>6. /\ total \in Bar /\ total.visible = bar[v].visible /\ total.generation = bar[v].generation
      /\ total.query = bar[v].query /\ total.custom = bar[v].custom /\ total.total = number
  BY <1>3, <1>4 DEF Bar
<1> HIDE DEF total
<1>7. /\ c \in Bar /\ c.visible = bar[v].visible /\ c.generation = bar[v].generation
      /\ c.query = bar[v].query /\ c.custom = bar[v].custom
      /\ c.total = number /\ c.current = IF number > 0 THEN 1 ELSE 0
  BY <1>6 DEF Bar
<1> HIDE DEF c
<1>8. bar' \in [Window -> Bar] /\ misled' \in SUBSET Window
  BY <1>1, <1>5, <1>7 DEF FindInv, FindTypes, FindTypeOK
<1>9. \A w \in Window :
        bar'[w] = IF w = v /\ ~bar[v].custom THEN c ELSE bar[w]
  BY <1>1, <1>5 DEF FindInv, FindTypes, FindTypeOK
<1>10. \A w \in Window : /\ bar'[w].visible = bar[w].visible /\ bar'[w].generation = bar[w].generation
                         /\ bar'[w].query = bar[w].query
  BY <1>7, <1>9
<1>11. ASSUME NEW w \in Window PROVE FollowsSearch(w)'
  <2> DEFINE u == view[w]
             lied == w \in misled
             count == content[u][bar[w].query]
  <2>1. SUFFICES ASSUME fresh'[w], bar[w].query # NoText
                 PROVE  Followed(w, bar'[w], toPage[u], toShell'[u], found[u], count, w \in misled')
    <3>1. bar'[w].query = bar[w].query /\ toPage' = toPage
      BY <1>5, <1>10
    <3> QED
      BY <3>1, ShownIsFollowed DEF FollowsSearch
  <2>2. /\ u \in Tab /\ home[u] = w
        /\ toShell'[u] = IF u = t THEN Tail(in) ELSE toShell[u]
        /\ Followed(w, bar[w], toPage[u], toShell[u], found[u], count, lied)
    BY <2>1, ShownIsFollowed
  <2>n. count \in Nat
    BY <2>1, ShownIsFollowed
  <2>i. in \in Seq(ShellMessage)
    BY <1>1
  <2>k. in # <<>> /\ Head(in).kind = "counted"
    BY <1>1
  <2> HIDE DEF lied, count, u, in
  <2>3. CASE u = t
    <3>1. w = v
      BY <2>2, <2>3
    <3>2. Followed(w, bar[w], toPage[u], in, found[u], count, lied)
      BY <2>2, <2>3 DEF in
    <3>3. ~bar[w].custom /\ Followed(w, c, toPage[u], Tail(in), found[u], count, FALSE)
      BY <1>7, <2>n, <2>i, <2>k, <3>1, <3>2, CountIsFollowed DEF number
    <3>4. bar'[w] = c /\ w \notin misled'
      BY <1>5, <1>9, <2>3, <3>1, <3>3 DEF u
    <3>5. toShell'[u] = Tail(in)
      BY <2>2, <2>3
    <3> QED
      BY <3>3, <3>4, <3>5 DEF Followed, CountShown
  <2>4. CASE u # t /\ w = v /\ ~bar[w].custom
    <3>1. bar'[w] = c /\ w \in misled'
      BY <1>5, <1>9, <2>4 DEF u
    <3>2. Followed(w, bar[w], toPage[u], toShell[u], found[u], count, lied)
      BY <2>2
    <3>3. Followed(w, c, toPage[u], toShell[u], found[u], count, TRUE)
      BY <1>7, <2>4, <3>2, WrongCountIsFollowed
    <3> QED
      BY <2>2, <2>4, <3>1, <3>3
  <2>5. CASE u # t /\ ~(w = v /\ ~bar[w].custom)
    <3>1. bar'[w] = bar[w] /\ (w \in misled' <=> w \in misled)
      BY <1>5, <1>9, <2>5
    <3>2. CASE w \in misled
      BY <2>2, <2>5, <3>1, <3>2 DEF lied
    <3>3. CASE w \notin misled
      BY <2>2, <2>5, <3>1, <3>3 DEF lied
    <3> QED
      BY <3>2, <3>3
  <2> QED
    BY <2>3, <2>4, <2>5
<1> QED
  BY <1>5, <1>8, <1>10, <1>11, TakingKeepsFind
(* The answer to the last search of a window that still shows the tab.     *)
LEMMA EvaluatedKeepsFind ==
  ASSUME FindInv, NEW t \in Tab, Answered(t), Head(toShell[t]).kind = "answer",
         Believed(t, Head(toShell[t])), FindEvaluated(t, Head(toShell[t]))
  PROVE  FindInv'
<1> DEFINE in == toShell[t]
           m == Head(in)
           w == m.window
           b == bar[w]
           shown == [b EXCEPT !.custom = TRUE]
           total == [shown EXCEPT !.total = m.count]
           c == IF m.count >= 0 THEN [total EXCEPT !.current = IF m.count > 0 THEN 1 ELSE 0]
                ELSE [b EXCEPT !.custom = FALSE]
           told == IF m.count >= 0 THEN toPage[t] ELSE Append(toPage[t], Count(b.query))
<1>1. in \in Seq(ShellMessage) /\ in # <<>> /\ toPage[t] \in Seq(PageMessage)
  BY DEF Answered, FindInv, FindTypes, FindTypeOK
<1>2. m \in ShellMessage
  BY <1>1, QueueHead
<1>3. w \in Window /\ m.count \in Int /\ m.generation = b.generation /\ view[w] = t
  BY <1>2 DEF ShellMessage, Unheard, Believed
<1>4. b \in Bar
  BY <1>3 DEF FindInv, FindTypes, FindTypeOK
<1>5. /\ bar' = [bar EXCEPT ![w] = c]
      /\ m.count >= 0 => UNCHANGED toPage /\ misled' = misled \ {w}
      /\ ~(m.count >= 0) =>
           toPage' = [toPage EXCEPT ![t] = Append(@, Count(b.query))] /\ UNCHANGED misled
  <2>1. CASE m.count >= 0
    BY <2>1 DEF FindEvaluated
  <2>2. CASE ~(m.count >= 0)
    BY <2>2 DEF FindEvaluated
  <2> QED
    BY <2>1, <2>2
<1>6. /\ shown \in Bar /\ shown.visible = b.visible /\ shown.generation = b.generation
      /\ shown.query = b.query /\ shown.custom = TRUE
  BY <1>4 DEF Bar
<1>h. /\ [b EXCEPT !.custom = FALSE] \in Bar /\ [b EXCEPT !.custom = FALSE].visible = b.visible
      /\ [b EXCEPT !.custom = FALSE].generation = b.generation
      /\ [b EXCEPT !.custom = FALSE].query = b.query /\ [b EXCEPT !.custom = FALSE].custom = FALSE
  BY <1>4 DEF Bar
<1> HIDE DEF shown
<1>7. m.count >= 0 =>
        /\ total \in Bar /\ total.visible = b.visible /\ total.generation = b.generation
        /\ total.query = b.query /\ total.custom = TRUE /\ total.total = m.count
  BY <1>3, <1>6 DEF Bar
<1> HIDE DEF total
<1>8. /\ c \in Bar /\ c.visible = b.visible /\ c.generation = b.generation /\ c.query = b.query
      /\ m.count >= 0 => /\ c.custom = TRUE /\ c.total = m.count
                         /\ c.current = IF m.count > 0 THEN 1 ELSE 0
      /\ ~(m.count >= 0) => c.custom = FALSE
  <2>1. CASE m.count >= 0
    <3>1. c = [total EXCEPT !.current = IF m.count > 0 THEN 1 ELSE 0]
      BY <2>1
    <3> QED
      BY <1>7, <2>1, <3>1 DEF Bar
  <2>2. CASE ~(m.count >= 0)
    BY <1>h, <2>2
  <2> QED
    BY <2>1, <2>2
<1> HIDE DEF c
<1>9. /\ bar' \in [Window -> Bar] /\ bar'[w] = c /\ \A v \in Window \ {w} : bar'[v] = bar[v]
      /\ misled' \in SUBSET Window
  BY <1>3, <1>5, <1>8 DEF FindInv, FindTypes, FindTypeOK
<1>10. toPage'[t] = told /\ \A u \in Tab \ {t} : toPage'[u] = toPage[u]
  <2>1. CASE m.count >= 0
    BY <1>5, <2>1
  <2>2. CASE ~(m.count >= 0)
    <3> DEFINE more == Append(toPage[t], Count(b.query))
    <3>1. toPage' = [toPage EXCEPT ![t] = more] /\ told = more
      BY <1>5, <2>2
    <3> HIDE DEF more, told
    <3> QED
      BY <3>1 DEF FindInv, FindTypes, FindTypeOK
  <2> QED
    BY <2>1, <2>2
<1>11. \A v \in Window : bar'[v].visible = bar[v].visible /\ bar'[v].generation = bar[v].generation
                         /\ bar'[v].query = bar[v].query
  BY <1>8, <1>9
<1>12. ASSUME fresh'[w], b.query # NoText
       PROVE  Followed(w, c, told, Tail(in), found[t], content[t][b.query], w \in misled')
  <2> DEFINE count == content[t][b.query]
             lied == w \in misled
             lies == w \in misled'
  <2>1. /\ count \in Nat
        /\ Followed(w, b, toPage[t], in, found[t], count, lied)
    BY <1>3, <1>12, ShownIsFollowed
  <2>2. Own(w, b.generation, m)
    BY <1>3 DEF Own
  <2>3. lies \in BOOLEAN
    OBVIOUS
  <2>4. in \in Seq(ShellMessage)
    BY <1>1
  <2>5. in # <<>>
    BY <1>1
  <2>6. told = IF m.count >= 0 THEN toPage[t] ELSE Append(toPage[t], Count(b.query))
    OBVIOUS
  <2>7. count \in Nat
    BY <2>1
  <2> HIDE DEF count, lied, lies, told, b, w, in
  <2>8. \A truth \in BOOLEAN : Followed(w, c, told, Tail(in), found[t], count, truth)
    BY <1>8, <2>1, <2>2, <2>4, <2>5, <2>6, <2>7, AnswerIsFollowed
  <2>9. Followed(w, c, told, Tail(in), found[t], count, lies)
    BY <2>3, <2>8
  <2> QED
    BY <2>9 DEF count, lies
<1>13. ASSUME NEW v \in Window PROVE FollowsSearch(v)'
  <2>1. SUFFICES ASSUME fresh'[v], bar[v].query # NoText
                 PROVE  Followed(v, bar'[v], toPage'[view[v]], toShell'[view[v]], found[view[v]],
                                 content[view[v]][bar[v].query], v \in misled')
    BY <1>11, ShownIsFollowed DEF FollowsSearch
  <2>2. /\ view[v] \in Tab /\ home[view[v]] = v
        /\ toShell'[view[v]] = IF view[v] = t THEN Tail(in) ELSE toShell[view[v]]
        /\ Followed(v, bar[v], toPage[view[v]], toShell[view[v]], found[view[v]],
                    content[view[v]][bar[v].query], v \in misled)
    BY <2>1, ShownIsFollowed
  <2>3. CASE v = w
    <3>1. Followed(w, c, told, Tail(in), found[t], content[t][b.query], w \in misled')
      BY <1>12, <2>1, <2>3
    <3>2. toShell'[t] = Tail(in) /\ view[v] = t
      BY <1>3, <2>2, <2>3
    <3> HIDE DEF told, in
    <3> QED
      BY <1>9, <1>10, <2>3, <3>1, <3>2
  <2>4. CASE v # w
    <3>1. view[v] # t
      <4>1. home[view[w]] = w
        BY <1>3, PagesAssumption DEF FindInv
      <4> QED
        BY <1>3, <2>2, <2>4, <4>1
    <3>2. bar'[v] = bar[v] /\ toPage'[view[v]] = toPage[view[v]] /\ toShell'[view[v]] = toShell[view[v]]
          /\ (v \in misled' <=> v \in misled)
      BY <1>5, <1>9, <1>10, <2>2, <2>4, <3>1
    <3>3. CASE v \in misled
      BY <2>2, <3>2, <3>3
    <3>4. CASE v \notin misled
      BY <2>2, <3>2, <3>4
    <3> QED
      BY <3>3, <3>4
  <2> QED
    BY <2>3, <2>4
<1>14. \/ UNCHANGED toPage
       \/ \E query \in Query \cup {NoText} : toPage' = [toPage EXCEPT ![t] = Append(@, Count(query))]
  BY <1>4, <1>5 DEF Bar
<1> QED
  BY <1>9, <1>11, <1>13, <1>14, TakingKeepsFind

LEMMA AnsweredKeepsFind ==
  ASSUME FindInv, NEW t \in Tab, Answered(t)
  PROVE  FindInv'
<1>1. CASE Head(toShell[t]).kind = "counted"
  BY <1>1, CountedKeepsFind DEF Answered
<1>2. CASE Head(toShell[t]).kind = "answer"
  <2>1. FindEvaluated(t, Head(toShell[t]))
    BY <1>2 DEF Answered
  <2>2. CASE Believed(t, Head(toShell[t]))
    BY <1>2, <2>1, <2>2, EvaluatedKeepsFind
  <2>3. CASE ~Believed(t, Head(toShell[t]))
    BY <1>2, <2>1, <2>3, PassedKeepsFind DEF FindEvaluated
  <2> QED
    BY <2>2, <2>3
<1>3. CASE Head(toShell[t]).kind = "unheard"
  BY <1>3, PassedKeepsFind DEF Answered
<1> QED
  BY <1>1, <1>2, <1>3 DEF Answered
-----------------------------------------------------------------------------

LEMMA FindInitially ==
  FindStart => FindInv
<1> SUFFICES ASSUME FindStart PROVE FindInv
  OBVIOUS
<1>1. /\ home \in [Tab -> Window] /\ view \in [Window -> Tab] /\ content \in [Tab -> Contents]
      /\ \A w \in Window : home[view[w]] = w
  BY DEF FindStart, PagesInit
<1> DEFINE empty == [visible |-> FALSE, query |-> NoText, generation |-> 0,
                     custom |-> FALSE, total |-> 0, current |-> 0]
<1>2. /\ bar = [w \in Window |-> empty] /\ found = [t \in Tab |-> Unmarked]
      /\ toPage = [t \in Tab |-> <<>>] /\ toShell = [t \in Tab |-> <<>>]
      /\ fresh = [w \in Window |-> FALSE] /\ misled = {}
  BY DEF FindStart, FindInit
<1>3. empty \in Bar /\ Unmarked \in Found
  BY DEF Bar, Unmarked, Found
<1> HIDE DEF empty
<1>4. toPage \in [Tab -> Seq(PageMessage)] /\ toShell \in [Tab -> Seq(ShellMessage)]
  BY <1>2
<1>5. FindTypes
  <2>1. bar \in [Window -> Bar] /\ found \in [Tab -> Found] /\ fresh \in [Window -> BOOLEAN]
        /\ misled \subseteq Window
    BY <1>2, <1>3
  <2> QED
    BY <1>1, <1>4, <2>1 DEF FindTypes, FindTypeOK, Found
<1>6. NotAhead
  BY <1>2 DEF NotAhead
<1>7. \A w \in Window : ~fresh[w]
  BY <1>2
<1> QED
  BY <1>1, <1>5, <1>6, <1>7 DEF FindInv, FollowsSearch

(* Neither the agent's requests nor a stutter touch what a bar is about.   *)
LEMMA ElsewhereKeepsFind ==
  ASSUME FindInv, UNCHANGED <<pages, find>>
  PROVE  FindInv'
<1>1. FindTypes'
  BY DEF FindInv, FindTypes, FindTypeOK, pages, find
<1>2. NotAhead'
  BY DEF FindInv, NotAhead, find
<1>3. \A w \in Window : FollowsSearch(w)'
  BY Untouched DEF FindInv, pages, find
<1> QED
  BY <1>1, <1>2, <1>3 DEF FindInv, pages, find

LEMMA FindStepKeeps ==
  ASSUME FindInv, FindSteps
  PROVE  FindInv'
<1>1. CASE \E t \in Tab : Select(t) /\ FindSelected(t)
  BY <1>1, SelectKeepsFind
<1>2. CASE \E t \in Tab, w \in Window : \E u \in Neighbours(t) : Move(t, w, u) /\ FindMoved(t, w)
  BY <1>2, MoveKeepsFind
<1>3. CASE \E t \in Tab : \E u \in Neighbours(t) : Close(t, u) /\ FindClosed(t)
  BY <1>3, CloseKeepsFind
<1>4. CASE \E t \in Tab, c \in Contents, process \in BOOLEAN :
             Navigate(t, c) /\ FindNavigated(t, process)
  BY <1>4, NavigateKeepsFind
<1>5. CASE \E t \in Tab, c \in Contents : Mutate(t, c) /\ FindMutated(t)
  BY <1>5, MutateKeepsFind
<1>6. CASE \E w \in Window : ShowFind(w)
  BY <1>6, ShowFindKeepsFind
<1>7. CASE \E w \in Window : CloseFind(w)
  BY <1>7, CloseFindKeepsFind
<1>8. CASE \E w \in Window : \E query \in Query \cup {NoText} : Type(w, query)
  BY <1>8, TypeKeepsFind
<1>9. CASE \E w \in Window : \E by \in {-1, 1} : FindNext(w, by)
  BY <1>9, FindNextKeepsFind
<1>10. CASE \E t \in Tab : RunScript(t)
  BY <1>10, RunScriptKeepsFind
<1>11. CASE \E t \in Tab : Answered(t)
  BY <1>11, AnsweredKeepsFind
<1> QED
  BY <1>1, <1>2, <1>3, <1>4, <1>5, <1>6, <1>7, <1>8, <1>9, <1>10, <1>11
  DEF FindSteps, FindEvents, FindBarStep

(* When nothing is under way any more, only the marks and the numbers are  *)
(* left of what a window follows, and they are right.                      *)
LEMMA SettledBarsAreRight ==
  FindInv => BarTellsTheTruth
<1> SUFFICES ASSUME FindInv, NEW w \in Window, Settled(w), w \notin misled
             PROVE  BarCountsThePage(w) /\ (bar[w].custom => NumberIsTheMarks(w))
  BY DEF BarTellsTheTruth
<1> DEFINE t == view[w]
           count == content[t][bar[w].query]
<1>1. Followed(w, bar[w], <<>>, <<>>, found[t], count, FALSE)
  <2>1. Followed(w, bar[w], toPage[t], toShell[t], found[t], count, w \in misled)
    BY DEF FindInv, FollowsSearch, Settled
  <2> QED
    BY <2>1 DEF Settled, Followed, CountShown
<1>2. bar[w] \in Bar /\ t \in Tab /\ bar[w].query \in Query
  BY DEF Settled, FindInv, FindTypes, FindTypeOK, Bar
<1>3. count \in Nat /\ bar[w].total \in Nat /\ bar[w].current \in Nat
  BY <1>2, PagesAssumption DEF FindInv, FindTypes, Bar
<1>4. CASE MarksShown(bar[w], <<>>, <<>>, found[t], count)
  <2>1. /\ bar[w].custom /\ bar[w].total = count
        /\ found[t].query = bar[w].query /\ found[t].matches = count
        /\ count = 0 => bar[w].current = 0
        /\ count > 0 => bar[w].current \in 1..count
    BY <1>4 DEF MarksShown
  <2>2. ASSUME count > 0 PROVE found[t].index + 1 = bar[w].current
    <3>1. PICK way : Leads(way, <<>>, found[t], bar[w])
      BY <1>4, <2>2 DEF MarksShown
    <3>2. found[t].index = bar[w].current - 1
      BY <3>1 DEF Leads
    <3> QED
      BY <1>3, <3>2
  <2>3. BarCountsThePage(w)
    BY <1>3, <2>1 DEF BarCountsThePage
  <2>4. NumberIsTheMarks(w)
    BY <2>1, <2>2 DEF NumberIsTheMarks
  <2> QED
    BY <2>3, <2>4
<1>5. CASE CountShown(bar[w], <<>>, <<>>, count, FALSE)
  BY <1>5 DEF CountShown, BarCountsThePage
<1> QED
  BY <1>1, <1>4, <1>5 DEF Followed, Awaited, Run, Counts

(* Whatever the windows, tabs and texts are, however late the answers come *)
(* and however many steps were made meanwhile: a bar that has all its      *)
(* answers shows the number of its text in the document it stands over,    *)
(* and the place of the current mark.                                      *)
THEOREM BarsTellTheTruth == FindSpec => []BarTellsTheTruth
<1>1. FindInv /\ UNCHANGED <<pages, operations, find>> => FindInv'
  BY ElsewhereKeepsFind
<1>2. FindInv /\ [FindSteps]_<<pages, operations, find>> => FindInv'
  BY <1>1, FindStepKeeps
<1> QED
  BY FindInitially, SettledBarsAreRight, <1>2, PTL DEF FindSpec

(* The fields of the bars, the marks and the messages have their types.    *)
THEOREM FindIsTyped == FindSpec => []FindTypeOK
<1>1. FindInv /\ UNCHANGED <<pages, operations, find>> => FindInv'
  BY ElsewhereKeepsFind
<1>2. FindInv /\ [FindSteps]_<<pages, operations, find>> => FindInv'
  BY <1>1, FindStepKeeps
<1>3. FindInv => FindTypeOK
  BY DEF FindInv, FindTypes
<1> QED
  BY FindInitially, <1>2, <1>3, PTL DEF FindSpec
-----------------------------------------------------------------------------
(* The bars beside the agent: its requests leave them alone.               *)

LEMMA FindInNext ==
  ASSUME [Next]_vars
  PROVE  FindSteps \/ UNCHANGED <<pages, find>>
<1>1. CASE UNCHANGED vars
  BY <1>1 DEF vars
<1>2. CASE \E t \in Tab : SelectTab(t)
  BY <1>2 DEF SelectTab, FindSteps, FindEvents
<1>3. CASE \E t \in Tab : CloseTab(t)
  BY <1>3 DEF CloseTab, FindSteps, FindEvents
<1>4. CASE \E t \in Tab : Mark(t)
  BY <1>4 DEF Mark, FindSteps
<1>5. CASE \E t \in Tab, w \in Window : MoveTab(t, w)
  BY <1>5 DEF MoveTab, FindSteps, FindEvents
<1>6. CASE \E t \in Tab, c \in Contents : Change(t, c)
  BY <1>6 DEF Change, FindSteps, FindEvents
<1>7. CASE \E t \in Tab, c \in Contents : \E process \in BOOLEAN : Commit(t, c, process)
  BY <1>7 DEF Commit, FindSteps, FindEvents
<1>8. CASE \E t \in Tab : Answered(t) /\ UNCHANGED agent
  BY <1>8 DEF FindSteps
<1>9. CASE \E w \in Window : FindStep(w)
  BY <1>9 DEF FindStep, FindSteps
<1>10. CASE \E p \in Requests : WaitStep(p)
  BY <1>10 DEF WaitStep, Look, WaitFinished, WaitCheck, Expire
<1>11. CASE AgentRequest
  BY <1>11 DEF AgentRequest, Snapshot, Asks
<1>12. CASE FetchStep
  BY <1>12 DEF FetchStep, SendReady, ReadReady, Probed, ReadFails
<1> QED
  BY <1>1, <1>2, <1>3, <1>4, <1>5, <1>6, <1>7, <1>8, <1>9, <1>10, <1>11, <1>12 DEF Next

(* The same while the agent takes snapshots, waits for texts and fetches.  *)
THEOREM BarsTellTheTruthToo == Spec => []BarTellsTheTruth
<1>1. Init => FindInv
  BY FindInitially DEF Init, FindStart
<1>2. FindInv /\ [Next]_vars => FindInv'
  BY FindInNext, FindStepKeeps, ElsewhereKeepsFind
<1> QED
  BY SettledBarsAreRight, <1>1, <1>2, PTL DEF Spec

(* Windows, tabs, bars, marks, messages, references, waits and the fetch   *)
(* have their types.                                                       *)
THEOREM PagesAreTyped == Spec => []TypeOK
<1> DEFINE Typed == FindInv /\ FetchInv /\ RefsInv /\ WaitsInv /\ operations \in Nat
<1>1. Init => Typed
  BY FindInitially, FetchInitially, RefsInitially, WaitsInitially
  DEF Init, FindStart, PagesInit
<1>2. ASSUME Typed, [Next]_vars PROVE Typed'
  <2>1. FindInv' /\ FetchInv' /\ RefsInv' /\ WaitsInv'
    BY <1>2, FindInNext, FindStepKeeps, ElsewhereKeepsFind, FetchStepKeeps, RefsStepKeeps,
       WaitsStepKeeps
  <2>2. operations' = operations \/ operations' = operations + 1
    BY <1>2
    DEF Next, vars, SelectTab, Select, CloseTab, Close, Mark, RunScript, MoveTab, Move,
        Change, Mutate, Commit, Navigate, Answered, FindStep, FindBarStep, ShowFind, CloseFind,
        Type, FindNext, WaitStep, Look, WaitFinished, WaitCheck, Expire, AgentRequest, Snapshot,
        Asks, FetchStep, SendReady, ReadReady, Probed, ReadFails, Undertake
  <2> QED
    BY <1>2, <2>1, <2>2
<1>3. Typed => TypeOK
  <2> SUFFICES ASSUME Typed PROVE TypeOK
    OBVIOUS
  <2>1. PagesTypeOK
    BY DEF PagesTypeOK, RefsInv, PlacesOK, FindInv, FindTypes
  <2>2. FindTypeOK
    BY DEF FindInv, FindTypes
  <2>3. AgentTypeOK
    BY DEF AgentTypeOK, RefsInv, RefState, WaitsInv, FetchInv
  <2> QED
    BY <2>1, <2>2, <2>3 DEF TypeOK
<1> HIDE DEF Typed
<1> QED
  BY <1>1, <1>2, <1>3, PTL DEF Spec
=============================================================================
