------------------------- MODULE BrowserModelProofs -------------------------
(***************************************************************************)
(* Proofs about BrowserModel, for every set of URIs, every closed-tab      *)
(* limit and any number of ids: the type invariant, the uniqueness of ids, *)
(* the active tab being open, and that an id is never given out twice.     *)
(* Then the same of the model together with its session file, and that     *)
(* this is the last one saved, for any number of saves, failures and       *)
(* deaths of the process; and that memory pressure discards no more and no *)
(* fewer tabs than it should.                                              *)
(***************************************************************************)
EXTENDS SavedSession, SequenceTheorems, FiniteSetTheorems, WellFoundedInduction, TLAPS

(* The three invariants are inductive together: close_tab picks the new    *)
(* active tab by position, so ActiveIsOpen needs the list to be well       *)
(* formed, and a fresh id is unique because the others are below next_id.  *)
IInv == TypeOK /\ UniqueIds /\ ActiveIsOpen

-----------------------------------------------------------------------------
(* What erasing position p of a vector leaves.                             *)
LEMMA RemoveAtProperties ==
  ASSUME NEW S, NEW s \in Seq(S), NEW p \in 1..Len(s)
  PROVE  /\ RemoveAt(s, p) \in Seq(S)
         /\ Len(RemoveAt(s, p)) = Len(s) - 1
         /\ \A i \in 1..(Len(s) - 1) :
              RemoveAt(s, p)[i] = IF i < p THEN s[i] ELSE s[i + 1]
<1> DEFINE a == SubSeq(s, 1, p - 1)
           b == SubSeq(s, p + 1, Len(s))
<1>1. Len(s) \in Nat
  BY LenProperties
<1>2. /\ a \in Seq(S)
      /\ Len(a) = p - 1
      /\ \A i \in 1..(p - 1) : a[i] = s[i]
  <2>1. \A i \in 1..(p - 1) : s[i] \in S
    BY <1>1, ElementOfSeq
  <2>2. QED
    BY <1>1, <2>1, SubSeqProperties
<1>3. /\ b \in Seq(S)
      /\ Len(b) = Len(s) - p
      /\ \A i \in 1..(Len(s) - p) : b[i] = s[p + i]
  <2>1. \A i \in (p + 1)..Len(s) : s[i] \in S
    BY <1>1, ElementOfSeq
  <2>2. QED
    BY <1>1, <2>1, SubSeqProperties
<1>4. /\ a \o b \in Seq(S)
      /\ Len(a \o b) = Len(s) - 1
      /\ \A i \in 1..(Len(s) - 1) :
           (a \o b)[i] = IF i <= p - 1 THEN a[i] ELSE b[i - (p - 1)]
  <2> HIDE DEF a, b
  <2>1. /\ a \o b \in Seq(S)
        /\ Len(a \o b) = Len(a) + Len(b)
        /\ \A i \in 1..(Len(a) + Len(b)) :
             (a \o b)[i] = IF i <= Len(a) THEN a[i] ELSE b[i - Len(a)]
    BY <1>2, <1>3, ConcatProperties
  <2>2. Len(a) + Len(b) = Len(s) - 1
    BY <1>1, <1>2, <1>3
  <2>3. QED
    BY <1>2, <2>1, <2>2
<1>5. ASSUME NEW i \in 1..(Len(s) - 1)
      PROVE  (a \o b)[i] = IF i < p THEN s[i] ELSE s[i + 1]
  <2> HIDE DEF a, b
  <2>1. CASE i < p
    BY <1>1, <1>2, <1>4, <2>1
  <2>2. CASE ~(i < p)
    <3>1. i - (p - 1) \in 1..(Len(s) - p) /\ p + (i - (p - 1)) = i + 1
      BY <1>1, <2>2
    <3>2. QED
      BY <1>1, <1>3, <1>4, <2>2, <3>1
  <2>3. QED
    BY <2>1, <2>2
<1>6. QED
  BY <1>4, <1>5 DEF RemoveAt

(* What inserting e in front of position q leaves.                         *)
LEMMA InsertAtProperties ==
  ASSUME NEW S, NEW s \in Seq(S), NEW q \in 1..(Len(s) + 1), NEW e \in S
  PROVE  /\ InsertAt(s, q, e) \in Seq(S)
         /\ Len(InsertAt(s, q, e)) = Len(s) + 1
         /\ \A i \in 1..(Len(s) + 1) :
              InsertAt(s, q, e)[i] = IF i < q THEN s[i]
                                     ELSE IF i = q THEN e ELSE s[i - 1]
<1> DEFINE a == SubSeq(s, 1, q - 1)
           b == SubSeq(s, q, Len(s))
           ae == a \o <<e>>
<1>1. Len(s) \in Nat
  BY LenProperties
<1>2. /\ a \in Seq(S)
      /\ Len(a) = q - 1
      /\ \A i \in 1..(q - 1) : a[i] = s[i]
  <2>1. \A i \in 1..(q - 1) : s[i] \in S
    BY <1>1, ElementOfSeq
  <2>2. QED
    BY <1>1, <2>1, SubSeqProperties
<1>3. /\ b \in Seq(S)
      /\ Len(b) = Len(s) - q + 1
      /\ \A i \in 1..(Len(s) - q + 1) : b[i] = s[q + i - 1]
  <2>1. \A i \in q..Len(s) : s[i] \in S
    BY <1>1, ElementOfSeq
  <2>2. QED
    BY <1>1, <2>1, SubSeqProperties
<1>4. /\ ae \in Seq(S)
      /\ Len(ae) = q
      /\ \A i \in 1..q : ae[i] = IF i <= q - 1 THEN s[i] ELSE e
  <2>1. /\ <<e>> \in Seq(S)
        /\ Len(<<e>>) = 1
        /\ <<e>>[1] = e
    OBVIOUS
  <2> HIDE DEF a
  <2>2. /\ a \o <<e>> \in Seq(S)
        /\ Len(a \o <<e>>) = q
        /\ \A i \in 1..q :
             (a \o <<e>>)[i] = IF i <= q - 1 THEN a[i] ELSE <<e>>[i - (q - 1)]
    BY <1>1, <1>2, <2>1, ConcatProperties
  <2>3. QED
    BY <1>1, <1>2, <2>1, <2>2
<1>5. /\ ae \o b \in Seq(S)
      /\ Len(ae \o b) = Len(s) + 1
      /\ \A i \in 1..(Len(s) + 1) :
           (ae \o b)[i] = IF i <= q THEN ae[i] ELSE b[i - q]
  <2> HIDE DEF ae, b
  <2>1. /\ ae \o b \in Seq(S)
        /\ Len(ae \o b) = Len(ae) + Len(b)
        /\ \A i \in 1..(Len(ae) + Len(b)) :
             (ae \o b)[i] = IF i <= Len(ae) THEN ae[i] ELSE b[i - Len(ae)]
    BY <1>3, <1>4, ConcatProperties
  <2>2. Len(ae) + Len(b) = Len(s) + 1
    BY <1>1, <1>3, <1>4
  <2>3. QED
    BY <1>4, <2>1, <2>2
<1>6. ASSUME NEW i \in 1..(Len(s) + 1)
      PROVE  (ae \o b)[i] = IF i < q THEN s[i] ELSE IF i = q THEN e ELSE s[i - 1]
  <2> HIDE DEF ae, b
  <2>1. CASE i <= q
    BY <1>1, <1>4, <1>5, <2>1
  <2>2. CASE ~(i <= q)
    <3>1. i - q \in 1..(Len(s) - q + 1) /\ q + (i - q) - 1 = i - 1
      BY <1>1, <2>2
    <3>2. QED
      BY <1>1, <1>3, <1>5, <2>2, <3>1
  <2>3. QED
    BY <2>1, <2>2
<1>7. InsertAt(s, q, e) = ae \o b
  BY DEF InsertAt
<1> HIDE DEF ae, b
<1>8. QED
  BY <1>5, <1>6, <1>7
-----------------------------------------------------------------------------
(* What find() relies on: the position of an id that is in the strip.      *)
LEMMA PositionOfProperties ==
  ASSUME NEW id \in Ids
  PROVE  PositionOf(id) \in DOMAIN tabs /\ tabs[PositionOf(id)].id = id
  BY DEF Ids, PositionOf

(* Flag updates leave every id where it was, and so the ids unique and the *)
(* active tab open.                                                        *)
LEMMA SameIds ==
  ASSUME TypeOK, TypeOK', UniqueIds,
         next_id' = next_id,
         Len(tabs') = Len(tabs),
         \A i \in 1..Len(tabs) : tabs'[i].id = tabs[i].id
  PROVE  UniqueIds' /\ Ids' = Ids
<1>1. DOMAIN tabs = 1..Len(tabs) /\ DOMAIN tabs' = 1..Len(tabs)
  BY LenProperties DEF TypeOK
<1>2. QED
  BY <1>1 DEF UniqueIds, Ids

(* The tab appended by new_tab and reopen_closed has a fresh id: all the   *)
(* others are below the counter.                                           *)
LEMMA AppendFresh ==
  ASSUME TypeOK, UniqueIds,
         NEW tab \in Tab, tab.id = next_id, tab.lifecycle = "live",
         tabs' = Append(tabs, tab),
         next_id' = next_id + 1
  PROVE  /\ tabs' \in Seq(Tab)
         /\ \A i \in DOMAIN tabs' : tabs'[i].lifecycle = "live"
         /\ UniqueIds'
         /\ Ids' = Ids \cup {next_id}
<1>1. Len(tabs) \in Nat /\ DOMAIN tabs = 1..Len(tabs) /\ next_id \in Nat
  BY LenProperties DEF TypeOK
<1>2. /\ tabs' \in Seq(Tab)
      /\ DOMAIN tabs' = 1..(Len(tabs) + 1)
      /\ \A i \in 1..Len(tabs) : tabs'[i] = tabs[i]
      /\ tabs'[Len(tabs) + 1] = tab
  BY <1>1 DEF TypeOK
<1>3. \A i \in 1..Len(tabs) : tabs[i].id \in Nat /\ tabs[i].id < next_id
  <2>1. \A i \in 1..Len(tabs) : tabs[i] \in Tab
    BY ElementOfSeq DEF TypeOK
  <2>2. QED
    BY <1>1, <2>1 DEF UniqueIds, Tab
<1>4. \A i \in DOMAIN tabs' : tabs'[i].lifecycle = "live"
  BY <1>1, <1>2 DEF TypeOK
<1>5. UniqueIds'
  BY <1>1, <1>2, <1>3 DEF UniqueIds
<1>6. Ids' = Ids \cup {next_id}
  BY <1>1, <1>2 DEF Ids
<1>7. QED
  BY <1>2, <1>4, <1>5, <1>6

(* What the strip operations keep of a list of tabs: it is well typed, its *)
(* tabs are live with ids below the counter, and no id occurs twice.       *)
IdsOf(s) == {s[i].id : i \in DOMAIN s}

Proper(s) ==
  /\ s \in Seq(Tab)
  /\ \A i \in DOMAIN s : s[i].lifecycle = "live" /\ s[i].id < next_id
  /\ \A i, j \in DOMAIN s : s[i].id = s[j].id => i = j

LEMMA ProperTabs ==
  TypeOK /\ UniqueIds => Proper(tabs) /\ IdsOf(tabs) = Ids
BY DEF TypeOK, UniqueIds, Proper, IdsOf, Ids

(* Erasing position p takes away that tab's id and no other.               *)
LEMMA EraseAt ==
  ASSUME NEW t, Proper(t), NEW p \in 1..Len(t),
         NEW s, s = RemoveAt(t, p)
  PROVE  /\ Proper(s)
         /\ Len(s) = Len(t) - 1
         /\ IdsOf(s) = IdsOf(t) \ {t[p].id}
<1>1. Len(t) \in Nat /\ DOMAIN t = 1..Len(t)
  BY LenProperties DEF Proper
<1>2. /\ s \in Seq(Tab)
      /\ Len(s) = Len(t) - 1
      /\ \A i \in 1..Len(s) : s[i] = IF i < p THEN t[i] ELSE t[i + 1]
  BY RemoveAtProperties DEF Proper
<1>3. DOMAIN s = 1..Len(s)
  BY <1>2, LenProperties
<1>4. \A i \in 1..Len(s) : s[i].lifecycle = "live" /\ s[i].id < next_id
  BY <1>1, <1>2 DEF Proper
<1>5. \A i, j \in 1..Len(s) : s[i].id = s[j].id => i = j
  <2> DEFINE origin(i) == IF i < p THEN i ELSE i + 1
  <2>1. \A i \in 1..Len(s) : origin(i) \in 1..Len(t) /\ s[i] = t[origin(i)]
    BY <1>1, <1>2
  <2>2. \A i, j \in 1..Len(s) : origin(i) = origin(j) => i = j
    OBVIOUS
  <2> HIDE DEF origin
  <2>3. QED
    BY <1>1, <2>1, <2>2 DEF Proper
<1>6. IdsOf(s) \subseteq IdsOf(t) \ {t[p].id}
  <2>1. ASSUME NEW i \in 1..Len(s)
        PROVE  s[i].id \in IdsOf(t) /\ s[i].id # t[p].id
    <3>1. PICK j \in 1..Len(t) : j # p /\ s[i] = t[j]
      <4>1. CASE i < p
        BY <1>1, <1>2, <4>1
      <4>2. CASE ~(i < p)
        <5>1. i + 1 \in 1..Len(t) /\ i + 1 # p /\ s[i] = t[i + 1]
          BY <1>1, <1>2, <4>2
        <5>2. QED
          BY <5>1
      <4>3. QED
        BY <4>1, <4>2
    <3>2. QED
      BY <1>1, <3>1 DEF Proper, IdsOf
  <2>2. QED
    BY <1>3, <2>1 DEF IdsOf
<1>7. ASSUME NEW i \in 1..Len(t), i # p
      PROVE  t[i].id \in IdsOf(s)
  <2>1. CASE i < p
    BY <1>1, <1>2, <1>3, <2>1 DEF IdsOf
  <2>2. CASE ~(i < p)
    <3>1. i - 1 \in 1..Len(s) /\ s[i - 1] = t[i]
      BY <1>1, <1>2, <1>7, <2>2
    <3>2. QED
      BY <1>3, <3>1 DEF IdsOf
  <2>3. QED
    BY <2>1, <2>2
<1>8. IdsOf(t) \ {t[p].id} \subseteq IdsOf(s)
  BY <1>1, <1>7 DEF IdsOf
<1>9. QED
  BY <1>2, <1>3, <1>4, <1>5, <1>6, <1>8 DEF Proper

(* Inserting a tab whose id is not in the list adds that id and no other.  *)
LEMMA PlaceAt ==
  ASSUME NEW s \in Seq(Tab), Proper(s), NEW q \in 1..(Len(s) + 1),
         NEW tab \in Tab, tab.lifecycle = "live", tab.id < next_id,
         tab.id \notin IdsOf(s)
  PROVE  /\ Proper(InsertAt(s, q, tab))
         /\ IdsOf(InsertAt(s, q, tab)) = IdsOf(s) \cup {tab.id}
<1> DEFINE t == InsertAt(s, q, tab)
<1>1. Len(s) \in Nat /\ DOMAIN s = 1..Len(s)
  BY LenProperties DEF Proper
<1>2. /\ t \in Seq(Tab)
      /\ Len(t) = Len(s) + 1
      /\ \A i \in 1..Len(t) : t[i] = IF i < q THEN s[i]
                                    ELSE IF i = q THEN tab ELSE s[i - 1]
  <2>1. /\ InsertAt(s, q, tab) \in Seq(Tab)
        /\ Len(InsertAt(s, q, tab)) = Len(s) + 1
        /\ \A i \in 1..(Len(s) + 1) :
             InsertAt(s, q, tab)[i] = IF i < q THEN s[i]
                                      ELSE IF i = q THEN tab ELSE s[i - 1]
    BY InsertAtProperties
  <2>2. QED
    BY <2>1
<1> HIDE DEF t
<1>3. DOMAIN t = 1..Len(t)
  BY <1>2, LenProperties
<1> DEFINE origin(i) == IF i < q THEN i ELSE i - 1
<1>4. t[q] = tab /\ q \in 1..Len(t)
  BY <1>1, <1>2
<1>5. \A i \in 1..Len(t) : i # q => origin(i) \in 1..Len(s) /\ t[i] = s[origin(i)]
  BY <1>1, <1>2
<1>6. \A i, j \in 1..Len(t) : i # q /\ j # q /\ origin(i) = origin(j) => i = j
  BY <1>1, <1>2
<1> HIDE DEF origin
<1>7. \A i \in 1..Len(t) : t[i].lifecycle = "live" /\ t[i].id < next_id
  <2> TAKE i \in 1..Len(t)
  <2>1. CASE i = q
    BY <1>4, <2>1
  <2>2. CASE i # q
    BY <1>1, <1>5, <2>2 DEF Proper
  <2>3. QED
    BY <2>1, <2>2
<1>8. \A i \in 1..Len(t) : i # q => t[i].id \in IdsOf(s)
  BY <1>1, <1>5 DEF IdsOf
<1>9. ASSUME NEW i \in 1..Len(t), NEW j \in 1..Len(t), t[i].id = t[j].id
      PROVE  i = j
  <2>1. CASE i = q \/ j = q
    BY <1>4, <1>8, <1>9, <2>1
  <2>2. CASE i # q /\ j # q
    BY <1>1, <1>5, <1>6, <1>9, <2>2 DEF Proper
  <2>3. QED
    BY <2>1, <2>2
<1>10. IdsOf(t) \subseteq IdsOf(s) \cup {tab.id}
  BY <1>3, <1>4, <1>8 DEF IdsOf
<1>11. ASSUME NEW k \in 1..Len(s)
       PROVE  s[k].id \in IdsOf(t)
  <2>1. CASE k < q
    <3>1. k \in 1..Len(t) /\ t[k] = s[k]
      BY <1>1, <1>2, <2>1
    <3>2. QED
      BY <1>3, <3>1 DEF IdsOf
  <2>2. CASE ~(k < q)
    <3>1. k + 1 \in 1..Len(t) /\ t[k + 1] = s[k]
      BY <1>1, <1>2, <2>2
    <3>2. QED
      BY <1>3, <3>1 DEF IdsOf
  <2>3. QED
    BY <2>1, <2>2
<1>12. IdsOf(s) \cup {tab.id} \subseteq IdsOf(t)
  BY <1>1, <1>3, <1>4, <1>11 DEF IdsOf
<1>13. QED
  <2>1. Proper(t) /\ IdsOf(t) = IdsOf(s) \cup {tab.id}
    BY <1>2, <1>3, <1>7, <1>9, <1>10, <1>12 DEF Proper
  <2>2. QED
    BY <2>1 DEF t

-----------------------------------------------------------------------------
(* One lemma per operation that changes the strip: it preserves IInv and   *)
(* adds no id but next_id.                                                 *)
LEMMA NewTabStep ==
  ASSUME IInv, NEW uri \in Uris, NEW activate \in BOOLEAN, NewTab(uri, activate)
  PROVE  IInv' /\ Ids' = Ids \cup {next_id}
<1> DEFINE tab == [id |-> next_id, uri |-> uri, loading |-> FALSE,
                   discarded |-> FALSE, lifecycle |-> "live"]
<1>1. tab \in Tab /\ tab.id = next_id /\ tab.lifecycle = "live"
  BY DEF IInv, TypeOK, Tab
<1>2. tabs' = Append(tabs, tab) /\ next_id' = next_id + 1
  BY DEF NewTab
<1> HIDE DEF tab
<1>3. /\ tabs' \in Seq(Tab)
      /\ \A i \in DOMAIN tabs' : tabs'[i].lifecycle = "live"
      /\ UniqueIds'
      /\ Ids' = Ids \cup {next_id}
  BY <1>1, <1>2, AppendFresh DEF IInv
<1>4. TypeOK'
  BY <1>3 DEF IInv, TypeOK, NewTab
<1>5. ActiveIsOpen'
  BY <1>3 DEF IInv, ActiveIsOpen, NewTab
<1>6. QED
  BY <1>3, <1>4, <1>5 DEF IInv

LEMMA ReopenStep ==
  ASSUME IInv, ReopenClosed
  PROVE  IInv' /\ Ids' = Ids \cup {next_id}
<1> DEFINE n == Len(closed)
           tab == [closed[n] EXCEPT !.id = next_id, !.loading = FALSE,
                                    !.lifecycle = "live"]
<1>1. n \in Nat \ {0} /\ DOMAIN closed = 1..n
  BY EmptySeq, LenProperties DEF IInv, TypeOK, ReopenClosed
<1>2. closed[n] \in Tab
  BY <1>1, ElementOfSeq DEF IInv, TypeOK
<1>3. tab \in Tab /\ tab.id = next_id /\ tab.lifecycle = "live"
  BY <1>2 DEF IInv, TypeOK, Tab
<1>4. tabs' = Append(tabs, tab) /\ next_id' = next_id + 1
  BY DEF ReopenClosed, Last
<1> HIDE DEF tab
<1>5. /\ tabs' \in Seq(Tab)
      /\ \A i \in DOMAIN tabs' : tabs'[i].lifecycle = "live"
      /\ UniqueIds'
      /\ Ids' = Ids \cup {next_id}
  BY <1>3, <1>4, AppendFresh DEF IInv
<1>6. /\ closed' \in Seq(Tab)
      /\ Len(closed') = n - 1
      /\ DOMAIN closed' = 1..(n - 1)
      /\ \A i \in 1..(n - 1) : closed'[i] = closed[i]
  <2>1. closed' = SubSeq(closed, 1, n - 1)
    BY DEF ReopenClosed, Front
  <2>2. \A i \in 1..(n - 1) : closed[i] \in Tab
    BY <1>1, ElementOfSeq DEF IInv, TypeOK
  <2> HIDE DEF n
  <2>3. /\ closed' \in Seq(Tab)
        /\ Len(closed') = n - 1
        /\ \A i \in 1..(n - 1) : closed'[i] = closed[i]
    BY <1>1, <2>1, <2>2, SubSeqProperties
  <2>4. QED
    BY <2>3, LenProperties
<1>7. TypeOK'
  <2>1. \A i \in DOMAIN closed' : closed'[i].lifecycle = "closed"
    BY <1>1, <1>6 DEF IInv, TypeOK
  <2>2. Len(closed') <= ClosedLimit
    BY <1>1, <1>6, ModelAssumption DEF IInv, TypeOK
  <2>3. QED
    BY <1>5, <1>6, <2>1, <2>2 DEF IInv, TypeOK, ReopenClosed
<1>8. ActiveIsOpen'
  BY <1>5 DEF ActiveIsOpen, ReopenClosed
<1>9. QED
  BY <1>5, <1>7, <1>8 DEF IInv

(* The closed stack stays typed and within its limit.                      *)
LEMMA PushClosedType ==
  ASSUME IInv, NEW tab \in Tab
  PROVE  /\ PushClosed(tab) \in Seq(Tab)
         /\ Len(PushClosed(tab)) <= ClosedLimit
         /\ \A i \in DOMAIN PushClosed(tab) : PushClosed(tab)[i].lifecycle = "closed"
<1> DEFINE entry == [tab EXCEPT !.lifecycle = "closed"]
           pushed == Append(closed, entry)
<1>1. Len(closed) \in Nat /\ DOMAIN closed = 1..Len(closed)
  BY LenProperties DEF IInv, TypeOK
<1>2. entry \in Tab /\ entry.lifecycle = "closed"
  BY DEF Tab
<1> HIDE DEF entry
<1>3. /\ pushed \in Seq(Tab)
      /\ Len(pushed) = Len(closed) + 1
      /\ \A i \in 1..Len(pushed) : pushed[i].lifecycle = "closed"
  BY <1>1, <1>2 DEF IInv, TypeOK
<1>4. /\ Tail(pushed) \in Seq(Tab)
      /\ Len(Tail(pushed)) = Len(closed)
      /\ \A i \in 1..Len(closed) : Tail(pushed)[i] = pushed[i + 1]
  <2>1. pushed # <<>>
    BY <1>1, <1>3, EmptySeq
  <2> HIDE DEF pushed
  <2>2. QED
    BY <1>1, <1>3, <2>1, HeadTailProperties
<1> HIDE DEF pushed
<1>5. PushClosed(tab) = IF ClosedLimit = 0 THEN closed
                        ELSE IF Len(pushed) > ClosedLimit THEN Tail(pushed) ELSE pushed
  BY DEF PushClosed, pushed, entry
<1>6. CASE ClosedLimit = 0
  BY <1>5, <1>6 DEF IInv, TypeOK
<1>7. CASE ClosedLimit # 0 /\ Len(pushed) > ClosedLimit
  <2>1. PushClosed(tab) = Tail(pushed)
    BY <1>5, <1>7
  <2>2. DOMAIN Tail(pushed) = 1..Len(closed)
    BY <1>4, LenProperties
  <2>3. QED
    BY <1>1, <1>3, <1>4, <2>1, <2>2, ModelAssumption DEF IInv, TypeOK
<1>8. CASE ClosedLimit # 0 /\ ~(Len(pushed) > ClosedLimit)
  <2>1. PushClosed(tab) = pushed
    BY <1>5, <1>8
  <2>2. DOMAIN pushed = 1..Len(pushed)
    BY <1>3, LenProperties
  <2>3. QED
    BY <1>1, <1>3, <1>8, <2>1, <2>2, ModelAssumption
<1>9. QED
  BY <1>6, <1>7, <1>8

LEMMA CloseStep ==
  ASSUME IInv, NEW id \in Ids, CloseTab(id)
  PROVE  IInv' /\ Ids' = Ids \ {id}
<1> DEFINE p == PositionOf(id)
<1>1. Len(tabs) \in Nat /\ DOMAIN tabs = 1..Len(tabs)
  BY LenProperties DEF IInv, TypeOK
<1>2. p \in 1..Len(tabs) /\ tabs[p].id = id
  BY <1>1, PositionOfProperties
<1>3. /\ tabs' = RemoveAt(tabs, p)
      /\ closed' = PushClosed(tabs[p])
      /\ active' = IF active = id THEN Successor(p) ELSE active
      /\ next_id' = next_id
      /\ focus' = focus
  BY DEF CloseTab
<1> HIDE DEF p
<1>4. Proper(tabs) /\ IdsOf(tabs) = Ids
  BY ProperTabs DEF IInv
<1>5. Proper(tabs') /\ IdsOf(tabs') = Ids \ {id}
  BY <1>2, <1>3, <1>4, EraseAt
<1>6. Ids' = Ids \ {id}
  BY <1>5 DEF Ids, IdsOf
<1>7. UniqueIds'
  BY <1>3, <1>5 DEF UniqueIds, Proper
<1>8. \A i \in 1..Len(tabs) : tabs[i] \in Tab /\ tabs[i].id \in Nat /\ tabs[i].id \in Ids
  <2>1. \A i \in 1..Len(tabs) : tabs[i] \in Tab
    BY ElementOfSeq DEF IInv, TypeOK
  <2>2. QED
    BY <1>1, <2>1 DEF Tab, Ids
<1>9. /\ closed' \in Seq(Tab)
      /\ Len(closed') <= ClosedLimit
      /\ \A i \in DOMAIN closed' : closed'[i].lifecycle = "closed"
  BY <1>2, <1>3, <1>8, PushClosedType
<1>10. Successor(p) = NoTab \/ (Successor(p) \in Nat /\ Successor(p) \in Ids \ {id})
  <2>1. ASSUME NEW q \in 1..Len(tabs), q # p
        PROVE  tabs[q].id \in Nat /\ tabs[q].id \in Ids \ {id}
    BY <1>1, <1>2, <1>8, <2>1 DEF IInv, UniqueIds
  <2>2. CASE Len(tabs) = 1
    BY <2>2 DEF Successor
  <2>3. CASE Len(tabs) # 1 /\ p < Len(tabs)
    <3>1. p + 1 \in 1..Len(tabs) /\ p + 1 # p /\ Successor(p) = tabs[p + 1].id
      BY <1>1, <1>2, <2>3 DEF Successor
    <3>2. QED
      BY <2>1, <3>1
  <2>4. CASE Len(tabs) # 1 /\ ~(p < Len(tabs))
    <3>1. p - 1 \in 1..Len(tabs) /\ p - 1 # p /\ Successor(p) = tabs[p - 1].id
      BY <1>1, <1>2, <2>4 DEF Successor
    <3>2. QED
      BY <2>1, <3>1
  <2>5. QED
    BY <2>2, <2>3, <2>4
<1>11. active' \in Nat \cup {NoTab} /\ (active' # NoTab => active' \in Ids')
  BY <1>3, <1>6, <1>10 DEF IInv, TypeOK, ActiveIsOpen
<1>12. TypeOK'
  BY <1>3, <1>5, <1>9, <1>11 DEF IInv, TypeOK, Proper
<1>13. QED
  BY <1>6, <1>7, <1>11, <1>12 DEF IInv, ActiveIsOpen

LEMMA MoveStep ==
  ASSUME IInv, NEW id \in Ids, NEW destination \in Nat, MoveTab(id, destination)
  PROVE  IInv' /\ Ids' = Ids
<1> DEFINE p == PositionOf(id)
<1>1. Len(tabs) \in Nat /\ DOMAIN tabs = 1..Len(tabs)
  BY LenProperties DEF IInv, TypeOK
<1>2. p \in 1..Len(tabs) /\ tabs[p].id = id
  BY <1>1, PositionOfProperties
<1>3. PICK s : s = RemoveAt(tabs, p)
  OBVIOUS
<1>4. PICK d : d = IF destination > p - 1 THEN destination - 1 ELSE destination
  OBVIOUS
<1>5. /\ tabs' = InsertAt(s, d + 1, tabs[p])
      /\ closed' = closed /\ active' = active
      /\ next_id' = next_id /\ focus' = focus
      /\ destination <= Len(tabs)
  BY <1>3, <1>4 DEF MoveTab
<1> HIDE DEF p
<1>6. Proper(tabs) /\ IdsOf(tabs) = Ids
  BY ProperTabs DEF IInv
<1>7. /\ Proper(s) /\ s \in Seq(Tab)
      /\ Len(s) = Len(tabs) - 1
      /\ IdsOf(s) = Ids \ {id}
  <2>1. Proper(s) /\ Len(s) = Len(tabs) - 1 /\ IdsOf(s) = Ids \ {id}
    BY <1>2, <1>3, <1>6, EraseAt
  <2>2. QED
    BY <2>1 DEF Proper
<1>8. d + 1 \in 1..(Len(s) + 1)
  BY <1>1, <1>2, <1>4, <1>5, <1>7
<1>9. tabs[p] \in Tab /\ tabs[p].lifecycle = "live" /\ tabs[p].id < next_id
  BY <1>1, <1>2, <1>6, ElementOfSeq DEF Proper
<1>10. Proper(tabs') /\ IdsOf(tabs') = IdsOf(s) \cup {id}
  BY <1>2, <1>5, <1>7, <1>8, <1>9, PlaceAt
<1>11. Ids' = Ids
  BY <1>7, <1>10 DEF Ids, IdsOf
<1>12. UniqueIds'
  BY <1>5, <1>10 DEF UniqueIds, Proper
<1>13. TypeOK'
  BY <1>5, <1>10 DEF IInv, TypeOK, Proper
<1>14. ActiveIsOpen'
  BY <1>5, <1>11 DEF IInv, ActiveIsOpen
<1>15. QED
  BY <1>11, <1>12, <1>13, <1>14 DEF IInv

(* The operations that only write flags of a tab leave the ids in place.   *)
LEMMA FlagStep ==
  ASSUME IInv,
         tabs' \in Seq(Tab), Len(tabs') = Len(tabs),
         \A i \in 1..Len(tabs) :
           tabs'[i].id = tabs[i].id /\ tabs'[i].lifecycle = tabs[i].lifecycle,
         closed' = closed, next_id' = next_id, focus' \in FocusTarget,
         active' \in {active} \cup Ids
  PROVE  IInv' /\ Ids' = Ids
<1>1. DOMAIN tabs = 1..Len(tabs) /\ DOMAIN tabs' = 1..Len(tabs)
  BY LenProperties DEF IInv, TypeOK
<1>2. \A i \in 1..Len(tabs) : tabs[i] \in Tab
  BY ElementOfSeq DEF IInv, TypeOK
<1>3. Ids \subseteq Nat
  BY <1>1, <1>2 DEF Ids, Tab
<1>4. TypeOK'
  BY <1>1, <1>3 DEF IInv, TypeOK
<1>5. UniqueIds' /\ Ids' = Ids
  BY <1>4, SameIds DEF IInv
<1>6. ActiveIsOpen'
  BY <1>5 DEF IInv, ActiveIsOpen
<1>7. QED
  BY <1>4, <1>5, <1>6 DEF IInv

LEMMA ActivateStep ==
  ASSUME IInv, NEW id \in Ids, Activate(id)
  PROVE  IInv' /\ Ids' = Ids
<1> DEFINE p == PositionOf(id)
           tab == [tabs[p] EXCEPT !.discarded = FALSE]
<1>1. p \in 1..Len(tabs)
  BY PositionOfProperties, LenProperties DEF IInv, TypeOK
<1>2. tabs[p] \in Tab
  BY <1>1, ElementOfSeq DEF IInv, TypeOK
<1>3. tab \in Tab /\ tab.id = tabs[p].id /\ tab.lifecycle = tabs[p].lifecycle
  BY <1>2 DEF Tab
<1>4. tabs' = [tabs EXCEPT ![p] = tab]
  BY DEF Activate
<1> HIDE DEF p, tab
<1>5. /\ tabs' \in Seq(Tab)
      /\ Len(tabs') = Len(tabs)
      /\ \A i \in 1..Len(tabs) : tabs'[i] = IF i = p THEN tab ELSE tabs[i]
  BY <1>1, <1>3, <1>4, ExceptSeq DEF IInv, TypeOK
<1>6. \A i \in 1..Len(tabs) :
        tabs'[i].id = tabs[i].id /\ tabs'[i].lifecycle = tabs[i].lifecycle
  BY <1>3, <1>5
<1>7. QED
  BY <1>5, <1>6, FlagStep DEF Activate, FocusTarget

LEMMA SetLoadingStep ==
  ASSUME IInv, NEW id \in Ids, NEW loading \in BOOLEAN, SetLoading(id, loading)
  PROVE  IInv' /\ Ids' = Ids
<1> DEFINE p == PositionOf(id)
           tab == [tabs[p] EXCEPT !.loading = loading]
<1>1. p \in 1..Len(tabs)
  BY PositionOfProperties, LenProperties DEF IInv, TypeOK
<1>2. tabs[p] \in Tab
  BY <1>1, ElementOfSeq DEF IInv, TypeOK
<1>3. tab \in Tab /\ tab.id = tabs[p].id /\ tab.lifecycle = tabs[p].lifecycle
  BY <1>2 DEF Tab
<1>4. tabs' = [tabs EXCEPT ![p] = tab]
  BY DEF SetLoading
<1> HIDE DEF p, tab
<1>5. /\ tabs' \in Seq(Tab)
      /\ Len(tabs') = Len(tabs)
      /\ \A i \in 1..Len(tabs) : tabs'[i] = IF i = p THEN tab ELSE tabs[i]
  BY <1>1, <1>3, <1>4, ExceptSeq DEF IInv, TypeOK
<1>6. \A i \in 1..Len(tabs) :
        tabs'[i].id = tabs[i].id /\ tabs'[i].lifecycle = tabs[i].lifecycle
  BY <1>3, <1>5
<1>7. focus' \in FocusTarget
  BY DEF SetLoading, IInv, TypeOK
<1>8. QED
  BY <1>5, <1>6, <1>7, FlagStep DEF SetLoading

LEMMA DiscardStep ==
  ASSUME IInv, NEW limit \in Nat, DiscardToLimit(limit)
  PROVE  IInv' /\ Ids' = Ids
<1>1. Len(tabs) \in Nat /\ DOMAIN tabs = 1..Len(tabs)
  BY LenProperties DEF IInv, TypeOK
<1> DEFINE after(i) == [tabs[i] EXCEPT !.discarded = @ \/ i \in DiscardedBy(limit)]
<1>2. tabs' = [i \in 1..Len(tabs) |-> after(i)]
  BY <1>1 DEF DiscardToLimit
<1>3. ASSUME NEW i \in 1..Len(tabs)
      PROVE  /\ after(i) \in Tab
             /\ after(i).id = tabs[i].id
             /\ after(i).lifecycle = tabs[i].lifecycle
  <2>1. tabs[i] \in Tab
    BY ElementOfSeq DEF IInv, TypeOK
  <2>2. (tabs[i].discarded \/ i \in DiscardedBy(limit)) \in BOOLEAN
    OBVIOUS
  <2>3. QED
    BY <2>1, <2>2 DEF Tab
<1> HIDE DEF after
<1>4. /\ tabs' \in Seq(Tab)
      /\ Len(tabs') = Len(tabs)
      /\ \A i \in 1..Len(tabs) : tabs'[i] = after(i)
  BY <1>1, <1>2, <1>3
<1>5. \A i \in 1..Len(tabs) :
        tabs'[i].id = tabs[i].id /\ tabs'[i].lifecycle = tabs[i].lifecycle
  BY <1>3, <1>4
<1>6. focus' \in FocusTarget
  BY DEF DiscardToLimit, IInv, TypeOK
<1>7. QED
  BY <1>4, <1>5, <1>6, FlagStep DEF DiscardToLimit

-----------------------------------------------------------------------------
(* Every step preserves IInv, and the only id it can add is next_id.       *)
LEMMA StepPreserves ==
  ASSUME IInv, [Next]_vars
  PROVE  IInv' /\ Ids' \subseteq Ids \cup {next_id}
<1>1. CASE UNCHANGED vars
  BY <1>1 DEF vars, IInv, TypeOK, UniqueIds, ActiveIsOpen, Ids
<1>2. ASSUME NEW uri \in Uris, NEW activate \in BOOLEAN, NewTab(uri, activate)
      PROVE  IInv' /\ Ids' \subseteq Ids \cup {next_id}
  BY <1>2, NewTabStep
<1>3. ASSUME NEW id \in Ids, Activate(id)
      PROVE  IInv' /\ Ids' \subseteq Ids \cup {next_id}
  BY <1>3, ActivateStep
<1>4. ASSUME NEW limit \in 0..MaxId, DiscardToLimit(limit)
      PROVE  IInv' /\ Ids' \subseteq Ids \cup {next_id}
  BY <1>4, DiscardStep
<1>5. ASSUME NEW id \in Ids, CloseTab(id)
      PROVE  IInv' /\ Ids' \subseteq Ids \cup {next_id}
  BY <1>5, CloseStep
<1>6. CASE ReopenClosed
  BY <1>6, ReopenStep
<1>7. ASSUME NEW id \in Ids, DuplicateTab(id)
      PROVE  IInv' /\ Ids' \subseteq Ids \cup {next_id}
  <2>1. tabs[PositionOf(id)] \in Tab
    BY PositionOfProperties, LenProperties, ElementOfSeq DEF IInv, TypeOK
  <2>2. tabs[PositionOf(id)].uri \in Uris
    BY <2>1 DEF Tab
  <2>3. QED
    BY <1>7, <2>2, NewTabStep DEF DuplicateTab
<1>8. ASSUME NEW id \in Ids, NEW destination \in 0..MaxId, MoveTab(id, destination)
      PROVE  IInv' /\ Ids' \subseteq Ids \cup {next_id}
  BY <1>8, MoveStep
<1>9. ASSUME NEW id \in Ids, NEW loading \in BOOLEAN, SetLoading(id, loading)
      PROVE  IInv' /\ Ids' \subseteq Ids \cup {next_id}
  BY <1>9, SetLoadingStep
<1>10. ASSUME NEW target \in FocusTarget, SetFocus(target)
       PROVE  IInv' /\ Ids' \subseteq Ids \cup {next_id}
  BY <1>10 DEF SetFocus, IInv, TypeOK, UniqueIds, ActiveIsOpen, Ids
<1>11. QED
  BY <1>1, <1>2, <1>3, <1>4, <1>5, <1>6, <1>7, <1>8, <1>9, <1>10 DEF Next

(* The inductive invariant holds of every behaviour.                       *)
THEOREM Inductive == Spec => []IInv
<1>1. Init => IInv
  BY ModelAssumption DEF Init, IInv, TypeOK, UniqueIds, ActiveIsOpen, FocusTarget
<1>2. IInv /\ [Next]_vars => IInv'
  BY StepPreserves
<1>3. QED
  BY <1>1, <1>2, PTL DEF Spec

(* Type correctness, including that an open tab is live, a closed one is   *)
(* closed and the closed stack respects its limit.                         *)
THEOREM TypeCorrect == Spec => []TypeOK
<1>1. IInv => TypeOK
  BY DEF IInv
<1>2. QED
  BY <1>1, Inductive, PTL

(* Ids stay unique and below the counter under every operation.            *)
THEOREM IdsStayUnique == Spec => []UniqueIds
<1>1. IInv => UniqueIds
  BY DEF IInv
<1>2. QED
  BY <1>1, Inductive, PTL

(* The active tab is always one of the open tabs.                          *)
THEOREM ActiveStaysOpen == Spec => []ActiveIsOpen
<1>1. IInv => ActiveIsOpen
  BY DEF IInv
<1>2. QED
  BY <1>1, Inductive, PTL

(* No id is given out twice: an id a step adds to the strip is not below   *)
(* the counter, and all ids ever seen are.                                 *)
THEOREM NoIdReuse == Spec => IdsNeverReused
<1>1. IInv /\ [Next]_vars => [\A id \in Ids' \ Ids : id >= next_id]_vars
  <2> SUFFICES ASSUME IInv, [Next]_vars, NEW id \in Ids' \ Ids
               PROVE  id >= next_id
    OBVIOUS
  <2>1. id = next_id /\ next_id \in Nat
    BY StepPreserves DEF IInv, TypeOK
  <2>2. QED
    BY <2>1
<1>2. QED
  BY <1>1, Inductive, PTL DEF Spec, IdsNeverReused
-----------------------------------------------------------------------------
(* What is a row list with a mark: EXCEPT and the field names go together. *)
IsContent(f) == f = [rows |-> f.rows, clean |-> f.clean]

(* While rows are being saved, a process runs, its connection is in a      *)
(* transaction, and the mark that this would commit is the one that the    *)
(* process has made.                                                       *)
SavingInv ==
  saving # NoTransaction =>
    /\ running
    /\ IsContent(transaction)
    /\ started => ~transaction.clean

StoreInv ==
  /\ IsContent(file)
  /\ SavingInv
  /\ SessionSurvives

-----------------------------------------------------------------------------
LEMMA StoreInitially ==
  StoreInit => StoreInv
BY DEF StoreInit, StoreInv, SavingInv, IsContent, SessionSurvives

(* Whatever rows the program gives to save_tabs.                           *)
LEMMA BeginKeeps ==
  ASSUME StoreInv, NEW rows, Begin(rows)
  PROVE  StoreInv'
<1>1. file' = file /\ saved' = saved /\ started' = started
  BY DEF Begin
<1>2. transaction' = [rows |-> <<>>, clean |-> file.clean]
  BY DEF Begin, StoreInv, IsContent
<1>3. QED
  BY <1>1, <1>2 DEF Begin, Idle, StoreInv, SavingInv, SessionSurvives, IsContent

LEMMA InsertKeeps ==
  ASSUME StoreInv, Insert
  PROVE  StoreInv'
<1>1. file' = file /\ saved' = saved /\ started' = started /\ saving' = saving
  BY DEF Insert
<1>2. /\ IsContent(transaction')
      /\ transaction'.clean = transaction.clean
  BY DEF Insert, StoreInv, SavingInv, IsContent
<1>3. QED
  BY <1>1, <1>2 DEF StoreInv, SavingInv, SessionSurvives, IsContent, Insert

(* COMMIT makes the transaction's rows the file's: they are all there, and *)
(* the mark stays what it was.                                             *)
LEMMA CommitKeeps ==
  ASSUME StoreInv, Commit
  PROVE  StoreInv'
BY DEF Commit, StoreInv, SavingInv, SessionSurvives, IsContent

LEMMA OpenKeeps ==
  ASSUME StoreInv, Open
  PROVE  StoreInv'
<1>. saving = NoTransaction
  BY DEF Open, StoreInv, SavingInv
<1>1. file' = [rows |-> file.rows, clean |-> FALSE]
  BY DEF Open, StoreInv, IsContent
<1>2. QED
  BY <1>1 DEF Open, StoreInv, SavingInv, SessionSurvives, IsContent

LEMMA CloseKeeps ==
  ASSUME StoreInv, CloseProperly
  PROVE  StoreInv'
<1>1. saving = NoTransaction /\ saving' = NoTransaction /\ saved' = saved
  BY DEF CloseProperly, Idle
<1>2. CASE InTransaction
  BY <1>1, <1>2 DEF CloseProperly, StoreInv, SavingInv, SessionSurvives, IsContent
<1>3. CASE ~InTransaction
  <2>1. file' = [rows |-> file.rows, clean |-> TRUE] /\ started' = FALSE
    BY <1>3 DEF CloseProperly, StoreInv, IsContent
  <2>2. QED
    BY <1>1, <2>1 DEF StoreInv, SavingInv, SessionSurvives, IsContent
<1>4. QED
  BY <1>2, <1>3

LEMMA DieKeeps ==
  ASSUME StoreInv, Die
  PROVE  StoreInv'
BY DEF Die, StoreInv, SavingInv, SessionSurvives, IsContent

(* DELETE fails, or something later: the file is not touched, and the      *)
(* transaction that the first leaves behind is not a save's.               *)
LEMMA FailureKeeps ==
  ASSUME StoreInv, DeleteFails \/ Rollback
  PROVE  StoreInv'
<1>1. CASE DeleteFails
  BY <1>1 DEF DeleteFails, Idle, StoreInv, SavingInv, SessionSurvives, IsContent
<1>2. CASE Rollback
  BY <1>2 DEF Rollback, StoreInv, SavingInv, SessionSurvives, IsContent
<1>3. QED
  BY <1>1, <1>2

LEMMA StoreStep ==
  ASSUME StoreInv, [SessionNext]_<<vars, store>>
  PROVE  StoreInv'
<1>1. CASE UNCHANGED store
  BY <1>1 DEF store, StoreInv, SavingInv, SessionSurvives, IsContent
<1>2. CASE Begin(Rows)
  BY <1>2, BeginKeeps
<1>3. CASE Step
  BY <1>3, OpenKeeps, InsertKeeps, CommitKeeps, FailureKeeps DEF Step
<1>4. CASE ProcessEnds
  BY <1>4, CloseKeeps, DieKeeps DEF ProcessEnds
<1>5. QED
  BY <1>1, <1>2, <1>3, <1>4 DEF SessionNext

-----------------------------------------------------------------------------
(* To the tab model the store is of no matter, and the end of the process  *)
(* is a new beginning.                                                     *)
LEMMA ModelStep ==
  ASSUME [SessionNext]_<<vars, store>>
  PROVE  [Next]_vars \/ ProcessEnds
BY DEF SessionNext

LEMMA NewProcess ==
  ASSUME ProcessEnds
  PROVE  IInv' /\ Ids' = {}
<1>1. tabs' = <<>> /\ closed' = <<>> /\ active' = NoTab /\ next_id' = 1 /\ focus' = "page"
  BY DEF ProcessEnds
<1>2. Ids' = {}
  BY <1>1 DEF Ids
<1>3. QED
  BY <1>1, <1>2, ModelAssumption DEF IInv, TypeOK, UniqueIds, ActiveIsOpen, FocusTarget

LEMMA ModelInv == SessionSpec => []IInv
<1>1. Init => IInv
  BY ModelAssumption DEF Init, IInv, TypeOK, UniqueIds, ActiveIsOpen, FocusTarget
<1>2. IInv /\ [SessionNext]_<<vars, store>> => IInv'
  BY StepPreserves, ModelStep, NewProcess
<1>3. QED
  BY <1>1, <1>2, PTL DEF SessionSpec, SessionInit

-----------------------------------------------------------------------------
(* save_tabs is all or nothing: at whatever statement it fails and         *)
(* whenever the process dies, the file holds the rows of the last save     *)
(* that succeeded; and a process that was marked as started and did not    *)
(* end properly is known to the next one.                                  *)
THEOREM SessionIsKept == SessionSpec => []SessionSurvives
<1>1. StoreInv => SessionSurvives
  BY DEF StoreInv
<1>2. StoreInv /\ [SessionNext]_<<vars, store>> => StoreInv'
  BY StoreStep
<1>3. QED
  BY StoreInitially, <1>1, <1>2, PTL DEF SessionSpec, SessionInit

(* No id of a process is given out twice, whatever becomes of its saves.   *)
THEOREM NoIdReuseInSessions == SessionSpec => IdsNeverReused
<1>1. IInv /\ [SessionNext]_<<vars, store>> => [\A id \in Ids' \ Ids : id >= next_id]_vars
  <2> SUFFICES ASSUME IInv, [SessionNext]_<<vars, store>>, NEW id \in Ids' \ Ids
               PROVE  id >= next_id
    OBVIOUS
  <2>1. ~ProcessEnds
    BY NewProcess
  <2>2. id = next_id /\ next_id \in Nat
    BY <2>1, ModelStep, StepPreserves DEF IInv, TypeOK
  <2>3. QED
    BY <2>2
<1>2. QED
  BY <1>1, ModelInv, PTL DEF SessionSpec, IdsNeverReused

-----------------------------------------------------------------------------
(* Discarding to a limit: counting what was passed over.                   *)
LEMMA LeastOf ==
  ASSUME NEW T \in SUBSET Nat, T # {}
  PROVE  \E x \in T : \A y \in T : x <= y
<1>1. PICK x \in T : \A y \in T : ~(<<y, x>> \in OpToRel(<, Nat))
  BY WFMin, NatLessThanWellFounded
<1>2. \A y \in T : ~(y < x)
  BY <1>1 DEF OpToRel
<1>3. QED
  BY <1>2

LEMMA GreatestOf ==
  ASSUME NEW n \in Nat, NEW T \in SUBSET (1..n), T # {}
  PROVE  \E x \in T : \A y \in T : y <= x
<1>. DEFINE U == {u \in Nat : \A y \in T : y <= u}
<1>1. n \in U
  OBVIOUS
<1>2. PICK u \in U : \A v \in U : u <= v
  BY <1>1, LeastOf
<1>3. u \in T
  <2>1. SUFFICES ASSUME u \notin T
                 PROVE  FALSE
    OBVIOUS
  <2>2. \A y \in T : y \in Nat \ {0} /\ y < u
    BY <2>1
  <2>3. u - 1 \in Nat /\ \A y \in T : y <= u - 1
    <3>1. PICK y \in T : y \in Nat \ {0} /\ y < u
      BY <2>2
    <3>2. QED
      BY <2>2, <3>1
  <2>4. QED
    BY <1>2, <2>3
<1>4. QED
  BY <1>3

(* The members of a set that have fewer than e members below them.         *)
LEMMA FirstOnes ==
  ASSUME NEW n \in Nat, NEW D \in SUBSET (1..n), NEW e \in Int
  PROVE  LET first == {i \in D : Cardinality({j \in D : j < i}) < e}
         IN  /\ Cardinality(first) \in Nat
             /\ first # {} => Cardinality(first) <= e
             /\ first # D => Cardinality(first) >= e
<1>. DEFINE below(i) == {j \in D : j < i}
           first == {i \in D : Cardinality(below(i)) < e}
<1>1. IsFiniteSet(D)
  <2>1. IsFiniteSet(1..n)
    BY FS_Interval
  <2>2. QED
    BY <2>1, FS_Subset
<1>2. /\ IsFiniteSet(first) /\ Cardinality(first) \in Nat
      /\ \A i \in D : IsFiniteSet(below(i)) /\ Cardinality(below(i)) \in Nat
  BY <1>1, FS_Subset, FS_CardinalityType
<1>3. ASSUME first # {}
      PROVE  Cardinality(first) <= e
  <2>1. PICK m \in first : \A i \in first : i <= m
    <3>1. first \in SUBSET (1..n)
      OBVIOUS
    <3>. HIDE DEF first
    <3>2. QED
      BY <1>3, <3>1, GreatestOf
  <2>2. ASSUME NEW i \in first
        PROVE  i \in below(m) \cup {m}
    <3>1. i \in D /\ i \in Nat /\ m \in Nat
      OBVIOUS
    <3>2. i <= m
      BY <2>1
    <3>3. QED
      BY <3>1, <3>2
  <2>3. Cardinality(below(m)) < e /\ m \notin below(m) /\ m \in D
    BY <2>1
  <2>. HIDE DEF below, first
  <2>4. /\ IsFiniteSet(below(m) \cup {m})
        /\ Cardinality(below(m) \cup {m}) = Cardinality(below(m)) + 1
    BY <1>2, <2>3, FS_AddElement
  <2>5. Cardinality(first) <= Cardinality(below(m) \cup {m})
    BY <2>2, <2>4, FS_Subset
  <2>6. QED
    BY <1>2, <2>3, <2>4, <2>5
<1>4. ASSUME first # D
      PROVE  Cardinality(first) >= e
  <2>1. PICK m \in D \ first : \A i \in D \ first : m <= i
    <3>1. D \ first \in SUBSET Nat /\ D \ first # {}
      <4>1. first \subseteq D
        OBVIOUS
      <4>2. D \in SUBSET Nat
        OBVIOUS
      <4>. HIDE DEF first
      <4>3. D \ first # {}
        BY <1>4, <4>1, Zenon
      <4>4. D \ first \in SUBSET Nat
        BY <4>2
      <4>5. QED
        BY <4>3, <4>4
    <3>. DEFINE others == D \ first
    <3>. HIDE DEF first, others
    <3>2. \E x \in others : \A y \in others : x <= y
      BY <3>1, LeastOf DEF others
    <3>3. QED
      BY <3>2 DEF others
  <2>2. below(m) \subseteq first /\ Cardinality(below(m)) >= e /\ m \in D
    <3>1. m \in D /\ ~(Cardinality(below(m)) < e) /\ Cardinality(below(m)) \in Nat
      BY <1>2, <2>1
    <3>2. ASSUME NEW i \in below(m)
          PROVE  i \in first
      <4>1. i \in D /\ i < m /\ i \in Nat /\ m \in Nat
        BY <3>1
      <4>. HIDE DEF first
      <4>2. QED
        BY <2>1, <4>1
    <3>. HIDE DEF below, first
    <3>3. QED
      BY <3>1, <3>2
  <2>. HIDE DEF below, first
  <2>3. Cardinality(below(m)) <= Cardinality(first)
    BY <1>2, <2>2, FS_Subset
  <2>4. QED
    BY <1>2, <2>2, <2>3
<1>5. QED
  BY <1>2, <1>3, <1>4

(* discard_to_limit clears the residency of DiscardedBy(limit), and of     *)
(* nothing else.                                                           *)
LEMMA DiscardEffect ==
  ASSUME TypeOK, NEW limit \in Nat, DiscardToLimit(limit)
  PROVE  /\ Resident' = Resident \ DiscardedBy(limit)
         /\ Discardable' = Discardable \ DiscardedBy(limit)
<1>. DEFINE gone == DiscardedBy(limit)
<1>1. \A i \in DOMAIN tabs : tabs[i] \in Tab
  BY ElementOfSeq, LenProperties DEF TypeOK
<1>2. active' = active /\ DOMAIN tabs' = DOMAIN tabs
  BY DEF DiscardToLimit
<1>3. ASSUME NEW i \in DOMAIN tabs
      PROVE  /\ tabs'[i].id = tabs[i].id /\ tabs'[i].loading = tabs[i].loading
             /\ tabs'[i].discarded = (tabs[i].discarded \/ i \in gone)
  <2>1. tabs'[i] = [tabs[i] EXCEPT !.discarded = @ \/ i \in gone]
    BY DEF DiscardToLimit
  <2>. HIDE DEF gone
  <2>2. QED
    BY <1>1, <2>1 DEF Tab
<1>. HIDE DEF gone
<1>4. Resident' = Resident \ gone
  BY <1>2, <1>3 DEF Resident
<1>5. Discardable' = Discardable \ gone
  BY <1>2, <1>3, <1>4 DEF Discardable, Resident
<1>6. QED
  BY <1>4, <1>5 DEF gone

LEMMA DiscardCounts ==
  ASSUME TypeOK, NEW limit \in Nat, DiscardToLimit(limit)
  PROVE  /\ Cardinality(Resident') <= limit \/ Discardable' = {}
         /\ Resident' # Resident => Cardinality(Resident') >= limit
         /\ \A i \in Resident \ Resident' : tabs[i].id # active /\ ~tabs[i].loading
<1>. DEFINE gone == DiscardedBy(limit)
           excess == Cardinality(Resident) - limit
<1>1. Len(tabs) \in Nat /\ DOMAIN tabs = 1..Len(tabs)
  BY LenProperties DEF TypeOK
<1>2. /\ Resident \in SUBSET (1..Len(tabs)) /\ Discardable \in SUBSET (1..Len(tabs))
      /\ gone \subseteq Discardable /\ Discardable \subseteq Resident
  BY <1>1 DEF Resident, Discardable, DiscardedBy
<1>3. IsFiniteSet(Resident) /\ Cardinality(Resident) \in Nat /\ excess \in Int
  <2>1. IsFiniteSet(1..Len(tabs))
    BY <1>1, FS_Interval
  <2>2. IsFiniteSet(Resident) /\ Cardinality(Resident) \in Nat
    BY <1>2, <2>1, FS_Subset, FS_CardinalityType
  <2>3. QED
    BY <2>2
<1>4. gone = {i \in Discardable : Cardinality({j \in Discardable : j < i}) < excess}
  <2>1. \A i \in Discardable : Cardinality({j \in Discardable : j < i}) \in Nat
    <3>1. IsFiniteSet(Discardable)
      BY <1>2, <1>3, FS_Subset
    <3>2. QED
      BY <3>1, FS_Subset, FS_CardinalityType
  <2>2. QED
    BY <1>3, <2>1 DEF DiscardedBy
<1>5. /\ Cardinality(gone) \in Nat
      /\ gone # {} => Cardinality(gone) <= excess
      /\ gone # Discardable => Cardinality(gone) >= excess
  <2>. HIDE DEF excess, gone
  <2>1. QED
    BY <1>1, <1>2, <1>3, <1>4, FirstOnes
<1>6. Resident' = Resident \ gone /\ Discardable' = Discardable \ gone
  BY DiscardEffect
<1>. HIDE DEF gone
<1>7. Cardinality(Resident \ gone) = Cardinality(Resident) - Cardinality(gone)
  <2>1. Resident \cap gone = gone
    BY <1>2
  <2>2. QED
    BY <1>3, <2>1, FS_Difference
<1>8. Cardinality(Resident') <= limit \/ Discardable' = {}
  BY <1>2, <1>3, <1>5, <1>6, <1>7
<1>9. Resident' # Resident => Cardinality(Resident') >= limit
  BY <1>3, <1>5, <1>6, <1>7
<1>10. \A i \in Resident \ Resident' : tabs[i].id # active /\ ~tabs[i].loading
  BY <1>2, <1>6 DEF Discardable
<1>11. QED
  BY <1>8, <1>9, <1>10

(* Whatever tabs are open, loading and discarded already: memory pressure  *)
(* brings the resident tabs down to the limit where it can, not below it,  *)
(* and spares the active tab and those that are loading.                   *)
THEOREM DiscardStaysExact == SessionSpec => DiscardIsExact
<1>. DEFINE Exact ==
       \A limit \in 0..MaxId : DiscardToLimit(limit) =>
         /\ Cardinality(Resident') <= limit \/ Discardable' = {}
         /\ Resident' # Resident => Cardinality(Resident') >= limit
         /\ \A i \in Resident \ Resident' : tabs[i].id # active /\ ~tabs[i].loading
<1>1. IInv => Exact
  BY ModelAssumption, DiscardCounts DEF IInv
<1>2. DiscardIsExact <=> [][Exact]_vars
  BY DEF DiscardIsExact
<1>. HIDE DEF Exact
<1>3. QED
  BY <1>1, <1>2, ModelInv, PTL
=============================================================================
