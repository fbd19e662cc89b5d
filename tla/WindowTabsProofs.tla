-------------------------- MODULE WindowTabsProofs --------------------------
(***************************************************************************)
(* Proofs about the native shell's windows and tabs, for any number of     *)
(* windows, tabs, addresses and idle callbacks: every tab is in one        *)
(* window, open windows show a tab of theirs, private tabs stay among      *)
(* themselves, ids are not given out twice and selections are kept; and    *)
(* about the layout of the tab strip, for every width and number of tabs.  *)
(***************************************************************************)
EXTENDS WindowTabs, TabStrip, SequenceTheorems, TLAPS

(* No tab is twice in a list.                                              *)
Distinct(s) == \A i, j \in DOMAIN s : s[i] = s[j] => i = j

-----------------------------------------------------------------------------
(* What the vectors hold after an erase and an insert.                     *)
LEMMA Erased ==
  ASSUME NEW S, NEW s \in Seq(S), Distinct(s), NEW p \in DOMAIN s
  PROVE  /\ RemoveAt(s, p) \in Seq(S)
         /\ Len(RemoveAt(s, p)) = Len(s) - 1
         /\ Distinct(RemoveAt(s, p))
         /\ Range(RemoveAt(s, p)) = Range(s) \ {s[p]}
<1>. DEFINE a == SubSeq(s, 1, p - 1)
            b == SubSeq(s, p + 1, Len(s))
            from(i) == IF i < p THEN i ELSE i + 1
<1>1. Len(s) \in Nat /\ DOMAIN s = 1..Len(s) /\ \A i \in 1..Len(s) : s[i] \in S
  BY LenProperties, ElementOfSeq
<1>2. a \in Seq(S) /\ Len(a) = p - 1 /\ \A i \in 1..(p - 1) : a[i] = s[i]
  BY <1>1, SubSeqProperties
<1>3. b \in Seq(S) /\ Len(b) = Len(s) - p /\ \A i \in 1..(Len(s) - p) : b[i] = s[p + i]
  BY <1>1, SubSeqProperties
<1>4. RemoveAt(s, p) = a \o b
  BY DEF RemoveAt
<1>. HIDE DEF a, b
<1>5. /\ a \o b \in Seq(S)
      /\ Len(a \o b) = Len(a) + Len(b)
      /\ \A i \in 1..(Len(a) + Len(b)) :
           (a \o b)[i] = IF i <= Len(a) THEN a[i] ELSE b[i - Len(a)]
  BY <1>2, <1>3, ConcatProperties
<1>6. Len(a) + Len(b) = Len(s) - 1
  BY <1>1, <1>2, <1>3
<1>7. ASSUME NEW i \in 1..(Len(s) - 1)
      PROVE  (a \o b)[i] = s[from(i)]
  <2>1. CASE i < p
    <3>1. i \in 1..(p - 1) /\ i <= Len(a) /\ i \in 1..(Len(a) + Len(b))
      BY <1>1, <1>2, <1>6, <2>1
    <3>2. QED
      BY <1>2, <1>5, <2>1, <3>1
  <2>2. CASE ~(i < p)
    <3>1. p \in Int /\ i \in Int /\ Len(s) \in Int
      BY <1>1
    <3>2. /\ i - Len(a) \in 1..(Len(s) - p) /\ p + (i - Len(a)) = i + 1
          /\ ~(i <= Len(a))
      BY <1>2, <2>2, <3>1
    <3>3. i \in 1..(Len(a) + Len(b))
      BY <1>6
    <3>4. QED
      BY <1>3, <1>5, <2>2, <3>2, <3>3
  <2>3. QED
    BY <2>1, <2>2
<1>8. DOMAIN (a \o b) = 1..(Len(s) - 1)
  BY <1>5, <1>6, LenProperties
<1>9. /\ \A i \in 1..(Len(s) - 1) : from(i) \in (1..Len(s)) \ {p}
      /\ \A i, j \in 1..(Len(s) - 1) : from(i) = from(j) => i = j
      /\ \A k \in (1..Len(s)) \ {p} : \E i \in 1..(Len(s) - 1) : from(i) = k
  <2>1. /\ \A i \in 1..(Len(s) - 1) : from(i) \in (1..Len(s)) \ {p}
        /\ \A i, j \in 1..(Len(s) - 1) : from(i) = from(j) => i = j
    BY <1>1
  <2>2. ASSUME NEW k \in (1..Len(s)) \ {p}
        PROVE  \E i \in 1..(Len(s) - 1) : from(i) = k
    <3>1. CASE k < p
      <4>1. k \in 1..(Len(s) - 1) /\ from(k) = k
        BY <1>1, <3>1
      <4>2. QED
        BY <4>1
    <3>2. CASE ~(k < p)
      <4>1. k - 1 \in 1..(Len(s) - 1) /\ from(k - 1) = k
        BY <1>1, <3>2
      <4>2. QED
        BY <4>1
    <3>3. QED
      BY <3>1, <3>2
  <2>3. QED
    BY <2>1, <2>2
<1>. HIDE DEF from
<1>10. Distinct(a \o b)
  <2>1. SUFFICES ASSUME NEW i \in 1..(Len(s) - 1), NEW j \in 1..(Len(s) - 1),
                        (a \o b)[i] = (a \o b)[j]
                 PROVE  i = j
    BY <1>8 DEF Distinct
  <2>2. s[from(i)] = s[from(j)] /\ from(i) \in DOMAIN s /\ from(j) \in DOMAIN s
    BY <1>1, <1>7, <1>9, <2>1
  <2>3. from(i) = from(j)
    BY <2>2 DEF Distinct
  <2>4. QED
    BY <1>9, <2>3
<1>11. Range(a \o b) = Range(s) \ {s[p]}
  <2>1. \A k \in (1..Len(s)) \ {p} : s[k] # s[p]
    BY <1>1 DEF Distinct
  <2>2. ASSUME NEW x \in Range(a \o b)
        PROVE  x \in Range(s) \ {s[p]}
    <3>1. PICK i \in 1..(Len(s) - 1) : (a \o b)[i] = x
      BY <1>8 DEF Range
    <3>2. x = s[from(i)] /\ from(i) \in (1..Len(s)) \ {p}
      BY <1>7, <1>9, <3>1
    <3>3. QED
      BY <1>1, <2>1, <3>2 DEF Range
  <2>3. ASSUME NEW x \in Range(s) \ {s[p]}
        PROVE  x \in Range(a \o b)
    <3>1. PICK k \in (1..Len(s)) \ {p} : s[k] = x
      BY <1>1 DEF Range
    <3>2. PICK i \in 1..(Len(s) - 1) : from(i) = k
      BY <1>9
    <3>3. (a \o b)[i] = x
      BY <1>7, <3>1, <3>2
    <3>4. QED
      BY <1>8, <3>3 DEF Range
  <2>4. QED
    BY <2>2, <2>3
<1>12. QED
  BY <1>4, <1>5, <1>6, <1>10, <1>11

LEMMA Inserted ==
  ASSUME NEW S, NEW s \in Seq(S), Distinct(s), NEW q \in 1..(Len(s) + 1),
         NEW e \in S, e \notin Range(s)
  PROVE  /\ InsertAt(s, q, e) \in Seq(S)
         /\ Len(InsertAt(s, q, e)) = Len(s) + 1
         /\ Distinct(InsertAt(s, q, e))
         /\ Range(InsertAt(s, q, e)) = Range(s) \cup {e}
<1>. DEFINE a == SubSeq(s, 1, q - 1)
            b == SubSeq(s, q, Len(s))
            c == a \o <<e>>
            from(i) == IF i < q THEN i ELSE i - 1
<1>1. Len(s) \in Nat /\ DOMAIN s = 1..Len(s) /\ \A i \in 1..Len(s) : s[i] \in S
  BY LenProperties, ElementOfSeq
<1>2. a \in Seq(S) /\ Len(a) = q - 1 /\ \A i \in 1..(q - 1) : a[i] = s[i]
  BY <1>1, SubSeqProperties
<1>3. b \in Seq(S) /\ Len(b) = Len(s) - q + 1 /\ \A i \in 1..(Len(s) - q + 1) : b[i] = s[q + i - 1]
  BY <1>1, SubSeqProperties
<1>4. <<e>> \in Seq(S) /\ Len(<<e>>) = 1 /\ <<e>>[1] = e
  OBVIOUS
<1>5. InsertAt(s, q, e) = c \o b
  BY DEF InsertAt
<1>. HIDE DEF a, b
<1>6. c \in Seq(S) /\ Len(c) = q /\ c[q] = e /\ \A i \in 1..(q - 1) : c[i] = s[i]
  <2>1. /\ c \in Seq(S) /\ Len(c) = Len(a) + 1
        /\ \A i \in 1..(Len(a) + 1) : c[i] = IF i <= Len(a) THEN a[i] ELSE <<e>>[i - Len(a)]
    BY <1>2, <1>4, ConcatProperties
  <2>. HIDE DEF c
  <2>2. q \in 1..(Len(a) + 1) /\ ~(q <= Len(a)) /\ q - Len(a) = 1
    BY <1>1, <1>2
  <2>3. c[q] = e
    BY <1>4, <2>1, <2>2
  <2>4. ASSUME NEW i \in 1..(q - 1)
        PROVE  c[i] = s[i]
    <3>1. i \in 1..(Len(a) + 1) /\ i <= Len(a)
      BY <1>1, <1>2
    <3>2. QED
      BY <1>2, <2>1, <3>1
  <2>5. QED
    BY <1>1, <1>2, <2>1, <2>3, <2>4
<1>. HIDE DEF c
<1>7. /\ c \o b \in Seq(S)
      /\ Len(c \o b) = Len(c) + Len(b)
      /\ \A i \in 1..(Len(c) + Len(b)) :
           (c \o b)[i] = IF i <= Len(c) THEN c[i] ELSE b[i - Len(c)]
  BY <1>3, <1>6, ConcatProperties
<1>8. Len(c) + Len(b) = Len(s) + 1
  BY <1>1, <1>3, <1>6
<1>9. q \in 1..(Len(s) + 1) /\ (c \o b)[q] = e
  BY <1>1, <1>6, <1>7, <1>8
<1>10. ASSUME NEW i \in (1..(Len(s) + 1)) \ {q}
       PROVE  (c \o b)[i] = s[from(i)]
  <2>1. CASE i < q
    <3>1. i \in 1..(q - 1) /\ i <= Len(c) /\ i \in 1..(Len(c) + Len(b))
      BY <1>1, <1>6, <1>8, <2>1
    <3>2. QED
      BY <1>6, <1>7, <2>1, <3>1
  <2>2. CASE ~(i < q)
    <3>1. /\ i - Len(c) \in 1..(Len(s) - q + 1) /\ q + (i - Len(c)) - 1 = i - 1
          /\ ~(i <= Len(c)) /\ i \in 1..(Len(c) + Len(b))
      BY <1>1, <1>6, <1>8, <2>2
    <3>2. QED
      BY <1>3, <1>7, <2>2, <3>1
  <2>3. QED
    BY <2>1, <2>2
<1>11. DOMAIN (c \o b) = 1..(Len(s) + 1)
  BY <1>7, <1>8, LenProperties
<1>12. /\ \A i \in (1..(Len(s) + 1)) \ {q} : from(i) \in 1..Len(s)
       /\ \A i, j \in (1..(Len(s) + 1)) \ {q} : from(i) = from(j) => i = j
       /\ \A k \in 1..Len(s) : \E i \in (1..(Len(s) + 1)) \ {q} : from(i) = k
  <2>1. /\ \A i \in (1..(Len(s) + 1)) \ {q} : from(i) \in 1..Len(s)
        /\ \A i, j \in (1..(Len(s) + 1)) \ {q} : from(i) = from(j) => i = j
    BY <1>1
  <2>2. ASSUME NEW k \in 1..Len(s)
        PROVE  \E i \in (1..(Len(s) + 1)) \ {q} : from(i) = k
    <3>1. CASE k < q
      <4>1. k \in (1..(Len(s) + 1)) \ {q} /\ from(k) = k
        BY <1>1, <3>1
      <4>2. QED
        BY <4>1
    <3>2. CASE ~(k < q)
      <4>1. k + 1 \in (1..(Len(s) + 1)) \ {q} /\ from(k + 1) = k
        BY <1>1, <3>2
      <4>2. QED
        BY <4>1
    <3>3. QED
      BY <3>1, <3>2
  <2>3. QED
    BY <2>1, <2>2
<1>. HIDE DEF from
<1>13. ASSUME NEW k \in 1..Len(s)
       PROVE  s[k] # e
  <2>1. s[k] \in Range(s)
    BY <1>1 DEF Range
  <2>2. QED
    BY <2>1
<1>14. Distinct(c \o b)
  <2>1. SUFFICES ASSUME NEW i \in 1..(Len(s) + 1), NEW j \in 1..(Len(s) + 1),
                        (c \o b)[i] = (c \o b)[j]
                 PROVE  i = j
    BY <1>11 DEF Distinct
  <2>2. ASSUME NEW k \in (1..(Len(s) + 1)) \ {q}
        PROVE  (c \o b)[k] # e
    BY <1>10, <1>12, <1>13
  <2>3. CASE i = q \/ j = q
    BY <1>9, <2>1, <2>2, <2>3
  <2>4. CASE i # q /\ j # q
    <3>1. s[from(i)] = s[from(j)] /\ from(i) \in DOMAIN s /\ from(j) \in DOMAIN s
      BY <1>1, <1>10, <1>12, <2>1, <2>4
    <3>2. from(i) = from(j)
      BY <3>1 DEF Distinct
    <3>3. QED
      BY <1>12, <2>4, <3>2
  <2>5. QED
    BY <2>3, <2>4
<1>15. Range(c \o b) = Range(s) \cup {e}
  <2>1. ASSUME NEW x \in Range(c \o b)
        PROVE  x \in Range(s) \cup {e}
    <3>1. PICK i \in 1..(Len(s) + 1) : (c \o b)[i] = x
      BY <1>11 DEF Range
    <3>2. CASE i = q
      BY <1>9, <3>1, <3>2
    <3>3. CASE i # q
      <4>1. x = s[from(i)] /\ from(i) \in 1..Len(s)
        BY <1>10, <1>12, <3>1, <3>3
      <4>2. QED
        BY <1>1, <4>1 DEF Range
    <3>4. QED
      BY <3>2, <3>3
  <2>2. e \in Range(c \o b)
    BY <1>9, <1>11 DEF Range
  <2>3. ASSUME NEW x \in Range(s)
        PROVE  x \in Range(c \o b)
    <3>1. PICK k \in 1..Len(s) : s[k] = x
      BY <1>1 DEF Range
    <3>2. PICK i \in (1..(Len(s) + 1)) \ {q} : from(i) = k
      BY <1>12
    <3>3. (c \o b)[i] = x
      BY <1>10, <3>1, <3>2
    <3>4. QED
      BY <1>11, <3>3 DEF Range
  <2>4. QED
    BY <2>1, <2>2, <2>3
<1>16. QED
  BY <1>5, <1>7, <1>8, <1>14, <1>15

(* std::find finds what is there.                                          *)
LEMMA Found ==
  ASSUME NEW s, NEW a \in Range(s)
  PROVE  Position(s, a) \in DOMAIN s /\ s[Position(s, a)] = a
  BY DEF Position, Range

(* A vector with nothing in it has no last tab.                            *)
LEMMA NoTabs ==
  ASSUME NEW S, NEW s \in Seq(S)
  PROVE  s = <<>> <=> Len(s) = 0
  BY EmptySeq

LEMMA NoneInRange == Range(<<>>) = {}
  BY DEF Range

-----------------------------------------------------------------------------
(* What the operations make of one window.                                 *)

(* One step leaves the selection where SelectionIsKept wants it.           *)
Kept(before, after) ==
  /\ before.view \in Range(after.tabs)
  /\ Range(after.tabs) \subseteq Range(before.tabs)
  /\ after.view # before.view
  => after.tabs = before.tabs

Shows(win) ==
  ~win.closed => /\ win.view \in Range(win.tabs)
                 /\ app_mode => win.tabs = <<win.view>>

GoodWindow(win) == win \in Window /\ Distinct(win.tabs) /\ Shows(win)

(* new_tab puts a tab into the window and shows it.                        *)
LEMMA WithTabWindow ==
  ASSUME NEW win \in Window, Distinct(win.tabs), NEW a \in Addrs, a \notin Range(win.tabs)
  PROVE  LET after == WithTab(win, a)
         IN  /\ after \in Window
             /\ Distinct(after.tabs)
             /\ Range(after.tabs) = Range(win.tabs) \cup {a}
             /\ after.view = a
             /\ after.private = win.private
             /\ win.tabs = <<>> => after.tabs = <<a>>
<1>. DEFINE i == IF win.view \in Range(win.tabs) THEN Position(win.tabs, win.view)
                ELSE Len(win.tabs)
           more == InsertAt(win.tabs, i + 1, a)
<1>1. win.tabs \in Seq(Addrs) /\ Len(win.tabs) \in Nat /\ DOMAIN win.tabs = 1..Len(win.tabs)
  BY LenProperties DEF Window
<1>2. i + 1 \in 1..(Len(win.tabs) + 1)
  <2>1. CASE win.view \in Range(win.tabs)
    BY <1>1, <2>1, Found
  <2>2. CASE win.view \notin Range(win.tabs)
    BY <1>1, <2>2
  <2>3. QED
    BY <2>1, <2>2
<1>3. WithTab(win, a) = [win EXCEPT !.tabs = more, !.view = a]
  BY DEF WithTab, TabPut
<1>. HIDE DEF i
<1>4. /\ more \in Seq(Addrs) /\ Len(more) = Len(win.tabs) + 1 /\ Distinct(more)
      /\ Range(more) = Range(win.tabs) \cup {a}
  BY <1>1, <1>2, Inserted
<1>5. ASSUME win.tabs = <<>>
      PROVE  more = <<a>>
  <2>1. Len(more) = 1 /\ Range(more) = {a}
    BY <1>1, <1>4, <1>5, NoTabs, NoneInRange
  <2>2. more[1] = a
    <3>1. DOMAIN more = 1..1
      BY <1>4, <2>1, LenProperties
    <3>2. more[1] \in Range(more)
      BY <3>1 DEF Range
    <3>3. QED
      BY <2>1, <3>2
  <2>. HIDE DEF more
  <2>3. QED
    BY <1>4, <2>1, <2>2
<1>. HIDE DEF more
<1>6. QED
  BY <1>3, <1>4, <1>5 DEF Window

(* close_tab and move_tab_to_window take a tab out of the window.          *)
LEMMA WithoutTabWindow ==
  ASSUME NEW win, GoodWindow(win), ~app_mode, NEW i \in DOMAIN win.tabs
  PROVE  LET after == WithoutTab(win, i)
         IN  /\ GoodWindow(after)
             /\ Range(after.tabs) = Range(win.tabs) \ {win.tabs[i]}
             /\ after.private = win.private
             /\ Kept(win, after)
<1>. DEFINE rest == RemoveAt(win.tabs, i)
           next == rest[IF i <= Len(rest) THEN i ELSE Len(rest)]
<1>1. win \in Window /\ Distinct(win.tabs) /\ Shows(win)
  BY DEF GoodWindow
<1>2. win.tabs \in Seq(Addrs) /\ Len(win.tabs) \in Nat /\ DOMAIN win.tabs = 1..Len(win.tabs)
  BY <1>1, LenProperties DEF Window
<1>3. /\ rest \in Seq(Addrs) /\ Len(rest) = Len(win.tabs) - 1 /\ Distinct(rest)
      /\ Range(rest) = Range(win.tabs) \ {win.tabs[i]}
  BY <1>1, <1>2, Erased
<1>4. WithoutTab(win, i) =
        [win EXCEPT !.tabs = rest, !.closed = @ \/ rest = <<>>,
                    !.view = IF rest = <<>> THEN Nil
                             ELSE IF @ # win.tabs[i] THEN @ ELSE next]
  BY DEF WithoutTab
<1>. HIDE DEF rest
<1>5. ASSUME rest # <<>>
      PROVE  next \in Range(rest) /\ next \in Addrs
  <2>1. Len(rest) \in Nat /\ DOMAIN rest = 1..Len(rest) /\ Len(rest) # 0
    <3>1. Len(rest) \in Nat /\ DOMAIN rest = 1..Len(rest)
      BY <1>3, LenProperties
    <3>2. Len(rest) # 0
      BY <1>3, <1>5, NoTabs
    <3>3. QED
      BY <3>1, <3>2
  <2>2. (IF i <= Len(rest) THEN i ELSE Len(rest)) \in DOMAIN rest
    BY <1>2, <2>1
  <2>3. next \in Range(rest)
    BY <2>2 DEF Range
  <2>4. Range(rest) \subseteq Addrs
    BY <1>3, <2>1, ElementOfSeq DEF Range
  <2>5. QED
    BY <2>3, <2>4
<1>. HIDE DEF next
<1>6. DEFINE after == WithoutTab(win, i)
<1>7. /\ after.tabs = rest /\ after.private = win.private
      /\ after.closed = (win.closed \/ rest = <<>>)
      /\ after.view = IF rest = <<>> THEN Nil
                      ELSE IF win.view # win.tabs[i] THEN win.view ELSE next
      /\ after \in Window
  BY <1>1, <1>3, <1>4, <1>5 DEF Window
<1>. HIDE DEF after
<1>8. Shows(after)
  BY <1>1, <1>3, <1>5, <1>7 DEF Shows
<1>9. Kept(win, after)
  <2>1. CASE rest = <<>>
    BY <1>7, <2>1, NoneInRange DEF Kept
  <2>2. CASE rest # <<>> /\ win.view # win.tabs[i]
    BY <1>7, <2>2 DEF Kept
  <2>3. CASE win.view = win.tabs[i]
    BY <1>3, <1>7, <2>3 DEF Kept
  <2>4. QED
    BY <2>1, <2>2, <2>3
<1>10. QED
  BY <1>3, <1>7, <1>8, <1>9 DEF after, GoodWindow

(* move_tab_to_window puts it into the other one and shows it there.       *)
LEMMA PutWindow ==
  ASSUME NEW win \in Window, Distinct(win.tabs), ~app_mode,
         NEW a \in Addrs, a \notin Range(win.tabs), NEW d \in 0..Len(win.tabs)
  PROVE  LET after == TabPut(win, d + 1, a)
         IN  /\ GoodWindow(after)
             /\ Range(after.tabs) = Range(win.tabs) \cup {a}
             /\ after.private = win.private
             /\ Kept(win, after)
<1>. DEFINE more == InsertAt(win.tabs, d + 1, a)
<1>1. win.tabs \in Seq(Addrs) /\ Len(win.tabs) \in Nat
  BY LenProperties DEF Window
<1>2. d + 1 \in 1..(Len(win.tabs) + 1)
  BY <1>1
<1>3. /\ more \in Seq(Addrs) /\ Distinct(more)
      /\ Range(more) = Range(win.tabs) \cup {a}
  BY <1>1, <1>2, Inserted
<1>. HIDE DEF more
<1>4. DEFINE after == [win EXCEPT !.tabs = more, !.view = a]
<1>5. /\ after \in Window /\ after.tabs = more /\ after.view = a
      /\ after.private = win.private
  BY <1>3 DEF Window
<1>. HIDE DEF after
<1>6. GoodWindow(after) /\ Kept(win, after)
  BY <1>3, <1>5 DEF GoodWindow, Shows, Kept
<1>7. QED
  BY <1>3, <1>5, <1>6 DEF after, more, TabPut

(* Within a window it puts the tab elsewhere and keeps the selection.      *)
LEMMA ReorderedWindow ==
  ASSUME NEW win, GoodWindow(win), ~app_mode, NEW i \in DOMAIN win.tabs,
         NEW d \in 0..(Len(win.tabs) - 1)
  PROVE  LET after == [win EXCEPT !.tabs = InsertAt(RemoveAt(@, i), d + 1, win.tabs[i])]
         IN  /\ GoodWindow(after)
             /\ Range(after.tabs) = Range(win.tabs)
             /\ after.private = win.private
             /\ Kept(win, after)
<1>. DEFINE rest == RemoveAt(win.tabs, i)
           more == InsertAt(rest, d + 1, win.tabs[i])
<1>1. win \in Window /\ Distinct(win.tabs) /\ Shows(win)
  BY DEF GoodWindow
<1>2. win.tabs \in Seq(Addrs) /\ Len(win.tabs) \in Nat /\ DOMAIN win.tabs = 1..Len(win.tabs)
  BY <1>1, LenProperties DEF Window
<1>3. win.tabs[i] \in Addrs /\ win.tabs[i] \in Range(win.tabs)
  BY <1>2, ElementOfSeq DEF Range
<1>4. /\ rest \in Seq(Addrs) /\ Len(rest) = Len(win.tabs) - 1 /\ Distinct(rest)
      /\ Range(rest) = Range(win.tabs) \ {win.tabs[i]}
  BY <1>1, <1>2, Erased
<1>. HIDE DEF rest
<1>5. d + 1 \in 1..(Len(rest) + 1) /\ win.tabs[i] \notin Range(rest)
  BY <1>2, <1>4
<1>6. /\ more \in Seq(Addrs) /\ Distinct(more)
      /\ Range(more) = Range(rest) \cup {win.tabs[i]}
  BY <1>3, <1>4, <1>5, Inserted
<1>. HIDE DEF more
<1>7. Range(more) = Range(win.tabs)
  BY <1>3, <1>4, <1>6
<1>8. DEFINE after == [win EXCEPT !.tabs = more]
<1>9. /\ after \in Window /\ after.tabs = more /\ after.view = win.view
      /\ after.private = win.private /\ after.closed = win.closed
  BY <1>1, <1>6 DEF Window
<1>. HIDE DEF after
<1>10. GoodWindow(after) /\ Kept(win, after)
  BY <1>1, <1>6, <1>7, <1>9 DEF GoodWindow, Shows, Kept
<1>11. QED
  BY <1>7, <1>9, <1>10 DEF after, more, rest

-----------------------------------------------------------------------------
(* The invariant, and what the operations make of all windows.             *)

Homes ==
  /\ \A w \in DOMAIN windows : Range(windows[w].tabs) = {a \in Live : tab[a].window = w}
  /\ \A a \in Live : tab[a].window \in DOMAIN windows

Ids ==
  /\ \A a \in Live : tab[a].id < next_tab_id
  /\ \A a, b \in Live : tab[a].id = tab[b].id => a = b

Good ==
  /\ app_mode \in BOOLEAN
  /\ windows \in Seq(Window)
  /\ tab \in [Addrs -> Tab \cup {Free}]
  /\ next_tab_id \in Nat
  /\ \A w \in DOMAIN windows : GoodWindow(windows[w])
  /\ Homes
  /\ PrivacyFollowsTabs
  /\ Ids

Selected == \A w \in DOMAIN windows : Open(w) => Kept(windows[w], windows'[w])

NewIds == \A id \in TabIds' \ TabIds : id >= next_tab_id

(* A TabState that was not freed.                                          *)
LEMMA LiveTab ==
  ASSUME Good, NEW a \in Live
  PROVE  /\ a \in Addrs
         /\ tab[a] \in Tab
         /\ tab[a].window \in DOMAIN windows
         /\ windows[tab[a].window] \in Window
         /\ GoodWindow(windows[tab[a].window])
         /\ a \in Range(windows[tab[a].window].tabs)
  BY DEF Good, Homes, Live, GoodWindow

(* A step that makes no new tab.                                           *)
LEMMA Rearranged ==
  ASSUME Good, app_mode' = app_mode, next_tab_id' = next_tab_id,
         windows' \in Seq(Window), tab' \in [Addrs -> Tab \cup {Free}],
         \A w \in DOMAIN windows' : GoodWindow(windows'[w]),
         Homes',
         \A a \in Live' : /\ a \in Live
                          /\ tab'[a].id = tab[a].id
                          /\ tab'[a].session = tab[a].session
                          /\ windows'[tab'[a].window].private = windows[tab[a].window].private
  PROVE  Good' /\ NewIds
<1>1. Good'
  <2>1. PrivacyFollowsTabs'
    BY DEF Good, PrivacyFollowsTabs
  <2>2. Ids'
    BY DEF Good, Ids
  <2>3. \A w \in DOMAIN windows' : GoodWindow(windows[w])'
    BY DEF GoodWindow, Shows
  <2>4. QED
    BY <2>1, <2>2, <2>3 DEF Good
<1>2. NewIds
  BY DEF NewIds, TabIds
<1>3. QED
  BY <1>1, <1>2

(* One window was changed, and its tabs at most put in another order.      *)
LEMMA WindowChanged ==
  ASSUME Good, app_mode' = app_mode, UNCHANGED <<tab, next_tab_id>>,
         NEW w \in DOMAIN windows, NEW win, GoodWindow(win),
         Range(win.tabs) = Range(windows[w].tabs),
         win.private = windows[w].private,
         windows[w].closed \/ Kept(windows[w], win),
         windows' = [windows EXCEPT ![w] = win]
  PROVE  Good' /\ Selected /\ NewIds
<1>1. windows \in Seq(Window) /\ win \in Window
  BY DEF Good, GoodWindow
<1>2. windows' \in Seq(Window) /\ DOMAIN windows' = DOMAIN windows
  BY <1>1, ExceptSeq
<1>3. \A v \in DOMAIN windows : windows'[v] = IF v = w THEN win ELSE windows[v]
  BY <1>1
<1>4. Live' = Live
  BY DEF Live
<1>5. \A v \in DOMAIN windows' : GoodWindow(windows'[v])
  BY <1>2, <1>3 DEF Good
<1>6. Homes'
  BY <1>2, <1>3, <1>4 DEF Good, Homes
<1>7. \A a \in Live : windows'[tab[a].window].private = windows[tab[a].window].private
  BY <1>3 DEF Good, Homes
<1>8. Good' /\ NewIds
  BY <1>2, <1>4, <1>5, <1>6, <1>7, Rearranged DEF Good
<1>9. Selected
  BY <1>3 DEF Selected, Open, Kept
<1>10. QED
  BY <1>8, <1>9

(* tab_selected.                                                           *)
LEMMA SelectKeeps ==
  ASSUME Good, app_mode' = app_mode, UNCHANGED <<tab, next_tab_id>>, NEW a \in Live,
         windows' = [windows EXCEPT ![tab[a].window].view = a]
  PROVE  Good' /\ Selected /\ NewIds
<1>. DEFINE w == tab[a].window
           win == [windows[w] EXCEPT !.view = a]
<1>1. /\ a \in Addrs /\ w \in DOMAIN windows /\ windows[w] \in Window
      /\ GoodWindow(windows[w]) /\ a \in Range(windows[w].tabs)
  BY LiveTab
<1>. HIDE DEF w
<1>2. /\ win \in Window /\ win.tabs = windows[w].tabs /\ win.view = a
      /\ win.private = windows[w].private /\ win.closed = windows[w].closed
  BY <1>1 DEF Window
<1>3. windows' = [windows EXCEPT ![w] = win]
  BY DEF w
<1>. HIDE DEF win
<1>4. ASSUME windows[w].tabs = <<windows[w].view>>
      PROVE  windows[w].tabs = <<a>>
  BY <1>1, <1>4 DEF Range
<1>5. GoodWindow(win) /\ Kept(windows[w], win)
  BY <1>1, <1>2, <1>4 DEF GoodWindow, Shows, Kept
<1>6. QED
  BY <1>1, <1>2, <1>3, <1>5, WindowChanged

(* window_closing.                                                         *)
LEMMA CloseWindowKeeps ==
  ASSUME Good, app_mode' = app_mode, UNCHANGED <<tab, next_tab_id>>,
         NEW w \in DOMAIN windows, windows' = [windows EXCEPT ![w].closed = TRUE]
  PROVE  Good' /\ Selected /\ NewIds
<1>. DEFINE win == [windows[w] EXCEPT !.closed = TRUE]
<1>1. windows[w] \in Window /\ GoodWindow(windows[w])
  BY DEF Good, GoodWindow
<1>2. /\ win \in Window /\ win.tabs = windows[w].tabs /\ win.view = windows[w].view
      /\ win.private = windows[w].private /\ win.closed
  BY <1>1 DEF Window
<1>3. windows' = [windows EXCEPT ![w] = win]
  OBVIOUS
<1>. HIDE DEF win
<1>4. GoodWindow(win) /\ Kept(windows[w], win)
  BY <1>1, <1>2 DEF GoodWindow, Shows, Kept
<1>5. QED
  BY <1>2, <1>3, <1>4, WindowChanged

(* move_tab_to_window within a window.                                     *)
LEMMA MovedWithinKeeps ==
  ASSUME Good, app_mode' = app_mode, UNCHANGED <<tab, next_tab_id>>, ~app_mode,
         NEW a \in Live, NEW destination \in 0..Len(windows[tab[a].window].tabs),
         windows' = MovedWithin(windows, a, tab[a].window, destination)
  PROVE  Good' /\ Selected /\ NewIds
<1>. DEFINE w == tab[a].window
           i == Position(windows[w].tabs, a)
           d == IF destination > i - 1 THEN destination - 1 ELSE destination
           win == [windows[w] EXCEPT !.tabs = InsertAt(RemoveAt(@, i), d + 1, windows[w].tabs[i])]
<1>1. /\ a \in Addrs /\ w \in DOMAIN windows /\ windows[w] \in Window
      /\ GoodWindow(windows[w]) /\ a \in Range(windows[w].tabs)
  BY LiveTab
<1>. HIDE DEF w
<1>2. i \in DOMAIN windows[w].tabs /\ windows[w].tabs[i] = a
  BY <1>1, Found
<1>3. windows' = [windows EXCEPT ![w] = win]
  BY <1>2 DEF MovedWithin, w
<1>. HIDE DEF i
<1>4. d \in 0..(Len(windows[w].tabs) - 1)
  <2>1. /\ Len(windows[w].tabs) \in Nat /\ i \in 1..Len(windows[w].tabs)
        /\ destination \in 0..Len(windows[w].tabs)
    BY <1>1, <1>2, LenProperties DEF Window, w
  <2>2. QED
    BY <2>1
<1>. HIDE DEF d
<1>5. /\ GoodWindow(win) /\ Range(win.tabs) = Range(windows[w].tabs)
      /\ win.private = windows[w].private /\ Kept(windows[w], win)
  BY <1>1, <1>2, <1>4, ReorderedWindow
<1>. HIDE DEF win
<1>6. QED
  BY <1>1, <1>3, <1>5, WindowChanged

(* close_tab.                                                              *)
LEMMA CloseTabKeeps ==
  ASSUME Good, app_mode' = app_mode, next_tab_id' = next_tab_id, ~app_mode,
         NEW a \in Live, CloseTab(a)
  PROVE  Good' /\ Selected /\ NewIds
<1>. DEFINE w == tab[a].window
           i == Position(windows[w].tabs, a)
           rest == WithoutTab(windows[w], i)
           win == ClosedUriPushed(rest)
<1>1. /\ a \in Addrs /\ w \in DOMAIN windows /\ windows[w] \in Window
      /\ GoodWindow(windows[w]) /\ a \in Range(windows[w].tabs)
  BY LiveTab
<1>2. i \in DOMAIN windows[w].tabs /\ windows[w].tabs[i] = a
  BY <1>1, Found
<1>3. windows' = [windows EXCEPT ![w] = win] /\ tab' = [tab EXCEPT ![a] = Free]
  BY DEF CloseTab
<1>. HIDE DEF i
<1>4. /\ GoodWindow(rest) /\ Range(rest.tabs) = Range(windows[w].tabs) \ {a}
      /\ rest.private = windows[w].private /\ Kept(windows[w], rest)
  BY <1>1, <1>2, WithoutTabWindow
<1>. HIDE DEF rest
<1>5. /\ win \in Window /\ win.tabs = rest.tabs /\ win.view = rest.view
      /\ win.private = rest.private /\ win.closed = rest.closed
  BY <1>4, WindowTabsAssumption DEF GoodWindow, Window, ClosedUriPushed
<1>. HIDE DEF win
<1>6. /\ GoodWindow(win) /\ Range(win.tabs) = Range(windows[w].tabs) \ {a}
      /\ win.private = windows[w].private /\ Kept(windows[w], win)
  BY <1>4, <1>5 DEF GoodWindow, Shows, Kept
<1>7. windows' \in Seq(Window) /\ DOMAIN windows' = DOMAIN windows
  BY <1>1, <1>3, <1>5, ExceptSeq DEF Good
<1>8. \A v \in DOMAIN windows : windows'[v] = IF v = w THEN win ELSE windows[v]
  BY <1>3
<1>9. /\ tab' \in [Addrs -> Tab \cup {Free}]
      /\ Live' = Live \ {a}
      /\ \A b \in Live \ {a} : tab'[b] = tab[b]
  BY <1>3 DEF Good, Live
<1>10. \A v \in DOMAIN windows' : GoodWindow(windows'[v])
  BY <1>6, <1>7, <1>8 DEF Good
<1>11. Homes'
  <2>1. ASSUME NEW v \in DOMAIN windows
        PROVE  Range(windows'[v].tabs) = {b \in Live' : tab'[b].window = v}
    <3>1. Range(windows[v].tabs) = {b \in Live : tab[b].window = v}
      BY DEF Good, Homes
    <3>2. CASE v = w
      BY <1>6, <1>8, <1>9, <3>1, <3>2
    <3>3. CASE v # w
      BY <1>8, <1>9, <3>1, <3>3 DEF w
    <3>4. QED
      BY <3>2, <3>3
  <2>2. \A b \in Live' : tab'[b].window \in DOMAIN windows
    BY <1>9 DEF Good, Homes
  <2>3. QED
    BY <1>7, <2>1, <2>2 DEF Homes
<1>12. \A b \in Live' : /\ tab'[b] = tab[b]
                        /\ windows'[tab'[b].window].private = windows[tab[b].window].private
  BY <1>6, <1>8, <1>9 DEF Good, Homes
<1>13. Good' /\ NewIds
  BY <1>7, <1>9, <1>10, <1>11, <1>12, Rearranged
<1>14. Selected
  BY <1>6, <1>8 DEF Selected, Kept
<1>15. QED
  BY <1>13, <1>14

(* move_tab_to_window, where the windows are those there were and possibly *)
(* a new one, the target.                                                  *)
TabMoved(ws, a, target, destination) ==
  /\ windows' = MovedBetween(ws, a, target, destination)
  /\ tab' = [tab EXCEPT ![a].window = target]

LEMMA MovedBetweenKeeps ==
  ASSUME Good, app_mode' = app_mode, next_tab_id' = next_tab_id, ~app_mode,
         NEW a \in Live, NEW ws \in Seq(Window), NEW target \in DOMAIN ws,
         target # tab[a].window,
         DOMAIN windows \subseteq DOMAIN ws,
         DOMAIN ws \subseteq DOMAIN windows \cup {target},
         \A w \in DOMAIN windows : ws[w] = windows[w],
         Distinct(ws[target].tabs),
         Range(ws[target].tabs) = {b \in Live : tab[b].window = target},
         ws[target].private = windows[tab[a].window].private,
         NEW destination \in 0..Len(ws[target].tabs),
         TabMoved(ws, a, target, destination)
  PROVE  Good' /\ Selected /\ NewIds
<1>. DEFINE w == tab[a].window
           i == Position(windows[w].tabs, a)
           left == WithoutTab(windows[w], i)
           joined == TabPut(ws[target], destination + 1, a)
<1>1. /\ a \in Addrs /\ w \in DOMAIN windows /\ windows[w] \in Window /\ tab[a] \in Tab
      /\ GoodWindow(windows[w]) /\ a \in Range(windows[w].tabs)
  BY LiveTab
<1>2. i \in DOMAIN windows[w].tabs /\ windows[w].tabs[i] = a
  BY <1>1, Found
<1>3. windows' = [ws EXCEPT ![w] = left, ![target] = joined]
  BY <1>1 DEF MovedBetween, TabMoved
<1>. HIDE DEF i
<1>4. /\ GoodWindow(left) /\ Range(left.tabs) = Range(windows[w].tabs) \ {a}
      /\ left.private = windows[w].private /\ Kept(windows[w], left)
  BY <1>1, <1>2, WithoutTabWindow
<1>. HIDE DEF left
<1>5. a \notin Range(ws[target].tabs) /\ ws[target] \in Window
  BY ElementOfSeq, LenProperties
<1>6. /\ GoodWindow(joined) /\ Range(joined.tabs) = Range(ws[target].tabs) \cup {a}
      /\ joined.private = windows[w].private /\ Kept(ws[target], joined)
  <2>. DEFINE win == ws[target]
  <2>1. /\ win \in Window /\ Distinct(win.tabs) /\ a \in Addrs /\ a \notin Range(win.tabs)
        /\ destination \in 0..Len(win.tabs) /\ win.private = windows[w].private
    BY <1>1, <1>5
  <2>. HIDE DEF win, w
  <2>2. /\ GoodWindow(TabPut(win, destination + 1, a))
        /\ Range(TabPut(win, destination + 1, a).tabs) = Range(win.tabs) \cup {a}
        /\ TabPut(win, destination + 1, a).private = win.private
        /\ Kept(win, TabPut(win, destination + 1, a))
    BY <2>1, PutWindow
  <2>3. QED
    BY <2>1, <2>2 DEF win
<1>. HIDE DEF joined
<1>7. windows' \in Seq(Window) /\ DOMAIN windows' = DOMAIN ws
  <2>1. [ws EXCEPT ![w] = left] \in Seq(Window) /\ DOMAIN [ws EXCEPT ![w] = left] = DOMAIN ws
    BY <1>1, <1>4, ExceptSeq DEF GoodWindow
  <2>2. QED
    BY <1>3, <1>6, <2>1, ExceptSeq DEF GoodWindow
<1>8. \A v \in DOMAIN ws : windows'[v] = IF v = target THEN joined
                                         ELSE IF v = w THEN left ELSE windows[v]
  BY <1>3, <1>7
<1>9. /\ tab' \in [Addrs -> Tab \cup {Free}]
      /\ Live' = Live
      /\ tab'[a].window = target /\ tab'[a].id = tab[a].id /\ tab'[a].session = tab[a].session
      /\ \A b \in Live \ {a} : tab'[b] = tab[b]
  <2>1. target \in Nat
    BY LenProperties
  <2>2. [tab[a] EXCEPT !.window = target] \in Tab
    BY <1>1, <2>1 DEF Tab
  <2>3. Tab = [id : Nat, window : Nat, session : Nat, closing : BOOLEAN]
    BY DEF Tab
  <2>4. tab' = [tab EXCEPT ![a] = [tab[a] EXCEPT !.window = target]]
    BY DEF TabMoved
  <2>5. Free \notin Tab
    BY WindowTabsAssumption, <2>3
  <2>6. /\ tab' \in [Addrs -> Tab \cup {Free}]
        /\ tab'[a] = [tab[a] EXCEPT !.window = target]
        /\ \A b \in Addrs \ {a} : tab'[b] = tab[b]
    BY <1>1, <2>2, <2>4 DEF Good
  <2>7. Live' = Live
    BY <1>1, <2>2, <2>5, <2>6 DEF Live
  <2>8. /\ tab'[a].window = target /\ tab'[a].id = tab[a].id
        /\ tab'[a].session = tab[a].session
    BY <1>1, <2>6 DEF Tab
  <2>9. QED
    BY <2>6, <2>7, <2>8 DEF Live
<1>10. \A v \in DOMAIN windows' : GoodWindow(windows'[v])
  BY <1>4, <1>6, <1>7, <1>8 DEF Good
<1>11. Homes'
  <2>1. ASSUME NEW v \in DOMAIN ws
        PROVE  Range(windows'[v].tabs) = {b \in Live' : tab'[b].window = v}
    <3>1. CASE v = target
      BY <1>6, <1>8, <1>9, <3>1
    <3>2. CASE v # target
      <4>1. v \in DOMAIN windows /\ Range(windows[v].tabs) = {b \in Live : tab[b].window = v}
        BY <3>2 DEF Good, Homes
      <4>2. CASE v = w
        BY <1>4, <1>8, <1>9, <3>2, <4>1, <4>2
      <4>3. CASE v # w
        BY <1>8, <1>9, <3>2, <4>1, <4>3 DEF w
      <4>4. QED
        BY <4>2, <4>3
    <3>3. QED
      BY <3>1, <3>2
  <2>2. ASSUME NEW b \in Live'
        PROVE  tab'[b].window \in DOMAIN ws
    BY <1>9 DEF Good, Homes
  <2>3. QED
    BY <1>7, <2>1, <2>2 DEF Homes
<1>12. ASSUME NEW b \in Live'
       PROVE  /\ b \in Live /\ tab'[b].id = tab[b].id /\ tab'[b].session = tab[b].session
              /\ windows'[tab'[b].window].private = windows[tab[b].window].private
  <2>1. CASE b = a
    BY <1>6, <1>8, <1>9, <2>1
  <2>2. CASE b # a
    <3>1. b \in Live /\ tab'[b] = tab[b] /\ tab[b].window \in DOMAIN windows
      BY <1>9, <2>2 DEF Good, Homes
    <3>2. windows'[tab[b].window].private = windows[tab[b].window].private
      BY <1>4, <1>6, <1>8, <3>1
    <3>3. QED
      BY <3>1, <3>2
  <2>3. QED
    BY <2>1, <2>2
<1>13. Good' /\ NewIds
  BY <1>7, <1>9, <1>10, <1>11, <1>12, Rearranged
<1>14. Selected
  BY <1>4, <1>6, <1>8 DEF Selected, Kept
<1>15. QED
  BY <1>13, <1>14

(* new_tab, in a window there was or in a new one.                         *)
LEMMA TabMade ==
  ASSUME Good, app_mode' = app_mode, next_tab_id' = next_tab_id + 1,
         windows' \in Seq(Window), DOMAIN windows \subseteq DOMAIN windows',
         NEW w \in DOMAIN windows', NEW a \in Addrs \ Live,
         tab' = [tab EXCEPT ![a] = NewTabState(w, windows'[w].private)],
         \A v \in DOMAIN windows' \ {w} : v \in DOMAIN windows /\ windows'[v] = windows[v],
         GoodWindow(windows'[w]),
         Range(windows'[w].tabs) = {b \in Live : tab[b].window = w} \cup {a},
         w \in DOMAIN windows => windows'[w].private = windows[w].private
  PROVE  Good' /\ Selected /\ NewIds
<1>. DEFINE new == NewTabState(w, windows'[w].private)
<1>1. w \in Nat \ {0} /\ windows'[w].private \in BOOLEAN
  BY LenProperties DEF GoodWindow, Window
<1>2. /\ new \in Tab /\ new.id = next_tab_id /\ new.window = w
      /\ new.session # 0 <=> windows'[w].private
  BY <1>1 DEF NewTabState, Tab, Good
<1>. HIDE DEF new
<1>3. Free \notin Tab
  BY WindowTabsAssumption DEF Tab
<1>4. /\ tab' \in [Addrs -> Tab \cup {Free}] /\ tab'[a] = new
      /\ \A b \in Addrs \ {a} : tab'[b] = tab[b]
  BY <1>2 DEF Good, new
<1>5. Live' = Live \cup {a}
  BY <1>2, <1>3, <1>4 DEF Live
<1>6. \A v \in DOMAIN windows' : GoodWindow(windows'[v])
  BY DEF Good
<1>7. Homes'
  <2>1. ASSUME NEW v \in DOMAIN windows'
        PROVE  Range(windows'[v].tabs) = {b \in Live' : tab'[b].window = v}
    <3>1. \A b \in Live : b # a /\ tab'[b] = tab[b]
      BY <1>4 DEF Live
    <3>2. CASE v = w
      BY <1>2, <1>4, <1>5, <3>1, <3>2
    <3>3. CASE v # w
      BY <1>2, <1>4, <1>5, <3>1, <3>3 DEF Good, Homes
    <3>4. QED
      BY <3>2, <3>3
  <2>2. \A b \in Live' : tab'[b].window \in DOMAIN windows'
    BY <1>2, <1>4, <1>5 DEF Good, Homes, Live
  <2>3. QED
    BY <2>1, <2>2 DEF Homes
<1>8. \A b \in Live : b # a /\ tab'[b] = tab[b] /\ tab[b].window \in DOMAIN windows
  BY <1>4 DEF Good, Homes, Live
<1>9. PrivacyFollowsTabs'
  <2>1. ASSUME NEW b \in Live
        PROVE  tab'[b].session # 0 <=> windows'[tab'[b].window].private
    BY <1>8 DEF Good, PrivacyFollowsTabs
  <2>2. QED
    BY <1>2, <1>4, <1>5, <2>1 DEF PrivacyFollowsTabs
<1>10. next_tab_id \in Nat /\ next_tab_id + 1 \in Nat /\ \A b \in Live : tab[b].id \in Nat
  BY <1>3 DEF Good, Live, Tab
<1>11. Ids'
  <2>1. \A b \in Live' : tab'[b].id < next_tab_id'
    BY <1>2, <1>4, <1>5, <1>8, <1>10 DEF Good, Ids
  <2>2. ASSUME NEW b \in Live', NEW c \in Live', tab'[b].id = tab'[c].id
        PROVE  b = c
    BY <1>2, <1>4, <1>5, <1>8, <1>10, <2>2 DEF Good, Ids
  <2>3. QED
    BY <2>1, <2>2 DEF Ids
<1>12. Good'
  <2>1. \A v \in DOMAIN windows' : GoodWindow(windows[v])'
    BY <1>6 DEF GoodWindow, Shows
  <2>2. QED
    BY <1>4, <1>7, <1>9, <1>10, <1>11, <2>1 DEF Good
<1>13. Selected
  <2>1. ASSUME w \in DOMAIN windows
        PROVE  a \in Range(windows'[w].tabs) \ Range(windows[w].tabs)
    BY <2>1 DEF Good, Homes
  <2>2. QED
    BY <2>1 DEF Selected, Kept
<1>14. NewIds
  BY <1>2, <1>4, <1>5, <1>8, <1>10 DEF NewIds, TabIds
<1>15. QED
  BY <1>12, <1>13, <1>14

(* A tab put into a window there was; `win` is the window, except for what *)
(* it remembers of closed tabs.                                            *)
LEMMA AddTabKeeps ==
  ASSUME Good, app_mode' = app_mode, next_tab_id' = next_tab_id + 1,
         NEW w \in DOMAIN windows, app_mode => windows[w].tabs = <<>>,
         NEW win \in Window, win.tabs = windows[w].tabs, win.private = windows[w].private,
         NEW a \in Addrs \ Live,
         windows' = [windows EXCEPT ![w] = WithTab(win, a)],
         tab' = [tab EXCEPT ![a] = NewTabState(w, windows[w].private)]
  PROVE  Good' /\ Selected /\ NewIds
<1>. DEFINE after == WithTab(win, a)
<1>1. /\ windows \in Seq(Window) /\ GoodWindow(windows[w])
      /\ Range(windows[w].tabs) = {b \in Live : tab[b].window = w}
  BY DEF Good, Homes
<1>2. Distinct(win.tabs) /\ a \notin Range(win.tabs)
  BY <1>1 DEF GoodWindow
<1>3. /\ after \in Window /\ Distinct(after.tabs) /\ after.view = a
      /\ Range(after.tabs) = Range(windows[w].tabs) \cup {a}
      /\ after.private = windows[w].private
      /\ windows[w].tabs = <<>> => after.tabs = <<a>>
  BY <1>2, WithTabWindow
<1>. HIDE DEF after
<1>4. GoodWindow(after)
  BY <1>3 DEF GoodWindow, Shows
<1>5. windows' = [windows EXCEPT ![w] = after]
  BY DEF after
<1>6. windows' \in Seq(Window) /\ DOMAIN windows' = DOMAIN windows
  BY <1>1, <1>3, <1>5, ExceptSeq
<1>7. windows'[w] = after /\ \A v \in DOMAIN windows \ {w} : windows'[v] = windows[v]
  BY <1>5
<1>8. QED
  BY <1>1, <1>3, <1>4, <1>6, <1>7, TabMade

(* create_window makes a window with one tab.                              *)
LEMMA FirstTabWindow ==
  ASSUME NEW private \in BOOLEAN, NEW a \in Addrs
  PROVE  LET after == WithTab(Blank(private), a)
         IN  /\ GoodWindow(after)
             /\ Range(after.tabs) = {a}
             /\ after.private = private
<1>. DEFINE blank == Blank(private)
           after == WithTab(blank, a)
<1>1. /\ blank \in Window /\ blank.tabs = <<>> /\ blank.private = private
      /\ Distinct(blank.tabs)
  BY WindowTabsAssumption DEF Blank, Window, Distinct
<1>. HIDE DEF blank
<1>2. Range(blank.tabs) = {}
  BY <1>1, NoneInRange
<1>3. /\ after \in Window /\ Distinct(after.tabs) /\ after.view = a
      /\ Range(after.tabs) = {a} /\ after.private = private /\ after.tabs = <<a>>
  BY <1>1, <1>2, WithTabWindow
<1>. HIDE DEF after
<1>4. GoodWindow(after)
  BY <1>3 DEF GoodWindow, Shows
<1>5. QED
  BY <1>3, <1>4 DEF after, blank

(* A tab put into a new window.                                            *)
LEMMA CreateKeeps ==
  ASSUME Good, app_mode' = app_mode, next_tab_id' = next_tab_id + 1,
         NEW private \in BOOLEAN, NEW a \in Addrs \ Live,
         windows' = Append(windows, WithTab(Blank(private), a)),
         tab' = [tab EXCEPT ![a] = NewTabState(Len(windows) + 1, private)]
  PROVE  Good' /\ Selected /\ NewIds
<1>. DEFINE w == Len(windows) + 1
           after == WithTab(Blank(private), a)
<1>1. GoodWindow(after) /\ Range(after.tabs) = {a} /\ after.private = private
  BY FirstTabWindow
<1>2. windows \in Seq(Window) /\ Len(windows) \in Nat /\ DOMAIN windows = 1..Len(windows)
  BY LenProperties DEF Good
<1>3. windows' = Append(windows, after)
  OBVIOUS
<1>. HIDE DEF after
<1>4. /\ windows' \in Seq(Window) /\ DOMAIN windows' = 1..(Len(windows) + 1)
      /\ windows'[w] = after
      /\ \A v \in 1..Len(windows) : windows'[v] = windows[v]
  BY <1>1, <1>2, <1>3, AppendProperties, LenProperties DEF GoodWindow
<1>5. w \in DOMAIN windows' /\ w \notin DOMAIN windows
  BY <1>2, <1>4
<1>6. \A v \in DOMAIN windows' \ {w} : v \in DOMAIN windows /\ windows'[v] = windows[v]
  BY <1>2, <1>4
<1>7. DOMAIN windows \subseteq DOMAIN windows'
  BY <1>2, <1>4
<1>8. tab' = [tab EXCEPT ![a] = NewTabState(w, windows'[w].private)]
  BY <1>1, <1>4
<1>9. GoodWindow(windows'[w])
  BY <1>1, <1>4
<1>10. Range(windows'[w].tabs) = {b \in Live : tab[b].window = w} \cup {a}
  BY <1>1, <1>4, <1>5 DEF Good, Homes
<1>. HIDE DEF w
<1>11. QED
  BY <1>4, <1>5, <1>6, <1>7, <1>8, <1>9, <1>10, TabMade

(* queue_tab_close marks the tab.                                          *)
LEMMA ClosingKeeps ==
  ASSUME Good, app_mode' = app_mode, UNCHANGED <<windows, next_tab_id>>,
         NEW a \in Live, tab' = [tab EXCEPT ![a].closing = TRUE]
  PROVE  Good' /\ Selected /\ NewIds
<1>1. a \in Addrs /\ tab[a] \in Tab
  BY LiveTab
<1>2. Free \notin Tab
  BY WindowTabsAssumption DEF Tab
<1>3. DEFINE marked == [tab[a] EXCEPT !.closing = TRUE]
<1>4. /\ marked \in Tab /\ marked.id = tab[a].id /\ marked.window = tab[a].window
      /\ marked.session = tab[a].session
  BY <1>1 DEF Tab
<1>5. tab' = [tab EXCEPT ![a] = marked]
  OBVIOUS
<1>. HIDE DEF marked
<1>6. /\ tab' \in [Addrs -> Tab \cup {Free}]
      /\ \A b \in Addrs : tab'[b] = IF b = a THEN marked ELSE tab[b]
  BY <1>1, <1>4, <1>5 DEF Good
<1>7. Live' = Live
  BY <1>1, <1>2, <1>4, <1>6 DEF Live
<1>8. \A b \in Live : /\ tab'[b].id = tab[b].id /\ tab'[b].window = tab[b].window
                      /\ tab'[b].session = tab[b].session
  BY <1>4, <1>6 DEF Live
<1>9. Homes'
  BY <1>7, <1>8 DEF Good, Homes
<1>10. Good' /\ NewIds
  BY <1>6, <1>7, <1>8, <1>9, Rearranged DEF Good
<1>11. Selected
  BY DEF Selected, Kept
<1>12. QED
  BY <1>10, <1>11

(* Nothing of this changes.                                                *)
LEMMA NothingKeeps ==
  ASSUME Good, UNCHANGED <<app_mode, windows, tab, next_tab_id>>
  PROVE  Good' /\ Selected /\ NewIds
<1>1. Good'
  BY DEF Good, GoodWindow, Shows, Homes, Live, PrivacyFollowsTabs, Ids
<1>2. Selected /\ NewIds
  BY DEF Selected, Kept, NewIds, TabIds, Live
<1>3. QED
  BY <1>1, <1>2

-----------------------------------------------------------------------------
(* The handlers.                                                           *)

Queues ==
  /\ idle \in Seq(Callback)
  /\ dragging \in Addrs \cup {Nil}
  /\ drag_outcome \in {"none", "completed", "cancelled"}
  /\ pending_detach \in Addrs \cup {Nil}
  /\ app_mode => dragging = Nil /\ idle = <<>>

Inv == Good /\ Queues

LEMMA SameQueues ==
  ASSUME Queues, UNCHANGED <<app_mode, idle, dragging, drag_outcome, pending_detach>>
  PROVE  Queues'
  BY DEF Queues

LEMMA CreateWindowStep ==
  ASSUME Inv, app_mode' = app_mode, NEW private \in BOOLEAN, CreateWindow(private)
  PROVE  Inv' /\ Selected /\ NewIds
<1>1. PICK a \in Addrs \ Live :
        /\ windows' = Append(windows, WithTab(Blank(private), a))
        /\ tab' = [tab EXCEPT ![a] = NewTabState(Len(windows) + 1, private)]
  BY DEF CreateWindow
<1>2. Good' /\ Selected /\ NewIds
  BY <1>1, CreateKeeps DEF Inv, CreateWindow
<1>3. QED
  BY <1>2, SameQueues DEF Inv, CreateWindow

LEMMA NewTabStep ==
  ASSUME Inv, app_mode' = app_mode, NEW w \in DOMAIN windows, NewTab(w)
  PROVE  Inv' /\ Selected /\ NewIds
<1>1. windows[w] \in Window /\ windows[w].private \in BOOLEAN
  BY DEF Inv, Good, GoodWindow, Window
<1>2. CASE app_mode /\ windows[w].tabs # <<>>
  <2>1. CreateWindow(windows[w].private)
    BY <1>2 DEF NewTab
  <2>2. QED
    BY <1>1, <2>1, CreateWindowStep
<1>3. CASE ~(app_mode /\ windows[w].tabs # <<>>)
  <2>1. PICK a \in Addrs \ Live :
          /\ windows' = [windows EXCEPT ![w] = WithTab(@, a)]
          /\ tab' = [tab EXCEPT ![a] = NewTabState(w, windows[w].private)]
    BY <1>3 DEF NewTab
  <2>2. next_tab_id' = next_tab_id + 1
        /\ UNCHANGED <<idle, dragging, drag_outcome, pending_detach>>
    BY <1>3 DEF NewTab
  <2>3. Good' /\ Selected /\ NewIds
    BY <1>1, <1>3, <2>1, <2>2, AddTabKeeps DEF Inv
  <2>4. QED
    BY <2>2, <2>3, SameQueues DEF Inv
<1>4. QED
  BY <1>2, <1>3

LEMMA ReopenStep ==
  ASSUME Inv, app_mode' = app_mode, NEW w \in DOMAIN windows, ReopenClosedTab(w)
  PROVE  Inv' /\ Selected /\ NewIds
<1>. DEFINE win == ClosedUriPopped(windows[w])
<1>1. windows[w] \in Window /\ windows[w].closed_uris > 0 /\ ~app_mode
  BY DEF Inv, Good, GoodWindow, ReopenClosedTab
<1>2. win \in Window /\ win.tabs = windows[w].tabs /\ win.private = windows[w].private
  BY <1>1, WindowTabsAssumption DEF Window, ClosedUriPopped
<1>3. PICK a \in Addrs \ Live :
        /\ windows' = [windows EXCEPT ![w] = WithTab(win, a)]
        /\ tab' = [tab EXCEPT ![a] = NewTabState(w, windows[w].private)]
  BY DEF ReopenClosedTab
<1>. HIDE DEF win
<1>4. Good' /\ Selected /\ NewIds
  BY <1>1, <1>2, <1>3, AddTabKeeps DEF Inv, ReopenClosedTab
<1>5. QED
  BY <1>4, SameQueues DEF Inv, ReopenClosedTab

LEMMA SelectStep ==
  ASSUME Inv, app_mode' = app_mode, NEW a \in Live, SelectTab(a)
  PROVE  Inv' /\ Selected /\ NewIds
<1>1. Good' /\ Selected /\ NewIds
  BY SelectKeeps DEF Inv, SelectTab
<1>2. QED
  BY <1>1, SameQueues DEF Inv, SelectTab

LEMMA CloseTabStep ==
  ASSUME Inv, app_mode' = app_mode, ~app_mode, NEW a \in Live, CloseTab(a),
         UNCHANGED <<next_tab_id, idle, dragging, drag_outcome, pending_detach>>
  PROVE  Inv' /\ Selected /\ NewIds
<1>1. Good' /\ Selected /\ NewIds
  BY CloseTabKeeps DEF Inv
<1>2. QED
  BY <1>1, SameQueues DEF Inv

(* What an open window shows, if it is one of its tabs, is a tab.          *)
LEMMA ShownIsLive ==
  ASSUME Good, NEW w \in DOMAIN windows, Open(w)
  PROVE  windows[w].view \in Live
  BY DEF Good, Homes, GoodWindow, Shows, Open

LEMMA ListedIsLive ==
  ASSUME Good, NEW w \in DOMAIN windows, NEW i \in DOMAIN windows[w].tabs
  PROVE  windows[w].tabs[i] \in Live
<1>1. windows[w].tabs[i] \in Range(windows[w].tabs)
  BY DEF Range
<1>2. QED
  BY <1>1 DEF Good, Homes

LEMMA QueueTabCloseStep ==
  ASSUME Inv, app_mode' = app_mode, NEW a \in Live, QueueTabClose(a)
  PROVE  Inv' /\ Selected /\ NewIds
<1>1. Good' /\ Selected /\ NewIds
  BY ClosingKeeps DEF Inv, QueueTabClose
<1>2. a \in Addrs /\ tab[a].id \in Nat
  BY LiveTab DEF Inv, Tab
<1>3. [kind |-> "close", tab |-> a, id |-> tab[a].id] \in Callback
  BY <1>2 DEF Callback
<1>4. idle' \in Seq(Callback)
  BY <1>3, AppendProperties DEF Inv, Queues, QueueTabClose
<1>5. Queues'
  BY <1>4 DEF Inv, Queues, QueueTabClose
<1>6. QED
  BY <1>1, <1>5 DEF Inv

LEMMA CloseWindowStep ==
  ASSUME Inv, app_mode' = app_mode, NEW w \in DOMAIN windows, CloseWindow(w)
  PROVE  Inv' /\ Selected /\ NewIds
<1>1. Good' /\ Selected /\ NewIds
  BY CloseWindowKeeps DEF Inv, CloseWindow
<1>2. QED
  BY <1>1, SameQueues DEF Inv, CloseWindow

LEMMA TabDragBeginStep ==
  ASSUME Inv, app_mode' = app_mode, NEW a \in Live, TabDragBegin(a)
  PROVE  Inv' /\ Selected /\ NewIds
<1>1. Good' /\ Selected /\ NewIds
  BY NothingKeeps DEF Inv, TabDragBegin
<1>2. Queues'
  BY DEF Inv, Queues, TabDragBegin, Live
<1>3. QED
  BY <1>1, <1>2 DEF Inv

LEMMA TabDroppedStep ==
  ASSUME Inv, app_mode' = app_mode, NEW target \in DOMAIN windows,
         NEW destination \in 0..MaxTabs, TabDropped(target, destination)
  PROVE  Inv' /\ Selected /\ NewIds
<1>1. /\ dragging \in Live /\ ~app_mode
      /\ destination \in 0..Len(windows[target].tabs)
  <2>1. dragging \in Live /\ ~app_mode
    BY DEF Inv, Queues, TabDropped, Live
  <2>2. windows[target].tabs \in Seq(Addrs)
    BY DEF Inv, Good, GoodWindow, Window
  <2>3. destination \in 0..Len(windows[target].tabs)
    BY <2>2, LenProperties, WindowTabsAssumption DEF TabDropped
  <2>4. QED
    BY <2>1, <2>3
<1>2. next_tab_id' = next_tab_id /\ UNCHANGED <<idle, dragging, pending_detach>>
      /\ drag_outcome' = "completed"
  BY DEF TabDropped
<1>3. CASE tab[dragging].window = target
  <2>1. windows' = MovedWithin(windows, dragging, tab[dragging].window, destination)
        /\ UNCHANGED tab
    BY <1>3 DEF TabDropped
  <2>2. Good' /\ Selected /\ NewIds
    BY <1>1, <1>2, <1>3, <2>1, MovedWithinKeeps DEF Inv
  <2>3. QED
    BY <1>2, <2>2 DEF Inv, Queues
<1>4. CASE tab[dragging].window # target
  <2>1. TabMoved(windows, dragging, target, destination)
    BY <1>4 DEF TabDropped, TabMoved
  <2>2. /\ windows[tab[dragging].window].private = windows[target].private
        /\ windows \in Seq(Window) /\ Distinct(windows[target].tabs)
        /\ Range(windows[target].tabs) = {b \in Live : tab[b].window = target}
    BY DEF TabDropped, Movable, Inv, Good, Homes, GoodWindow
  <2>3. Good' /\ Selected /\ NewIds
    BY <1>1, <1>2, <1>4, <2>1, <2>2, MovedBetweenKeeps DEF Inv
  <2>4. QED
    BY <1>2, <2>3 DEF Inv, Queues
<1>5. QED
  BY <1>3, <1>4

(* queue_tab_detach leaves an address that can be followed.                *)
LEMMA DetachQueued ==
  ASSUME Inv, NEW a \in Addrs, QueueTabDetach(a)
  PROVE  idle' \in Seq(Callback) /\ pending_detach' \in Addrs \cup {Nil}
<1>. DEFINE callback == [kind |-> "detach", tab |-> a,
                        id |-> IF tab[a] = Free THEN 0 ELSE tab[a].id]
<1>1. (IF tab[a] = Free THEN 0 ELSE tab[a].id) \in Nat
  BY DEF Inv, Good, Tab
<1>2. callback \in Callback
  BY <1>1 DEF Callback
<1>. HIDE DEF callback
<1>3. CASE pending_detach # Nil
  BY <1>3 DEF QueueTabDetach, Inv, Queues
<1>4. CASE pending_detach = Nil
  <2>1. idle' = Append(idle, callback) /\ pending_detach' = a
    BY <1>4 DEF QueueTabDetach, callback
  <2>2. QED
    BY <1>2, <2>1, AppendProperties DEF Inv, Queues
<1>5. QED
  BY <1>3, <1>4

LEMMA TabDragCancelStep ==
  ASSUME Inv, app_mode' = app_mode, NEW by_user \in BOOLEAN, TabDragCancel(by_user)
  PROVE  Inv' /\ Selected /\ NewIds
<1>1. Good' /\ Selected /\ NewIds
  BY NothingKeeps DEF Inv, TabDragCancel
<1>2. dragging \in Addrs /\ ~app_mode
  BY DEF Inv, Queues, TabDragCancel
<1>3. idle' \in Seq(Callback) /\ pending_detach' \in Addrs \cup {Nil}
  <2>1. CASE by_user
    BY <2>1 DEF TabDragCancel, Inv, Queues
  <2>2. CASE ~by_user
    BY <1>2, <2>2, DetachQueued DEF TabDragCancel
  <2>3. QED
    BY <2>1, <2>2
<1>4. Queues'
  BY <1>2, <1>3 DEF TabDragCancel, Inv, Queues
<1>5. QED
  BY <1>1, <1>4 DEF Inv

LEMMA TabDragEndStep ==
  ASSUME Inv, app_mode' = app_mode, TabDragEnd
  PROVE  Inv' /\ Selected /\ NewIds
<1>1. Good' /\ Selected /\ NewIds
  BY NothingKeeps DEF Inv, TabDragEnd
<1>2. dragging \in Addrs /\ ~app_mode
  BY DEF Inv, Queues, TabDragEnd
<1>3. idle' \in Seq(Callback) /\ pending_detach' \in Addrs \cup {Nil}
  <2>1. CASE drag_outcome # "none"
    BY <2>1 DEF TabDragEnd, Inv, Queues
  <2>2. CASE drag_outcome = "none"
    BY <1>2, <2>2, DetachQueued DEF TabDragEnd
  <2>3. QED
    BY <2>1, <2>2
<1>4. Queues'
  BY <1>2, <1>3 DEF TabDragEnd, Inv, Queues
<1>5. QED
  BY <1>1, <1>4 DEF Inv

(* The first of the idle callbacks.                                        *)
LEMMA FirstCallback ==
  ASSUME Inv, idle # <<>>
  PROVE  Head(idle).tab \in Addrs /\ Tail(idle) \in Seq(Callback) /\ ~app_mode
<1>1. idle \in Seq(Callback) /\ ~app_mode
  BY DEF Inv, Queues
<1>2. Head(idle) \in Callback /\ Tail(idle) \in Seq(Callback)
  BY <1>1, HeadTailProperties
<1>3. QED
  BY <1>1, <1>2 DEF Callback

LEMMA CloseTabDeferredStep ==
  ASSUME Inv, app_mode' = app_mode, CloseTabDeferred
  PROVE  Inv' /\ Selected /\ NewIds
<1>. DEFINE a == Head(idle).tab
<1>1. a \in Addrs /\ Tail(idle) \in Seq(Callback) /\ ~app_mode
  BY FirstCallback DEF CloseTabDeferred
<1>2. Good' /\ Selected /\ NewIds
  <2>1. CASE tab[a] # Free
    <3>1. a \in Live /\ CloseTab(a) /\ next_tab_id' = next_tab_id
      BY <1>1, <2>1 DEF CloseTabDeferred, Live
    <3>2. QED
      BY <1>1, <3>1, CloseTabKeeps DEF Inv
  <2>2. CASE tab[a] = Free
    BY <2>2, NothingKeeps DEF CloseTabDeferred, Inv
  <2>3. QED
    BY <2>1, <2>2
<1>3. Queues'
  BY <1>1 DEF CloseTabDeferred, Inv, Queues
<1>4. QED
  BY <1>2, <1>3 DEF Inv

LEMMA DetachTabDeferredStep ==
  ASSUME Inv, app_mode' = app_mode, DetachTabDeferred
  PROVE  Inv' /\ Selected /\ NewIds
<1>. DEFINE a == Head(idle).tab
           w == Len(windows) + 1
           source == tab[a].window
           blank == Blank(windows[source].private)
           ws == Append(windows, blank)
<1>1. a \in Addrs /\ Tail(idle) \in Seq(Callback) /\ ~app_mode
  BY FirstCallback DEF DetachTabDeferred
<1>2. Good' /\ Selected /\ NewIds
  <2>1. CASE pending_detach = a /\ tab[a] # Free /\ Open(source)
    <3>1. TabMoved(ws, a, w, 0) /\ next_tab_id' = next_tab_id
      BY <2>1 DEF DetachTabDeferred, TabMoved
    <3>. HIDE DEF a
    <3>2. a \in Live /\ source \in DOMAIN windows /\ windows[source] \in Window
      BY <1>1, <2>1, LiveTab DEF Live, Inv
    <3>. HIDE DEF source
    <3>3. /\ blank \in Window /\ Distinct(blank.tabs) /\ blank.tabs = <<>>
          /\ blank.private = windows[source].private
      BY <3>2, WindowTabsAssumption DEF Blank, Window, Distinct
    <3>. HIDE DEF blank
    <3>4. windows \in Seq(Window) /\ Len(windows) \in Nat /\ DOMAIN windows = 1..Len(windows)
      BY LenProperties DEF Inv, Good
    <3>5. /\ ws \in Seq(Window) /\ DOMAIN ws = 1..(Len(windows) + 1) /\ ws[w] = blank
          /\ \A v \in DOMAIN windows : ws[v] = windows[v]
      BY <3>3, <3>4, AppendProperties, LenProperties
    <3>. HIDE DEF ws
    <3>6. /\ w \in DOMAIN ws /\ w \notin DOMAIN windows
          /\ DOMAIN windows \subseteq DOMAIN ws
          /\ DOMAIN ws \subseteq DOMAIN windows \cup {w}
      BY <3>4, <3>5
    <3>. HIDE DEF w
    <3>7. Range(ws[w].tabs) = {b \in Live : tab[b].window = w}
      BY <3>3, <3>5, <3>6, NoneInRange DEF Inv, Good, Homes
    <3>8. 0 \in 0..Len(ws[w].tabs)
      BY <3>3, <3>5, NoTabs DEF Window
    <3>9. w # tab[a].window /\ ws[w].private = windows[tab[a].window].private
          /\ Distinct(ws[w].tabs)
      BY <3>2, <3>3, <3>5, <3>6 DEF source
    <3>10. QED
      BY <1>1, <3>1, <3>2, <3>5, <3>6, <3>7, <3>8, <3>9, MovedBetweenKeeps DEF Inv
  <2>2. CASE ~(pending_detach = a /\ tab[a] # Free /\ Open(source))
    BY <2>2, NothingKeeps DEF DetachTabDeferred, Inv
  <2>3. QED
    BY <2>1, <2>2
<1>3. Queues'
  BY <1>1 DEF DetachTabDeferred, Inv, Queues
<1>4. QED
  BY <1>2, <1>3 DEF Inv

LEMMA UserStepKeeps ==
  ASSUME Inv, app_mode' = app_mode, UserStep
  PROVE  Inv' /\ Selected /\ NewIds
<1>1. CASE \E private \in BOOLEAN : MenuNewWindow(private)
  BY <1>1, CreateWindowStep DEF MenuNewWindow
<1>2. ASSUME NEW w \in DOMAIN windows,
             \/ ContextOpenWindow(w) \/ UserNewTab(w) \/ CloseActiveTab(w)
             \/ ReopenClosedTab(w) \/ CloseWindow(w)
             \/ \E step \in {1, -1} : TabStripScrolled(w, step)
             \/ \E destination \in 0..MaxTabs : TabDropped(w, destination)
      PROVE  Inv' /\ Selected /\ NewIds
  <2>1. CASE ContextOpenWindow(w)
    BY <2>1, CreateWindowStep DEF ContextOpenWindow
  <2>2. CASE UserNewTab(w)
    BY <2>2, NewTabStep DEF UserNewTab
  <2>3. CASE CloseActiveTab(w)
    <3>1. windows[w].view \in Live
      BY <2>3, ShownIsLive DEF CloseActiveTab, Inv
    <3>2. QED
      BY <2>3, <3>1, CloseTabStep DEF CloseActiveTab
  <2>4. CASE ReopenClosedTab(w)
    BY <2>4, ReopenStep
  <2>5. CASE CloseWindow(w)
    BY <2>5, CloseWindowStep
  <2>6. CASE \E step \in {1, -1} : TabStripScrolled(w, step)
    <3>1. PICK i \in DOMAIN windows[w].tabs : SelectTab(windows[w].tabs[i])
      BY <2>6 DEF TabStripScrolled
    <3>2. windows[w].tabs[i] \in Live
      BY ListedIsLive DEF Inv
    <3>3. QED
      BY <3>1, <3>2, SelectStep
  <2>7. CASE \E destination \in 0..MaxTabs : TabDropped(w, destination)
    BY <2>7, TabDroppedStep
  <2>8. QED
    BY <1>2, <2>1, <2>2, <2>3, <2>4, <2>5, <2>6, <2>7
<1>3. ASSUME NEW a \in Live, UserSelectTab(a) \/ QueueTabClose(a) \/ TabDragBegin(a)
      PROVE  Inv' /\ Selected /\ NewIds
  BY <1>3, SelectStep, QueueTabCloseStep, TabDragBeginStep DEF UserSelectTab
<1>4. CASE \E by_user \in BOOLEAN : TabDragCancel(by_user)
  BY <1>4, TabDragCancelStep
<1>5. CASE TabDragEnd
  BY <1>5, TabDragEndStep
<1>6. QED
  BY <1>1, <1>2, <1>3, <1>4, <1>5 DEF UserStep

(* Whatever tab an agent's request names is a tab.                         *)
LEMMA AgentTabIsLive ==
  ASSUME Inv, NEW id \in 0..MaxTabs, NEW a \in AgentTabs(id)
  PROVE  a \in Live
<1>1. CASE id # 0
  BY <1>1 DEF AgentTabs
<1>2. CASE id = 0
  <2>1. PICK w \in DOMAIN windows : Open(w) /\ a = windows[w].view
    BY <1>2 DEF AgentTabs
  <2>2. QED
    BY <2>1, ShownIsLive DEF Inv
<1>3. QED
  BY <1>1, <1>2

LEMMA AgentStepKeeps ==
  ASSUME Inv, app_mode' = app_mode, Running, AgentStep
  PROVE  Inv' /\ Selected /\ NewIds
<1>1. CASE \E private \in BOOLEAN : AgentNewWindow(private)
  BY <1>1, CreateWindowStep DEF AgentNewWindow
<1>2. ASSUME NEW id \in 0..MaxWindows, AgentNewTab(id)
      PROVE  Inv' /\ Selected /\ NewIds
  <2>1. PICK w \in AgentWindows(id) : NewTab(w)
    BY <1>2 DEF AgentNewTab
  <2>2. w \in DOMAIN windows
    <3>1. CASE id # 0
      BY <2>1, <3>1 DEF AgentWindows
    <3>2. CASE id = 0
      <4>1. w = 1 /\ ~app_mode
        BY <1>2, <2>1, <3>2 DEF AgentWindows, AgentNewTab
      <4>2. 1 \in DOMAIN windows
        <5>1. PICK v \in DOMAIN windows : Open(v)
          BY DEF Running
        <5>2. DOMAIN windows = 1..Len(windows) /\ Len(windows) \in Nat
          BY LenProperties DEF Inv, Good
        <5>3. QED
          BY <5>1, <5>2
      <4>3. QED
        BY <4>1, <4>2
    <3>3. QED
      BY <3>1, <3>2
  <2>3. QED
    BY <2>1, <2>2, NewTabStep
<1>3. ASSUME NEW id \in 0..MaxTabs, AgentSelectTab(id)
      PROVE  Inv' /\ Selected /\ NewIds
  <2>1. PICK a \in AgentTabs(id) : SelectTab(a)
    BY <1>3 DEF AgentSelectTab
  <2>2. QED
    BY <2>1, AgentTabIsLive, SelectStep
<1>4. ASSUME NEW id \in 0..MaxTabs, AgentCloseTab(id)
      PROVE  Inv' /\ Selected /\ NewIds
  <2>1. PICK a \in AgentTabs(id) : CloseTab(a)
    BY <1>4 DEF AgentCloseTab
  <2>2. QED
    BY <1>4, <2>1, AgentTabIsLive, CloseTabStep DEF AgentCloseTab
<1>5. QED
  BY <1>1, <1>2, <1>3, <1>4 DEF AgentStep

LEMMA StepKeeps ==
  ASSUME Inv, [Next]_vars
  PROVE  Inv' /\ Selected /\ NewIds
<1>1. CASE Next
  BY <1>1, UserStepKeeps, AgentStepKeeps, CloseTabDeferredStep, DetachTabDeferredStep
  DEF Next, IdleStep
<1>2. CASE UNCHANGED vars
  BY <1>2, NothingKeeps, SameQueues DEF vars, Inv
<1>3. QED
  BY <1>1, <1>2

LEMMA InitGood ==
  ASSUME Init
  PROVE  Inv
<1>1. PICK app \in BOOLEAN, private \in BOOLEAN, a \in Addrs :
        /\ app_mode = app
        /\ windows = <<WithTab(Blank(private), a)>>
        /\ tab = [b \in Addrs |-> IF b # a THEN Free
                                  ELSE [id |-> 1, window |-> 1, closing |-> FALSE,
                                        session |-> IF private THEN 1 ELSE 0]]
        /\ next_tab_id = 2
        /\ idle = <<>> /\ dragging = Nil /\ drag_outcome = "none" /\ pending_detach = Nil
  BY DEF Init
<1>. DEFINE win == WithTab(Blank(private), a)
           first == [id |-> 1, window |-> 1, closing |-> FALSE,
                     session |-> IF private THEN 1 ELSE 0]
<1>2. GoodWindow(win) /\ Range(win.tabs) = {a} /\ win.private = private
  BY FirstTabWindow
<1>3. windows = <<win>>
  BY <1>1
<1>. HIDE DEF win
<1>4. windows \in Seq(Window) /\ DOMAIN windows = {1} /\ windows[1] = win
  BY <1>2, <1>3 DEF GoodWindow
<1>5. /\ first \in Tab /\ first.id = 1 /\ first.window = 1
      /\ first.session # 0 <=> private
  BY DEF Tab
<1>6. tab = [b \in Addrs |-> IF b # a THEN Free ELSE first]
  BY <1>1
<1>. HIDE DEF first
<1>7. Free \notin Tab
  BY WindowTabsAssumption DEF Tab
<1>8. tab \in [Addrs -> Tab \cup {Free}] /\ Live = {a} /\ tab[a] = first
  BY <1>5, <1>6, <1>7 DEF Live
<1>9. Homes /\ PrivacyFollowsTabs /\ Ids
  <2>1. Homes
    BY <1>2, <1>4, <1>5, <1>8 DEF Homes
  <2>2. PrivacyFollowsTabs
    BY <1>2, <1>4, <1>5, <1>8 DEF PrivacyFollowsTabs
  <2>3. Ids
    BY <1>1, <1>5, <1>8 DEF Ids
  <2>4. QED
    BY <2>1, <2>2, <2>3
<1>10. Good
  BY <1>1, <1>2, <1>4, <1>8, <1>9 DEF Good
<1>11. Queues
  <2>1. idle \in Seq(Callback)
    BY <1>1, EmptySeq
  <2>2. QED
    BY <1>1, <2>1 DEF Queues
<1>12. QED
  BY <1>10, <1>11 DEF Inv

LEMMA Invariance == Spec => []Inv
<1>1. Init => Inv
  BY InitGood
<1>2. Inv /\ [Next]_vars => Inv'
  BY StepKeeps
<1>3. QED
  BY <1>1, <1>2, PTL DEF Spec

-----------------------------------------------------------------------------
(* The types of the shell's variables: every vector holds what it should.  *)
THEOREM TypesHold == Spec => []TypeOK
<1>1. Inv => TypeOK
  BY DEF Inv, Good, Queues, TypeOK
<1>2. QED
  BY <1>1, Invariance, PTL

(* No drag, detach or close leaves a tab in two windows or in none.        *)
THEOREM TabsHaveOneHome == Spec => []EachTabHasOneHome
<1>1. ASSUME Inv
      PROVE  EachTabHasOneHome
  <2>1. ASSUME NEW a \in Live
        PROVE  /\ tab[a].window \in DOMAIN windows
               /\ \E i \in DOMAIN windows[tab[a].window].tabs :
                    windows[tab[a].window].tabs[i] = a
    <3>1. tab[a].window \in DOMAIN windows /\ a \in Range(windows[tab[a].window].tabs)
      BY <1>1, LiveTab DEF Inv
    <3>2. QED
      BY <3>1 DEF Range
  <2>2. ASSUME NEW w \in DOMAIN windows, NEW i \in DOMAIN windows[w].tabs,
               NEW j \in DOMAIN windows[w].tabs
        PROVE  /\ windows[w].tabs[i] \in Live
               /\ tab[windows[w].tabs[i]].window = w
               /\ i # j => windows[w].tabs[i] # windows[w].tabs[j]
    <3>1. windows[w].tabs[i] \in Range(windows[w].tabs) /\ Distinct(windows[w].tabs)
      BY <1>1 DEF Range, Inv, Good, GoodWindow
    <3>2. windows[w].tabs[i] \in {a \in Live : tab[a].window = w}
      BY <1>1, <3>1 DEF Inv, Good, Homes
    <3>3. QED
      BY <3>1, <3>2 DEF Distinct
  <2>3. QED
    BY <2>1, <2>2 DEF EachTabHasOneHome
<1>2. QED
  BY <1>1, Invariance, PTL

(* An open window has a tab to show, and shows it.                         *)
THEOREM WindowsShowTheirTabs == Spec => []OpenWindowsShowATab
<1>1. Inv => OpenWindowsShowATab
  BY DEF Inv, Good, GoodWindow, Shows, Open, OpenWindowsShowATab
<1>2. QED
  BY <1>1, Invariance, PTL

(* A private tab stays among private tabs wherever it is dragged.          *)
THEOREM PrivateTabsStayApart == Spec => []PrivacyFollowsTabs
<1>1. Inv => PrivacyFollowsTabs
  BY DEF Inv, Good
<1>2. QED
  BY <1>1, Invariance, PTL

(* No tab id is given out twice.                                           *)
THEOREM HandlesStayBound == Spec => HandlesAreNotRebound
<1>1. Inv /\ [Next]_vars =>
        [/\ \A a, b \in Live : tab[a].id = tab[b].id => a = b
         /\ \A id \in TabIds' \ TabIds : id >= next_tab_id]_vars
  BY StepKeeps DEF Inv, Good, Ids, NewIds
<1>2. QED
  BY <1>1, Invariance, PTL DEF Spec, HandlesAreNotRebound

(* No step changes what a window shows unless it was asked to, or had to.  *)
THEOREM SelectionStays == Spec => SelectionIsKept
<1>. DEFINE SelectionKept ==
       \A w \in DOMAIN windows :
         LET before == windows[w]
             after == windows'[w]
         IN  /\ Open(w)
             /\ before.view \in Range(after.tabs)
             /\ Range(after.tabs) \subseteq Range(before.tabs)
             /\ after.view # before.view
             => after.tabs = before.tabs
<1>1. Inv /\ [Next]_vars => SelectionKept
  BY StepKeeps DEF Selected, Kept
<1>2. SelectionIsKept <=> [][SelectionKept]_vars
  BY DEF SelectionIsKept
<1>. HIDE DEF SelectionKept
<1>3. QED
  BY <1>1, <1>2, Invariance, PTL DEF Spec

-----------------------------------------------------------------------------
(* The layout of the tab strip.                                            *)

(* As many tabs are shown as there are, or fewer, and one at least.        *)
LEMMA VisibleRange ==
  ASSUME NEW available \in Nat, NEW count \in Nat \ {0}
  PROVE  /\ VisibleCount(available, count) \in 1..count
         /\ Overflows(available, count) =>
              \/ VisibleCount(available, count) = 1
              \/ VisibleCount(available, count) = available \div kTabMinimumWidth
         /\ Overflows(available, count) =>
              \/ VisibleCount(available, count) = count
              \/ available \div kTabMinimumWidth <= VisibleCount(available, count)
  BY DEF VisibleCount, Overflows, Least, Greatest, kTabMinimumWidth

(* tab_box_allocate keeps the active tab in view, whatever the strip's     *)
(* width and wherever the tab is.                                          *)
THEOREM ActiveStaysVisible ==
  ASSUME NEW available \in Nat, NEW count \in Nat \ {0}, NEW active \in 0..(count - 1)
  PROVE  ActiveIsVisible(available, count, active)
<1> DEFINE visible == VisibleCount(available, count)
<1>1. visible \in 1..count
  BY VisibleRange
<1>2. ~Overflows(available, count) => visible = count
  BY DEF VisibleCount
<1> HIDE DEF visible
<1>3. CASE Overflows(available, count)
  BY <1>1, <1>3 DEF ActiveIsVisible, IsVisible, FirstVisible, Clamp, visible
<1>4. CASE ~Overflows(available, count)
  BY <1>1, <1>2, <1>4 DEF ActiveIsVisible, IsVisible, FirstVisible, visible
<1> QED BY <1>3, <1>4

(* tab_box_allocate hides a tab only where another of minimum width would  *)
(* not fit, and the range it shows lies within the tabs.                   *)
THEOREM HidesOnlyOverflow ==
  ASSUME NEW available \in Nat, NEW count \in Nat \ {0}, NEW active \in 0..(count - 1)
  PROVE  NoneHiddenNeedlessly(available, count, active)
<1> DEFINE visible == VisibleCount(available, count)
<1>1. visible \in 1..count
  BY VisibleRange
<1>2. 0 <= FirstVisible(available, count, active)
      /\ FirstVisible(available, count, active) + visible <= count
  <2> HIDE DEF visible
  <2> QED BY <1>1 DEF FirstVisible, Clamp, visible, VisibleCount
<1>3. visible < count => available < (visible + 1) * kTabMinimumWidth
  BY <1>1 DEF VisibleCount, Overflows, Least, Greatest, kTabMinimumWidth
<1> QED BY <1>1, <1>2, <1>3 DEF NoneHiddenNeedlessly

(* Division rounds down.                                                   *)
LEMMA DivisionRounds ==
  ASSUME NEW a \in Nat, NEW v \in Nat \ {0}
  PROVE  (a \div v) \in Nat /\ v * (a \div v) <= a
  BY Z3

(* The tabs that tab_box_allocate shows, each as wide as it makes them, do *)
(* not reach beyond the strip, unless there is only one of them.           *)
THEOREM ShownTabsFit ==
  ASSUME NEW available \in Nat, NEW count \in Nat \ {0}
  PROVE  TabsFit(available, count)
<1> DEFINE visible == VisibleCount(available, count)
           width == TabWidth(available, visible)
<1>1. visible \in 1..count
  BY VisibleRange
<1>2. visible = 1 \/ visible * kTabMinimumWidth <= available
  BY DEF VisibleCount, Overflows, Least, Greatest, kTabMinimumWidth
<1>3. visible * (available \div visible) <= available /\ (available \div visible) \in Nat
  <2> HIDE DEF visible
  <2> QED BY <1>1, DivisionRounds
<1>4. \/ width = kTabMinimumWidth
      \/ width = available \div visible
      \/ width = kTabNaturalWidth /\ available >= visible * kTabNaturalWidth
  <2> HIDE DEF visible
  <2> QED BY <1>1, <1>3 DEF TabWidth, Greatest, kTabMinimumWidth, kTabNaturalWidth
<1>5. visible * width <= available \/ visible = 1
  <2> HIDE DEF visible, width
  <2> QED BY <1>1, <1>2, <1>3, <1>4 DEF kTabMinimumWidth, kTabNaturalWidth
<1> QED BY <1>5 DEF TabsFit
=============================================================================
