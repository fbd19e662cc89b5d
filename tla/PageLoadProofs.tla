--------------------------- MODULE PageLoadProofs ---------------------------
(***************************************************************************)
(* Proofs about what a tab loads, for any set of web pages and of pages of *)
(* the shell, and any number of requests.  The argument follows what the   *)
(* view is heading for: by what was asked for last and not yet decided,    *)
(* else by what was allowed, is under way or is there.  As long as nothing *)
(* has kept the tab from it, that is what `asked` says, and from its       *)
(* policy decision on the fields of the tab name it.                       *)
(***************************************************************************)
EXTENDS PageLoad, SequenceTheorems, TLAPS

(* What WebKit may be asked to load, and a page's own requests: the pages  *)
(* of the shell are not for them, so those are never allowed.              *)
Loadable(load) ==
  \/ load.uri \in Web /\ load.page \in {load.uri, "vantage:source", "error"}
  \/ load.uri = Blank /\ load.page \in Internal \cup {"error"}

QuestionOK(q) ==
  \/ q.uri \in Web \cup Pages \cup {Blank} /\ q \in {ByPage(q.uri), Overtaken(q.uri)}
  \/ q = ByProgram(q.uri, q.page) /\ Loadable(q)

(* Only the newest question may be for a load that is still to be.         *)
InOrder(qs) ==
  /\ qs \in Seq(Load)
  /\ \A i \in 1..Len(qs) :
       /\ QuestionOK(qs[i])
       /\ i < Len(qs) => ~qs[i].live

QuestionsOK == InOrder(questions)

(* The loads after their decision, and what has been committed.            *)
ViewOK ==
  /\ allowed # NoLoad => allowed \in Load /\ Loadable(allowed) /\ ~allowed.committed
  /\ current # NoLoad =>
       /\ current \in Load
       /\ IF current.committed THEN current.uri = doc.uri ELSE Loadable(current)
  /\ doc \in Document /\ doc.uri \in Web \cup {Blank}
  /\ doc.page \in Web => doc.page = doc.uri
  /\ entries \subseteq Web /\ source \in Web \cup {None}

(* A page of the shell is not waited for, and none but a source and an     *)
(* image has a URI to display.                                             *)
Proper(t) ==
  /\ t \in TabFields
  /\ t.internal_uri # None => t.pending_web_uri = None
  /\ t.recovering => t.pending_web_uri # None
  /\ t.display_uri # None => t.internal_uri \in {None, "vantage:source", "vantage:image"}

FieldsOK == Proper(tab)

(* While nothing was missed, a page of the shell goes with about:blank.    *)
InternalIsBlank ==
  ~missed /\ tab.internal_uri \notin {None, "vantage:source"} => ActiveUri = Blank

(* What the view will show, or does, if nothing more comes in between.     *)
Destiny ==
  IF Requested THEN Last(questions)
  ELSE IF allowed # NoLoad THEN allowed
  ELSE IF current # NoLoad /\ ~current.committed THEN current
  ELSE doc

(* A web page was asked for whose decision will set the fields.            *)
WebRequested == Requested /\ Last(questions).page \in Web

(* What was asked for is where the view is heading, by a load that was not *)
(* stopped.                                                                *)
PromiseIsDestiny ==
  /\ Destiny.uri = asked.uri /\ Destiny.page \in {asked.page, "error"}
  /\ \/ asked.uri \in Web /\ asked.page \in {asked.uri, "vantage:source"}
     \/ asked.uri = Blank /\ asked.page \in Internal
  /\ ~Requested /\ allowed # NoLoad => allowed.live
  /\ ~Requested /\ allowed = NoLoad /\ current # NoLoad /\ ~current.committed => current.live

(* The fields name what was asked for, once its policy is decided.         *)
PromiseIsNamed ==
  /\ tab.recovering => WebRequested
  /\ asked.uri \in Web /\ asked.page = "vantage:source" => tab.internal_uri = "vantage:source"
  /\ ~WebRequested /\ tab.internal_uri # "vantage:source" =>
       /\ asked.uri \in Web =>
            /\ tab.internal_uri = None /\ tab.display_uri = None
            /\ tab.pending_web_uri \in {None, asked.uri}
            /\ ~Requested /\ allowed # NoLoad /\ ~allowed.api => tab.pending_web_uri = asked.uri
       /\ asked.uri = Blank => tab.internal_uri # None /\ asked.page \in {tab.internal_uri, Blank}

PromiseOK == asked # NoPromise => PromiseIsDestiny /\ PromiseIsNamed

PageLoadInv ==
  QuestionsOK /\ ViewOK /\ FieldsOK /\ InternalIsBlank /\ PromiseOK

-----------------------------------------------------------------------------
(* The questions, one operation at a time.                                 *)

LEMMA Names ==
  /\ Blank \notin Web /\ None \notin Web /\ "vantage:source" \notin Web
  /\ "vantage:image" \notin Web /\ "error" \notin Web
  /\ \A page \in Pages : page \notin Web
  /\ Blank \notin Pages /\ None \notin Pages /\ "vantage:source" \notin Pages
  /\ "vantage:image" \notin Pages /\ "error" \notin Pages
  /\ None \notin Internal /\ "error" \notin Internal /\ "vantage:new" \in Internal
  /\ \A page \in Internal : page \notin Web
BY PageLoadAssumption DEF Special, Blank, None, Internal

(* What a page may ask for by itself.                                      *)
Linked == Web \cup Pages \cup {Blank}

LEMMA OvertakenFacts ==
  ASSUME NEW uri \in Linked
  PROVE  /\ Overtaken(uri) \in Load /\ QuestionOK(Overtaken(uri))
         /\ ~Overtaken(uri).live /\ Overtaken(uri).uri = uri /\ Overtaken(uri).page = uri
<1>1. Overtaken(uri) = [uri |-> uri, page |-> uri, api |-> FALSE, live |-> FALSE, committed |-> FALSE]
  BY DEF Overtaken, LoadToBe
<1>2. ~Overtaken(uri).live /\ Overtaken(uri).uri = uri /\ Overtaken(uri).page = uri
  BY <1>1
<1>3. Overtaken(uri) \in Load
  BY <1>1 DEF Load, Linked, Internal
<1>4. QuestionOK(Overtaken(uri))
  BY <1>2 DEF QuestionOK, Linked
<1> QED
  BY <1>2, <1>3, <1>4

LEMMA ByPageFacts ==
  ASSUME NEW uri \in Linked
  PROVE  /\ ByPage(uri) \in Load /\ QuestionOK(ByPage(uri))
         /\ ByPage(uri).live /\ ~ByPage(uri).api /\ ByPage(uri).uri = uri /\ ByPage(uri).page = uri
<1>1. ByPage(uri) = [uri |-> uri, page |-> uri, api |-> FALSE, live |-> TRUE, committed |-> FALSE]
  BY DEF ByPage, LoadToBe
<1>2. ByPage(uri).live /\ ~ByPage(uri).api /\ ByPage(uri).uri = uri /\ ByPage(uri).page = uri
  BY <1>1
<1>3. ByPage(uri) \in Load
  BY <1>1 DEF Load, Linked, Internal
<1>4. QuestionOK(ByPage(uri))
  BY <1>2 DEF QuestionOK, Linked
<1> QED
  BY <1>2, <1>3, <1>4

LEMMA ByProgramFacts ==
  ASSUME NEW uri, NEW page, Loadable([uri |-> uri, page |-> page])
  PROVE  /\ ByProgram(uri, page) \in Load /\ QuestionOK(ByProgram(uri, page))
         /\ Loadable(ByProgram(uri, page))
         /\ ByProgram(uri, page).live /\ ByProgram(uri, page).api /\ ~ByProgram(uri, page).committed
         /\ ByProgram(uri, page).uri = uri /\ ByProgram(uri, page).page = page
BY DEF ByProgram, LoadToBe, Load, Loadable, Internal, QuestionOK

LEMMA QuestionFacts ==
  ASSUME NEW q, QuestionOK(q)
  PROVE  /\ q.uri \in Linked /\ ~q.committed
         /\ ~q.live => q = Overtaken(q.uri) /\ q.page = q.uri
         /\ q.live /\ ~q.api => q = ByPage(q.uri) /\ q.page = q.uri
         /\ q.api => q = ByProgram(q.uri, q.page) /\ q.live /\ Loadable(q)
<1>1. CASE q.uri \in Linked /\ q = ByPage(q.uri)
  <2>1. q.live /\ ~q.api /\ ~q.committed /\ q.page = q.uri
    BY <1>1 DEF ByPage, LoadToBe
  <2> QED
    BY <1>1, <2>1
<1>2. CASE q.uri \in Linked /\ q = Overtaken(q.uri)
  <2>1. ~q.live /\ ~q.api /\ ~q.committed /\ q.page = q.uri
    BY <1>2 DEF Overtaken, LoadToBe
  <2> QED
    BY <1>2, <2>1
<1>3. CASE q = ByProgram(q.uri, q.page) /\ Loadable(q)
  <2>1. q.live /\ q.api /\ ~q.committed
    BY <1>3 DEF ByProgram, LoadToBe
  <2>2. q.uri \in Linked
    BY <1>3 DEF Loadable, Linked
  <2> QED
    BY <1>3, <2>1, <2>2
<1> QED
  BY <1>1, <1>2, <1>3 DEF QuestionOK, Linked

LEMMA StaleFacts ==
  ASSUME NEW qs, InOrder(qs)
  PROVE  /\ Stale(qs) \in Seq(Load)
         /\ \A i \in 1..Len(Stale(qs)) : QuestionOK(Stale(qs)[i]) /\ ~Stale(qs)[i].live
<1> DEFINE asking == IF qs # <<>> /\ Last(qs).page = "error" THEN Front(qs) ELSE qs
<1>1. asking \in Seq(Load) /\ \A i \in 1..Len(asking) : asking[i].uri \in Linked
  <2>1. \A i \in 1..Len(qs) : qs[i].uri \in Linked /\ qs[i] \in Load
    BY QuestionFacts DEF InOrder
  <2>2. CASE asking = qs
    BY <2>1, <2>2 DEF InOrder
  <2>3. CASE asking = Front(qs)
    <3>1. Len(qs) \in Nat
      BY DEF InOrder
    <3>2. /\ SubSeq(qs, 1, Len(qs) - 1) \in Seq(Load)
          /\ \A i \in 1..(Len(qs) - 1) : SubSeq(qs, 1, Len(qs) - 1)[i] = qs[i]
          /\ Len(SubSeq(qs, 1, Len(qs) - 1)) = IF 1 <= Len(qs) - 1 THEN Len(qs) - 1 ELSE 0
      BY <2>1, <3>1, SubSeqProperties, Z3
    <3> QED
      BY <2>1, <2>3, <3>1, <3>2 DEF Front
  <2> QED
    BY <2>2, <2>3
<1>2. Stale(qs) = [i \in 1..Len(asking) |-> Overtaken(asking[i].uri)]
  BY <1>1 DEF Stale
<1> HIDE DEF asking
<1>3. Len(asking) \in Nat
  BY <1>1
<1>4. \A i \in 1..Len(asking) : Overtaken(asking[i].uri) \in Load
  BY <1>1, OvertakenFacts
<1>5. Stale(qs) \in Seq(Load) /\ Len(Stale(qs)) = Len(asking)
  BY <1>2, <1>3, <1>4
<1> QED
  BY <1>1, <1>2, <1>5, OvertakenFacts

(* What inserting e in front of position q leaves.                         *)
LEMMA InsertAtProperties ==
  ASSUME NEW S, NEW s \in Seq(S), NEW q \in 1..(Len(s) + 1), NEW e \in S
  PROVE  /\ InsertAt(s, q, e) \in Seq(S)
         /\ Len(InsertAt(s, q, e)) = Len(s) + 1
         /\ \A i \in 1..(Len(s) + 1) :
              InsertAt(s, q, e)[i] = IF i < q THEN s[i]
                                     ELSE IF i = q THEN e ELSE s[i - 1]
<1> DEFINE a == SubSeq(s, 1, q - 1)
           b == SubSeq(s, q, Len(s))
           ae == a \o <<e>>
<1>1. Len(s) \in Nat
  BY LenProperties
<1>2. /\ a \in Seq(S)
      /\ Len(a) = q - 1
      /\ \A i \in 1..(q - 1) : a[i] = s[i]
  <2>1. \A i \in 1..(q - 1) : s[i] \in S
    BY <1>1, ElementOfSeq
  <2>2. QED
    BY <1>1, <2>1, SubSeqProperties
<1>3. /\ b \in Seq(S)
      /\ Len(b) = Len(s) - q + 1
      /\ \A i \in 1..(Len(s) - q + 1) : b[i] = s[q + i - 1]
  <2>1. \A i \in q..Len(s) : s[i] \in S
    BY <1>1, ElementOfSeq
  <2>2. QED
    BY <1>1, <2>1, SubSeqProperties
<1>4. /\ ae \in Seq(S)
      /\ Len(ae) = q
      /\ \A i \in 1..q : ae[i] = IF i <= q - 1 THEN s[i] ELSE e
  <2>1. /\ <<e>> \in Seq(S)
        /\ Len(<<e>>) = 1
        /\ <<e>>[1] = e
    OBVIOUS
  <2> HIDE DEF a
  <2>2. /\ a \o <<e>> \in Seq(S)
        /\ Len(a \o <<e>>) = q
        /\ \A i \in 1..q :
             (a \o <<e>>)[i] = IF i <= q - 1 THEN a[i] ELSE <<e>>[i - (q - 1)]
    BY <1>1, <1>2, <2>1, ConcatProperties
  <2>3. QED
    BY <1>1, <1>2, <2>1, <2>2
<1>5. /\ ae \o b \in Seq(S)
      /\ Len(ae \o b) = Len(s) + 1
      /\ \A i \in 1..(Len(s) + 1) :
           (ae \o b)[i] = IF i <= q THEN ae[i] ELSE b[i - q]
  <2> HIDE DEF ae, b
  <2>1. /\ ae \o b \in Seq(S)
        /\ Len(ae \o b) = Len(ae) + Len(b)
        /\ \A i \in 1..(Len(ae) + Len(b)) :
             (ae \o b)[i] = IF i <= Len(ae) THEN ae[i] ELSE b[i - Len(ae)]
    BY <1>3, <1>4, ConcatProperties
  <2>2. Len(ae) + Len(b) = Len(s) + 1
    BY <1>1, <1>3, <1>4
  <2>3. QED
    BY <1>4, <2>1, <2>2
<1>6. ASSUME NEW i \in 1..(Len(s) + 1)
      PROVE  (ae \o b)[i] = IF i < q THEN s[i] ELSE IF i = q THEN e ELSE s[i - 1]
  <2> HIDE DEF ae, b
  <2>1. CASE i <= q
    BY <1>1, <1>4, <1>5, <2>1
  <2>2. CASE ~(i <= q)
    <3>1. i - q \in 1..(Len(s) - q + 1) /\ q + (i - q) - 1 = i - 1
      BY <1>1, <2>2
    <3>2. QED
      BY <1>1, <1>3, <1>5, <2>2, <3>1
  <2>3. QED
    BY <2>1, <2>2
<1>7. InsertAt(s, q, e) = ae \o b
  BY DEF InsertAt
<1> HIDE DEF ae, b
<1>8. QED
  BY <1>5, <1>6, <1>7

LEMMA InOrderPrimed == InOrder(questions') = QuestionsOK'
  BY DEF QuestionsOK, InOrder, QuestionOK, Overtaken, ByPage, ByProgram, LoadToBe, Loadable

(* A question is asked after those that wait have become stale.            *)
LEMMA AppendKeeps ==
  ASSUME NEW qs, InOrder(qs), NEW load \in Load, QuestionOK(load), questions' = Append(Stale(qs), load)
  PROVE  QuestionsOK' /\ questions' # <<>> /\ Last(questions') = load
<1> DEFINE stale == Stale(qs)
<1>1. stale \in Seq(Load) /\ \A i \in 1..Len(stale) : QuestionOK(stale[i]) /\ ~stale[i].live
  BY StaleFacts
<1> HIDE DEF stale
<1>2. /\ Append(stale, load) \in Seq(Load) /\ Append(stale, load) # <<>>
      /\ Len(Append(stale, load)) = Len(stale) + 1 /\ Len(stale) \in Nat
      /\ \A i \in 1..Len(stale) : Append(stale, load)[i] = stale[i]
      /\ Append(stale, load)[Len(stale) + 1] = load
  BY <1>1, AppendProperties, LenProperties
<1>3. questions' = Append(stale, load)
  BY DEF stale
<1>4. Last(questions') = load
  BY <1>2, <1>3 DEF Last
<1>5. \A i \in 1..Len(questions') : QuestionOK(questions'[i]) /\ (i < Len(questions') => ~questions'[i].live)
  <2> SUFFICES ASSUME NEW i \in 1..Len(questions')
               PROVE  QuestionOK(questions'[i]) /\ (i < Len(questions') => ~questions'[i].live)
    OBVIOUS
  <2>1. CASE i \in 1..Len(stale)
    BY <1>1, <1>2, <1>3, <2>1
  <2>2. CASE i = Len(stale) + 1
    BY <1>2, <1>3, <2>2
  <2> QED
    BY <1>2, <1>3, <2>1, <2>2
<1>6. InOrder(questions')
  BY <1>2, <1>3, <1>5 DEF InOrder
<1> QED
  BY <1>2, <1>3, <1>4, <1>6, InOrderPrimed

LEMMA IssueKeeps ==
  ASSUME NEW qs, InOrder(qs), NEW uri, NEW page, Loadable([uri |-> uri, page |-> page]),
         questions' = Append(Stale(qs), ByProgram(uri, page))
  PROVE  /\ QuestionsOK' /\ questions' # <<>> /\ Requested' /\ ActiveUri' = uri
         /\ Last(questions').uri = uri /\ Last(questions').page = page
<1>1. ByProgram(uri, page) \in Load /\ QuestionOK(ByProgram(uri, page))
  BY ByProgramFacts
<1>2. QuestionsOK' /\ questions' # <<>> /\ Last(questions') = ByProgram(uri, page)
  BY <1>1, AppendKeeps
<1>3. Requested' /\ Last(questions').uri = uri /\ Last(questions').page = page
  BY <1>2, ByProgramFacts DEF Requested
<1> QED
  BY <1>2, <1>3 DEF ActiveUri

LEMMA TailInOrder ==
  ASSUME QuestionsOK, questions # <<>>
  PROVE  InOrder(Tail(questions))
<1>1. questions \in Seq(Load) /\ Len(questions) \in Nat
  BY LenProperties DEF QuestionsOK, InOrder
<1>2. /\ Tail(questions) \in Seq(Load) /\ Len(Tail(questions)) = Len(questions) - 1
      /\ \A i \in 1..(Len(questions) - 1) : Tail(questions)[i] = questions[i + 1]
  BY <1>1, HeadTailProperties
<1> QED
  BY <1>1, <1>2 DEF QuestionsOK, InOrder

(* The oldest question has its answer: it was for nothing, or it was the   *)
(* only one.                                                               *)
LEMMA TailKeeps ==
  ASSUME QuestionsOK, questions # <<>>, questions' = Tail(questions)
  PROVE  /\ QuestionsOK' /\ QuestionOK(Head(questions)) /\ Head(questions) \in Load
         /\ IF Head(questions).live THEN questions' = <<>> /\ Last(questions) = Head(questions)
            ELSE /\ Requested' = Requested
                 /\ Requested => Last(questions') = Last(questions)
<1>1. /\ questions \in Seq(Load) /\ Len(questions) \in Nat \ {0} /\ Head(questions) = questions[1]
      /\ questions' \in Seq(Load) /\ Len(questions') = Len(questions) - 1
      /\ \A i \in 1..(Len(questions) - 1) : questions'[i] = questions[i + 1]
  <2>1. questions \in Seq(Load)
    BY DEF QuestionsOK, InOrder
  <2>2. Len(questions) \in Nat \ {0} /\ Head(questions) = questions[1]
    BY <2>1, EmptySeq
  <2> QED
    BY <2>1, <2>2, HeadTailProperties
<1>2. QuestionOK(Head(questions)) /\ Head(questions) \in Load
  BY <1>1, ElementOfSeq DEF QuestionsOK, InOrder
<1>3. \A i \in 1..Len(questions') : QuestionOK(questions'[i]) /\ (i < Len(questions') => ~questions'[i].live)
  BY <1>1 DEF QuestionsOK, InOrder
<1>4. QuestionsOK'
  <2>1. InOrder(questions')
    BY <1>1, <1>3 DEF InOrder
  <2> QED
    BY <2>1, InOrderPrimed
<1>5. CASE Head(questions).live
  <2>1. Len(questions) = 1
    BY <1>1, <1>5 DEF QuestionsOK, InOrder
  <2>2. questions' = <<>>
    BY <1>1, <2>1, EmptySeq
  <2> QED
    BY <1>1, <1>2, <1>4, <1>5, <2>1, <2>2 DEF Last
<1>6. CASE ~Head(questions).live
  <2>1. CASE Len(questions) = 1
    BY <1>1, <1>2, <1>4, <1>6, <2>1, EmptySeq DEF Last, Requested
  <2>2. CASE Len(questions) > 1
    <3>1. questions' # <<>>
      BY <1>1, <2>2, EmptySeq
    <3>2. Last(questions') = Last(questions)
      BY <1>1, <2>2 DEF Last
    <3> QED
      BY <1>2, <1>4, <1>6, <3>1, <3>2 DEF Requested
  <2> QED
    BY <1>1, <2>1, <2>2
<1> QED
  BY <1>5, <1>6

(* A page's question that comes before the program's: it stays behind it.  *)
LEMMA InsertKeeps ==
  ASSUME QuestionsOK, NEW uri \in Linked, NEW i \in 1..Len(questions),
         questions' = InsertAt(questions, i, Overtaken(uri))
  PROVE  /\ QuestionsOK' /\ questions' # <<>> /\ questions # <<>>
         /\ Requested' = Requested /\ Last(questions') = Last(questions)
<1>0. \A j \in 1..Len(questions) : QuestionOK(questions[j]) /\ (j < Len(questions) => ~questions[j].live)
  BY DEF QuestionsOK, InOrder
<1>1. questions \in Seq(Load) /\ Len(questions) \in Nat /\ Len(questions) > 0 /\ Overtaken(uri) \in Load
      /\ QuestionOK(Overtaken(uri)) /\ ~Overtaken(uri).live
  <2>1. questions \in Seq(Load) /\ Len(questions) \in Nat
    BY LenProperties DEF QuestionsOK, InOrder
  <2> QED
    BY <2>1, OvertakenFacts
<1>2. /\ questions' \in Seq(Load) /\ Len(questions') = Len(questions) + 1
      /\ \A j \in 1..(Len(questions) + 1) :
           questions'[j] = IF j < i THEN questions[j] ELSE IF j = i THEN Overtaken(uri) ELSE questions[j - 1]
  <2>1. i \in 1..(Len(questions) + 1)
    BY <1>1
  <2> QED
    BY <1>1, <2>1, InsertAtProperties
<1>3. questions # <<>> /\ questions' # <<>>
  BY <1>1, <1>2, EmptySeq
<1>4. Last(questions') = Last(questions)
  BY <1>1, <1>2 DEF Last
<1>5. \A j \in 1..Len(questions') : QuestionOK(questions'[j]) /\ (j < Len(questions') => ~questions'[j].live)
  <2> SUFFICES ASSUME NEW j \in 1..Len(questions')
               PROVE  QuestionOK(questions'[j]) /\ (j < Len(questions') => ~questions'[j].live)
    OBVIOUS
  <2>1. CASE j < i
    BY <1>1, <1>2, <1>0, <2>1
  <2>2. CASE j = i
    BY <1>1, <1>2, <2>2
  <2>3. CASE j > i
    <3>1. j - 1 \in 1..Len(questions) /\ questions'[j] = questions[j - 1]
      BY <1>1, <1>2, <2>3
    <3> QED
      BY <1>0, <1>1, <1>2, <3>1
  <2> QED
    BY <1>1, <1>2, <2>1, <2>2, <2>3
<1>6. QuestionsOK'
  BY <1>2, <1>5, InOrderPrimed DEF InOrder
<1> QED
  BY <1>3, <1>4, <1>6 DEF Requested

(* Loading is stopped: nothing is asked for any more.                      *)
LEMMA HaltKeepsQuestions ==
  ASSUME QuestionsOK, questions' = Stale(questions)
  PROVE  QuestionsOK'
<1>1. Stale(questions) \in Seq(Load) /\ \A i \in 1..Len(Stale(questions)) : QuestionOK(Stale(questions)[i]) /\ ~Stale(questions)[i].live
  BY StaleFacts DEF QuestionsOK
<1>2. questions' \in Seq(Load) /\ \A i \in 1..Len(questions') : QuestionOK(questions'[i]) /\ ~questions'[i].live
  BY <1>1
<1> QED
  BY <1>2, InOrderPrimed DEF InOrder

-----------------------------------------------------------------------------
(* The shell's handlers on the fields of the tab.                          *)

LEMMA DecidedFields ==
  ASSUME NEW t, Proper(t), NEW target
  PROVE  /\ Proper(Decided(t, target))
         /\ Decided(t, target).user_stopped = t.user_stopped
         /\ IF target \in Web \cup Internal
            THEN /\ Decided(t, target).internal_uri = (IF target \in Web THEN None ELSE target)
                 /\ Decided(t, target).pending_web_uri = (IF target \in Web THEN target ELSE None)
                 /\ Decided(t, target).display_uri = None
                 /\ ~Decided(t, target).recovering
            ELSE /\ Decided(t, target).internal_uri = t.internal_uri
                 /\ Decided(t, target).pending_web_uri = t.pending_web_uri
                 /\ Decided(t, target).display_uri = t.display_uri
                 /\ Decided(t, target).recovering = t.recovering
<1> DEFINE return == target # "vantage:new" /\ (t.can_return \/ t.internal_uri = "vantage:new")
           left == [t EXCEPT !.can_return = return]
<1>1. t \in TabFields /\ return \in BOOLEAN
  BY DEF Proper, TabFields
<1> HIDE DEF return
<1>2. /\ left \in TabFields /\ left.internal_uri = t.internal_uri /\ left.display_uri = t.display_uri
      /\ left.pending_web_uri = t.pending_web_uri /\ left.recovering = t.recovering
      /\ left.user_stopped = t.user_stopped
  BY <1>1 DEF TabFields
<1>3. CASE target \notin Web \cup Internal
  <2>1. Decided(t, target) = left
    BY <1>3 DEF Decided, return
  <2> HIDE DEF left
  <2> QED
    BY <1>2, <1>3, <2>1 DEF Proper
<1>4. CASE target \in Web \cup Internal
  <2> DEFINE internal == IF target \in Web THEN None ELSE target
             pending == IF target \in Web THEN target ELSE None
             decided == [left EXCEPT !.internal_uri = internal, !.pending_web_uri = pending,
                                     !.display_uri = None, !.recovering = FALSE]
  <2>1. Decided(t, target) = decided
    BY <1>4 DEF Decided, return
  <2>2. internal \in Internal \cup {None} /\ pending \in Web \cup {None}
    BY <1>4
  <2> HIDE DEF left, internal, pending
  <2>3. /\ decided \in TabFields /\ decided.internal_uri = internal /\ decided.display_uri = None
        /\ decided.pending_web_uri = pending /\ ~decided.recovering
        /\ decided.user_stopped = left.user_stopped
    BY <1>2, <2>2 DEF TabFields
  <2> HIDE DEF decided
  <2> QED
    BY <1>2, <1>4, <2>1, <2>3 DEF Proper, internal, pending
<1> QED
  BY <1>3, <1>4

LEMMA FollowedFields ==
  ASSUME NEW t, Proper(t)
  PROVE  /\ Proper(Followed(t))
         /\ Followed(t).pending_web_uri = t.pending_web_uri
         /\ Followed(t).display_uri = t.display_uri
         /\ Followed(t).recovering = t.recovering
         /\ Followed(t).internal_uri =
              IF shown /\ ActiveUri' # ActiveUri /\ ActiveUri' # Blank /\ t.internal_uri # "vantage:source"
              THEN None ELSE t.internal_uri
<1>1. CASE shown /\ ActiveUri' # ActiveUri /\ ActiveUri' # Blank /\ t.internal_uri # "vantage:source"
  <2> DEFINE followed == [t EXCEPT !.internal_uri = None]
  <2>1. Followed(t) = followed
    BY <1>1 DEF Followed
  <2>2. /\ followed \in TabFields /\ followed.internal_uri = None /\ followed.display_uri = t.display_uri
        /\ followed.pending_web_uri = t.pending_web_uri /\ followed.recovering = t.recovering
    BY DEF TabFields, Proper
  <2> HIDE DEF followed
  <2> QED
    BY <1>1, <2>1, <2>2 DEF Proper
<1>2. CASE ~(shown /\ ActiveUri' # ActiveUri /\ ActiveUri' # Blank /\ t.internal_uri # "vantage:source")
  BY <1>2 DEF Followed
<1> QED
  BY <1>1, <1>2

LEMMA FinishedFields ==
  ASSUME NEW t, Proper(t)
  PROVE  /\ Proper(Finished(t))
         /\ Finished(t).internal_uri = t.internal_uri
         /\ Finished(t).display_uri = t.display_uri
         /\ Finished(t).pending_web_uri = (IF ActiveUri' \in Web THEN None ELSE t.pending_web_uri)
         /\ Finished(t).recovering => t.recovering
<1>1. CASE ActiveUri' \in Web
  <2> DEFINE finished == [t EXCEPT !.pending_web_uri = None, !.recovering = FALSE]
  <2>1. Finished(t) = finished
    BY <1>1 DEF Finished
  <2>2. /\ finished \in TabFields /\ finished.internal_uri = t.internal_uri
        /\ finished.display_uri = t.display_uri
        /\ finished.pending_web_uri = None /\ ~finished.recovering
    BY DEF TabFields, Proper
  <2> HIDE DEF finished
  <2> QED
    BY <1>1, <2>1, <2>2 DEF Proper
<1>2. CASE ActiveUri' \notin Web
  BY <1>2 DEF Finished
<1> QED
  BY <1>1, <1>2

LEMMA NavigatedFields ==
  ASSUME NEW t, Proper(t), NEW q, q.uri \in Web, q.page # "error"
  PROVE  /\ Proper(Navigated(t, q))
         /\ IF t.internal_uri = "vantage:source" THEN Navigated(t, q) = t
            ELSE /\ Navigated(t, q).internal_uri = None
                 /\ Navigated(t, q).display_uri = None
                 /\ Navigated(t, q).pending_web_uri = q.uri
                 /\ ~Navigated(t, q).recovering
<1>1. CASE t.internal_uri = "vantage:source"
  BY <1>1 DEF Navigated
<1>2. CASE t.internal_uri # "vantage:source"
  <2> DEFINE navigated == [t EXCEPT !.internal_uri = None, !.display_uri = None,
                                    !.pending_web_uri = q.uri, !.recovering = FALSE]
  <2>1. Navigated(t, q) = navigated
    BY <1>2 DEF Navigated
  <2>2. /\ navigated \in TabFields /\ navigated.internal_uri = None
        /\ navigated.display_uri = None
        /\ navigated.pending_web_uri = q.uri /\ ~navigated.recovering
    BY DEF TabFields, Proper
  <2> HIDE DEF navigated
  <2> QED
    BY <1>2, <2>1, <2>2, Names DEF Proper
<1> QED
  BY <1>1, <1>2

(* user_stopped and recovering alone.                                      *)
LEMMA FlagFields ==
  ASSUME NEW t, Proper(t), NEW b \in BOOLEAN
  PROVE  /\ LET s == [t EXCEPT !.user_stopped = b]
            IN  /\ Proper(s) /\ s.internal_uri = t.internal_uri /\ s.display_uri = t.display_uri
                /\ s.pending_web_uri = t.pending_web_uri /\ s.recovering = t.recovering
         /\ LET r == [t EXCEPT !.recovering = b]
            IN  (b => t.pending_web_uri # None) =>
                  /\ Proper(r) /\ r.internal_uri = t.internal_uri /\ r.display_uri = t.display_uri
                  /\ r.pending_web_uri = t.pending_web_uri /\ r.recovering = b
BY DEF Proper, TabFields

(* uri_changed lets a page of the shell keep its name only where a change  *)
(* is missed, or the view has about:blank.                                 *)
LEMMA FollowedIsBlank ==
  ASSUME InternalIsBlank, missed' = Missing, NEW t, Proper(t), tab' = Followed(t),
         t.internal_uri \in {tab.internal_uri, None, "vantage:source"} \/ ActiveUri' = Blank
  PROVE  InternalIsBlank'
<1> SUFFICES ASSUME ~missed', tab'.internal_uri \notin {None, "vantage:source"}, ActiveUri' # Blank
             PROVE  FALSE
  BY DEF InternalIsBlank
<1>1. /\ tab'.internal_uri = t.internal_uri
      /\ ~(shown /\ ActiveUri' # ActiveUri)
  BY FollowedFields
<1>2. tab'.internal_uri = tab.internal_uri
  BY <1>1
<1>3. ~missed /\ (shown \/ ActiveUri' = ActiveUri)
  BY <1>2 DEF Missing
<1> QED
  BY <1>1, <1>2, <1>3 DEF InternalIsBlank

-----------------------------------------------------------------------------
(* Requests.                                                               *)

(* Nothing changes but what the promise does not depend on.                *)
LEMMA StillKeeps ==
  ASSUME PageLoadInv, UNCHANGED views, asked' = asked, missed' = Missing,
         source' \in Web \cup {None}, Proper(tab'),
         tab'.internal_uri = tab.internal_uri, tab'.display_uri = tab.display_uri,
         tab'.pending_web_uri = tab.pending_web_uri, tab'.recovering = tab.recovering
  PROVE  PageLoadInv'
<1>1. Requested' = Requested /\ ActiveUri' = ActiveUri /\ Destiny' = Destiny /\ WebRequested' = WebRequested
  BY DEF views, Requested, ActiveUri, Destiny, WebRequested
<1>2. QuestionsOK' /\ ViewOK' /\ FieldsOK'
  BY DEF PageLoadInv, views, QuestionsOK, InOrder, QuestionOK, ViewOK, FieldsOK, Loadable
<1>3. InternalIsBlank'
  BY <1>1 DEF PageLoadInv, InternalIsBlank, Missing
<1>4. PromiseOK'
  BY <1>1 DEF PageLoadInv, PromiseOK, PromiseIsDestiny, PromiseIsNamed, views
<1> QED
  BY <1>2, <1>3, <1>4 DEF PageLoadInv

(* What the program asks for, it is heading for.                           *)
LEMMA AskedIsDestiny ==
  ASSUME NEW qs, InOrder(qs), NEW uri, NEW page, Loadable([uri |-> uri, page |-> page]), page # "error",
         questions' = Append(Stale(qs), ByProgram(uri, page)), asked' = [uri |-> uri, page |-> page]
  PROVE  PromiseIsDestiny' /\ asked'.uri = uri /\ asked'.page = page
<1>1. Requested' /\ Last(questions').uri = uri /\ Last(questions').page = page
  BY IssueKeeps
<1>2. Destiny' = Last(questions')
  BY <1>1 DEF Destiny
<1> QED
  BY <1>1, <1>2 DEF PromiseIsDestiny, Loadable

LEMMA LoadDecisionKeeps ==
  ASSUME PageLoadInv, missed' = Missing, NEW target \in Web \cup Internal,
         NEW qs, InOrder(qs), questions' = Append(Stale(qs), LoadOf(target)),
         UNCHANGED <<doc, current, allowed, entries, source>>,
         tab' = Followed(Decided(tab, target)), Asked(LoadOf(target))
  PROVE  PageLoadInv'
<1> DEFINE uri == IF target \in Web THEN target ELSE Blank
<1>1. LoadOf(target) = ByProgram(uri, target)
  BY DEF LoadOf
<1>2. Loadable([uri |-> uri, page |-> target]) /\ target # "error" /\ uri \in Web \cup {Blank}
  BY Names DEF Loadable
<1> HIDE DEF uri
<1>3. LoadOf(target).uri = uri /\ LoadOf(target).page = target
  BY <1>1, <1>2, ByProgramFacts
<1>4. asked' = [uri |-> uri, page |-> target]
  BY <1>3 DEF Asked
<1>5. /\ QuestionsOK' /\ Requested' /\ ActiveUri' = uri
      /\ Last(questions').uri = uri /\ Last(questions').page = target
  BY <1>1, <1>2, IssueKeeps DEF PageLoadInv, QuestionsOK, Issue
<1>6. PromiseIsDestiny' /\ asked'.uri = uri /\ asked'.page = target
  BY <1>1, <1>2, <1>4, AskedIsDestiny DEF PageLoadInv, QuestionsOK, Issue
<1>7. /\ Proper(Decided(tab, target))
      /\ Decided(tab, target).internal_uri = (IF target \in Web THEN None ELSE target)
      /\ ~Decided(tab, target).recovering
  BY DecidedFields DEF PageLoadInv, FieldsOK
<1>8. FieldsOK' /\ tab'.recovering = FALSE
      /\ (target \notin Web => tab'.internal_uri = target)
  BY <1>5, <1>7, FollowedFields DEF FieldsOK, uri, TabFields, Proper
<1>9. ViewOK'
  BY DEF PageLoadInv, ViewOK, Loadable
<1>10. InternalIsBlank'
  BY <1>5, <1>7, FollowedIsBlank DEF uri, PageLoadInv
<1>11. PromiseIsNamed'
  BY <1>5, <1>6, <1>8, Names DEF PromiseIsNamed, WebRequested, uri
<1> QED
  BY <1>5, <1>6, <1>8, <1>9, <1>10, <1>11 DEF PageLoadInv, PromiseOK

LEMMA RejectedKeeps ==
  ASSUME PageLoadInv, missed' = Missing, NEW target, target \notin Web \cup Internal,
         tab' = Decided(tab, target), UNCHANGED <<views, source, asked>>
  PROVE  PageLoadInv'
<1>1. FieldsOK /\ Proper(tab)
  BY DEF PageLoadInv, FieldsOK
<1> QED
  BY <1>1, DecidedFields, StillKeeps DEF PageLoadInv, ViewOK

LEMMA RevisitKeeps ==
  ASSUME PageLoadInv, missed' = Missing, NEW uri \in Web, Revisit(uri)
  PROVE  PageLoadInv'
<1>1. Loadable([uri |-> uri, page |-> uri]) /\ uri # "error"
  BY Names DEF Loadable
<1>2. /\ Issue(ByProgram(uri, uri)) /\ UNCHANGED <<doc, current, allowed, entries, source>>
      /\ tab' = Followed(tab) /\ Asked(ByProgram(uri, uri))
  BY DEF Revisit, Request
<1>3. asked' = [uri |-> uri, page |-> uri]
  BY <1>1, <1>2, ByProgramFacts DEF Asked
<1>4. /\ QuestionsOK' /\ Requested' /\ ActiveUri' = uri
      /\ Last(questions').uri = uri /\ Last(questions').page = uri
  BY <1>1, <1>2, IssueKeeps DEF PageLoadInv, QuestionsOK, Issue
<1>5. PromiseIsDestiny' /\ asked'.uri = uri /\ asked'.page = uri
  BY <1>1, <1>2, <1>3, AskedIsDestiny DEF PageLoadInv, QuestionsOK, Issue
<1>6. FieldsOK' /\ InternalIsBlank'
  BY <1>2, FollowedFields, FollowedIsBlank DEF FieldsOK, PageLoadInv
<1>7. ViewOK'
  BY <1>2 DEF PageLoadInv, ViewOK, Loadable
<1>8. PromiseIsNamed'
  BY <1>4, <1>5, Names DEF PromiseIsNamed, WebRequested
<1> QED
  BY <1>4, <1>5, <1>6, <1>7, <1>8 DEF PageLoadInv, PromiseOK

(* A reload at rest asks for what is there.                                *)
LEMMA ReloadKeeps ==
  ASSUME PageLoadInv, missed' = Missing, Reload
  PROVE  PageLoadInv'
<1>1. Loadable([uri |-> doc.uri, page |-> doc.uri])
  BY DEF Loadable, PageLoadInv, ViewOK, Internal
<1>2. /\ Issue(ByProgram(doc.uri, doc.uri)) /\ UNCHANGED <<doc, current, allowed, entries, source>>
      /\ tab' = Followed(tab) /\ Excused(~AtRest \/ doc.page # doc.uri)
  BY DEF Reload, Request
<1>3. /\ QuestionsOK' /\ Requested' /\ ActiveUri' = doc.uri
      /\ Last(questions').uri = doc.uri /\ Last(questions').page = doc.uri
  BY <1>1, <1>2, IssueKeeps DEF PageLoadInv, QuestionsOK, Issue
<1>4. FieldsOK' /\ InternalIsBlank'
  BY <1>2, FollowedFields, FollowedIsBlank DEF FieldsOK, PageLoadInv
<1>5. ViewOK'
  BY <1>2 DEF PageLoadInv, ViewOK, Loadable
<1>6. PromiseOK'
  <2> SUFFICES ASSUME asked' # NoPromise PROVE PromiseIsDestiny' /\ PromiseIsNamed'
    BY DEF PromiseOK
  <2>1. AtRest /\ doc.page = doc.uri /\ asked' = asked /\ PromiseIsDestiny /\ PromiseIsNamed
    BY <1>2 DEF Excused, PageLoadInv, PromiseOK
  <2>2. ~Requested /\ Destiny = doc /\ ActiveUri = doc.uri /\ ~WebRequested
    BY <2>1 DEF AtRest, Requested, Destiny, ActiveUri, NoLoad, WebRequested
  <2>3. Destiny' = Last(questions')
    BY <1>3 DEF Destiny
  <2>4. PromiseIsDestiny'
    BY <1>3, <2>1, <2>2, <2>3 DEF PromiseIsDestiny
  <2>5. tab' = tab
    BY <1>2, <1>3, <2>2 DEF Followed
  <2>6. PromiseIsNamed'
    BY <1>3, <2>1, <2>2, <2>5 DEF PromiseIsNamed
  <2> QED
    BY <2>4, <2>6
<1> QED
  BY <1>3, <1>4, <1>5, <1>6 DEF PageLoadInv

LEMMA StoppedLoad ==
  ASSUME NEW load \in Load
  PROVE  LET stopped == [load EXCEPT !.live = FALSE]
         IN  /\ stopped \in Load /\ stopped.uri = load.uri /\ stopped.page = load.page
             /\ stopped.committed = load.committed
BY DEF Load

LEMMA StoppedNoLoad == [NoLoad EXCEPT !.live = FALSE] = NoLoad
<1> DEFINE S == [uri : {None}, page : {None}, api : BOOLEAN, live : {FALSE}, committed : BOOLEAN]
<1>1. NoLoad \in S
  BY DEF NoLoad
<1>2. ASSUME NEW load \in S PROVE [load EXCEPT !.live = FALSE] = load
  OBVIOUS
<1> QED
  BY <1>1, <1>2

LEMMA HaltKeeps ==
  ASSUME PageLoadInv, missed' = Missing, NEW t, Proper(t), t.internal_uri = tab.internal_uri, Halt(t)
  PROVE  PageLoadInv'
<1>1. QuestionsOK'
  BY HaltKeepsQuestions DEF Halt, PageLoadInv
<1>2. ViewOK'
  <2>1. /\ UNCHANGED <<doc, entries, source>>
        /\ allowed = NoLoad => allowed' = NoLoad
        /\ allowed \in Load => /\ allowed' \in Load /\ allowed'.uri = allowed.uri /\ allowed'.page = allowed.page
                               /\ allowed'.committed = allowed.committed
        /\ current = NoLoad => current' = NoLoad
        /\ current \in Load => /\ current' \in Load /\ current'.uri = current.uri /\ current'.page = current.page
                               /\ current'.committed = current.committed
    BY StoppedLoad, StoppedNoLoad DEF Halt
  <2> QED
    BY <2>1 DEF ViewOK, PageLoadInv, Loadable
<1>3. FieldsOK' /\ InternalIsBlank'
  BY FollowedFields, FollowedIsBlank DEF FieldsOK, PageLoadInv, Halt
<1>4. PromiseOK'
  BY DEF Halt, Excused, PromiseOK
<1> QED
  BY <1>1, <1>2, <1>3, <1>4 DEF PageLoadInv

(* The page goes on by itself: it takes over, or comes before the program. *)
LEMMA PageNavigatesKeeps ==
  ASSUME PageLoadInv, missed' = Missing, NEW target \in Linked, NEW i \in 1..(Len(questions) + 1),
         PageNavigates(target, i)
  PROVE  PageLoadInv'
<1>1. /\ UNCHANGED <<doc, current, allowed, entries, source>> /\ tab' = Followed(tab)
      /\ Excused(i = Len(questions) + 1 /\ Requested)
  BY DEF PageNavigates
<1>2. ViewOK'
  BY <1>1 DEF PageLoadInv, ViewOK, Loadable
<1>3. FieldsOK' /\ InternalIsBlank'
  BY <1>1, FollowedFields, FollowedIsBlank DEF FieldsOK, PageLoadInv
<1>4. QuestionsOK' /\ (asked' # NoPromise => Requested' = Requested /\ (Requested => Last(questions') = Last(questions)))
  <2>1. CASE i = Len(questions) + 1
    <3>1. questions' = Append(Stale(questions), ByPage(target)) /\ ByPage(target) \in Load
          /\ QuestionOK(ByPage(target)) /\ ~ByPage(target).api
      BY <2>1, ByPageFacts DEF PageNavigates
    <3>2. QuestionsOK' /\ ~Requested'
      BY <3>1, AppendKeeps DEF PageLoadInv, QuestionsOK, Requested
    <3> QED
      BY <1>1, <2>1, <3>2 DEF Excused, Requested
  <2>2. CASE i # Len(questions) + 1
    <3>1. Len(questions) \in Nat
      BY LenProperties DEF PageLoadInv, QuestionsOK, InOrder
    <3>2. i \in 1..Len(questions) /\ questions' = InsertAt(questions, i, Overtaken(target))
      BY <2>2, <3>1 DEF PageNavigates
    <3> QED
      BY <3>2, InsertKeeps DEF PageLoadInv
  <2> QED
    BY <2>1, <2>2
<1>5. PromiseOK'
  <2> SUFFICES ASSUME asked' # NoPromise PROVE PromiseIsDestiny' /\ PromiseIsNamed'
    BY DEF PromiseOK
  <2>1. asked' = asked /\ PromiseIsDestiny /\ PromiseIsNamed
    BY <1>1 DEF Excused, PageLoadInv, PromiseOK
  <2>2. /\ Requested' = Requested /\ WebRequested' = WebRequested /\ Destiny' = Destiny /\ ActiveUri' = ActiveUri
    BY <1>1, <1>4 DEF WebRequested, Destiny, ActiveUri
  <2>3. tab' = tab
    BY <1>1, <2>2 DEF Followed
  <2> QED
    BY <1>1, <2>1, <2>2, <2>3 DEF PromiseIsDestiny, PromiseIsNamed
<1> QED
  BY <1>2, <1>3, <1>4, <1>5 DEF PageLoadInv

(* The source arrives, as what the tab is to show or to spoil that.        *)
LEMMA SourceLoadedKeeps ==
  ASSUME PageLoadInv, missed' = Missing, NEW found \in BOOLEAN, SourceLoaded(found)
  PROVE  PageLoadInv'
<1>1. CASE found
  <2>1. /\ source \in Web /\ source' = None /\ Issue(ByProgram(source, "vantage:source"))
        /\ UNCHANGED <<doc, current, allowed, entries>> /\ tab' = Followed(tab)
        /\ Excused(asked # [uri |-> source, page |-> "vantage:source"])
    BY <1>1 DEF SourceLoaded, PageLoadInv, ViewOK
  <2>2. Loadable([uri |-> source, page |-> "vantage:source"])
    BY <2>1 DEF Loadable
  <2>3. QuestionsOK' /\ Requested' /\ Last(questions').uri = source /\ Last(questions').page = "vantage:source"
        /\ ActiveUri' = source
    BY <2>1, <2>2, IssueKeeps DEF PageLoadInv, QuestionsOK, Issue
  <2>4. ViewOK'
    BY <2>1 DEF PageLoadInv, ViewOK, Loadable
  <2>5. FieldsOK' /\ InternalIsBlank'
    BY <2>1, FollowedFields, FollowedIsBlank DEF FieldsOK, PageLoadInv
  <2>6. PromiseOK'
    <3> SUFFICES ASSUME asked' # NoPromise PROVE PromiseIsDestiny' /\ PromiseIsNamed'
      BY DEF PromiseOK
    <3>1. asked = [uri |-> source, page |-> "vantage:source"] /\ asked' = asked /\ PromiseIsNamed
      BY <2>1 DEF Excused, PageLoadInv, PromiseOK
    <3>2. PromiseIsDestiny' /\ asked'.uri = source /\ asked'.page = "vantage:source"
      BY <2>1, <2>2, <3>1, AskedIsDestiny DEF PageLoadInv, QuestionsOK, Issue
    <3>3. tab.internal_uri = "vantage:source"
      BY <2>1, <3>1 DEF PromiseIsNamed
    <3>4. tab' = tab
      BY <2>1, <3>3 DEF Followed
    <3>5. tab.recovering = FALSE
      BY <3>3 DEF PageLoadInv, FieldsOK, Proper, TabFields, None
    <3> QED
      BY <3>2, <3>3, <3>4, <3>5 DEF PromiseIsNamed
  <2> QED
    BY <2>3, <2>4, <2>5, <2>6 DEF PageLoadInv
<1>2. CASE ~found
  <2>1. UNCHANGED views /\ asked' = asked /\ source' = None /\ tab' = Followed(tab)
    BY <1>2 DEF SourceLoaded, views, Excused
  <2>2. ActiveUri' = ActiveUri
    BY <2>1 DEF views, ActiveUri, Requested
  <2>3. tab' = tab
    BY <2>1, <2>2 DEF Followed
  <2> QED
    BY <2>1, <2>3, StillKeeps DEF PageLoadInv, FieldsOK
<1> QED
  BY <1>1, <1>2

-----------------------------------------------------------------------------
(* WebKit's callbacks.                                                     *)

LEMMA StartedKeeps ==
  ASSUME PageLoadInv, missed' = Missing, LoadStarted
  PROVE  PageLoadInv'
<1> DEFINE t == [tab EXCEPT !.user_stopped = FALSE]
<1>1. /\ Proper(t) /\ t.internal_uri = tab.internal_uri /\ t.display_uri = tab.display_uri
      /\ t.pending_web_uri = tab.pending_web_uri /\ t.recovering = tab.recovering
  BY FlagFields DEF PageLoadInv, FieldsOK
<1> HIDE DEF t
<1>2. /\ allowed # NoLoad /\ current = NoLoad /\ allowed' = NoLoad
      /\ UNCHANGED <<doc, questions, entries, source, asked>> /\ tab' = Followed(t)
  BY DEF LoadStarted, t
<1>3. /\ allowed \in Load /\ Loadable(allowed) /\ ~allowed.committed
      /\ current' \in Load /\ current'.uri = allowed.uri /\ current'.page = allowed.page
      /\ ~current'.committed /\ current'.live = allowed.live /\ ~current'.api /\ current' # NoLoad
  <2>1. allowed \in Load /\ Loadable(allowed) /\ ~allowed.committed /\ allowed.uri # None
    BY <1>2, Names DEF PageLoadInv, ViewOK, Loadable, Blank, None
  <2>2. current' = [allowed EXCEPT !.api = FALSE]
    BY DEF LoadStarted
  <2>3. /\ current' \in Load /\ current'.uri = allowed.uri /\ current'.page = allowed.page
        /\ current'.committed = allowed.committed /\ current'.live = allowed.live /\ ~current'.api
    BY <2>1, <2>2 DEF Load
  <2> QED
    BY <2>1, <2>3 DEF NoLoad
<1>4. QuestionsOK' /\ ViewOK'
  BY <1>2, <1>3 DEF PageLoadInv, QuestionsOK, InOrder, QuestionOK, ViewOK, Loadable
<1>5. FieldsOK' /\ InternalIsBlank'
  BY <1>1, <1>2, FollowedFields, FollowedIsBlank DEF FieldsOK, PageLoadInv
<1>6. PromiseOK'
  <2> SUFFICES ASSUME asked' # NoPromise PROVE PromiseIsDestiny' /\ PromiseIsNamed'
    BY DEF PromiseOK
  <2>1. asked' = asked /\ PromiseIsDestiny /\ PromiseIsNamed
    BY <1>2 DEF PageLoadInv, PromiseOK
  <2>2. Requested' = Requested /\ WebRequested' = WebRequested
        /\ Destiny'.uri = Destiny.uri /\ Destiny'.page = Destiny.page
    BY <1>2, <1>3 DEF Requested, WebRequested, Destiny
  <2>3. PromiseIsDestiny'
    BY <1>2, <1>3, <2>1, <2>2 DEF PromiseIsDestiny
  <2>4. ~Requested => Destiny.uri = ActiveUri'
    BY <1>2, <1>3, <2>2 DEF Destiny, ActiveUri, NoLoad
  <2>5. Requested => ActiveUri' = ActiveUri
    BY <1>2, <2>2 DEF ActiveUri
  <2>6. PromiseIsNamed'
    <3>1. /\ tab'.display_uri = tab.display_uri /\ tab'.pending_web_uri = tab.pending_web_uri
          /\ tab'.recovering = tab.recovering
          /\ tab'.internal_uri \in {tab.internal_uri, None}
          /\ tab'.internal_uri # tab.internal_uri =>
               ActiveUri' # ActiveUri /\ ActiveUri' # Blank /\ tab.internal_uri # "vantage:source"
      BY <1>1, <1>2, FollowedFields
    <3>2. asked.uri = Blank => tab'.internal_uri = tab.internal_uri
      BY <2>1, <2>4, <2>5, <3>1 DEF PromiseIsDestiny
    <3>3. tab.internal_uri \in {None, "vantage:source"} => tab'.internal_uri = tab.internal_uri
      BY <3>1
    <3>4. ~(~Requested' /\ allowed' # NoLoad /\ ~allowed'.api)
      BY <1>2
    <3> QED
      BY <2>1, <2>2, <3>1, <3>2, <3>3, <3>4 DEF PromiseIsNamed
  <2> QED
    BY <2>3, <2>6
<1> QED
  BY <1>4, <1>5, <1>6 DEF PageLoadInv

(* Where nothing more is asked for, and a committed load is about to end.  *)
LEMMA FinishedKeeps ==
  ASSUME PageLoadInv, missed' = Missing, LoadFinished
  PROVE  PageLoadInv'
<1>1. /\ current # NoLoad /\ current.committed /\ current' = NoLoad
      /\ UNCHANGED <<doc, allowed, questions, entries, source>> /\ tab' = Followed(Finished(tab))
      /\ Excused(ClearsNewer)
  BY DEF LoadFinished
<1>2. /\ Proper(Finished(tab)) /\ Finished(tab).internal_uri = tab.internal_uri
      /\ Finished(tab).display_uri = tab.display_uri
      /\ Finished(tab).pending_web_uri \in {None, tab.pending_web_uri}
      /\ Finished(tab).recovering => tab.recovering
  BY FinishedFields DEF PageLoadInv, FieldsOK
<1>3. Requested' = Requested /\ WebRequested' = WebRequested /\ ActiveUri' = ActiveUri /\ Destiny' = Destiny
  BY <1>1 DEF Requested, WebRequested, ActiveUri, Destiny
<1>4. tab' = Finished(tab)
  BY <1>1, <1>3 DEF Followed
<1>5. QuestionsOK' /\ ViewOK' /\ FieldsOK' /\ InternalIsBlank'
  <2>1. QuestionsOK' /\ ViewOK'
    BY <1>1 DEF PageLoadInv, QuestionsOK, InOrder, QuestionOK, ViewOK, Loadable
  <2>2. InternalIsBlank'
    BY <1>1, <1>2, FollowedIsBlank DEF PageLoadInv
  <2> QED
    BY <1>2, <1>4, <2>1, <2>2 DEF FieldsOK
<1>6. PromiseOK'
  <2> SUFFICES ASSUME asked' # NoPromise PROVE PromiseIsDestiny' /\ PromiseIsNamed'
    BY DEF PromiseOK
  <2>1. asked' = asked /\ PromiseIsDestiny /\ PromiseIsNamed /\ ~ClearsNewer
    BY <1>1 DEF PageLoadInv, PromiseOK, Excused
  <2>2. PromiseIsDestiny'
    BY <1>1, <1>3, <2>1 DEF PromiseIsDestiny
  <2>3. PromiseIsNamed'
    BY <1>1, <1>2, <1>3, <1>4, <2>1 DEF PromiseIsNamed, ClearsNewer
  <2> QED
    BY <2>2, <2>3
<1> QED
  BY <1>5, <1>6 DEF PageLoadInv

LEMMA TerminatedKeeps ==
  ASSUME PageLoadInv, missed' = Missing, WebProcessTerminated
  PROVE  PageLoadInv'
<1>1. /\ doc' = [doc EXCEPT !.page = Blank] /\ current' = NoLoad /\ allowed' = NoLoad /\ questions' = <<>>
      /\ UNCHANGED <<entries, source>> /\ tab' = Followed(tab) /\ asked' = NoPromise
  BY DEF WebProcessTerminated, Excused
<1>2. QuestionsOK'
  BY <1>1, EmptySeq DEF QuestionsOK, InOrder
<1>3. ViewOK'
  <2>1. doc' \in Document /\ doc'.uri = doc.uri /\ doc'.page = Blank
    BY <1>1 DEF PageLoadInv, ViewOK, Document, Internal
  <2> QED
    BY <1>1, <2>1, Names DEF PageLoadInv, ViewOK
<1>4. FieldsOK' /\ InternalIsBlank'
  BY <1>1, FollowedFields, FollowedIsBlank DEF FieldsOK, PageLoadInv
<1> QED
  BY <1>1, <1>2, <1>3, <1>4 DEF PageLoadInv, PromiseOK

(* A load ends without success, and an error page takes its place.         *)
LEMMA FailsKeeps ==
  ASSUME PageLoadInv, missed' = Missing, NEW cancelled \in BOOLEAN, LoadFails(cancelled)
  PROVE  PageLoadInv'
<1>1. /\ current # NoLoad /\ current' = NoLoad
      /\ cancelled => ~current.live \/ allowed # NoLoad \/ MayBeInterrupted
      /\ UNCHANGED <<doc, allowed, entries, source>> /\ tab' = Followed(Finished(tab))
      /\ IF FallsBack(cancelled) THEN asked' = FallenBack
         ELSE Excused(ClearsNewer \/ (ShowsError(cancelled) /\ (Requested \/ allowed # NoLoad)))
  BY DEF LoadFails
<1>2. /\ Proper(Finished(tab)) /\ Finished(tab).internal_uri = tab.internal_uri
      /\ Finished(tab).display_uri = tab.display_uri
      /\ Finished(tab).pending_web_uri \in {None, tab.pending_web_uri}
      /\ Finished(tab).recovering => tab.recovering
  BY FinishedFields DEF PageLoadInv, FieldsOK
<1>3. current.uri \in Web \cup {Blank} /\ Loadable([uri |-> current.uri, page |-> "error"])
  BY <1>1 DEF PageLoadInv, ViewOK, Loadable
<1>4. FieldsOK' /\ InternalIsBlank'
  BY <1>1, <1>2, FollowedFields, FollowedIsBlank DEF FieldsOK, PageLoadInv
<1>5. ViewOK'
  BY <1>1 DEF PageLoadInv, ViewOK, Loadable
<1>6. CASE ShowsError(cancelled)
  <2>1. Issue(ByProgram(current.uri, "error"))
    BY <1>6 DEF LoadFails
  <2>2. /\ QuestionsOK' /\ Requested' /\ ActiveUri' = current.uri
        /\ Last(questions').uri = current.uri /\ Last(questions').page = "error"
    BY <1>3, <2>1, IssueKeeps DEF PageLoadInv, QuestionsOK, Issue
  <2>3. PromiseOK'
    <3> SUFFICES ASSUME asked' # NoPromise PROVE PromiseIsDestiny' /\ PromiseIsNamed'
      BY DEF PromiseOK
    <3>1. asked' = asked /\ PromiseIsDestiny /\ PromiseIsNamed /\ ~Requested /\ allowed = NoLoad
      BY <1>1, <1>6 DEF PageLoadInv, PromiseOK, Excused, FallsBack
    <3>2. Destiny.uri = current.uri /\ ActiveUri = current.uri
      BY <1>1, <3>1 DEF Destiny, ActiveUri, PageLoadInv, ViewOK, NoLoad
    <3>3. Destiny'.uri = current.uri /\ Destiny'.page = "error" /\ ~WebRequested' /\ ~WebRequested
      BY <2>2, <3>1, Names DEF Destiny, WebRequested
    <3>4. PromiseIsDestiny'
      BY <2>2, <3>1, <3>2, <3>3 DEF PromiseIsDestiny
    <3>5. tab' = Finished(tab)
      BY <1>1, <2>2, <3>2 DEF Followed
    <3> QED
      BY <1>2, <2>2, <3>1, <3>3, <3>4, <3>5 DEF PromiseIsNamed
  <2> QED
    BY <1>4, <1>5, <2>2, <2>3 DEF PageLoadInv
<1>7. CASE ~ShowsError(cancelled)
  <2>1. UNCHANGED questions /\ cancelled
    BY <1>7 DEF LoadFails, ShowsError
  <2>2. QuestionsOK' /\ Requested' = Requested /\ WebRequested' = WebRequested
    BY <2>1 DEF PageLoadInv, QuestionsOK, InOrder, QuestionOK, Requested, WebRequested
  <2>3. ASSUME ~FallsBack(cancelled) PROVE PromiseOK'
    <3> SUFFICES ASSUME asked' # NoPromise PROVE PromiseIsDestiny' /\ PromiseIsNamed'
      BY DEF PromiseOK
    <3>1. asked' = asked /\ PromiseIsDestiny /\ PromiseIsNamed /\ ~ClearsNewer
      BY <1>1, <2>3 DEF PageLoadInv, PromiseOK, Excused
    <3>2. ~Requested /\ allowed = NoLoad => current.committed
      BY <1>1, <1>7, <2>1, <2>3, <3>1 DEF FallsBack, PromiseIsDestiny
    <3>3. Destiny' = Destiny /\ ActiveUri' = ActiveUri
      BY <1>1, <2>1, <2>2, <3>1, <3>2 DEF Destiny, ActiveUri, PromiseIsDestiny, ClearsNewer
    <3>4. tab' = Finished(tab)
      BY <1>1, <3>3 DEF Followed
    <3>5. PromiseIsDestiny'
      BY <1>1, <2>2, <3>1, <3>3 DEF PromiseIsDestiny
    <3> QED
      BY <1>1, <1>2, <2>2, <3>1, <3>4, <3>5 DEF PromiseIsNamed, ClearsNewer
  <2>4. ASSUME FallsBack(cancelled) PROVE PromiseOK'
    <3> SUFFICES ASSUME asked' # NoPromise PROVE PromiseIsDestiny' /\ PromiseIsNamed'
      BY DEF PromiseOK
    <3>1. /\ asked # NoPromise /\ doc.page \in Web /\ asked'.uri = doc.uri /\ asked'.page = doc.page
          /\ PromiseIsDestiny /\ PromiseIsNamed
      BY <1>1, <2>4 DEF FallenBack, PageLoadInv, PromiseOK
    <3>2. /\ ~Requested /\ allowed = NoLoad /\ ~current.committed
          /\ current.page \in Web /\ current.uri = current.page
      BY <1>1, <2>4, Names DEF FallsBack, MayBeInterrupted, PageLoadInv, ViewOK, Loadable
    <3>3. asked.uri \in Web /\ ~WebRequested /\ ~tab.recovering
      BY <1>1, <3>1, <3>2 DEF PromiseIsDestiny, PromiseIsNamed, Destiny, WebRequested
    <3>4. doc.page = doc.uri /\ doc.uri # Blank /\ doc.page # "vantage:source"
      BY <3>1, Names DEF PageLoadInv, ViewOK
    <3>5. ~Requested' /\ ~WebRequested' /\ Destiny' = doc /\ ActiveUri' = doc.uri
      BY <1>1, <2>2, <3>2, <3>3 DEF Destiny, ActiveUri, NoLoad
    <3>6. Finished(tab).pending_web_uri = None
      BY <3>1, <3>4, <3>5, FinishedFields DEF PageLoadInv, FieldsOK
    <3>7. /\ ~tab'.recovering /\ tab'.display_uri = tab.display_uri /\ tab'.pending_web_uri = None
          /\ tab'.internal_uri \in {tab.internal_uri, None}
          /\ tab.internal_uri = "vantage:source" => tab'.internal_uri = "vantage:source"
      BY <1>1, <1>2, <3>3, <3>6, FollowedFields
    <3>8. PromiseIsDestiny'
      BY <1>1, <3>1, <3>2, <3>4, <3>5 DEF PromiseIsDestiny
    <3> QED
      BY <1>1, <3>1, <3>2, <3>3, <3>4, <3>5, <3>7, <3>8 DEF PromiseIsNamed
  <2> QED
    BY <1>4, <1>5, <2>2, <2>3, <2>4 DEF PageLoadInv
<1> QED
  BY <1>6, <1>7

(* What is committed is what was started; or WebKit has put about:blank in *)
(* its place, and the shell asks for the page once more.                   *)
LEMMA CommittedKeeps ==
  ASSUME PageLoadInv, missed' = Missing, NEW blank \in BOOLEAN, LoadCommitted(blank)
  PROVE  PageLoadInv'
<1> DEFINE uri == IF blank THEN Blank ELSE current.uri
           page == IF blank THEN Blank ELSE current.page
           recovers == Recovers(uri)
           t == [tab EXCEPT !.recovering = @ \/ recovers]
<1>1. /\ current # NoLoad /\ ~current.committed
      /\ doc' = [uri |-> uri, page |-> page]
      /\ current' = [current EXCEPT !.committed = TRUE, !.uri = uri]
      /\ entries' = IF uri \in Web /\ page # "vantage:source" THEN entries \cup {uri} ELSE entries
      /\ IF recovers THEN Issue(ByProgram(tab.pending_web_uri, tab.pending_web_uri))
         ELSE UNCHANGED questions
      /\ UNCHANGED <<allowed, source>>
      /\ Excused(blank /\ tab.pending_web_uri = None)
      /\ tab' = Followed(t)
  BY DEF LoadCommitted
<1>2. recovers => /\ ~Requested /\ ~(allowed.api /\ allowed.live) /\ uri = Blank
                  /\ tab.pending_web_uri # None /\ ~tab.recovering
  BY DEF Recovers
<1>3. recovers \in BOOLEAN /\ uri \in Web \cup {Blank}
  BY <1>1 DEF Recovers, PageLoadInv, ViewOK, Loadable
<1>4. current \in Load /\ Loadable(current)
  BY <1>1 DEF PageLoadInv, ViewOK
<1>5. /\ [uri |-> uri, page |-> page] \in Document
      /\ page \in Web => page = uri
      /\ ~blank => page = current.page /\ uri = current.uri
  <2>1. page \in Web \cup Internal \cup {"error"} /\ (page \in Web => page = uri)
    BY <1>4, Names DEF Load, Loadable, Internal
  <2>2. uri \in Web \cup Internal
    BY <1>3 DEF Internal
  <2> QED
    BY <2>1, <2>2 DEF Document
<1> HIDE DEF uri, page, recovers
<1>6. /\ Proper(t) /\ t.internal_uri = tab.internal_uri /\ t.display_uri = tab.display_uri
      /\ t.pending_web_uri = tab.pending_web_uri /\ (t.recovering <=> tab.recovering \/ recovers)
  <2> DEFINE again == tab.recovering \/ recovers
  <2>1. again \in BOOLEAN /\ Proper(tab) /\ (again => tab.pending_web_uri # None)
    BY <1>2 DEF PageLoadInv, FieldsOK, Proper
  <2> HIDE DEF again
  <2>2. t = [tab EXCEPT !.recovering = again]
    BY DEF again
  <2> HIDE DEF t
  <2>3. /\ Proper(t) /\ t.internal_uri = tab.internal_uri /\ t.display_uri = tab.display_uri
        /\ t.pending_web_uri = tab.pending_web_uri /\ t.recovering = again
    <3>1. LET r == [tab EXCEPT !.recovering = again]
          IN  /\ Proper(r) /\ r.internal_uri = tab.internal_uri /\ r.display_uri = tab.display_uri
              /\ r.pending_web_uri = tab.pending_web_uri /\ r.recovering = again
      BY <2>1 DEF Proper, TabFields
    <3> QED
      BY <2>2, <3>1, Zenon
  <2> QED
    BY <2>3 DEF again
<1> HIDE DEF t
<1>7. FieldsOK' /\ InternalIsBlank'
  BY <1>1, <1>6, FollowedFields, FollowedIsBlank DEF FieldsOK, PageLoadInv
<1>8. /\ current' \in Load /\ current'.committed /\ current'.uri = uri /\ current' # NoLoad
      /\ doc'.uri = uri /\ doc'.page = page
  <2>1. current' \in Load /\ current'.committed /\ current'.uri = uri
    BY <1>1, <1>3, <1>4 DEF Load, Internal
  <2> QED
    BY <1>1, <2>1 DEF NoLoad
<1>9. ViewOK'
  BY <1>1, <1>3, <1>5, <1>8 DEF PageLoadInv, ViewOK, Loadable
<1>10. CASE recovers
  <2> DEFINE pending == tab.pending_web_uri
  <2>1. pending \in Web /\ Loadable([uri |-> pending, page |-> pending])
    BY <1>2, <1>10 DEF PageLoadInv, FieldsOK, Proper, TabFields, Loadable
  <2> HIDE DEF pending
  <2>2. Issue(ByProgram(pending, pending))
    BY <1>1, <1>10 DEF pending
  <2>3. /\ QuestionsOK' /\ Requested' /\ ActiveUri' = pending
        /\ Last(questions').uri = pending /\ Last(questions').page = pending
    BY <2>1, <2>2, IssueKeeps DEF PageLoadInv, QuestionsOK, Issue
  <2>4. PromiseOK'
    <3> SUFFICES ASSUME asked' # NoPromise PROVE PromiseIsDestiny' /\ PromiseIsNamed'
      BY DEF PromiseOK
    <3>1. asked' = asked /\ PromiseIsDestiny /\ PromiseIsNamed
      BY <1>1 DEF PageLoadInv, PromiseOK, Excused
    <3>2. tab.internal_uri = None
      BY <1>2, <1>10 DEF PageLoadInv, FieldsOK, Proper
    <3>3. ~WebRequested /\ asked.uri \in Web /\ pending = asked.uri
      BY <1>2, <1>10, <3>1, <3>2 DEF WebRequested, PromiseIsNamed, PromiseIsDestiny, pending, None
    <3>4. asked.page = asked.uri
      BY <3>1, <3>2, <3>3 DEF PromiseIsNamed, PromiseIsDestiny, None
    <3>5. Destiny' = Last(questions') /\ WebRequested'
      BY <2>1, <2>3 DEF Destiny, WebRequested
    <3>6. PromiseIsDestiny'
      BY <2>3, <3>1, <3>3, <3>4, <3>5 DEF PromiseIsDestiny
    <3> QED
      BY <2>1, <3>1, <3>3, <3>4, <3>5, <3>6, Names DEF PromiseIsNamed
  <2> QED
    BY <1>7, <1>9, <2>3, <2>4 DEF PageLoadInv
<1>11. CASE ~recovers
  <2>1. questions' = questions
    BY <1>1, <1>11
  <2>2. QuestionsOK' /\ Requested' = Requested /\ WebRequested' = WebRequested
    BY <2>1, InOrderPrimed DEF PageLoadInv, QuestionsOK, Requested, WebRequested
  <2>3. PromiseOK'
    <3> SUFFICES ASSUME asked' # NoPromise PROVE PromiseIsDestiny' /\ PromiseIsNamed'
      BY DEF PromiseOK
    <3>1. /\ asked' = asked /\ PromiseIsDestiny /\ PromiseIsNamed
          /\ blank => tab.pending_web_uri # None
      BY <1>1 DEF PageLoadInv, PromiseOK, Excused
    <3>2. Destiny'.uri = Destiny.uri /\ Destiny'.page = Destiny.page
      <4>1. CASE Requested \/ allowed # NoLoad
        BY <1>1, <2>1, <2>2, <4>1 DEF Destiny
      <4>2. CASE ~Requested /\ allowed = NoLoad
        <5>1. ~blank
          BY <1>5, <1>11, <3>1, <4>2 DEF recovers, Recovers, uri, PromiseIsNamed, WebRequested, NoLoad
        <5> QED
          BY <1>1, <1>5, <1>8, <2>2, <4>2, <5>1 DEF Destiny
      <4> QED
        BY <4>1, <4>2
    <3>3. ~blank => ActiveUri' = ActiveUri
      BY <1>1, <1>5, <1>8, <2>1, <2>2 DEF ActiveUri
    <3>4. blank => ActiveUri' = Blank \/ ActiveUri' = ActiveUri
      BY <1>1, <1>8, <2>1, <2>2 DEF ActiveUri, uri
    <3>5. /\ tab'.internal_uri = tab.internal_uri /\ tab'.display_uri = tab.display_uri
          /\ tab'.pending_web_uri = tab.pending_web_uri
          /\ tab'.recovering => tab.recovering
      BY <1>1, <1>6, <1>11, <3>3, <3>4, FollowedFields
    <3>6. PromiseIsDestiny'
      BY <1>1, <1>8, <2>2, <3>1, <3>2 DEF PromiseIsDestiny
    <3> QED
      BY <1>1, <2>2, <3>1, <3>5, <3>6 DEF PromiseIsNamed
  <2> QED
    BY <1>7, <1>9, <2>2, <2>3 DEF PageLoadInv
<1> QED
  BY <1>10, <1>11

(* What decide_policy makes of a question.                                 *)
LEMMA VerdictFacts ==
  ASSUME NEW q
  PROVE  \/ /\ Verdict(q) = "allow"
            /\ \/ q.page = "error"
               \/ q.page # "error" /\ q.uri = Blank /\ tab.internal_uri # None
               \/ q.page # "error" /\ q.uri \in Web
         \/ Verdict(q) = "ignore" /\ q.page # "error" /\ q.uri = Blank /\ tab.internal_uri = None
         \/ Verdict(q) = "own" /\ q.page # "error" /\ q.uri \notin Web
<1>1. Blank \notin Web
  BY Names
<1>2. CASE q.page = "error"
  BY <1>2 DEF Verdict
<1>3. CASE q.page # "error" /\ q.uri = Blank /\ tab.internal_uri # None
  BY <1>1, <1>3 DEF Verdict
<1>4. CASE q.page # "error" /\ q.uri = Blank /\ tab.internal_uri = None
  <2>1. CASE tab.pending_web_uri # None \/ ActiveUri \in Web
    BY <1>1, <1>4, <2>1 DEF Verdict
  <2>2. CASE ~(tab.pending_web_uri # None \/ ActiveUri \in Web)
    BY <1>1, <1>4, <2>2 DEF Verdict
  <2> QED
    BY <2>1, <2>2
<1>5. CASE q.page # "error" /\ q.uri # Blank
  BY <1>5 DEF Verdict
<1> QED
  BY <1>2, <1>3, <1>4, <1>5

(* The shell loads the page itself.                                        *)
LEMMA OwnKeeps ==
  ASSUME PageLoadInv, missed' = Missing, questions # <<>>, Answer(Head(questions), "own"),
         Verdict(Head(questions)) = "own"
  PROVE  PageLoadInv'
<1> DEFINE q == Head(questions)
<1>1. /\ questions # <<>> /\ questions' = Append(Stale(Tail(questions)), LoadOf(q.uri))
      /\ allowed' = allowed /\ UNCHANGED <<doc, current, entries, source>>
      /\ tab' = Followed(Decided(tab, q.uri)) /\ Asked(LoadOf(q.uri))
  BY DEF Answer
<1>2. QuestionOK(q) /\ q.page # "error" /\ q.uri \notin Web
  <2>1. QuestionOK(q)
    BY <1>1 DEF PageLoadInv, QuestionsOK, InOrder
  <2> QED
    BY <2>1, VerdictFacts
<1>3. q.uri \in Internal
  BY <1>2, QuestionFacts DEF Linked, Internal
<1>4. InOrder(Tail(questions))
  BY <1>1, TailInOrder DEF PageLoadInv
<1> HIDE DEF q
<1> QED
  BY <1>1, <1>3, <1>4, LoadDecisionKeeps

(* The question was for nothing; about:blank is not to be loaded now; or a *)
(* navigation of the page leads elsewhere.                                 *)
LEMMA IgnoreKeeps ==
  ASSUME PageLoadInv, missed' = Missing, questions # <<>>, Answer(Head(questions), "ignore"),
         Verdict(Head(questions)) = "ignore" \/ LeadsElsewhere(Head(questions))
  PROVE  PageLoadInv'
<1> DEFINE q == Head(questions)
<1>1. /\ questions # <<>> /\ questions' = Tail(questions)
      /\ UNCHANGED <<allowed, doc, current, entries, source>>
      /\ tab' = Followed(tab)
      /\ Excused(q.live /\ q.page = Blank)
  BY DEF Answer
<1>2. \/ q.page # "error" /\ q.uri = Blank /\ tab.internal_uri = None
      \/ ~q.api /\ q.page \in Web
  BY VerdictFacts DEF LeadsElsewhere
<1>3. /\ QuestionsOK' /\ QuestionOK(q)
      /\ IF q.live THEN questions' = <<>> /\ Last(questions) = q
         ELSE Requested' = Requested /\ (Requested => Last(questions') = Last(questions))
  BY <1>1, TailKeeps DEF PageLoadInv
<1> HIDE DEF q
<1>4. ViewOK'
  BY <1>1 DEF PageLoadInv, ViewOK, Loadable
<1>5. FieldsOK' /\ InternalIsBlank'
  BY <1>1, FollowedFields, FollowedIsBlank DEF FieldsOK, PageLoadInv
<1>6. PromiseOK'
  <2> SUFFICES ASSUME asked' # NoPromise PROVE PromiseIsDestiny' /\ PromiseIsNamed'
    BY DEF PromiseOK
  <2>1. asked' = asked /\ PromiseIsDestiny /\ PromiseIsNamed /\ ~(q.live /\ q.page = Blank)
    BY <1>1 DEF PageLoadInv, PromiseOK, Excused
  <2>2. ~(q.live /\ q.api)
    <3>1. ASSUME q.live, q.api PROVE FALSE
      <4>1. q.page # "error" /\ q.uri = Blank /\ tab.internal_uri = None
        BY <1>2, <3>1
      <4>2. Requested /\ Last(questions) = q
        BY <1>1, <1>3, <3>1 DEF Requested
      <4>3. asked.uri = Blank /\ ~WebRequested
        <5>1. asked.uri = Blank
          BY <4>1, <4>2, <2>1 DEF PromiseIsDestiny, Destiny
        <5>2. q.page \notin Web
          BY <1>3, <3>1, <4>1, QuestionFacts, Names DEF Loadable
        <5> QED
          BY <4>2, <5>1, <5>2 DEF WebRequested
      <4> QED
        BY <2>1, <4>1, <4>3 DEF PromiseIsNamed, None
    <3> QED
      BY <3>1
  <2>3. Requested' = Requested /\ (Requested => Last(questions') = Last(questions))
    BY <1>1, <1>3, <2>2 DEF Requested
  <2>4. WebRequested' = WebRequested /\ Destiny' = Destiny /\ ActiveUri' = ActiveUri
    BY <1>1, <2>3 DEF WebRequested, Destiny, ActiveUri
  <2>5. tab' = tab
    BY <1>1, <2>4 DEF Followed
  <2> QED
    BY <1>1, <2>1, <2>3, <2>4, <2>5 DEF PromiseIsDestiny, PromiseIsNamed
<1> QED
  BY <1>3, <1>4, <1>5, <1>6 DEF PageLoadInv

(* A load is to be: its fields are set, and a question that was for        *)
(* nothing leaves what the view is heading for.                            *)
LEMMA AllowKeeps ==
  ASSUME PageLoadInv, missed' = Missing, questions # <<>>, Answer(Head(questions), "allow"),
         Verdict(Head(questions)) = "allow"
  PROVE  PageLoadInv'
<1> DEFINE q == Head(questions)
           t == Navigated(tab, q)
<1>1. /\ questions # <<>> /\ questions' = Tail(questions)
      /\ q.live => allowed = NoLoad
      /\ allowed' = IF q.live THEN q ELSE allowed
      /\ UNCHANGED <<doc, current, entries, source>>
      /\ tab' = Followed(t)
      /\ IF q.live /\ ~q.api THEN Asked(q) ELSE Excused(~q.live /\ q.uri \in Web)
  BY DEF Answer
<1>2. /\ QuestionsOK' /\ QuestionOK(q) /\ q \in Load
      /\ IF q.live THEN questions' = <<>> /\ Last(questions) = q
         ELSE Requested' = Requested /\ (Requested => Last(questions') = Last(questions))
  BY <1>1, TailKeeps DEF PageLoadInv
<1>3. \/ q.page = "error"
      \/ q.page # "error" /\ q.uri = Blank /\ tab.internal_uri # None
      \/ q.page # "error" /\ q.uri \in Web
  BY VerdictFacts
<1>4. /\ q.uri \in Linked /\ ~q.committed
      /\ ~q.live => q.page = q.uri
      /\ q.live /\ ~q.api => q.page = q.uri
      /\ q.api => q.live /\ Loadable(q)
  <2> HIDE DEF q
  <2> QED
    BY <1>2, QuestionFacts
<1>5. q.page = "error" \/ q.uri \notin Web => t = tab
  BY DEF Navigated
<1>6. /\ Proper(tab) /\ Proper(t) /\ (tab.internal_uri = "vantage:source" => t = tab /\ ~tab.recovering)
      /\ tab.internal_uri # None => ~tab.recovering
      /\ q.page # "error" /\ q.uri \in Web /\ tab.internal_uri # "vantage:source" =>
           /\ t.internal_uri = None /\ t.display_uri = None
           /\ t.pending_web_uri = q.uri /\ ~t.recovering
  <2>1. Proper(tab) /\ (tab.internal_uri # None => ~tab.recovering)
    BY DEF PageLoadInv, FieldsOK, Proper
  <2> HIDE DEF q, t
  <2>2. CASE q.page = "error" \/ q.uri \notin Web
    BY <1>5, <2>1, <2>2 DEF None
  <2>3. CASE q.page # "error" /\ q.uri \in Web
    <3>1. /\ Proper(Navigated(tab, q))
          /\ IF tab.internal_uri = "vantage:source" THEN Navigated(tab, q) = tab
             ELSE /\ Navigated(tab, q).internal_uri = None /\ Navigated(tab, q).display_uri = None
                  /\ Navigated(tab, q).pending_web_uri = q.uri /\ ~Navigated(tab, q).recovering
      BY <2>1, <2>3, NavigatedFields
    <3>2. t = Navigated(tab, q)
      BY DEF t
    <3> QED
      BY <2>1, <2>3, <3>1, <3>2 DEF None
  <2> QED
    BY <2>2, <2>3
<1> HIDE DEF q, t
<1>7. FieldsOK' /\ InternalIsBlank'
  <2>1. t.internal_uri \in {tab.internal_uri, None, "vantage:source"}
    BY <1>5, <1>6
  <2> QED
    BY <1>1, <1>6, <2>1, FollowedFields, FollowedIsBlank DEF FieldsOK, PageLoadInv
<1>8. q.live => Loadable(q)
  BY <1>3, <1>4, Names DEF Loadable, Linked, Internal
<1>9. ViewOK'
  BY <1>1, <1>2, <1>4, <1>8 DEF PageLoadInv, ViewOK, Loadable
<1>10. ASSUME q.live
       PROVE  /\ q # NoLoad /\ ~Requested' /\ ~WebRequested'
              /\ Destiny' = q
              /\ /\ asked'.uri = q.uri /\ q.page \in {asked'.page, "error"}
                 /\ \/ q.uri \in Web /\ asked'.page \in {q.uri, "vantage:source"}
                    \/ q.uri = Blank /\ asked'.page \in Internal
                 => PromiseIsDestiny'
  <2>1. q # NoLoad
    BY <1>10 DEF NoLoad
  <2>2. ~Requested' /\ ~WebRequested' /\ allowed' = q
    BY <1>1, <1>2, <1>10 DEF Requested, WebRequested
  <2>3. Destiny' = q
    BY <2>1, <2>2 DEF Destiny
  <2> QED
    BY <1>10, <2>1, <2>2, <2>3 DEF PromiseIsDestiny
<1>11. PromiseOK'
  <2> SUFFICES ASSUME asked' # NoPromise PROVE PromiseIsDestiny' /\ PromiseIsNamed'
    BY DEF PromiseOK
  <2>1. CASE ~q.live
    <3>1. asked' = asked /\ q.uri \notin Web /\ PromiseIsDestiny /\ PromiseIsNamed
      BY <1>1, <2>1 DEF Excused, PageLoadInv, PromiseOK
    <3>2. /\ Requested' = Requested /\ WebRequested' = WebRequested /\ allowed' = allowed
          /\ Destiny' = Destiny /\ ActiveUri' = ActiveUri
      BY <1>1, <1>2, <2>1 DEF WebRequested, Destiny, ActiveUri
    <3>3. tab' = tab
      BY <1>1, <1>5, <3>1, <3>2 DEF Followed
    <3> QED
      BY <1>1, <3>1, <3>2, <3>3 DEF PromiseIsDestiny, PromiseIsNamed
  <2>2. CASE q.live /\ q.api
    <3>1. asked' = asked /\ PromiseIsDestiny /\ PromiseIsNamed
      BY <1>1, <2>2 DEF Excused, PageLoadInv, PromiseOK
    <3>2. Requested /\ Last(questions) = q /\ Destiny = q /\ ActiveUri = q.uri
      BY <1>1, <1>2, <2>2 DEF Requested, Destiny, ActiveUri
    <3>3. allowed' = q /\ ActiveUri' = q.uri
      BY <1>1, <1>10, <2>2 DEF ActiveUri
    <3>4. tab' = t
      BY <1>1, <3>2, <3>3 DEF Followed
    <3>5. PromiseIsDestiny'
      BY <1>10, <2>2, <3>1, <3>2 DEF PromiseIsDestiny
    <3>6. asked.uri = q.uri
      BY <3>1, <3>2 DEF PromiseIsDestiny
    <3>7. CASE q.page = "error" \/ q.uri \notin Web
      <4>1. ~WebRequested
        BY <1>4, <2>2, <3>2, <3>7, Names DEF WebRequested, Loadable
      <4> QED
        BY <1>5, <1>10, <2>2, <3>1, <3>3, <3>4, <3>5, <3>7, <4>1 DEF PromiseIsNamed
    <3>8. CASE q.page # "error" /\ q.uri \in Web
      <4>1. q.uri # Blank
        BY <3>8, Names
      <4> QED
        BY <1>6, <1>10, <2>2, <3>1, <3>3, <3>4, <3>5, <3>6, <3>8, <4>1 DEF PromiseIsNamed
    <3> QED
      BY <3>7, <3>8
  <2>3. CASE q.live /\ ~q.api
    <3>1. asked' = [uri |-> q.uri, page |-> q.uri] /\ q.page = q.uri /\ allowed' = q /\ allowed = NoLoad
      BY <1>1, <1>4, <2>3 DEF Asked
    <3>2. q.page # "error"
      BY <1>4, <3>1, Names DEF Linked, Blank
    <3>3. PromiseIsDestiny'
      BY <1>3, <1>10, <2>3, <3>1, <3>2 DEF Internal
    <3>4. CASE q.uri = Blank /\ tab.internal_uri # None
      <4>1. ~Requested /\ ActiveUri' = ActiveUri
        BY <1>1, <1>2, <1>10, <2>3, <3>1 DEF Requested, ActiveUri, NoLoad
      <4>2. t = tab /\ q.uri \notin Web
        BY <1>5, <3>4, Names
      <4>3. tab' = tab
        BY <1>1, <4>1, <4>2 DEF Followed
      <4> QED
        BY <1>6, <1>10, <2>3, <3>1, <3>3, <3>4, <4>2, <4>3, Names DEF PromiseIsNamed
    <3>5. CASE q.uri \in Web
      <4>1. /\ tab'.recovering = t.recovering /\ tab'.display_uri = t.display_uri
            /\ tab'.pending_web_uri = t.pending_web_uri
            /\ tab'.internal_uri \in {t.internal_uri, None}
            /\ t.internal_uri = "vantage:source" => tab'.internal_uri = t.internal_uri
        BY <1>1, <1>6, FollowedFields
      <4>2. q.uri # Blank /\ q.uri # "vantage:source"
        BY <3>5, Names
      <4> QED
        BY <1>6, <1>10, <2>3, <3>1, <3>2, <3>3, <3>5, <4>1, <4>2 DEF PromiseIsNamed
    <3> QED
      BY <1>3, <3>2, <3>4, <3>5
  <2> QED
    BY <2>1, <2>2, <2>3
<1> QED
  BY <1>2, <1>7, <1>9, <1>11 DEF PageLoadInv

LEMMA DecisionKeeps ==
  ASSUME PageLoadInv, missed' = Missing, DecidePolicy
  PROVE  PageLoadInv'
BY VerdictFacts, AllowKeeps, OwnKeeps, IgnoreKeeps DEF DecidePolicy

-----------------------------------------------------------------------------
(* The three ways a tab begins.                                            *)

LEMMA OneQuestion ==
  ASSUME NEW load \in Load, QuestionOK(load), questions = <<load>>
  PROVE  QuestionsOK /\ Last(questions) = load /\ questions # <<>>
<1>1. questions \in Seq(Load) /\ Len(questions) = 1 /\ questions[1] = load
  OBVIOUS
<1> QED
  BY <1>1, EmptySeq DEF QuestionsOK, InOrder, Last

LEMMA TwoQuestions ==
  ASSUME NEW first \in Load, QuestionOK(first), ~first.live, NEW load \in Load, QuestionOK(load),
         questions = <<first, load>>
  PROVE  QuestionsOK /\ Last(questions) = load /\ questions # <<>>
<1>1. /\ questions \in Seq(Load) /\ Len(questions) = 2
      /\ questions[1] = first /\ questions[2] = load
  OBVIOUS
<1>2. \A i \in 1..2 : i = 1 \/ i = 2
  OBVIOUS
<1> QED
  BY <1>1, <1>2, EmptySeq DEF QuestionsOK, InOrder, Last

(* A new tab is heading for what it was opened with.                       *)
LEMMA FreshTab ==
  ASSUME Init, QuestionsOK, questions # <<>>,
         NEW uri \in Web \cup {Blank}, NEW page, page # "error", Loadable([uri |-> uri, page |-> page]),
         Last(questions) = ByProgram(uri, page), source \in Web \cup {None}
  PROVE  /\ ViewOK /\ Requested /\ ActiveUri = uri /\ PromiseIsDestiny
         /\ asked.uri = uri /\ asked.page = page /\ (WebRequested <=> page \in Web)
<1>1. /\ Last(questions).live /\ Last(questions).api
      /\ Last(questions).uri = uri /\ Last(questions).page = page
  BY ByProgramFacts
<1>2. Requested /\ ActiveUri = uri /\ Destiny = Last(questions) /\ (WebRequested <=> page \in Web)
  BY <1>1 DEF Requested, ActiveUri, Destiny, WebRequested
<1>3. asked.uri = uri /\ asked.page = page
  BY <1>1 DEF Init
<1>4. doc = [uri |-> Blank, page |-> Blank] /\ current = NoLoad /\ allowed = NoLoad /\ entries = {}
  BY DEF Init
<1>5. doc \in Document /\ doc.uri = Blank /\ doc.page \notin Web
  BY <1>4, Names DEF Document, Internal
<1>6. ViewOK
  BY <1>4, <1>5 DEF ViewOK
<1>7. PromiseIsDestiny
  BY <1>1, <1>2, <1>3 DEF PromiseIsDestiny, Loadable
<1> QED
  BY <1>2, <1>3, <1>6, <1>7

LEMMA PageLoadInit == Init => PageLoadInv
<1> SUFFICES ASSUME Init PROVE PageLoadInv
  OBVIOUS
<1>1. Proper(NewTab)
  BY DEF NewTab, Proper, TabFields
<1>2. CASE \E target \in Web \cup {"vantage:new"} :
             tab = Decided(NewTab, target) /\ questions = <<LoadOf(target)>> /\ source = None
  <2>1. PICK target \in Web \cup {"vantage:new"} :
          tab = Decided(NewTab, target) /\ questions = <<LoadOf(target)>> /\ source = None
    BY <1>2
  <2> DEFINE uri == IF target \in Web THEN target ELSE Blank
  <2>2. LoadOf(target) = ByProgram(uri, target)
    BY DEF LoadOf
  <2>3. /\ Loadable([uri |-> uri, page |-> target]) /\ target # "error" /\ uri \in Web \cup {Blank}
        /\ target \in Web \cup Internal
    BY Names DEF Loadable
  <2>4. target \in Web => uri = target
    OBVIOUS
  <2>5. target \notin Web => uri = Blank
    OBVIOUS
  <2> HIDE DEF uri
  <2>6. QuestionsOK /\ questions # <<>> /\ Last(questions) = ByProgram(uri, target)
    BY <2>1, <2>2, <2>3, ByProgramFacts, OneQuestion
  <2>7. /\ ViewOK /\ Requested /\ ActiveUri = uri /\ PromiseIsDestiny
        /\ asked.uri = uri /\ asked.page = target /\ (WebRequested <=> target \in Web)
    BY <2>1, <2>3, <2>6, FreshTab
  <2>8. /\ Proper(tab) /\ tab.internal_uri = (IF target \in Web THEN None ELSE target)
        /\ ~tab.recovering
    BY <1>1, <2>1, <2>3, DecidedFields
  <2>9. PromiseIsNamed
    BY <2>4, <2>5, <2>7, <2>8, Names DEF PromiseIsNamed
  <2>10. InternalIsBlank
    BY <2>5, <2>7, <2>8 DEF InternalIsBlank
  <2> QED
    BY <2>6, <2>7, <2>8, <2>9, <2>10 DEF PageLoadInv, PromiseOK, FieldsOK
<1>3. CASE \E page \in Web :
             /\ tab = [NewTab EXCEPT !.internal_uri = "vantage:source", !.display_uri = page]
             /\ questions = <<ByProgram(page, "vantage:source")>>
             /\ source = page
  <2>1. PICK page \in Web :
             /\ tab = [NewTab EXCEPT !.internal_uri = "vantage:source", !.display_uri = page]
             /\ questions = <<ByProgram(page, "vantage:source")>>
             /\ source = page
    BY <1>3
  <2>2. Loadable([uri |-> page, page |-> "vantage:source"])
    BY DEF Loadable
  <2>3. QuestionsOK /\ questions # <<>> /\ Last(questions) = ByProgram(page, "vantage:source")
    BY <2>1, <2>2, ByProgramFacts, OneQuestion
  <2>4. /\ ViewOK /\ Requested /\ ActiveUri = page /\ PromiseIsDestiny
        /\ asked.uri = page /\ asked.page = "vantage:source" /\ ~WebRequested
    BY <2>1, <2>2, <2>3, FreshTab, Names
  <2>5. Proper(tab) /\ tab.internal_uri = "vantage:source" /\ ~tab.recovering
    <3>1. LET r == [NewTab EXCEPT !.internal_uri = "vantage:source", !.display_uri = page]
          IN  Proper(r) /\ r.internal_uri = "vantage:source" /\ ~r.recovering
      <4>1. NewTab \in TabFields /\ ~NewTab.recovering /\ NewTab.pending_web_uri = None
        BY DEF NewTab, TabFields
      <4> QED
        BY <4>1 DEF Proper, TabFields, Internal
    <3> QED
      BY <2>1, <3>1, Zenon
  <2>6. PromiseIsNamed /\ InternalIsBlank
    BY <2>4, <2>5 DEF PromiseIsNamed, InternalIsBlank
  <2> QED
    BY <2>3, <2>4, <2>5, <2>6 DEF PageLoadInv, PromiseOK, FieldsOK
<1>4. CASE \E image \in Web :
             /\ tab = [Decided(NewTab, "vantage:new") EXCEPT
                         !.internal_uri = "vantage:image", !.display_uri = image]
             /\ questions = <<Overtaken(Blank), ByProgram(Blank, "vantage:image")>>
             /\ source = None
  <2>1. PICK image \in Web :
             /\ tab = [Decided(NewTab, "vantage:new") EXCEPT
                         !.internal_uri = "vantage:image", !.display_uri = image]
             /\ questions = <<Overtaken(Blank), ByProgram(Blank, "vantage:image")>>
             /\ source = None
    BY <1>4
  <2>2. Loadable([uri |-> Blank, page |-> "vantage:image"])
    BY DEF Loadable, Internal
  <2>3. QuestionsOK /\ questions # <<>> /\ Last(questions) = ByProgram(Blank, "vantage:image")
    <3>1. Blank \in Linked
      BY DEF Linked
    <3> QED
      BY <2>1, <2>2, <3>1, ByProgramFacts, OvertakenFacts, TwoQuestions
  <2>4. /\ ViewOK /\ Requested /\ ActiveUri = Blank /\ PromiseIsDestiny
        /\ asked.uri = Blank /\ asked.page = "vantage:image" /\ ~WebRequested
    BY <2>1, <2>2, <2>3, FreshTab, Names
  <2>5. Proper(tab) /\ tab.internal_uri = "vantage:image" /\ ~tab.recovering
    <3> DEFINE d == Decided(NewTab, "vantage:new")
    <3>1. Proper(d) /\ ~d.recovering /\ d.pending_web_uri = None
      <4>1. "vantage:new" \in Internal /\ "vantage:new" \notin Web
        BY Names
      <4> QED
        BY <1>1, <4>1, DecidedFields
    <3> HIDE DEF d
    <3>2. LET r == [d EXCEPT !.internal_uri = "vantage:image", !.display_uri = image]
          IN  Proper(r) /\ r.internal_uri = "vantage:image" /\ ~r.recovering
      BY <3>1 DEF Proper, TabFields, Internal
    <3> QED
      BY <2>1, <3>2, Zenon DEF d
  <2>6. PromiseIsNamed /\ InternalIsBlank
    BY <2>4, <2>5, Names DEF PromiseIsNamed, InternalIsBlank, None
  <2> QED
    BY <2>3, <2>4, <2>5, <2>6 DEF PageLoadInv, PromiseOK, FieldsOK
<1> QED
  BY <1>2, <1>3, <1>4 DEF Init

-----------------------------------------------------------------------------
(* The invariant, one action at a time.                                    *)

LEMMA RequestsKeep ==
  ASSUME PageLoadInv, missed' = Missing, Requests
  PROVE  PageLoadInv'
<1>1. Proper(tab) /\ InOrder(questions) /\ doc.uri \in Web \cup {Blank} /\ entries \subseteq Web
      /\ source \in Web \cup {None} /\ tab.internal_uri \in Internal \cup {None}
  BY DEF PageLoadInv, FieldsOK, QuestionsOK, ViewOK, Proper, TabFields
<1>2. ASSUME NEW target \in Web \cup Internal, LoadDecision(target)
      PROVE  PageLoadInv'
  BY <1>1, <1>2, LoadDecisionKeeps DEF LoadDecision, Issue
<1>3. Linked \subseteq Web \cup Internal
  BY DEF Linked, Internal
<1>4. \A uri \in Back : uri \in Web
  BY <1>1 DEF Back
<1>5. ASSUME NEW target, SubmitAddress(target)
      PROVE  PageLoadInv'
  <2>1. CASE target \in Web \cup Internal
    BY <1>2, <1>5, <2>1 DEF SubmitAddress
  <2>2. CASE target \notin Web \cup Internal
    BY <1>5, <2>2, RejectedKeeps DEF SubmitAddress
  <2> QED
    BY <2>1, <2>2
<1>6. ASSUME NEW target \in Linked, AgentNavigate(target)
      PROVE  PageLoadInv'
  BY <1>2, <1>3, <1>6 DEF AgentNavigate
<1>7. CASE GoBack
  <2>1. "vantage:new" \in Web \cup Internal
    BY Names
  <2> QED
    BY <1>2, <1>4, <1>7, <2>1, RevisitKeeps DEF GoBack
<1>8. CASE GoAlong
  BY <1>4, <1>8, RevisitKeeps DEF GoAlong
<1>9. CASE ReloadOrStop
  <2>1. ASSUME Halt([tab EXCEPT !.user_stopped = TRUE])
        PROVE  PageLoadInv'
    <3> DEFINE t == [tab EXCEPT !.user_stopped = TRUE]
    <3>1. Proper(t) /\ t.internal_uri = tab.internal_uri
      BY <1>1, FlagFields
    <3>2. Halt(t)
      BY <2>1
    <3> HIDE DEF t
    <3> QED
      BY <3>1, <3>2, HaltKeeps
  <2>2. ASSUME tab.internal_uri # None, LoadDecision(tab.internal_uri)
        PROVE  PageLoadInv'
    BY <1>1, <1>2, <2>2
  <2> QED
    BY <1>9, <2>1, <2>2, ReloadKeeps DEF ReloadOrStop
<1>10. CASE AgentStop
  BY <1>1, <1>10, HaltKeeps DEF AgentStop
<1>11. CASE AgentReload
  BY <1>11, ReloadKeeps DEF AgentReload
<1>12. ASSUME NEW target \in Linked, NEW i \in 1..(Len(questions) + 1), PageNavigates(target, i)
       PROVE  PageLoadInv'
  BY <1>12, PageNavigatesKeeps
<1>13. ASSUME NEW found \in BOOLEAN, SourceLoaded(found)
       PROVE  PageLoadInv'
  BY <1>13, SourceLoadedKeeps
<1>14. ASSUME NEW show \in BOOLEAN, Select(show)
       PROVE  PageLoadInv'
  BY <1>1, <1>14, StillKeeps DEF Select
<1> QED
  BY <1>5, <1>6, <1>7, <1>8, <1>9, <1>10, <1>11, <1>12, <1>13, <1>14 DEF Requests, Linked

LEMMA PageLoadStep == PageLoadInv /\ [Next]_vars => PageLoadInv'
<1> SUFFICES ASSUME PageLoadInv, [Next]_vars PROVE PageLoadInv'
  OBVIOUS
<1>1. CASE missed' = Missing /\ Requests
  BY <1>1, RequestsKeep
<1>2. CASE missed' = Missing /\ WebKit
  BY <1>2, DecisionKeeps, StartedKeeps, FinishedKeeps, TerminatedKeeps, CommittedKeeps, FailsKeeps
     DEF WebKit
<1>3. CASE UNCHANGED vars
  <2>1. /\ Requested' = Requested /\ ActiveUri' = ActiveUri /\ Destiny' = Destiny
        /\ WebRequested' = WebRequested
    BY <1>3 DEF vars, views, Requested, ActiveUri, Destiny, WebRequested
  <2>2. QuestionsOK' /\ ViewOK' /\ FieldsOK' /\ InternalIsBlank'
    BY <1>3, <2>1 DEF vars, views, PageLoadInv, QuestionsOK, InOrder, QuestionOK, ViewOK, Loadable,
                      FieldsOK, InternalIsBlank
  <2>3. PromiseOK'
    BY <1>3, <2>1 DEF vars, views, PageLoadInv, PromiseOK, PromiseIsDestiny, PromiseIsNamed
  <2> QED
    BY <2>2, <2>3 DEF PageLoadInv
<1> QED
  BY <1>1, <1>2, <1>3 DEF Next

(* Invariance of the whole: what is asked is in order, and what the tab    *)
(* was told to show is what the view is heading for and what its fields    *)
(* name, whichever requests, answers and failures come between             *)
(* (decide_policy, load_changed, load_failed, uri_changed).  A load that   *)
(* becomes a download leaves the web page that was there as what it was    *)
(* told to show; over a page of the shell, and after a crash of the page's *)
(* process or a stop, nothing is said until the next request.              *)
THEOREM TabFollowsItsLoads == Spec => []PageLoadInv
BY PageLoadInit, PageLoadStep, PTL DEF Spec

-----------------------------------------------------------------------------
(* What the invariant says of a tab at rest, and of one that is closed.    *)

LEMMA RestIsDestiny ==
  AtRest => ~Requested /\ ~WebRequested /\ Destiny = doc /\ ActiveUri = doc.uri
BY DEF AtRest, Requested, WebRequested, Destiny, ActiveUri, NoLoad

(* Unless missed, no web page gets into a tab that shows a source.         *)
SourceShowsNoPage ==
  ~missed /\ tab.internal_uri = "vantage:source" =>
    doc.page \notin Web /\ allowed.page \notin Web /\ current.page \notin Web

(* No handler gives a tab that name; a reload of the tab keeps it.         *)
LEMMA SourceName ==
  ASSUME PageLoadInv, Next, tab'.internal_uri = "vantage:source"
  PROVE  tab.internal_uri = "vantage:source"
<1> SUFFICES ASSUME tab.internal_uri # "vantage:source" PROVE FALSE
  OBVIOUS
<1>1. /\ Proper(tab) /\ "vantage:source" # None
      /\ questions # <<>> => QuestionOK(Head(questions))
  BY EmptySeq, ElementOfSeq DEF PageLoadInv, FieldsOK, QuestionsOK, InOrder, None
<1>2. Linked \subseteq Web \cup Internal /\ "vantage:source" \notin Linked /\ "vantage:new" # "vantage:source"
  BY Names DEF Linked, Internal, Blank
<1>3. ASSUME NEW t, Proper(t), t.internal_uri # "vantage:source", tab' = Followed(t)
      PROVE  FALSE
  BY <1>1, <1>3, FollowedFields
<1>4. ASSUME NEW target, target # "vantage:source", tab' = Followed(Decided(tab, target))
      PROVE  FALSE
  BY <1>1, <1>3, <1>4, DecidedFields
<1>5. ASSUME NEW target, target # "vantage:source", LoadDecision(target)
      PROVE  FALSE
  BY <1>4, <1>5 DEF LoadDecision
<1>6. ASSUME NEW uri, Request(uri)
      PROVE  FALSE
  BY <1>1, <1>3, <1>6 DEF Request
<1>7. ASSUME NEW t, Proper(t), t.internal_uri = tab.internal_uri, Halt(t)
      PROVE  FALSE
  BY <1>3, <1>7 DEF Halt
<1>8. CASE Requests
  <2>1. ASSUME NEW target \in Linked \cup {None}, SubmitAddress(target)
        PROVE  FALSE
    <3>1. target # "vantage:source"
      BY <1>1, <1>2
    <3>2. CASE target \in Web \cup Internal
      BY <1>5, <2>1, <3>1, <3>2 DEF SubmitAddress
    <3>3. CASE target \notin Web \cup Internal
      BY <1>1, <2>1, <3>3, DecidedFields DEF SubmitAddress
    <3> QED
      BY <3>2, <3>3
  <2>2. CASE ReloadOrStop
    <3>1. ASSUME Halt([tab EXCEPT !.user_stopped = TRUE])
          PROVE  FALSE
      <4> DEFINE t == [tab EXCEPT !.user_stopped = TRUE]
      <4>1. Proper(t) /\ t.internal_uri = tab.internal_uri
        BY <1>1, FlagFields
      <4>2. Halt(t)
        BY <3>1
      <4> HIDE DEF t
      <4> QED
        BY <1>7, <4>1, <4>2
    <3> QED
      BY <1>5, <1>6, <2>2, <3>1 DEF ReloadOrStop, Reload
  <2>3. CASE AgentStop \/ AgentReload
    BY <1>1, <1>6, <1>7, <2>3 DEF AgentStop, AgentReload, Reload
  <2>4. ASSUME NEW target \in Linked, NEW i, PageNavigates(target, i)
        PROVE  FALSE
    BY <1>1, <1>3, <2>4 DEF PageNavigates
  <2>5. ASSUME NEW found, SourceLoaded(found)
        PROVE  FALSE
    BY <1>1, <1>3, <2>5 DEF SourceLoaded
  <2> QED
    BY <1>2, <1>5, <1>6, <1>8, <2>1, <2>2, <2>3, <2>4, <2>5
       DEF Requests, AgentNavigate, GoBack, GoAlong, Revisit, Select, Linked
<1>9. CASE WebKit
  <2>1. ASSUME NEW verdict \in {"allow", "ignore", "own"}, questions # <<>>, Answer(Head(questions), verdict)
        PROVE  FALSE
    <3>1. CASE verdict = "allow"
      <4> DEFINE q == Head(questions)
                 t == Navigated(tab, q)
      <4>1. tab' = Followed(t)
        BY <2>1, <3>1 DEF Answer
      <4>2. Proper(t) /\ t.internal_uri # "vantage:source"
        <5>1. CASE q.page = "error" \/ q.uri \notin Web
          BY <1>1, <5>1 DEF Navigated
        <5>2. CASE q.page # "error" /\ q.uri \in Web
          <6> HIDE DEF q
          <6> QED
            BY <1>1, <5>2, NavigatedFields
        <5> QED
          BY <5>1, <5>2
      <4> HIDE DEF t
      <4> QED
        BY <1>3, <4>1, <4>2
    <3>2. CASE verdict = "ignore"
      BY <1>1, <1>3, <2>1, <3>2 DEF Answer
    <3>3. CASE verdict = "own"
      BY <1>1, <1>2, <1>4, <2>1, <3>3, QuestionFacts DEF Answer
    <3> QED
      BY <3>1, <3>2, <3>3
  <2>2. CASE DecidePolicy
    <3>1. Verdict(Head(questions)) \in {"allow", "ignore", "own"}
      BY VerdictFacts
    <3> QED
      BY <2>1, <2>2, <3>1 DEF DecidePolicy
  <2>3. CASE LoadStarted
    <3> DEFINE t == [tab EXCEPT !.user_stopped = FALSE]
    <3>1. Proper(t) /\ t.internal_uri = tab.internal_uri
      BY <1>1, FlagFields
    <3>2. tab' = Followed(t)
      BY <2>3 DEF LoadStarted
    <3> HIDE DEF t
    <3> QED
      BY <1>3, <3>1, <3>2
  <2>4. CASE LoadFinished \/ (\E cancelled \in BOOLEAN : LoadFails(cancelled))
    <3>1. tab' = Followed(Finished(tab))
      BY <2>4 DEF LoadFinished, LoadFails
    <3> QED
      BY <1>1, <1>3, <3>1, FinishedFields
  <2>5. CASE WebProcessTerminated
    BY <1>1, <1>3, <2>5 DEF WebProcessTerminated
  <2>6. ASSUME NEW blank \in BOOLEAN, LoadCommitted(blank)
        PROVE  FALSE
    <3> DEFINE again == tab.recovering \/ Recovers(IF blank THEN Blank ELSE current.uri)
               t == [tab EXCEPT !.recovering = again]
    <3>1. tab' = Followed(t)
      BY <2>6 DEF LoadCommitted
    <3>2. again \in BOOLEAN /\ (again => tab.pending_web_uri # None)
      BY <1>1 DEF Recovers, Proper, TabFields
    <3> HIDE DEF again
    <3>3. Proper(t) /\ t.internal_uri = tab.internal_uri
      <4>1. LET r == [tab EXCEPT !.recovering = again]
            IN  Proper(r) /\ r.internal_uri = tab.internal_uri
        BY <1>1, <3>2 DEF Proper, TabFields
      <4> QED
        BY <4>1
    <3> HIDE DEF t
    <3> QED
      BY <1>3, <3>1, <3>3
  <2> QED
    BY <1>9, <2>2, <2>3, <2>4, <2>5, <2>6 DEF WebKit
<1> QED
  BY <1>8, <1>9 DEF Next

(* A document is what was under way, and that is what was allowed.         *)
LEMMA PagesMoveOn ==
  ASSUME PageLoadInv, Next
  PROVE  /\ doc'.page \in {doc.page, current.page, Blank}
         /\ current'.page \in {current.page, allowed.page, None}
<1>1. /\ current \in Load \cup {NoLoad} /\ allowed \in Load \cup {NoLoad} /\ doc \in Document
      /\ NoLoad.page = None
  BY DEF PageLoadInv, ViewOK, NoLoad
<1>2. ASSUME NEW t, Halt(t)
      PROVE  doc' = doc /\ current'.page = current.page
  BY <1>1, <1>2 DEF Halt, Load, NoLoad
<1>3. CASE Requests
  BY <1>2, <1>3 DEF Requests, SubmitAddress, AgentNavigate, LoadDecision, GoBack, GoAlong, Revisit, Request,
     ReloadOrStop, Reload, AgentStop, AgentReload, PageNavigates, SourceLoaded, Select, views
<1>4. CASE DecidePolicy
  BY <1>4 DEF DecidePolicy, Answer
<1>5. CASE LoadStarted
  BY <1>1, <1>5 DEF LoadStarted, Load, NoLoad
<1>6. CASE LoadFinished \/ (\E cancelled \in BOOLEAN : LoadFails(cancelled))
  BY <1>1, <1>6 DEF LoadFinished, LoadFails
<1>7. CASE WebProcessTerminated
  BY <1>1, <1>7 DEF WebProcessTerminated, Document
<1>8. ASSUME NEW blank \in BOOLEAN, LoadCommitted(blank)
      PROVE  /\ doc'.page \in {doc.page, current.page, Blank}
             /\ current'.page = current.page
  <2>1. doc'.page \in {current.page, Blank}
    BY <1>8 DEF LoadCommitted
  <2>2. \E uri : current' = [current EXCEPT !.committed = TRUE, !.uri = uri]
    BY <1>8 DEF LoadCommitted
  <2>3. current'.page = current.page
    BY <1>1, <2>2 DEF Load, NoLoad
  <2> QED
    BY <2>1, <2>3
<1> QED
  BY <1>3, <1>4, <1>5, <1>6, <1>7, <1>8 DEF Next, WebKit

LEMMA SourceStep == PageLoadInv /\ SourceShowsNoPage /\ [Next]_vars => SourceShowsNoPage'
<1> SUFFICES ASSUME PageLoadInv, SourceShowsNoPage, [Next]_vars, ~missed', tab'.internal_uri = "vantage:source"
             PROVE  doc'.page \notin Web /\ allowed'.page \notin Web /\ current'.page \notin Web
  BY DEF SourceShowsNoPage
<1>1. CASE UNCHANGED vars
  BY <1>1 DEF vars, views, SourceShowsNoPage
<1>2. CASE Next
  <2>1. tab.internal_uri = "vantage:source"
    BY <1>2, SourceName
  <2>2. ~missed /\ (allowed' # allowed => allowed'.page \notin Web)
    BY <1>2, <2>1 DEF Next, Missing
  <2>3. doc.page \notin Web /\ allowed.page \notin Web /\ current.page \notin Web
    BY <2>1, <2>2 DEF SourceShowsNoPage
  <2> QED
    BY <1>2, <2>2, <2>3, PagesMoveOn, Names
<1> QED
  BY <1>1, <1>2

(* Nothing that is loading, the address bar of the tab that is shown goes  *)
(* by the name of what one sees: uri_changed and decide_policy leave no    *)
(* web page under an internal name, and no page of the shell under         *)
(* another's.  For the first it is assumed that none came in where the     *)
(* code lets it (`missed`): while the tab was not shown, or under          *)
(* vantage:source, as after a reload of a tab with a source.               *)
THEOREM AddressBarIsHonest == Spec => []AddressIsHonest
<1>1. PageLoadInv /\ SourceShowsNoPage => AddressIsHonest
  <2> SUFFICES ASSUME PageLoadInv, SourceShowsNoPage, AtRest PROVE AddressIsHonest
    BY DEF AddressIsHonest
  <2>1. ASSUME doc.page \in Web, ~missed
        PROVE  tab.internal_uri = None
    <3>1. doc.uri # Blank
      BY <2>1, Names DEF PageLoadInv, ViewOK
    <3>2. tab.internal_uri # "vantage:source"
      BY <2>1 DEF SourceShowsNoPage
    <3> QED
      BY <2>1, <3>1, <3>2, RestIsDestiny DEF PageLoadInv, InternalIsBlank
  <2>2. ASSUME asked # NoPromise, tab.internal_uri \in Pages
        PROVE  doc.page \in {tab.internal_uri, Blank, "error"}
    <3>1. PromiseIsDestiny /\ PromiseIsNamed
      BY <2>2 DEF PageLoadInv, PromiseOK
    <3>2. tab.internal_uri # None /\ tab.internal_uri # "vantage:source"
      BY <2>2, Names
    <3>3. asked.uri = Blank /\ asked.page \in {tab.internal_uri, Blank}
      BY <3>1, <3>2, RestIsDestiny DEF PromiseIsDestiny, PromiseIsNamed
    <3> QED
      BY <3>1, <3>3, RestIsDestiny DEF PromiseIsDestiny
  <2> QED
    BY <2>1, <2>2 DEF AddressIsHonest
<1>2. Init => SourceShowsNoPage
  <2> SUFFICES ASSUME Init PROVE SourceShowsNoPage
    OBVIOUS
  <2>1. doc.page = Blank /\ allowed.page = None /\ current.page = None
    BY DEF Init, NoLoad
  <2> QED
    BY <2>1, Names DEF SourceShowsNoPage
<1> QED
  BY <1>1, <1>2, SourceStep, TabFollowsItsLoads, PTL DEF Spec

(* The newest request wins: a tab in which nothing is loading any more     *)
(* shows what it was last told to show, or an error page in its place,     *)
(* however many requests and policy answers have crossed; or, if what it   *)
(* was told to show became a download or cannot be shown, the web page     *)
(* that it showed.                                                         *)
THEOREM NewestRequestWins == Spec => []LastRequestIsShown
<1>1. PageLoadInv => LastRequestIsShown
  <2> SUFFICES ASSUME PageLoadInv, AtRest, asked # NoPromise PROVE LastRequestIsShown
    BY DEF LastRequestIsShown
  <2> QED
    BY RestIsDestiny DEF PageLoadInv, PromiseOK, PromiseIsDestiny, LastRequestIsShown
<1> QED
  BY <1>1, TabFollowsItsLoads, PTL

(* A tab that is closed comes back as what it was told to show, however    *)
(* far that has come (close_tab, reopen_tab); after a download it comes    *)
(* back as the web page that stayed.  Not if a page of the shell or an     *)
(* error page stayed: pending_web_uri keeps the link, and nothing is said. *)
THEOREM ClosedTabReturns == Spec => []ClosedTabComesBack
<1>1. PageLoadInv => ClosedTabComesBack
  <2> SUFFICES ASSUME PageLoadInv, questions = <<>>, asked # NoPromise,
                      tab.internal_uri \notin {"vantage:source", "vantage:image"}
               PROVE  RestoreUri = Named(asked)
    BY DEF ClosedTabComesBack
  <2>1. PromiseIsDestiny /\ PromiseIsNamed /\ Proper(tab)
    BY DEF PageLoadInv, PromiseOK, FieldsOK
  <2>2. ~Requested /\ ~WebRequested
    BY DEF Requested, WebRequested
  <2>3. CASE asked.uri \in Web
    <3>1. /\ tab.internal_uri = None /\ tab.display_uri = None
          /\ tab.pending_web_uri \in {None, asked.uri}
          /\ allowed # NoLoad /\ ~allowed.api => tab.pending_web_uri = asked.uri
      BY <2>1, <2>2, <2>3 DEF PromiseIsNamed
    <3>2. tab.pending_web_uri = None => ActiveUri = asked.uri
      <4> SUFFICES ASSUME tab.pending_web_uri = None PROVE ActiveUri = asked.uri
        OBVIOUS
      <4>1. allowed # NoLoad => allowed.api /\ allowed.live
        BY <2>1, <2>2, <2>3, <3>1, Names DEF PromiseIsDestiny
      <4> QED
        BY <2>1, <2>2, <4>1 DEF PromiseIsDestiny, Destiny, ActiveUri, NoLoad
    <3>3. asked.uri # Blank /\ asked.uri # None
      BY <2>3, Names
    <3> QED
      BY <2>3, <3>1, <3>2, <3>3 DEF RestoreUri, Named
  <2>4. CASE asked.uri = Blank
    <3>1. tab.internal_uri # None /\ asked.page \in {tab.internal_uri, Blank}
      BY <2>1, <2>2, <2>4 DEF PromiseIsNamed
    <3>2. tab.display_uri = None /\ tab.internal_uri \in Pages \cup {Blank}
      BY <2>1, <3>1 DEF Proper, TabFields, Internal
    <3> QED
      BY <2>4, <3>1, <3>2, Names DEF RestoreUri, Named
  <2> QED
    BY <2>1, <2>3, <2>4 DEF PromiseIsDestiny
<1> QED
  BY <1>1, TabFollowsItsLoads, PTL

-----------------------------------------------------------------------------
(* The variables that record what happened have their types, too.          *)

HistoryOK ==
  /\ shown \in BOOLEAN /\ missed \in BOOLEAN
  /\ asked \in Document \cup {NoPromise}
  /\ requests \in Nat /\ blanks \in Nat

LEMMA AskedIsDocument ==
  ASSUME NEW load \in Load, Asked(load)
  PROVE  asked' \in Document
BY DEF Asked, Load, Document

LEMMA LoadOfFacts ==
  ASSUME NEW target \in Web \cup Internal
  PROVE  LoadOf(target) \in Load
<1> DEFINE uri == IF target \in Web THEN target ELSE Blank
<1>1. Loadable([uri |-> uri, page |-> target])
  BY DEF Loadable
<1>2. LoadOf(target) = ByProgram(uri, target)
  BY DEF LoadOf
<1> QED
  BY <1>1, <1>2, ByProgramFacts

LEMMA HistoryStep == PageLoadInv /\ HistoryOK /\ [Next]_vars => HistoryOK'
<1> SUFFICES ASSUME PageLoadInv, HistoryOK, [Next]_vars PROVE HistoryOK'
  OBVIOUS
<1>1. CASE UNCHANGED vars
  BY <1>1 DEF HistoryOK, vars
<1>2. CASE Next
  <2>1. missed' \in BOOLEAN
    BY <1>2 DEF Next, Missing, HistoryOK
  <2>2. ASSUME NEW reason, Excused(reason)
        PROVE  asked' \in Document \cup {NoPromise}
    BY <2>2 DEF Excused, HistoryOK
  <2>3. /\ Proper(tab) /\ doc.uri \in Web \cup {Blank} /\ entries \subseteq Web
        /\ tab.internal_uri \in Internal \cup {None}
        /\ questions # <<>> => Head(questions) \in Load /\ QuestionOK(Head(questions))
    BY EmptySeq, ElementOfSeq DEF PageLoadInv, FieldsOK, QuestionsOK, InOrder, ViewOK, Proper, TabFields
  <2>4. ASSUME NEW target \in Web \cup Internal, LoadDecision(target)
        PROVE  HistoryOK'
    BY <2>1, <2>4, LoadOfFacts, AskedIsDocument DEF LoadDecision, HistoryOK
  <2>5. ASSUME NEW target, SubmitAddress(target)
        PROVE  HistoryOK'
    BY <2>1, <2>4, <2>5 DEF SubmitAddress, HistoryOK
  <2>6. ASSUME NEW target \in Linked, AgentNavigate(target)
        PROVE  HistoryOK'
    BY <2>4, <2>6 DEF AgentNavigate, Linked, Internal
  <2>7. ASSUME NEW uri \in Back, Revisit(uri)
        PROVE  HistoryOK'
    <3>1. Loadable([uri |-> uri, page |-> uri])
      BY <2>3, <2>7 DEF Back, Loadable
    <3> QED
      BY <2>1, <2>7, <3>1, ByProgramFacts, AskedIsDocument DEF Revisit, Request, HistoryOK
  <2>8. CASE Reload
    BY <2>1, <2>2, <2>8 DEF Reload, Request, HistoryOK
  <2>9. ASSUME NEW t, Halt(t)
        PROVE  HistoryOK'
    BY <2>1, <2>2, <2>9 DEF Halt, HistoryOK
  <2>10. CASE GoBack \/ GoAlong
    <3>1. "vantage:new" \in Web \cup Internal
      BY Names
    <3> QED
      BY <2>4, <2>7, <2>10, <3>1 DEF GoBack, GoAlong
  <2>11. CASE ReloadOrStop \/ AgentStop \/ AgentReload
    BY <2>3, <2>4, <2>8, <2>9, <2>11 DEF ReloadOrStop, AgentStop, AgentReload
  <2>12. ASSUME NEW target, NEW i, PageNavigates(target, i)
         PROVE  HistoryOK'
    BY <2>1, <2>2, <2>12 DEF PageNavigates, HistoryOK
  <2>13. ASSUME NEW found \in BOOLEAN, SourceLoaded(found)
         PROVE  HistoryOK'
    BY <2>1, <2>2, <2>13 DEF SourceLoaded, HistoryOK
  <2>14. ASSUME NEW show \in BOOLEAN, Select(show)
         PROVE  HistoryOK'
    BY <2>1, <2>14 DEF Select, HistoryOK
  <2>15. CASE DecidePolicy
    <3>1. questions # <<>> /\ UNCHANGED <<shown, requests, blanks>>
      BY <2>15 DEF DecidePolicy, Answer
    <3>2. asked' \in Document \cup {NoPromise}
      <4>1. CASE Answer(Head(questions), "own")
        <5>1. Asked(LoadOf(Head(questions).uri))
          BY <4>1 DEF Answer
        <5>2. Head(questions).uri \in Web \cup Internal
          BY <2>3, <3>1, QuestionFacts DEF Linked, Internal
        <5> QED
          BY <5>1, <5>2, LoadOfFacts, AskedIsDocument
      <4>2. CASE Asked(Head(questions))
        BY <2>3, <3>1, <4>2, AskedIsDocument
      <4>3. ASSUME NEW verdict \in {"allow", "ignore"}, Answer(Head(questions), verdict), ~Asked(Head(questions))
            PROVE  asked' \in Document \cup {NoPromise}
        <5>1. asked' = NoPromise \/ asked' = asked
          BY <4>3 DEF Answer, Excused
        <5> QED
          BY <5>1 DEF HistoryOK
      <4>4. \E verdict \in {"allow", "ignore", "own"} : Answer(Head(questions), verdict)
        BY <2>15, VerdictFacts DEF DecidePolicy
      <4> QED
        BY <4>1, <4>2, <4>3, <4>4
    <3> QED
      BY <2>1, <3>1, <3>2 DEF HistoryOK
  <2>16. CASE LoadStarted
    BY <2>1, <2>16 DEF LoadStarted, HistoryOK
  <2>17. CASE LoadFinished \/ WebProcessTerminated
    BY <2>1, <2>2, <2>17 DEF LoadFinished, WebProcessTerminated, HistoryOK
  <2>18. ASSUME NEW blank \in BOOLEAN, LoadCommitted(blank)
         PROVE  HistoryOK'
    BY <2>1, <2>2, <2>18 DEF LoadCommitted, HistoryOK
  <2>19. ASSUME NEW cancelled \in BOOLEAN, LoadFails(cancelled)
         PROVE  HistoryOK'
    <3>1. FallenBack \in Document \cup {NoPromise}
      BY DEF FallenBack, PageLoadInv, ViewOK, Document
    <3> QED
      BY <2>1, <2>2, <2>19, <3>1 DEF LoadFails, HistoryOK
  <2>20. Requests => HistoryOK'
    BY <2>5, <2>6, <2>10, <2>11, <2>12, <2>13, <2>14 DEF Requests, Linked
  <2>21. WebKit => HistoryOK'
    BY <2>15, <2>16, <2>17, <2>18, <2>19 DEF WebKit
  <2> QED
    BY <1>2, <2>20, <2>21 DEF Next
<1> QED
  BY <1>1, <1>2

(* A tab's fields, the loads and the questions are what the code can make  *)
(* of them.                                                                *)
THEOREM PageLoadIsTyped == Spec => []TypeOK
<1>1. Init => HistoryOK
  <2> SUFFICES ASSUME Init PROVE HistoryOK
    OBVIOUS
  <2>1. asked = [uri |-> Last(questions).uri, page |-> Last(questions).page]
    BY DEF Init
  <2>2. Last(questions) \in Load
    <3>1. questions # <<>>
      <4>1. (\E l : questions = <<l>>) \/ (\E k, l : questions = <<k, l>>)
        BY Zenon DEF Init
      <4> QED
        BY <4>1
    <3>2. questions \in Seq(Load)
      BY PageLoadInit DEF PageLoadInv, QuestionsOK, InOrder
    <3>3. Len(questions) \in 1..Len(questions)
      BY <3>1, <3>2, EmptySeq, LenProperties
    <3> QED
      BY <3>2, <3>3, ElementOfSeq DEF Last
  <2>3. asked \in Document
    BY <2>1, <2>2 DEF Load, Document
  <2> QED
    BY <2>3 DEF Init, HistoryOK
<1>2. PageLoadInv /\ HistoryOK => TypeOK
  BY DEF PageLoadInv, HistoryOK, TypeOK, QuestionsOK, InOrder, ViewOK, FieldsOK, Proper
<1> QED
  BY <1>1, <1>2, HistoryStep, TabFollowsItsLoads, PTL DEF Spec
=============================================================================
