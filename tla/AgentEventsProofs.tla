------------------------- MODULE AgentEventsProofs -------------------------
(***************************************************************************)
(* For any capacity, limits and clients: the event log and its followers   *)
(* implement the ordered feed.                                             *)
(***************************************************************************)
EXTENDS AgentEvents, FiniteSetTheorems, TLAPS

(* Nothing that was read, and no cursor, is ahead of the log; and no client *)
(* read anything its cursor has not passed.                                *)
ReadsAreBehind ==
  \A c \in Clients :
    /\ \A r \in read[c] : r < next /\ r <= cursor[c]
    /\ cursor[c] < next

IInv ==
  /\ TypeOK
  /\ LogIsGapless
  /\ DroppedCountsOverflow
  /\ ReadsAreBehind
  /\ NothingPassedOver

-----------------------------------------------------------------------------
(* What the log holds, put as an interval of numbers.                      *)
LEMMA LogIsInterval ==
  ASSUME TypeOK, LogIsGapless, DroppedCountsOverflow
  PROVE  /\ Len(events) < next
         /\ Log = (next - Len(events)) .. (next - 1)
<1>0. /\ Len(events) \in Nat /\ next \in Nat /\ DOMAIN events = 1..Len(events)
      /\ Len(events) < next
  BY DEF TypeOK, DroppedCountsOverflow
<1>1. Log \subseteq (next - Len(events)) .. (next - 1)
  BY <1>0 DEF LogIsGapless, Log, Range
<1>2. ASSUME NEW s \in (next - Len(events)) .. (next - 1)
      PROVE  s \in Log
  <2>2. s - (next - Len(events)) + 1 \in DOMAIN events
    BY <1>0
  <2>3. events[s - (next - Len(events)) + 1] = s
    BY <1>0, <2>2 DEF LogIsGapless
  <2> QED
    BY <2>2, <2>3 DEF Log, Range
<1> QED
  BY <1>0, <1>1, <1>2

(* A batch is a prefix of what is pending.                                 *)
LEMMA SinceIsPrefix ==
  ASSUME TypeOK, LogIsGapless, DroppedCountsOverflow,
         NEW after \in Nat, NEW limit \in Nat, NEW s \in Since(after, limit),
         NEW r \in Pending(after), r < s
  PROVE  r \in Since(after, limit)
<1> DEFINE below(x) == {q \in Pending(after) : q < x}
<1>0. /\ next - Len(events) \in Int /\ next - 1 \in Int
      /\ Log = (next - Len(events)) .. (next - 1)
  BY LogIsInterval DEF TypeOK
<1>1. Log \subseteq Int /\ Pending(after) \subseteq Log
  BY <1>0 DEF Pending
<1>2. s \in Int /\ r \in Int
  BY <1>1 DEF Since
<1>3. below(r) \subseteq below(s)
  <2> SUFFICES ASSUME NEW q \in Pending(after), q < r PROVE q < s
    OBVIOUS
  <2> QED
    BY <1>1, <1>2
<1>4. IsFiniteSet(Log)
  BY <1>0, FS_Interval
<1>5. IsFiniteSet(below(s))
  BY <1>1, <1>4, FS_Subset
<1>6. Cardinality(below(r)) <= Cardinality(below(s))
  BY <1>3, <1>5, FS_Subset
<1>7. Cardinality(below(r)) \in Nat /\ Cardinality(below(s)) \in Nat
  BY <1>3, <1>5, FS_Subset, FS_CardinalityType
<1>8. Cardinality(below(s)) < limit
  BY DEF Since
<1>9. Cardinality(below(r)) < limit
  BY <1>6, <1>7, <1>8
<1> QED
  BY <1>9 DEF Since

LEMMA SinceIsPending ==
  ASSUME NEW after, NEW limit
  PROVE  Since(after, limit) \subseteq Pending(after) /\ Pending(after) \subseteq Log
  BY DEF Since, Pending

-----------------------------------------------------------------------------
LEMMA InitIsFine == Init => IInv
  BY EventsAssumption DEF Init, IInv, TypeOK, LogIsGapless, DroppedCountsOverflow, ReadsAreBehind,
         NothingPassedOver, Log, Range, Cap

(* A sequence t of consecutive numbers that ends in front of n.            *)
Consecutive(t, n) == \A i \in 1..Len(t) : t[i] = n - Len(t) + i - 1

LEMMA Extended ==
  ASSUME NEW t \in Seq(Nat), NEW n \in Nat, Consecutive(t, n)
  PROVE  LET e == Append(t, n)
         IN  /\ e \in Seq(Nat) /\ Len(e) = Len(t) + 1
             /\ Consecutive(e, n + 1)
             /\ Range(e) \subseteq Range(t) \cup {n} /\ n \in Range(e)
<1> DEFINE e == Append(t, n)
<1>1. /\ e \in Seq(Nat) /\ Len(e) = Len(t) + 1 /\ Len(t) \in Nat
      /\ DOMAIN e = 1..(Len(t) + 1) /\ DOMAIN t = 1..Len(t)
  OBVIOUS
<1>2. e[Len(t) + 1] = n /\ \A i \in 1..Len(t) : e[i] = t[i]
  OBVIOUS
<1> HIDE DEF e
<1>3. \A i \in 1..(Len(t) + 1) : i = Len(t) + 1 \/ i \in 1..Len(t)
  BY <1>1
<1>4. Consecutive(e, n + 1)
  BY <1>1, <1>2, <1>3 DEF Consecutive
<1>5. Range(e) \subseteq Range(t) \cup {n} /\ n \in Range(e)
  BY <1>1, <1>2, <1>3 DEF Range
<1> QED
  BY <1>1, <1>4, <1>5 DEF e

LEMMA Shifted ==
  ASSUME NEW t \in Seq(Nat), NEW n \in Nat, Consecutive(t, n), Len(t) >= 1
  PROVE  LET e == Append(Tail(t), n)
         IN  /\ e \in Seq(Nat) /\ Len(e) = Len(t)
             /\ Consecutive(e, n + 1)
             /\ Range(e) \subseteq Range(t) \cup {n} /\ n \in Range(e)
<1> DEFINE u == Tail(t)
<1>1. /\ u \in Seq(Nat) /\ Len(u) = Len(t) - 1 /\ Len(t) \in Nat
      /\ DOMAIN u = 1..(Len(t) - 1) /\ DOMAIN t = 1..Len(t)
  OBVIOUS
<1>2. \A i \in 1..(Len(t) - 1) : u[i] = t[i + 1] /\ i + 1 \in 1..Len(t)
  BY <1>1
<1> HIDE DEF u
<1>3. Consecutive(u, n)
  BY <1>1, <1>2 DEF Consecutive
<1>4. Range(u) \subseteq Range(t)
  BY <1>1, <1>2 DEF Range
<1>5. LET e == Append(u, n)
      IN  /\ e \in Seq(Nat) /\ Len(e) = Len(u) + 1
          /\ Consecutive(e, n + 1)
          /\ Range(e) \subseteq Range(u) \cup {n} /\ n \in Range(e)
  BY <1>1, <1>3, Extended
<1>6. Len(u) + 1 = Len(t)
  BY <1>1
<1> QED
  BY <1>4, <1>5, <1>6 DEF u

(* A new number is ahead of every cursor.                                  *)
LEMMA NewNumberStep ==
  ASSUME IInv, next' = next + 1, Log' \subseteq Log \cup {next},
         UNCHANGED <<cursor, read>>
  PROVE  ReadsAreBehind' /\ NothingPassedOver'
<1>1. /\ next \in Nat /\ cursor \in [Clients -> Nat] /\ read \in [Clients -> SUBSET Nat]
      /\ Followers \subseteq Clients
  BY DEF IInv, TypeOK, Clients
<1>2. ReadsAreBehind'
  BY <1>1 DEF IInv, ReadsAreBehind
<1>3. NothingPassedOver'
  BY <1>1 DEF IInv, ReadsAreBehind, NothingPassedOver
<1> QED
  BY <1>2, <1>3

(* The new event goes to the end; the oldest makes room for it.            *)
LEMMA PublishStep ==
  ASSUME IInv, Publish
  PROVE  IInv' /\ Log' \subseteq Log \cup {next} /\ next \in Log'
<1>0. Cap \in Nat \ {0}
  BY EventsAssumption DEF Cap
<1>1. /\ events \in Seq(Nat) /\ next \in Nat /\ DOMAIN events = 1..Len(events)
      /\ Len(events) \in Nat /\ Len(events) <= Cap /\ Consecutive(events, next)
  BY DEF IInv, TypeOK, LogIsGapless, Consecutive
<1>2. next' = next + 1 /\ UNCHANGED <<base, cursor, read>>
  BY DEF Publish
<1>3. /\ events' \in Seq(Nat) /\ Consecutive(events', next + 1)
      /\ Range(events') \subseteq Range(events) \cup {next} /\ next \in Range(events')
      /\ \/ Len(events') = Len(events) /\ dropped' = dropped + 1
         \/ Len(events') = Len(events) + 1 /\ dropped' = dropped /\ Len(events) < Cap
  <2>1. CASE Len(events) >= Cap
    <3>1. events' = Append(Tail(events), next) /\ dropped' = dropped + 1 /\ Len(events) >= 1
      BY <1>0, <1>1, <2>1 DEF Publish
    <3> QED
      BY <1>1, <3>1, Shifted
  <2>2. CASE Len(events) < Cap
    <3>1. events' = Append(events, next) /\ dropped' = dropped
      BY <1>0, <1>1, <2>2 DEF Publish
    <3> QED
      BY <1>1, <2>2, <3>1, Extended
  <2> QED
    BY <1>0, <1>1, <2>1, <2>2
<1>4. Log' \subseteq Log \cup {next} /\ next \in Log'
  BY <1>3 DEF Log
<1>5. DOMAIN events' = 1..Len(events') /\ Len(events') \in Nat
  BY <1>3
<1>6. LogIsGapless'
  <2>1. \A i \in DOMAIN events' : events'[i] = next' - Len(events') + i - 1
    BY <1>2, <1>3, <1>5 DEF Consecutive
  <2>2. Len(events') <= Cap
    BY <1>0, <1>1, <1>3
  <2> QED
    BY <2>1, <2>2 DEF LogIsGapless, Cap
<1>7. DroppedCountsOverflow'
  <2>1. base' = base /\ next' = next + 1
    BY <1>2
  <2>0. base \in Nat /\ dropped \in Nat
    BY DEF IInv, TypeOK
  <2>4. base + dropped + Len(events) = next
    BY DEF IInv, DroppedCountsOverflow
  <2>2. dropped' + Len(events') = dropped + Len(events) + 1
    <3>1. CASE Len(events') = Len(events) /\ dropped' = dropped + 1
      BY <1>1, <2>0, <3>1
    <3>2. CASE Len(events') = Len(events) + 1 /\ dropped' = dropped
      BY <1>1, <2>0, <3>2
    <3> QED
      BY <1>3, <3>1, <3>2
  <2>3. dropped' \in Nat
    BY <1>3, <2>0
  <2> QED
    BY <1>1, <1>5, <2>0, <2>1, <2>2, <2>3, <2>4, Z3 DEF DroppedCountsOverflow
<1>8. TypeOK'
  BY <1>2, <1>3 DEF IInv, TypeOK
<1> QED
  BY <1>2, <1>4, <1>6, <1>7, <1>8, NewNumberStep DEF IInv

LEMMA EmptyStep ==
  ASSUME IInv, Clear
  PROVE  IInv' /\ Log' = {}
<1> USE DEF IInv
<1>1. events' = <<>> /\ Log' = {}
  BY DEF Clear, Log, Range
<1>2. LogIsGapless'
  BY <1>1, EventsAssumption DEF LogIsGapless, Cap
<1>3. NothingPassedOver'
  BY <1>1 DEF NothingPassedOver
<1> QED
  BY <1>1, <1>2, <1>3 DEF Clear, TypeOK, DroppedCountsOverflow, ReadsAreBehind

(* A poll leaves the log alone.                                            *)
LEMMA PollStep ==
  ASSUME IInv, NEW c \in Clients, NEW limit \in Limits,
         \/ c \in Followers /\ Follow(c, limit)
         \/ c \in Watchers /\ Watch(c, limit)
  PROVE  IInv'
<1> DEFINE batch == Since(cursor[c], limit)
<1> USE DEF IInv
<1>1. /\ UNCHANGED <<events, next, dropped, base>> /\ Log' = Log
      /\ read' = [read EXCEPT ![c] = @ \cup batch]
  BY DEF Follow, Watch, Log
<1>2. /\ batch \subseteq Log /\ \A s \in batch : s > cursor[c]
      /\ cursor[c] \in Nat /\ limit \in Nat
  BY SinceIsPending, EventsAssumption DEF Pending, TypeOK
<1>3. /\ Log = (next - Len(events)) .. (next - 1) /\ next \in Nat \ {0}
      /\ Log \subseteq Nat
  BY LogIsInterval DEF TypeOK
<1> HIDE DEF batch
<1>4. read' \in [Clients -> SUBSET Nat]
  BY <1>1, <1>2, <1>3 DEF TypeOK
<1>5. CASE c \in Followers /\ Follow(c, limit) /\ batch = {}
  <2>1. cursor' = cursor /\ read' = read
    BY <1>1, <1>5 DEF Follow, batch, TypeOK
  <2> QED
    BY <1>1, <2>1 DEF TypeOK, LogIsGapless, DroppedCountsOverflow, ReadsAreBehind,
                      NothingPassedOver
<1>6. CASE c \in Followers /\ Follow(c, limit) /\ batch # {}
  <2>1. PICK last \in batch :
          (\A s \in batch : s <= last) /\ cursor' = [cursor EXCEPT ![c] = last]
    BY <1>6 DEF Follow, batch
  <2>2. last \in Nat /\ last < next /\ last > cursor[c] /\ last \in Since(cursor[c], limit)
    BY <1>2, <1>3, <2>1 DEF batch
  <2>3. cursor' \in [Clients -> Nat]
    BY <2>1, <2>2 DEF TypeOK
  <2>4. ReadsAreBehind'
    <3> SUFFICES ASSUME NEW d \in Clients
                 PROVE  /\ \A r \in read'[d] : r < next /\ r <= cursor'[d]
                        /\ cursor'[d] < next
      BY <1>1 DEF ReadsAreBehind
    <3>1. CASE d # c
      BY <1>1, <2>1, <3>1 DEF TypeOK, ReadsAreBehind
    <3>2. CASE d = c
      <4>1. cursor'[d] = last /\ read'[d] = read[c] \cup batch
        BY <1>1, <2>1, <3>2 DEF TypeOK
      <4>2. read[c] \subseteq Nat /\ batch \subseteq Nat
        BY <1>2, <1>3 DEF TypeOK
      <4>3. \A r \in read[c] : r < next /\ r <= last
        BY <1>2, <2>2, <4>2 DEF ReadsAreBehind
      <4>4. \A r \in batch : r < next /\ r <= last
        BY <1>2, <1>3, <2>1
      <4> QED
        BY <2>2, <4>1, <4>3, <4>4
    <3> QED
      BY <3>1, <3>2
  <2>5. NothingPassedOver'
    <3> SUFFICES ASSUME NEW d \in Followers, NEW s \in Log, s <= cursor'[d]
                 PROVE  s \in read'[d]
      BY <1>1 DEF NothingPassedOver
    <3>0. d \in Clients
      BY DEF Clients
    <3>1. CASE d # c
      BY <1>1, <2>1, <3>0, <3>1 DEF TypeOK, NothingPassedOver
    <3>2. CASE d = c
      <4>1. s <= last /\ read'[d] = read[c] \cup batch
        BY <1>1, <2>1, <3>2 DEF TypeOK
      <4>2. CASE s <= cursor[c]
        BY <3>2, <4>1, <4>2 DEF NothingPassedOver
      <4>3. CASE ~(s <= cursor[c])
        <5>1. s \in Pending(cursor[c])
          BY <1>2, <1>3, <4>3 DEF Pending
        <5>2. CASE s = last
          BY <2>1, <4>1, <5>2
        <5>3. CASE s # last
          <6>1. s < last
            BY <1>3, <2>2, <4>1, <5>3
          <6> QED
            BY <1>2, <2>2, <4>1, <5>1, <6>1, SinceIsPrefix DEF batch
        <5> QED
          BY <5>2, <5>3
      <4> QED
        BY <4>2, <4>3
    <3> QED
      BY <3>1, <3>2
  <2> QED
    BY <1>1, <1>4, <2>3, <2>4, <2>5 DEF TypeOK, LogIsGapless, DroppedCountsOverflow
<1>7. CASE c \in Watchers /\ Watch(c, limit)
  <2>1. cursor' = [cursor EXCEPT ![c] = next - 1]
    BY <1>7 DEF Watch, Latest
  <2>2. cursor' \in [Clients -> Nat]
    BY <1>3, <2>1 DEF TypeOK
  <2>3. ReadsAreBehind'
    <3> SUFFICES ASSUME NEW d \in Clients
                 PROVE  /\ \A r \in read'[d] : r < next /\ r <= cursor'[d]
                        /\ cursor'[d] < next
      BY <1>1 DEF ReadsAreBehind
    <3>1. CASE d # c
      BY <1>1, <2>1, <3>1 DEF TypeOK, ReadsAreBehind
    <3>2. CASE d = c
      <4>1. cursor'[d] = next - 1 /\ read'[d] = read[c] \cup batch
        BY <1>1, <2>1, <3>2 DEF TypeOK
      <4>2. read[c] \subseteq Nat /\ batch \subseteq Nat
        BY <1>2, <1>3 DEF TypeOK
      <4>3. (\A r \in read[c] : r < next) /\ (\A r \in batch : r < next)
        BY <1>2, <1>3 DEF ReadsAreBehind
      <4>4. \A r \in read'[d] : r \in Nat /\ r < next
        BY <4>1, <4>2, <4>3
      <4>5. \A r \in Nat : r < next => r <= next - 1
        BY <1>3
      <4> QED
        BY <1>3, <4>1, <4>4, <4>5
    <3> QED
      BY <3>1, <3>2
  <2>4. NothingPassedOver'
    <3>1. c \notin Followers
      BY <1>7, EventsAssumption
    <3> QED
      BY <1>1, <2>1, <3>1 DEF TypeOK, NothingPassedOver, Clients
  <2> QED
    BY <1>1, <1>4, <2>2, <2>3, <2>4 DEF TypeOK, LogIsGapless, DroppedCountsOverflow
<1> QED
  BY <1>5, <1>6, <1>7

LEMMA StepPreserves == IInv /\ [Next]_vars => IInv'
<1> SUFFICES ASSUME IInv, [Next]_vars PROVE IInv'
  OBVIOUS
<1>1. CASE Next
  BY <1>1, PublishStep, EmptyStep, PollStep DEF Next, Poll
<1>2. CASE UNCHANGED vars
  BY <1>2 DEF vars, IInv, TypeOK, LogIsGapless, DroppedCountsOverflow, ReadsAreBehind,
              NothingPassedOver, Log
<1> QED
  BY <1>1, <1>2

-----------------------------------------------------------------------------
(* The invariant holds in every reachable state.                           *)
THEOREM Inductive == Spec => []IInv
  BY InitIsFine, StepPreserves, PTL DEF Spec

(* The numbers in the log are consecutive and end with the latest.         *)
THEOREM GaplessLog == Spec => []LogIsGapless
<1>1. IInv => LogIsGapless
  BY DEF IInv
<1> QED
  BY <1>1, Inductive, PTL

(* dropped() is the number of events the ring had no room for.             *)
THEOREM DroppedIsExact == Spec => []DroppedCountsOverflow
<1>1. IInv => DroppedCountsOverflow
  BY DEF IInv
<1> QED
  BY <1>1, Inductive, PTL

(* A follower's cursor never passes an event that is in the log and that   *)
(* it was not given.                                                       *)
THEOREM NoSilentGap == Spec => []NothingPassedOver
<1>1. IInv => NothingPassedOver
  BY DEF IInv
<1> QED
  BY <1>1, Inductive, PTL

(* No client is given an event twice.                                      *)
THEOREM OnceEach == Spec => EachEventOnce
<1>1. ASSUME IInv, NEW c \in Clients, NEW limit \in Limits
      PROVE  Since(cursor[c], limit) \cap read[c] = {}
  <2>1. ASSUME NEW s \in Since(cursor[c], limit), s \in read[c] PROVE FALSE
    BY <1>1, <2>1, SinceIsPending DEF IInv, TypeOK, ReadsAreBehind, Pending
  <2> QED
    BY <2>1
<1>2. IInv => [\A c \in Clients, limit \in Limits :
                 Follow(c, limit) \/ Watch(c, limit) =>
                   Since(cursor[c], limit) \cap read[c] = {}]_vars
  BY <1>1
<1> QED
  BY <1>2, Inductive, PTL DEF EachEventOnce

(* The log and the clients that follow   *)
(* it implement the feed: every event once, in order, and none passed over *)
(* that the log still has.                                                 *)
THEOREM RefinesFeed == Spec => ImplementsFeed
<1> SUFFICES Spec => Feed!Spec
  BY DEF ImplementsFeed
<1> USE DEF Latest
<1>1. Init => Feed!Init
  BY DEF Init, Feed!Init, Log, Range, Clients
<1>2. IInv /\ [Next]_vars => [Feed!Next]_(Feed!vars)
  <2> SUFFICES ASSUME IInv, [Next]_vars PROVE Feed!Next \/ UNCHANGED Feed!vars
    OBVIOUS
  <2>0. /\ next \in Nat /\ read \in [Clients -> SUBSET Nat]
        /\ Followers \subseteq Clients
    BY DEF IInv, TypeOK, Clients
  <2>1. CASE Publish
    <3>1. next - 1 + 1 = next /\ next' = next + 1 /\ read' = read
      BY <2>0, <2>1 DEF Publish
    <3>2. Log' \subseteq Log \cup {next} /\ next \in Log'
      BY <2>1, PublishStep
    <3>3. (Log' \ {next}) \cap Log \in SUBSET Log
      OBVIOUS
    <3>4. Log' = ((Log' \ {next}) \cap Log) \cup {next - 1 + 1}
      BY <3>1, <3>2
    <3>5. next' - 1 = next - 1 + 1
      BY <2>0, <3>1
    <3>6. [c \in Followers |-> read'[c]] = [c \in Followers |-> read[c]]
      BY <3>1
    <3> QED
      BY <3>3, <3>4, <3>5, <3>6 DEF Feed!Next, Feed!Publish
  <2>2. CASE Clear
    <3>1. next' = next /\ read' = read /\ Log' = {}
      BY <2>2, EmptyStep DEF Clear
    <3>2. Log' \in SUBSET Log
      BY <3>1
    <3> QED
      BY <3>1, <3>2 DEF Feed!Next, Feed!Lose
  <2>4. ASSUME NEW c \in Clients, NEW limit \in Limits, c \in Followers, Follow(c, limit)
        PROVE  Feed!Next
    <3> DEFINE batch == Since(cursor[c], limit)
    <3>1. next' = next /\ Log' = Log /\ read' = [read EXCEPT ![c] = @ \cup batch]
      BY <2>4 DEF Follow, Log
    <3>2. /\ cursor[c] \in Nat /\ limit \in Nat /\ batch \subseteq Log /\ Log \subseteq Nat
          /\ batch \subseteq Pending(cursor[c])
      BY SinceIsPending, LogIsInterval, EventsAssumption DEF IInv, TypeOK
    <3>3. ASSUME NEW s \in batch, NEW r \in read[c] PROVE r < s
      <4>1. r <= cursor[c] /\ r \in Nat
        BY <2>0, <3>3 DEF IInv, ReadsAreBehind
      <4>2. s > cursor[c] /\ s \in Nat
        BY <3>2, <3>3 DEF Pending
      <4> QED
        BY <3>2, <4>1, <4>2
    <3>4. ASSUME NEW s \in batch, NEW r \in Log \ read[c], r < s PROVE r \in batch
      <4>1. r \notin read[c] /\ r \in Nat
        BY <3>2
      <4>2. ~(r <= cursor[c])
        BY <2>0, <2>4, <4>1 DEF IInv, NothingPassedOver
      <4>3. r \in Pending(cursor[c])
        BY <3>2, <4>1, <4>2 DEF Pending
      <4> QED
        BY <3>2, <3>4, <4>3, SinceIsPrefix DEF IInv
    <3> HIDE DEF batch
    <3>5. [d \in Followers |-> read'[d]]
            = [[d \in Followers |-> read[d]] EXCEPT ![c] = @ \cup batch]
      BY <2>0, <2>4, <3>1
    <3>6. batch \in SUBSET Log /\ [d \in Followers |-> read[d]][c] = read[c]
      BY <2>4, <3>2
    <3>7. Feed!Read(c)
      BY <3>1, <3>3, <3>4, <3>5, <3>6 DEF Feed!Read
    <3> QED
      BY <2>4, <3>7 DEF Feed!Next
  <2>5. ASSUME NEW c \in Clients, NEW limit \in Limits, c \in Watchers, Watch(c, limit)
        PROVE  UNCHANGED Feed!vars
    <3>1. /\ next' = next /\ Log' = Log
          /\ read' = [read EXCEPT ![c] = @ \cup Since(cursor[c], limit)]
      BY <2>5 DEF Watch, Log
    <3>2. c \notin Followers
      BY <2>5, EventsAssumption
    <3>3. [d \in Followers |-> read'[d]] = [d \in Followers |-> read[d]]
      BY <2>0, <3>1, <3>2
    <3> QED
      BY <3>1, <3>3 DEF Feed!vars
  <2>6. CASE UNCHANGED vars
    <3>1. next' = next /\ Log' = Log /\ read' = read
      BY <2>6 DEF vars, Log
    <3> QED
      BY <3>1 DEF Feed!vars
  <2> QED
    BY <2>1, <2>2, <2>4, <2>5, <2>6 DEF Next, Poll
<1> QED
  BY <1>1, <1>2, Inductive, PTL DEF Spec, Feed!Spec
=============================================================================
