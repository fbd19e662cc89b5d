--------------------------- MODULE AgentRpcProofs ---------------------------
(***************************************************************************)
(* For any number of connections: requests are executed one at a time and  *)
(* not beside the main loop, answers are what they say, and stop() leaves  *)
(* no thread behind.  For any number of browser processes: the server that *)
(* has the agent's pathname keeps it.                                      *)
(***************************************************************************)
EXTENDS AgentRpc, AgentSocket, TLAPS

(* The context is owned by the main thread while the loop runs, and        *)
(* otherwise by the one connection's thread that executes a request.       *)
ContextIsOwned ==
  /\ owner = Main <=> loop = "running"
  /\ \A c \in Conns : owner = c <=> conn[c] = "dispatching"

(* The acceptor holds the one connection that has no thread yet.           *)
AcceptorHolds == \A c \in Conns : acceptor = c <=> conn[c] = "accepted"

(* stop() is called once the loop is over, and each of its calls leaves    *)
(* less behind: nobody waits to be accepted, nobody accepts, no thread.    *)
StopGoesOn ==
  /\ server # "serving" => loop = "after" /\ \A c \in Conns : conn[c] # "backlog"
  /\ acceptor = "ended" => server # "serving"
  /\ server \in {"joining", "stopped"} => acceptor = "ended"
  /\ server = "stopped" => \A c \in Conns : conn[c] \notin Thread

(* The places of a thread whose request has been handed over, or refused.  *)
Past == {"waiting", "checking", "writing", "closed"}

(* There is nothing in `reply` before the request was handed over.         *)
DecidedLate == \A c \in Conns : conn[c] \notin Past => answer[c] = "none"

(* The requests on their way to be executed, or executed.                  *)
Queued == ToSet(queue)

Known == pending \cup replied \cup late \cup Queued

(* A request is known only once its thread handed it over.                 *)
HandedOver == \A c \in Known : conn[c] \in Past

(* What is handed over, or about to be, is a request.                      *)
LineRead ==
  \A c \in Conns :
    conn[c] \in {"invoking", "dispatching", "waiting", "checking"} => line[c] = "request"

(* While the thread waits, and until it decides, `reply` is what the flag  *)
(* says; a reply is late only for a thread that has given up.              *)
RepliesAreFlagged ==
  \A c \in Conns :
    /\ c \in late => GaveUp(c)
    /\ c \notin late /\ conn[c] \in {"waiting", "checking"} =>
         /\ c \in replied => answer[c] = "reply"
         /\ c \notin replied => answer[c] = "none"

(* ExecutedOnce, in terms of sets.                                         *)
QueuedOnce == \A i, j \in DOMAIN queue : i # j => queue[i] # queue[j]

InOnePlace ==
  /\ Queued \cap (pending \cup replied \cup late) = {}
  /\ pending \cap (replied \cup late) = {}
  /\ \A c \in Known : line[c] = "request"

(* What decides about the threads, and what about the requests.            *)
ThreadInv == ContextIsOwned /\ AcceptorHolds /\ StopGoesOn

RequestInv ==
  /\ DecidedLate /\ HandedOver /\ LineRead /\ RepliesAreFlagged
  /\ AnswersAreHonest /\ QueuedOnce /\ InOnePlace

IInv == TypeOK /\ ThreadInv /\ RequestInv

-----------------------------------------------------------------------------
LEMMA InitIInv == Init => IInv
<1> SUFFICES ASSUME Init PROVE IInv
  OBVIOUS
<1>1. TypeOK
  BY RpcAssumption DEF Init, TypeOK
<1>2. ThreadInv
  BY RpcAssumption DEF Init, ThreadInv, ContextIsOwned, AcceptorHolds, StopGoesOn
<1>3. queue = <<>> /\ ToSet(queue) = {}
  BY DEF Init, ToSet
<1>4. RequestInv
  BY <1>3 DEF Init, RequestInv, DecidedLate, HandedOver, LineRead, RepliesAreFlagged,
              AnswersAreHonest, QueuedOnce, InOnePlace, Known, Queued
<1> QED
  BY <1>1, <1>2, <1>4 DEF IInv

(* The types.                                                              *)
LEMMA DispatchTypes ==
  ASSUME TypeOK, NEW c \in Conns, Dispatch(c)
  PROVE  /\ pending' \subseteq Conns /\ replied' \subseteq Conns /\ late' \subseteq Conns
         /\ answer' \in [Conns -> {"none", "reply", "timeout", "invalid", "torn"}]
<1>1. CASE Reply(c) /\ UNCHANGED pending
  BY <1>1 DEF TypeOK, Reply
<1>2. CASE pending' = pending \cup {c} /\ UNCHANGED <<replied, answer, late>>
  BY <1>2 DEF TypeOK
<1> QED
  BY <1>1, <1>2 DEF Dispatch

LEMMA StepKeepsTypes == TypeOK /\ [Next]_vars => TypeOK'
<1> SUFFICES ASSUME TypeOK, [Next]_vars PROVE TypeOK'
  OBVIOUS
<1> USE RpcAssumption DEF TypeOK, Thread, Goto
<1>1. ASSUME NEW c \in Conns, Connect(c) PROVE TypeOK'
  BY <1>1 DEF Connect
<1>2. ASSUME NEW c \in Conns, Send(c) PROVE TypeOK'
  BY <1>2 DEF Send
<1>3. ASSUME NEW c \in Conns, ReadLine(c) PROVE TypeOK'
  BY <1>3 DEF ReadLine
<1>4. ASSUME NEW c \in Conns, Invoke(c) PROVE TypeOK'
  <2>1. Append(queue, c) \in Seq(Conns)
    OBVIOUS
  <2>2. owner' \in Conns \cup {Main, Nobody} /\ queue' \in Seq(Conns)
    BY <1>4, <2>1 DEF Invoke
  <2>3. conn' \in [Conns -> {"off", "backlog", "accepted", "closed"} \cup Thread]
    BY <1>4 DEF Invoke
  <2> QED
    BY <1>4, <2>2, <2>3 DEF Invoke
<1>5. ASSUME NEW c \in Conns, DispatchHere(c) PROVE TypeOK'
  BY <1>5, DispatchTypes DEF DispatchHere
<1>6. ASSUME NEW c \in Conns, Wake(c) \/ Timeout(c) \/ Check(c) \/ Write(c) PROVE TypeOK'
  BY <1>6 DEF Wake, Timeout, Check, Write
<1>7. CASE AcceptorStep
  BY <1>7 DEF AcceptorStep, AcceptorEnds, Accept, Spawn
<1>8. CASE StopStep
  BY <1>8 DEF StopStep, Stop, JoinAcceptor, JoinClients
<1>9. CASE RunApplication \/ ApplicationEnds
  BY <1>9 DEF RunApplication, ApplicationEnds
<1>10. CASE MainDispatch
  <2>1. Head(queue) \in Conns /\ Dispatch(Head(queue)) /\ queue' \in Seq(Conns)
    BY <1>10 DEF MainDispatch
  <2> QED
    BY <1>10, <2>1, DispatchTypes DEF MainDispatch
<1>11. ASSUME NEW c \in Conns, Callback(c) PROVE TypeOK'
  BY <1>11 DEF Callback, Reply
<1>12. CASE Dies
  BY <1>12 DEF Dies
<1>13. CASE UNCHANGED vars
  BY <1>13 DEF vars
<1> QED
  BY <1>1, <1>2, <1>3, <1>4, <1>5, <1>6, <1>7, <1>8, <1>9, <1>10, <1>11, <1>12, <1>13
  DEF Next, Step, MainStep

(* Who runs, and who has the context.                                      *)
LEMMA StepKeepsThreads == TypeOK /\ ThreadInv /\ [Next]_vars => ThreadInv'
<1> SUFFICES ASSUME TypeOK, ThreadInv, [Next]_vars PROVE ThreadInv'
  OBVIOUS
<1> USE RpcAssumption
    DEF TypeOK, Thread, Goto, ThreadInv, ContextIsOwned, AcceptorHolds, StopGoesOn
<1>1. ASSUME NEW c \in Conns, Connect(c) PROVE ThreadInv'
  BY <1>1 DEF Connect
<1>2. ASSUME NEW c \in Conns, Send(c) PROVE ThreadInv'
  BY <1>2 DEF Send
<1>3. ASSUME NEW c \in Conns, ReadLine(c) PROVE ThreadInv'
  BY <1>3 DEF ReadLine
<1>4. ASSUME NEW c \in Conns, Invoke(c) PROVE ThreadInv'
  BY <1>4 DEF Invoke
<1>5. ASSUME NEW c \in Conns, DispatchHere(c) PROVE ThreadInv'
  BY <1>5 DEF DispatchHere
<1>6. ASSUME NEW c \in Conns, Wake(c) \/ Timeout(c) \/ Check(c) \/ Write(c) PROVE ThreadInv'
  <2>1. /\ conn[c] \in {"waiting", "checking", "writing"}
        /\ \E to \in {"checking", "writing", "closed"} : conn' = [conn EXCEPT ![c] = to]
        /\ UNCHANGED <<loop, owner, server, acceptor>>
    BY <1>6 DEF Wake, Timeout, Check, Write
  <2>2. server # "stopped"
    BY <2>1
  <2> QED
    BY <2>1, <2>2
<1>7. CASE AcceptorStep
  BY <1>7 DEF AcceptorStep, AcceptorEnds, Accept, Spawn
<1>8. CASE StopStep
  BY <1>8 DEF StopStep, Stop, JoinAcceptor, JoinClients
<1>9. CASE RunApplication \/ ApplicationEnds
  BY <1>9 DEF RunApplication, ApplicationEnds
<1>10. CASE MainDispatch \/ \E c \in Conns : Callback(c)
  BY <1>10 DEF MainDispatch, Callback
<1>11. CASE Dies
  BY <1>11 DEF Dies
<1>12. CASE UNCHANGED vars
  BY <1>12 DEF vars
<1> QED
  BY <1>1, <1>2, <1>3, <1>4, <1>5, <1>6, <1>7, <1>8, <1>9, <1>10, <1>11, <1>12
  DEF Next, Step, MainStep

-----------------------------------------------------------------------------
(* Queues: what appending to one and taking from one does.                 *)
LEMMA QueueFacts ==
  ASSUME NEW q \in Seq(Conns), NEW c \in Conns
  PROVE  /\ ToSet(q) = {q[i] : i \in 1..Len(q)} /\ DOMAIN q = 1..Len(q) /\ Len(q) \in Nat
         /\ ToSet(q) \subseteq Conns
         /\ \A i \in 1..Len(q) : q[i] \in ToSet(q)
         /\ ToSet(Append(q, c)) = ToSet(q) \cup {c}
         /\ Len(Append(q, c)) = Len(q) + 1
         /\ \A i \in 1..Len(q) : Append(q, c)[i] = q[i]
         /\ Append(q, c)[Len(q) + 1] = c
<1>1. /\ ToSet(q) = {q[i] : i \in 1..Len(q)} /\ DOMAIN q = 1..Len(q) /\ Len(q) \in Nat
      /\ \A i \in 1..Len(q) : q[i] \in ToSet(q)
      /\ ToSet(q) \subseteq Conns
  BY DEF ToSet
<1>2. /\ Append(q, c) \in Seq(Conns) /\ Len(Append(q, c)) = Len(q) + 1
      /\ DOMAIN Append(q, c) = 1..(Len(q) + 1)
      /\ \A i \in 1..Len(q) : Append(q, c)[i] = q[i]
      /\ Append(q, c)[Len(q) + 1] = c
  BY <1>1
<1>3. ToSet(Append(q, c)) = {Append(q, c)[i] : i \in 1..(Len(q) + 1)}
  BY <1>2 DEF ToSet
<1>4. ToSet(Append(q, c)) \subseteq ToSet(q) \cup {c}
  BY <1>1, <1>2, <1>3
<1>5. ToSet(q) \cup {c} \subseteq ToSet(Append(q, c))
  <2>1. c \in ToSet(Append(q, c))
    BY <1>1, <1>2, <1>3
  <2>2. ASSUME NEW d \in ToSet(q) PROVE d \in ToSet(Append(q, c))
    <3>1. PICK i \in 1..Len(q) : d = q[i]
      BY <1>1, <2>2
    <3>2. i \in 1..(Len(q) + 1) /\ Append(q, c)[i] = d
      BY <1>1, <1>2, <3>1
    <3> QED
      BY <1>3, <3>2
  <2> QED
    BY <2>1, <2>2
<1> QED
  BY <1>1, <1>2, <1>4, <1>5

(* A queue without repetitions, without its first element.                 *)
LEMMA TailFacts ==
  ASSUME NEW q \in Seq(Conns), q # <<>>,
         \A i, j \in DOMAIN q : i # j => q[i] # q[j]
  PROVE  /\ Head(q) \in ToSet(q) /\ Tail(q) \in Seq(Conns)
         /\ ToSet(Tail(q)) = ToSet(q) \ {Head(q)}
         /\ \A i, j \in DOMAIN Tail(q) : i # j => Tail(q)[i] # Tail(q)[j]
<1>1. /\ Len(q) \in Nat \ {0} /\ DOMAIN q = 1..Len(q) /\ Head(q) = q[1]
      /\ Tail(q) \in Seq(Conns) /\ Len(Tail(q)) = Len(q) - 1
      /\ DOMAIN Tail(q) = 1..(Len(q) - 1)
      /\ \A i \in 1..(Len(q) - 1) : Tail(q)[i] = q[i + 1]
  OBVIOUS
<1>2. /\ ToSet(q) = {q[i] : i \in 1..Len(q)}
      /\ ToSet(Tail(q)) = {Tail(q)[i] : i \in 1..(Len(q) - 1)}
  BY <1>1 DEF ToSet
<1>3. ToSet(Tail(q)) \subseteq ToSet(q) \ {Head(q)}
  <2>1. ASSUME NEW i \in 1..(Len(q) - 1)
        PROVE  Tail(q)[i] \in ToSet(q) /\ Tail(q)[i] # Head(q)
    <3>1. i + 1 \in 1..Len(q) /\ i + 1 # 1 /\ 1 \in 1..Len(q)
      BY <1>1
    <3> QED
      BY <1>1, <1>2, <3>1
  <2> QED
    BY <1>2, <2>1
<1>4. ToSet(q) \ {Head(q)} \subseteq ToSet(Tail(q))
  <2>1. ASSUME NEW d \in ToSet(q), d # Head(q) PROVE d \in ToSet(Tail(q))
    <3>1. PICK i \in 1..Len(q) : d = q[i]
      BY <1>2, <2>1
    <3>2. i # 1
      BY <1>1, <2>1, <3>1
    <3>3. i - 1 \in 1..(Len(q) - 1) /\ i - 1 + 1 = i
      BY <1>1, <3>1, <3>2
    <3>4. Tail(q)[i - 1] = d
      BY <1>1, <3>1, <3>3
    <3> QED
      BY <1>2, <3>3, <3>4
  <2> QED
    BY <2>1
<1>5. ASSUME NEW i \in DOMAIN Tail(q), NEW j \in DOMAIN Tail(q), i # j
      PROVE  Tail(q)[i] # Tail(q)[j]
  <2>1. i + 1 \in DOMAIN q /\ j + 1 \in DOMAIN q /\ i + 1 # j + 1
    BY <1>1, <1>5
  <2> QED
    BY <1>1, <1>5, <2>1
<1>6. Head(q) \in ToSet(q)
  BY <1>1, <1>2
<1> QED
  BY <1>1, <1>3, <1>4, <1>5, <1>6

-----------------------------------------------------------------------------
(* What AnswersAreHonest says of one thread.                               *)
Honest(c) ==
  /\ answer[c] = "invalid" <=> line[c] = "junk"
  /\ answer[c] = "reply" <=> c \in replied
  /\ answer[c] \in {"invalid", "reply", "timeout"}

(* A step of c that neither executes nor hands over anything.              *)
LEMMA QuietStep ==
  ASSUME TypeOK, RequestInv, NEW c \in Conns,
         conn' = [conn EXCEPT ![c] = conn'[c]], answer' = [answer EXCEPT ![c] = answer'[c]],
         UNCHANGED <<queue, pending, replied, late, line>>,
         conn[c] \in Past => conn'[c] \in Past,
         GaveUp(c) => conn'[c] \in {"checking", "writing", "closed"},
         conn'[c] \in {"invoking", "dispatching", "waiting", "checking"} => line[c] = "request",
         conn'[c] \in {"waiting", "checking"} =>
           conn[c] \in {"waiting", "checking"} /\ answer'[c] = answer[c],
         conn'[c] \notin Past => answer'[c] = "none",
         conn'[c] = "writing" /\ c \notin late => Honest(c)'
  PROVE  RequestInv'
<1> USE DEF TypeOK, RequestInv
<1>1. Queued' = Queued /\ Known' = Known /\ QueuedOnce' /\ InOnePlace' /\ Known \subseteq Conns
  BY DEF Queued, Known, QueuedOnce, InOnePlace, ToSet
<1>2. DecidedLate' /\ HandedOver' /\ LineRead'
  BY <1>1 DEF DecidedLate, HandedOver, LineRead
<1>3. RepliesAreFlagged'
  BY DEF RepliesAreFlagged, GaveUp
<1>4. AnswersAreHonest'
  BY DEF AnswersAreHonest, Honest
<1> QED
  BY <1>1, <1>2, <1>3, <1>4

(* c's thread handing over its request to the queue.                       *)
LEMMA QueueStep ==
  ASSUME TypeOK, RequestInv, NEW c \in Conns, conn[c] = "invoking", line[c] = "request",
         queue' = Append(queue, c), conn' = [conn EXCEPT ![c] = "waiting"],
         UNCHANGED <<pending, replied, late, line, answer>>
  PROVE  RequestInv'
<1> USE DEF TypeOK, RequestInv
<1>1. c \notin Known
  BY DEF HandedOver, Past
<1>2. Queued' = Queued \cup {c} /\ Queued \subseteq Conns
  BY QueueFacts DEF Queued
<1>3. Known' = Known \cup {c}
  BY <1>2 DEF Known
<1>4. QueuedOnce'
  <2>1. DOMAIN queue' = 1..(Len(queue) + 1) /\ DOMAIN queue = 1..Len(queue) /\ Len(queue) \in Nat
    BY QueueFacts
  <2>2. \A i \in 1..Len(queue) : queue'[i] = queue[i] /\ queue[i] # c
    BY <1>1, QueueFacts DEF Known, Queued
  <2>3. queue'[Len(queue) + 1] = c
    BY QueueFacts
  <2> QED
    BY <2>1, <2>2, <2>3 DEF QueuedOnce
<1>5. InOnePlace'
  BY <1>1, <1>2, <1>3 DEF InOnePlace, Known
<1>6. DecidedLate' /\ HandedOver' /\ LineRead' /\ RepliesAreFlagged' /\ AnswersAreHonest'
  <2>1. answer[c] = "none"
    BY DEF DecidedLate, Past
  <2>2. Known \subseteq Conns
    BY <1>2 DEF Known
  <2> QED
    BY <1>1, <1>3, <2>1, <2>2
    DEF DecidedLate, HandedOver, LineRead, RepliesAreFlagged, AnswersAreHonest, Known, GaveUp, Past
<1> QED
  BY <1>4, <1>5, <1>6

(* Executing a request that was queued, pending, or is being handed over:  *)
(* `rest` is what stays in the queue.                                      *)
LEMMA ExecuteStep ==
  ASSUME TypeOK, RequestInv, NEW c \in Conns, line[c] = "request",
         \/ c \in Queued /\ Queued' = Queued \ {c} /\ conn' = conn
         \/ c \in pending /\ Queued' = Queued /\ conn' = conn
         \/ conn[c] = "dispatching" /\ Queued' = Queued /\ conn' = [conn EXCEPT ![c] = "waiting"],
         QueuedOnce',
         \/ Reply(c) /\ pending' = pending \ {c}
         \/ c \notin pending /\ pending' = pending \cup {c} /\ UNCHANGED <<replied, answer, late>>,
         UNCHANGED line
  PROVE  RequestInv'
<1> USE DEF TypeOK, RequestInv
<1>1. conn[c] = "dispatching" => c \notin Known /\ answer[c] = "none"
  BY DEF HandedOver, DecidedLate, Past
<1>2. c \notin replied \cup late
  BY <1>1 DEF InOnePlace, Known
<1>3. Known' = Known \cup {c} /\ Known \subseteq Conns
  <2>1. Queued \subseteq Conns
    BY QueueFacts DEF Queued
  <2>2. Queued' \cup {c} = Queued \cup {c}
    OBVIOUS
  <2>3. c \in pending' \cup replied' \cup late'
    BY DEF Reply
  <2>4. pending' \cup replied' \cup late' = pending \cup replied \cup late \cup {c}
    BY DEF Reply
  <2> QED
    BY <2>1, <2>2, <2>3, <2>4 DEF Known
<1>4. InOnePlace'
  BY <1>1, <1>2, <1>3 DEF InOnePlace, Known, Reply
<1>5. /\ conn[c] \in Past \cup {"dispatching"} /\ conn'[c] \in Past
      /\ \A d \in Conns : d # c => conn'[d] = conn[d] /\ answer'[d] = answer[d]
  BY DEF HandedOver, Known, Past, Reply
<1>6. DecidedLate' /\ HandedOver' /\ LineRead'
  BY <1>3, <1>5 DEF DecidedLate, HandedOver, LineRead, Past
<1>7. RepliesAreFlagged' /\ AnswersAreHonest'
  <2>1. ASSUME NEW d \in Conns, d # c
        PROVE  /\ d \in late' => GaveUp(d)'
               /\ d \notin late' /\ conn'[d] \in {"waiting", "checking"} =>
                    /\ d \in replied' => answer'[d] = "reply"
                    /\ d \notin replied' => answer'[d] = "none"
               /\ conn'[d] = "writing" /\ d \notin late' => Honest(d)'
    <3>1. (d \in late' <=> d \in late) /\ (d \in replied' <=> d \in replied)
      BY <2>1 DEF Reply
    <3> QED
      BY <1>5, <2>1, <3>1 DEF RepliesAreFlagged, AnswersAreHonest, Honest, GaveUp
  <2>2. /\ c \in late' => GaveUp(c)'
        /\ c \notin late' /\ conn'[c] \in {"waiting", "checking"} =>
             /\ c \in replied' => answer'[c] = "reply"
             /\ c \notin replied' => answer'[c] = "none"
        /\ conn'[c] = "writing" /\ c \notin late' => Honest(c)'
    <3>1. CASE GaveUp(c) /\ Reply(c)
      BY <1>5, <3>1 DEF Reply, GaveUp
    <3>2. CASE ~GaveUp(c) /\ Reply(c)
      <4>1. conn'[c] = "waiting" /\ c \in replied' /\ answer'[c] = "reply" /\ late' = late
        BY <1>5, <3>2 DEF Reply, GaveUp, Past
      <4> QED
        BY <1>2, <4>1
    <3>3. CASE UNCHANGED <<replied, answer, late>>
      BY <1>1, <1>2, <1>5, <3>3 DEF RepliesAreFlagged, AnswersAreHonest, Honest, GaveUp
    <3> QED
      BY <3>1, <3>2, <3>3
  <2> QED
    BY <2>1, <2>2 DEF RepliesAreFlagged, AnswersAreHonest, Honest
<1> QED
  BY <1>4, <1>6, <1>7

LEMMA StepKeepsRequests == TypeOK /\ ThreadInv /\ RequestInv /\ [Next]_vars => RequestInv'
<1> SUFFICES ASSUME TypeOK, ThreadInv, RequestInv, [Next]_vars PROVE RequestInv'
  OBVIOUS
<1>1. ASSUME NEW c \in Conns, Connect(c) PROVE RequestInv'
  <2>1. /\ conn[c] = "off" /\ conn' = [conn EXCEPT ![c] = "backlog"]
        /\ UNCHANGED <<queue, pending, replied, late, line>> /\ UNCHANGED answer
    BY <1>1 DEF Connect, Goto
  <2>2. answer[c] = "none"
    BY <2>1 DEF TypeOK, RequestInv, DecidedLate, Past
  <2>3. conn'[c] = "backlog"
    BY <2>1 DEF TypeOK
  <2> QED
    BY <2>1, <2>2, <2>3, QuietStep DEF TypeOK, Past, GaveUp
<1>2. ASSUME NEW c \in Conns, Send(c) PROVE RequestInv'
  <2>1. c \notin Known
    BY <1>2 DEF Send, RequestInv, HandedOver, Past
  <2>2. Queued' = Queued /\ Known' = Known /\ Known \subseteq Conns
    BY <1>2 DEF Send, Queued, Known, TypeOK, ToSet
  <2>3. \A d \in Known : line'[d] = line[d]
    BY <1>2, <2>1, <2>2 DEF Send, TypeOK
  <2> QED
    BY <1>2, <2>2, <2>3
    DEF Send, TypeOK, RequestInv, DecidedLate, HandedOver, LineRead, RepliesAreFlagged, AnswersAreHonest,
        QueuedOnce, InOnePlace, GaveUp
<1>3. ASSUME NEW c \in Conns, ReadLine(c) PROVE RequestInv'
  <2>1. answer[c] = "none" /\ conn[c] = "reading"
    BY <1>3 DEF ReadLine, Goto, RequestInv, DecidedLate, TypeOK, Past
  <2>2. UNCHANGED <<queue, pending, replied, late, line>>
    BY <1>3 DEF ReadLine
  <2>3. CASE line[c] = "request" /\ conn' = [conn EXCEPT ![c] = "invoking"] /\ UNCHANGED answer
    <3>1. conn'[c] = "invoking"
      BY <2>3 DEF TypeOK
    <3> QED
      BY <2>1, <2>2, <2>3, <3>1, QuietStep DEF TypeOK, Past, GaveUp
  <2>4. CASE /\ line[c] = "junk" /\ conn' = [conn EXCEPT ![c] = "writing"]
             /\ answer' = [answer EXCEPT ![c] = "invalid"]
    <3>1. conn'[c] = "writing" /\ answer'[c] = "invalid"
      BY <2>4 DEF TypeOK
    <3>2. c \notin replied
      BY <2>1 DEF RequestInv, HandedOver, Known, Past
    <3> QED
      BY <2>1, <2>2, <2>4, <3>1, <3>2, QuietStep DEF TypeOK, Past, GaveUp, Honest
  <2> QED
    BY <1>3, <2>3, <2>4 DEF ReadLine, Goto
<1>4. ASSUME NEW c \in Conns, Invoke(c) PROVE RequestInv'
  <2>1. conn[c] = "invoking" /\ UNCHANGED <<pending, replied, late, line>> /\ UNCHANGED answer
    BY <1>4 DEF Invoke, Goto
  <2>2. line[c] = "request" /\ answer[c] = "none"
    BY <2>1 DEF RequestInv, LineRead, DecidedLate, TypeOK, Past
  <2>3. CASE conn' = [conn EXCEPT ![c] = "dispatching"] /\ UNCHANGED queue
    <3>1. UNCHANGED <<queue, pending, replied, late, line>> /\ conn'[c] = "dispatching"
      BY <2>1, <2>3 DEF TypeOK
    <3> QED
      BY <2>1, <2>2, <2>3, <3>1, QuietStep DEF TypeOK, Past, GaveUp
  <2>4. CASE conn' = [conn EXCEPT ![c] = "waiting"] /\ queue' = Append(queue, c)
    BY <2>1, <2>2, <2>4, QueueStep
  <2> QED
    BY <1>4, <2>3, <2>4 DEF Invoke, Goto
<1>5. ASSUME NEW c \in Conns, DispatchHere(c) PROVE RequestInv'
  <2>1. /\ conn[c] = "dispatching" /\ conn' = [conn EXCEPT ![c] = "waiting"]
        /\ UNCHANGED <<queue, line>>
    BY <1>5 DEF DispatchHere, Goto
  <2>2. line[c] = "request" /\ c \notin pending
    BY <2>1 DEF RequestInv, LineRead, HandedOver, Known, Past
  <2>3. Queued' = Queued /\ QueuedOnce'
    BY <2>1 DEF Queued, RequestInv, QueuedOnce
  <2>4. \/ Reply(c) /\ pending' = pending \ {c}
        \/ c \notin pending /\ pending' = pending \cup {c} /\ UNCHANGED <<replied, answer, late>>
    BY <1>5, <2>2 DEF DispatchHere, Dispatch
  <2> QED
    BY <2>1, <2>2, <2>3, <2>4, ExecuteStep
<1>6. ASSUME NEW c \in Conns, Wake(c) \/ Timeout(c) \/ Write(c) PROVE RequestInv'
  <2>1. UNCHANGED <<queue, pending, replied, late, line>> /\ UNCHANGED answer
    BY <1>6 DEF Wake, Timeout, Write
  <2>2. CASE conn[c] = "waiting" /\ conn' = [conn EXCEPT ![c] = "checking"]
    <3>1. conn'[c] = "checking" /\ line[c] = "request"
      BY <2>2 DEF TypeOK, RequestInv, LineRead
    <3> QED
      BY <2>1, <2>2, <3>1, QuietStep DEF TypeOK, Past, GaveUp
  <2>3. CASE conn[c] = "writing" /\ conn' = [conn EXCEPT ![c] = "closed"]
    <3>1. conn'[c] = "closed"
      BY <2>3 DEF TypeOK
    <3> QED
      BY <2>1, <2>3, <3>1, QuietStep DEF TypeOK, Past, GaveUp
  <2> QED
    BY <1>6, <2>2, <2>3 DEF Wake, Timeout, Write, Goto
<1>7. ASSUME NEW c \in Conns, Check(c) PROVE RequestInv'
  <2>1. /\ conn[c] = "checking" /\ conn' = [conn EXCEPT ![c] = "writing"] /\ conn'[c] = "writing"
        /\ answer' = [answer EXCEPT ![c] = answer'[c]]
        /\ answer'[c] = IF c \in replied THEN answer[c] ELSE "timeout"
        /\ UNCHANGED <<queue, pending, replied, late, line>>
    BY <1>7 DEF Check, Goto, TypeOK
  <2>2. c \notin late => Honest(c)'
    BY <2>1 DEF RequestInv, LineRead, RepliesAreFlagged, Honest
  <2> QED
    BY <2>1, <2>2, QuietStep DEF Past, GaveUp
<1>8. CASE MainDispatch
  <2> DEFINE c == Head(queue)
  <2>1. queue \in Seq(Conns) /\ queue # <<>> /\ queue' = Tail(queue)
        /\ UNCHANGED <<conn, line>>
    BY <1>8 DEF MainDispatch, TypeOK
  <2>2. \A i, j \in DOMAIN queue : i # j => queue[i] # queue[j]
    BY DEF RequestInv, QueuedOnce
  <2>3. c \in Queued /\ Queued' = Queued \ {c} /\ QueuedOnce'
    BY <2>1, <2>2, TailFacts DEF Queued, QueuedOnce
  <2>4. c \in Conns /\ c \notin pending /\ line[c] = "request"
    BY <2>1, <2>3, QueueFacts DEF Queued, Known, RequestInv, InOnePlace
  <2>5. \/ Reply(c) /\ pending' = pending \ {c}
        \/ c \notin pending /\ pending' = pending \cup {c} /\ UNCHANGED <<replied, answer, late>>
    BY <1>8, <2>4 DEF MainDispatch, Dispatch
  <2> HIDE DEF c
  <2> QED
    BY <2>1, <2>3, <2>4, <2>5, ExecuteStep
<1>9. ASSUME NEW c \in Conns, Callback(c) PROVE RequestInv'
  <2>1. /\ c \in pending /\ pending' = pending \ {c} /\ Reply(c)
        /\ UNCHANGED <<queue, conn, line>>
    BY <1>9 DEF Callback
  <2>2. line[c] = "request"
    BY <2>1 DEF RequestInv, InOnePlace, Known
  <2>3. Queued' = Queued /\ QueuedOnce'
    BY <2>1 DEF Queued, RequestInv, QueuedOnce
  <2> QED
    BY <2>1, <2>2, <2>3, ExecuteStep
<1>10. ASSUME NEW c \in Conns, Accept(c) \/ Spawn(c) PROVE RequestInv'
  <2>1. UNCHANGED <<queue, pending, replied, late, line>> /\ UNCHANGED answer
    BY <1>10 DEF Accept, Spawn
  <2>2. conn[c] \in {"backlog", "accepted"}
    BY <1>10 DEF Accept, Spawn, Goto
  <2>3. answer[c] = "none"
    BY <2>2 DEF TypeOK, RequestInv, DecidedLate, Past
  <2>4. CASE conn' = [conn EXCEPT ![c] = "accepted"]
    <3>1. conn'[c] = "accepted"
      BY <2>4 DEF TypeOK
    <3> QED
      BY <2>1, <2>2, <2>3, <2>4, <3>1, QuietStep DEF TypeOK, Past, GaveUp
  <2>5. CASE conn' = [conn EXCEPT ![c] = "reading"]
    <3>1. conn'[c] = "reading"
      BY <2>5 DEF TypeOK
    <3> QED
      BY <2>1, <2>2, <2>3, <2>5, <3>1, QuietStep DEF TypeOK, Past, GaveUp
  <2> QED
    BY <1>10, <2>4, <2>5 DEF Accept, Spawn, Goto
<1>11. CASE Stop
  <2>1. /\ conn' = [c \in Conns |-> IF conn[c] = "backlog" THEN "closed" ELSE conn[c]]
        /\ UNCHANGED <<queue, pending, line, replied, answer, late>>
    BY <1>11 DEF Stop
  <2>2. Queued' = Queued /\ Known' = Known /\ Known \subseteq Conns
    BY <2>1 DEF Queued, Known, TypeOK, ToSet
  <2>3. \A d \in Known : conn'[d] = conn[d]
    BY <2>1, <2>2 DEF RequestInv, HandedOver, Past
  <2>4. DecidedLate' /\ LineRead' /\ RepliesAreFlagged' /\ AnswersAreHonest'
    BY <2>1 DEF RequestInv, DecidedLate, LineRead, RepliesAreFlagged, AnswersAreHonest, GaveUp, Past
  <2> QED
    BY <2>1, <2>2, <2>3, <2>4 DEF RequestInv, HandedOver, QueuedOnce, InOnePlace
<1>12. CASE UNCHANGED <<queue, pending, conn, line, replied, answer, late>>
  BY <1>12
  DEF RequestInv, DecidedLate, HandedOver, LineRead, RepliesAreFlagged, AnswersAreHonest, QueuedOnce,
      InOnePlace, Known, Queued, GaveUp
<1>13. AcceptorEnds \/ RunApplication \/ ApplicationEnds \/ JoinAcceptor \/ JoinClients
         \/ UNCHANGED vars
       => UNCHANGED <<queue, pending, conn, line, replied, answer, late>>
  BY DEF AcceptorEnds, RunApplication, ApplicationEnds, JoinAcceptor, JoinClients, vars
<1>14. CASE Dies
  <2>1. /\ queue' = <<>> /\ pending' = {} /\ UNCHANGED <<line, replied, answer, late>>
        /\ conn' = [c \in Conns |-> IF conn[c] = "off" THEN "off" ELSE "closed"]
    BY <1>14 DEF Dies
  <2>2. Queued' = {} /\ Known' \subseteq Known /\ Known \subseteq Conns /\ QueuedOnce'
    BY <2>1 DEF Queued, Known, QueuedOnce, TypeOK, ToSet
  <2> QED
    BY <2>1, <2>2 DEF RequestInv, DecidedLate, HandedOver, LineRead, RepliesAreFlagged, AnswersAreHonest,
                      InOnePlace, GaveUp, Past, Known
<1> QED
  BY <1>14, <1>1, <1>2, <1>3, <1>4, <1>5, <1>6, <1>7, <1>8, <1>9, <1>10, <1>11, <1>12, <1>13
  DEF Next, Step, MainStep, AcceptorStep, StopStep

-----------------------------------------------------------------------------
LEMMA Inductive == Spec => []IInv
<1>1. IInv /\ [Next]_vars => IInv'
  BY StepKeepsTypes, StepKeepsThreads, StepKeepsRequests DEF IInv
<1> QED
  BY InitIInv, <1>1, PTL DEF Spec

(* Every variable of the server's protocol keeps its type.                 *)
THEOREM TypeCorrect == Spec => []TypeOK
<1>1. IInv => TypeOK
  BY DEF IInv
<1> QED
  BY Inductive, <1>1, PTL

(* However many connections there are, and however stop() is overtaken by  *)
(* accepting and by requests, it leaves no thread behind.                  *)
THEOREM StopLeavesNoThread == Spec => []StopJoinsEveryThread
<1>1. IInv => StopJoinsEveryThread
  <2> SUFFICES ASSUME IInv, server = "stopped" PROVE
        /\ acceptor = "ended"
        /\ owner = Nobody
        /\ \A c \in Conns : conn[c] \notin Thread \cup {"accepted"}
    BY DEF StopJoinsEveryThread
  <2>1. acceptor = "ended" /\ loop = "after" /\ \A c \in Conns : conn[c] \notin Thread
    BY DEF IInv, ThreadInv, StopGoesOn
  <2>2. \A c \in Conns : conn[c] # "accepted"
    BY <2>1, RpcAssumption DEF IInv, ThreadInv, AcceptorHolds
  <2>3. owner # Main /\ \A c \in Conns : owner # c
    BY <2>1 DEF IInv, ThreadInv, ContextIsOwned, Thread
  <2> QED
    BY <2>1, <2>2, <2>3 DEF IInv, TypeOK
<1> QED
  BY Inductive, <1>1, PTL

(* No two threads are inside dispatch_agent_request, and none beside the   *)
(* main loop.                                                              *)
THEOREM OneDispatcherAtATime == Spec => []OneDispatcher
<1>1. IInv => OneDispatcher
  BY RpcAssumption DEF IInv, ThreadInv, ContextIsOwned, OneDispatcher
<1> QED
  BY Inductive, <1>1, PTL

(* For any number of connections: unless its reply came after the 30       *)
(* seconds, a client is sent the reply if there was one, and a time-out    *)
(* exactly if there was none.                                              *)
THEOREM HonestAnswers == Spec => []AnswersAreHonest
<1>1. IInv => AnswersAreHonest
  BY DEF IInv, RequestInv
<1> QED
  BY Inductive, <1>1, PTL

(* On its way from a thread to the queue, to WebKit and back, no request   *)
(* is ever in two places.                                                  *)
THEOREM NothingExecutedTwice == Spec => []ExecutedOnce
<1>1. IInv => ExecutedOnce
  <2> SUFFICES ASSUME IInv PROVE ExecutedOnce
    OBVIOUS
  <2>1. \A i \in DOMAIN queue : queue[i] \in Queued
    BY QueueFacts DEF IInv, TypeOK, Queued, ToSet
  <2> QED
    BY <2>1 DEF IInv, RequestInv, QueuedOnce, InOnePlace, ExecutedOnce, Known, Queued
<1> QED
  BY Inductive, <1>1, PTL

-----------------------------------------------------------------------------
(* The socket: whichever browser processes start, serve, stop and die, the *)
(* server that has the agent's pathname keeps it, barring those who were   *)
(* around when it began to listen.                                         *)

(* The pathname leads to a process only while that process holds a socket. *)
NamesAreHeld == path \in Procs => sock[path] # "none"

SocketInv == VarTypes /\ SocketsFollowCalls /\ NamesAreHeld /\ ThreatsAreEarly

-----------------------------------------------------------------------------
LEMMA SocketInitially == SocketInit => SocketInv
  BY SocketAssumption
  DEF SocketInit, SocketInv, VarTypes, SocketsFollowCalls, NamesAreHeld, ThreatsAreEarly, Pc, Passive,
      Reachable

(* The steps that only look: p goes on to another call, and becomes a      *)
(* threat only if nobody is reachable.                                     *)
LEMMA LookStep ==
  ASSUME SocketInv, NEW p \in Procs, NEW to \in Pc, pc' = [pc EXCEPT ![p] = to],
         UNCHANGED <<sock, path, early>>, littered' \in BOOLEAN,
         sock[p] = "none", to \notin {"running", "chmod", "listen"},
         \/ to \in {"off", "exists", "probe", "blind", "refused", "starved"}
         \/ \A q \in Procs : ~Reachable(q)
         \/ ~Passive(p) /\ pc[p] \notin {"exists", "probe", "blind"}
  PROVE  SocketInv'
<1>1. VarTypes'
  BY DEF SocketInv, VarTypes
<1>2. SocketsFollowCalls'
  BY DEF SocketInv, VarTypes, SocketsFollowCalls
<1>3. NamesAreHeld'
  BY DEF SocketInv, VarTypes, NamesAreHeld
<1>4. ThreatsAreEarly'
  BY DEF SocketInv, VarTypes, ThreatsAreEarly, Reachable, Passive
<1> QED
  BY <1>1, <1>2, <1>3, <1>4 DEF SocketInv

(* The steps after which nobody is reachable: p removed the name.          *)
LEMMA RemoveNameStep ==
  ASSUME SocketInv, NEW p \in Procs, NEW to \in Pc, pc' = [pc EXCEPT ![p] = to],
         UNCHANGED <<sock, early>>, path' = NoFile, littered' \in BOOLEAN,
         sock[p] = "none", to \notin {"running", "chmod", "listen"}
  PROVE  SocketInv'
<1>1. VarTypes'
  BY DEF SocketInv, VarTypes
<1>2. SocketsFollowCalls'
  BY DEF SocketInv, VarTypes, SocketsFollowCalls
<1>3. NamesAreHeld' /\ ThreatsAreEarly'
  BY SocketAssumption DEF NamesAreHeld, ThreatsAreEarly, Reachable
<1> QED
  BY <1>1, <1>2, <1>3 DEF SocketInv

(* The steps that close p's socket, if it has one.                         *)
LEMMA CloseStep ==
  ASSUME SocketInv, NEW p \in Procs, NEW to \in Pc, pc' = [pc EXCEPT ![p] = to],
         sock' = [sock EXCEPT ![p] = "none"], path' = Orphaned(p), UNCHANGED early,
         littered' \in BOOLEAN, to \notin {"running", "chmod", "listen"},
         \/ to = "off"
         \/ ~Passive(p) /\ pc[p] \notin {"exists", "probe", "blind"}
  PROVE  SocketInv'
<1>1. VarTypes'
  BY DEF SocketInv, VarTypes, Orphaned
<1>2. SocketsFollowCalls'
  BY DEF SocketInv, VarTypes, SocketsFollowCalls
<1>3. NamesAreHeld'
  BY SocketAssumption DEF SocketInv, VarTypes, NamesAreHeld, Orphaned
<1>4. ThreatsAreEarly'
  <2> SUFFICES ASSUME NEW r \in Procs, NEW q \in Procs, Reachable(r)', r # q,
                      ~Passive(q)', pc'[q] \notin {"exists", "probe", "blind"}
               PROVE  q \in early[r]
    BY DEF ThreatsAreEarly
  <2>1. Reachable(r)
    BY SocketAssumption DEF SocketInv, VarTypes, Reachable, Orphaned
  <2>2. ~Passive(q) /\ pc[q] \notin {"exists", "probe", "blind"}
    BY DEF SocketInv, VarTypes, Passive
  <2> QED
    BY <2>1, <2>2 DEF SocketInv, ThreatsAreEarly
<1> QED
  BY <1>1, <1>2, <1>3, <1>4 DEF SocketInv

(* p makes the name its own: nobody had it, and nobody is reachable under  *)
(* it until p listens.                                                     *)
LEMMA BindStep ==
  ASSUME SocketInv, NEW p \in Procs, Bind(p)
  PROVE  SocketInv'
<1>1. CASE path # NoFile
  <2>1. sock[p] = "none" /\ pc[p] = "bind" /\ littered' \in BOOLEAN
    BY <1>1 DEF SocketInv, VarTypes, SocketsFollowCalls, Bind, Goes
  <2> QED
    BY <1>1, <2>1, LookStep DEF Bind, Goes, Passive, Pc
<1>2. CASE path = NoFile
  <2>1. /\ pc[p] = "bind" /\ pc' = [pc EXCEPT ![p] = "chmod"]
        /\ path' = p /\ sock' = [sock EXCEPT ![p] = "bound"] /\ UNCHANGED <<early, littered>>
    BY <1>2 DEF Bind, Goes
  <2>2. VarTypes'
    BY <2>1 DEF SocketInv, VarTypes, Pc
  <2>3. SocketsFollowCalls'
    BY <2>1 DEF SocketInv, VarTypes, SocketsFollowCalls
  <2>4. NamesAreHeld' /\ ThreatsAreEarly'
    BY <2>1 DEF SocketInv, VarTypes, NamesAreHeld, ThreatsAreEarly, Reachable
  <2> QED
    BY <2>2, <2>3, <2>4 DEF SocketInv
<1> QED
  BY <1>1, <1>2

LEMMA ChmodStep ==
  ASSUME SocketInv, NEW p \in Procs, Chmod(p)
  PROVE  SocketInv'
<1>1. CASE path = NoFile
  <2>1. /\ pc[p] = "chmod" /\ pc' = [pc EXCEPT ![p] = "abort"] /\ path' = Orphaned(p)
        /\ littered' \in BOOLEAN
    BY <1>1, SocketAssumption DEF Chmod, Goes, Orphaned, SocketInv, VarTypes
  <2> QED
    BY <1>1, <2>1, CloseStep DEF Chmod, Passive, Pc
<1>2. CASE path # NoFile
  <2>1. /\ pc[p] = "chmod" /\ pc' = [pc EXCEPT ![p] = "listen"]
        /\ UNCHANGED <<path, sock, early, littered>>
    BY <1>2 DEF Chmod, Goes
  <2>2. VarTypes' /\ SocketsFollowCalls' /\ NamesAreHeld'
    BY <2>1 DEF SocketInv, VarTypes, SocketsFollowCalls, NamesAreHeld, Pc
  <2>3. ThreatsAreEarly'
    BY <2>1 DEF SocketInv, VarTypes, ThreatsAreEarly, Reachable, Passive
  <2> QED
    BY <2>2, <2>3 DEF SocketInv
<1> QED
  BY <1>1, <1>2

(* p becomes reachable if the name is still its own, and writes down all   *)
(* who are around.                                                         *)
LEMMA ListenStep ==
  ASSUME SocketInv, NEW p \in Procs, Listen(p)
  PROVE  SocketInv'
<1>1. CASE pc' = [pc EXCEPT ![p] = "withdraw"]
  <2>1. /\ pc[p] = "listen" /\ sock' = [sock EXCEPT ![p] = "none"] /\ path' = Orphaned(p)
        /\ UNCHANGED early /\ littered' \in BOOLEAN
    BY <1>1 DEF Listen, Goes, SocketInv, VarTypes
  <2> QED
    BY <1>1, <2>1, CloseStep DEF Passive, Pc
<1>2. CASE pc' = [pc EXCEPT ![p] = "running"]
  <2>1. /\ pc[p] = "listen" /\ sock' = [sock EXCEPT ![p] = "listening"]
        /\ early' = [early EXCEPT ![p] = {q \in Procs \ {p} : ~Passive(q)}]
        /\ UNCHANGED <<path, littered>>
    BY <1>2 DEF Listen, Goes, SocketInv, VarTypes
  <2>2. VarTypes'
    BY <1>2, <2>1 DEF SocketInv, VarTypes, Pc
  <2>3. SocketsFollowCalls' /\ NamesAreHeld'
    BY <1>2, <2>1 DEF SocketInv, VarTypes, SocketsFollowCalls, NamesAreHeld
  <2>4. ThreatsAreEarly'
    <3> SUFFICES ASSUME NEW r \in Procs, NEW q \in Procs, Reachable(r)', r # q,
                        ~Passive(q)', pc'[q] \notin {"exists", "probe", "blind"}
                 PROVE  q \in early'[r]
      BY DEF ThreatsAreEarly
    <3>1. ~Passive(q) /\ pc[q] \notin {"exists", "probe", "blind"}
      BY <1>2, <2>1 DEF SocketInv, VarTypes, Passive
    <3>2. CASE r = p
      BY <2>1, <3>1, <3>2 DEF SocketInv, VarTypes
    <3>3. CASE r # p
      <4>1. Reachable(r) /\ early'[r] = early[r]
        BY <2>1, <3>3 DEF SocketInv, VarTypes, Reachable
      <4> QED
        BY <3>1, <4>1 DEF SocketInv, ThreatsAreEarly
    <3> QED
      BY <3>2, <3>3
  <2> QED
    BY <2>2, <2>3, <2>4 DEF SocketInv
<1> QED
  BY <1>1, <1>2 DEF Listen, Goes

LEMMA SocketStep == SocketInv /\ [SocketNext]_socketVars => SocketInv'
<1> SUFFICES ASSUME SocketInv, [SocketNext]_socketVars PROVE SocketInv'
  OBVIOUS
<1>1. CASE UNCHANGED socketVars
  BY <1>1 DEF socketVars, SocketInv, VarTypes, SocketsFollowCalls, NamesAreHeld, ThreatsAreEarly,
              Reachable, Passive
<1>2. ASSUME NEW p \in Procs,
             Start(p) \/ StartStep(p) \/ StopServing(p) \/ RemoveName(p) \/ Quit(p) \/ Crash(p)
      PROVE  SocketInv'
  <2> USE DEF Goes
  <2>0. /\ pc[p] \notin {"running", "chmod", "listen"} => sock[p] = "none"
        /\ littered' \in BOOLEAN
    <3>1. littered' \in {littered, TRUE}
      BY <1>2 DEF Start, StartStep, StopServing, RemoveName, Quit, Crash, Exists, Probe, ProbeFails,
                  Unlink, Socket, Bind, Chmod, Listen, Abort
    <3> QED
      BY <3>1 DEF SocketInv, VarTypes, SocketsFollowCalls
  <2>1. CASE Start(p)
    BY <2>0, <2>1, LookStep DEF Start, Pc
  <2>2. CASE Exists(p)
    <3>1. CASE path = NoFile
      BY <2>0, <2>2, <3>1, LookStep, SocketAssumption DEF Exists, Pc, Reachable
    <3>2. CASE path # NoFile
      BY <2>0, <2>2, <3>2, LookStep DEF Exists, Pc
    <3> QED
      BY <3>1, <3>2
  <2>3. CASE Probe(p)
    <3>1. CASE \E q \in Procs : Reachable(q)
      BY <2>0, <2>3, <3>1, LookStep DEF Probe, Pc
    <3>2. CASE \A q \in Procs : ~Reachable(q)
      BY <2>0, <2>3, <3>2, LookStep DEF Probe, Pc
    <3> QED
      BY <3>1, <3>2
  <2>4. CASE ProbeFails(p)
    BY <2>0, <2>4, LookStep DEF ProbeFails, Pc
  <2>5. CASE Unlink(p)
    BY <2>0, <2>5, RemoveNameStep DEF Unlink, Pc
  <2>6. CASE Socket(p)
    <3>1. pc[p] = "socket" /\ UNCHANGED <<sock, path, early>>
      BY <2>6 DEF Socket
    <3>2. CASE pc' = [pc EXCEPT ![p] = "bind"]
      BY <2>0, <3>1, <3>2, LookStep DEF Pc, Passive
    <3>3. CASE pc' = [pc EXCEPT ![p] = "starved"]
      BY <2>0, <3>1, <3>3, LookStep DEF Pc
    <3> QED
      BY <2>6, <3>2, <3>3 DEF Socket
  <2>7. CASE Bind(p)
    BY <2>7, BindStep
  <2>8. CASE Chmod(p)
    BY <2>8, ChmodStep
  <2>9. CASE Listen(p)
    BY <2>9, ListenStep
  <2>10. CASE Abort(p)
    <3>1. CASE pc' = [pc EXCEPT ![p] = "refused"]
      BY <2>0, <2>10, <3>1, RemoveNameStep DEF Abort, Pc
    <3>2. CASE pc' = [pc EXCEPT ![p] = "starved"]
      BY <2>0, <2>10, <3>2, RemoveNameStep DEF Abort, Pc
    <3> QED
      BY <2>10, <3>1, <3>2 DEF Abort
  <2>11. CASE StopServing(p)
    BY <2>0, <2>11, CloseStep DEF StopServing, Pc, Passive
  <2>12. CASE RemoveName(p)
    BY <2>0, <2>12, RemoveNameStep DEF RemoveName, Pc
  <2>13. CASE Quit(p)
    BY <2>0, <2>13, LookStep DEF Quit, Pc
  <2>14. CASE Crash(p)
    BY <2>0, <2>14, CloseStep DEF Crash, Pc
  <2> QED
    BY <1>2, <2>1, <2>2, <2>3, <2>4, <2>5, <2>6, <2>7, <2>8, <2>9, <2>10, <2>11,
       <2>12, <2>13, <2>14 DEF StartStep
<1> QED
  BY <1>1, <1>2 DEF SocketNext

-----------------------------------------------------------------------------
(* The invariant holds in every reachable state.                           *)
THEOREM SocketInvAlways == SocketSpec => []SocketInv
  BY SocketInitially, SocketStep, PTL DEF SocketSpec

(* Every variable keeps its type, and sockets follow the calls.            *)
THEOREM SocketTypeCorrect == SocketSpec => []SocketTypeOK
<1>1. SocketInv => SocketTypeOK
  BY DEF SocketInv, SocketTypeOK
<1> QED
  BY <1>1, SocketInvAlways, PTL

(* A file that nobody serves is left by the steps that close a socket: a   *)
(* death, or a process that will unlink the pathname next.                 *)
FilesAreAccountedFor ==
  path = Stale => littered \/ \E p \in Procs : pc[p] \in {"joining", "withdraw"}

LEMMA FilesStep ==
  SocketInv /\ FilesAreAccountedFor /\ [SocketNext]_socketVars => FilesAreAccountedFor'
<1> SUFFICES ASSUME SocketInv, FilesAreAccountedFor, [SocketNext]_socketVars, path' = Stale, ~littered'
             PROVE  \E q \in Procs : pc'[q] \in {"joining", "withdraw"}
  BY DEF FilesAreAccountedFor
<1>1. CASE UNCHANGED socketVars
  BY <1>1 DEF FilesAreAccountedFor, socketVars
<1>2. ASSUME NEW p \in Procs,
             Start(p) \/ StartStep(p) \/ StopServing(p) \/ RemoveName(p) \/ Quit(p) \/ Crash(p)
      PROVE  \E q \in Procs : pc'[q] \in {"joining", "withdraw"}
  <2> USE DEF Goes
  <2>0. VarTypes
    BY DEF SocketInv
  <2>1. CASE Start(p) \/ Exists(p) \/ Probe(p) \/ ProbeFails(p) \/ Socket(p) \/ Quit(p)
    <3>1. /\ UNCHANGED <<path, littered>> /\ pc[p] \notin {"joining", "withdraw"}
          /\ \A q \in Procs : q # p => pc'[q] = pc[q]
      BY <2>0, <2>1 DEF Start, Exists, Probe, ProbeFails, Socket, Quit, VarTypes
    <3> QED
      BY <3>1 DEF FilesAreAccountedFor
  <2>2. CASE Unlink(p) \/ Abort(p) \/ RemoveName(p)
    BY <2>2, SocketAssumption DEF Unlink, Abort, RemoveName
  <2>3. CASE Bind(p) \/ Chmod(p)
    <3>1. /\ UNCHANGED <<path, littered>> /\ pc[p] \notin {"joining", "withdraw"}
          /\ \A q \in Procs : q # p => pc'[q] = pc[q]
      <4>1. path' = path
        BY <2>3, SocketAssumption DEF Bind, Chmod
      <4> QED
        BY <2>0, <2>3, <4>1 DEF Bind, Chmod, VarTypes
    <3> QED
      BY <3>1 DEF FilesAreAccountedFor
  <2>4. CASE Listen(p)
    <3>1. CASE pc' = [pc EXCEPT ![p] = "withdraw"]
      BY <2>0, <3>1 DEF VarTypes
    <3>2. CASE pc' = [pc EXCEPT ![p] = "running"]
      <4>1. /\ UNCHANGED <<path, littered>> /\ pc[p] \notin {"joining", "withdraw"}
            /\ \A q \in Procs : q # p => pc'[q] = pc[q]
        BY <2>0, <2>4, <3>2 DEF Listen, VarTypes
      <4> QED
        BY <4>1 DEF FilesAreAccountedFor
    <3> QED
      BY <2>4, <3>1, <3>2 DEF Listen
  <2>5. CASE StopServing(p)
    BY <2>0, <2>5 DEF StopServing, VarTypes
  <2>6. CASE Crash(p)
    BY <2>6 DEF Crash
  <2> QED
    BY <1>2, <2>1, <2>2, <2>3, <2>4, <2>5, <2>6 DEF StartStep
<1> QED
  BY <1>1, <1>2 DEF SocketNext

(* However start() fails and whenever stop() is called, for any number of  *)
(* processes: no descriptor is leaked, and no file is left behind without  *)
(* a process that died or is about to unlink it.                           *)
THEOREM NothingIsLeft == SocketSpec => []NothingLeftBehind
<1>1. SocketInit => FilesAreAccountedFor
  BY DEF SocketInit, FilesAreAccountedFor
<1>2. SocketInv /\ FilesAreAccountedFor => NothingLeftBehind
  <2> SUFFICES ASSUME SocketInv, FilesAreAccountedFor, NEW p \in Procs, Passive(p)
               PROVE  sock[p] = "none" /\ path # p
    BY DEF NothingLeftBehind, FilesAreAccountedFor
  <2>1. sock[p] = "none"
    BY DEF SocketInv, VarTypes, SocketsFollowCalls, Passive
  <2> QED
    BY <2>1 DEF SocketInv, NamesAreHeld
<1> QED
  BY <1>1, <1>2, FilesStep, SocketInvAlways, PTL DEF SocketSpec

(* Whoever could unlink the pathname of the server that has it was around  *)
(* when that server began to listen, or holds no up-to-date look at it.    *)
THEOREM OnlyEarlyThreats == SocketSpec => []ThreatsAreEarly
<1>1. SocketInv => ThreatsAreEarly
  BY DEF SocketInv
<1> QED
  BY <1>1, SocketInvAlways, PTL

(* A server keeps the agent's pathname until it stops or dies, unless one  *)
(* who was around when it began to listen, or one without a descriptor to  *)
(* probe with, unlinks it.                                                 *)
THEOREM NameIsKept == SocketSpec => ServerKeepsName
<1>1. ASSUME SocketInv, [SocketNext]_socketVars, NEW p \in Procs, Reachable(p), ~Reachable(p)'
      PROVE  \/ pc'[p] # pc[p]
             \/ \E q \in early[p] : pc'[q] # pc[q]
             \/ \E q \in Procs : pc[q] = "blind"
  <2> SUFFICES ASSUME pc'[p] = pc[p], \A q \in Procs : pc[q] # "blind"
               PROVE  \E q \in early[p] : pc'[q] # pc[q]
    OBVIOUS
  <2>0. path = p /\ sock[p] = "listening" /\ VarTypes
    BY <1>1 DEF Reachable, SocketInv
  <2>1. ~(path' = p /\ sock'[p] = "listening")
    BY <1>1 DEF Reachable
  <2>2. PICK q \in Procs :
          Start(q) \/ StartStep(q) \/ StopServing(q) \/ RemoveName(q) \/ Quit(q) \/ Crash(q)
    BY <1>1, <2>0, <2>1 DEF SocketNext, socketVars
  <2> USE DEF Goes
  <2>3. CASE q # p
    <3>1. pc[q] \in {"unlink", "abort", "withdraw", "joining"} /\ pc'[q] # pc[q]
      <4>1. CASE Unlink(q)
        BY <2>0, <4>1 DEF Unlink, VarTypes
      <4>2. CASE Abort(q)
        BY <2>0, <4>2 DEF Abort, VarTypes
      <4>3. CASE RemoveName(q)
        BY <2>0, <4>3 DEF RemoveName, VarTypes
      <4>4. CASE Bind(q)
        BY <2>0, <2>1, <4>4, SocketAssumption DEF Bind
      <4>5. CASE Chmod(q)
        BY <2>0, <2>1, <2>3, <4>5, SocketAssumption DEF Chmod, VarTypes
      <4>6. CASE Listen(q) \/ StopServing(q) \/ Crash(q)
        BY <2>0, <2>1, <2>3, <4>6 DEF Listen, StopServing, Crash, Orphaned, VarTypes
      <4>7. CASE Start(q) \/ Quit(q) \/ Exists(q) \/ Probe(q) \/ ProbeFails(q) \/ Socket(q)
        BY <2>0, <2>1, <4>7 DEF Start, Quit, Exists, Probe, ProbeFails, Socket
      <4> QED
        BY <2>2, <4>1, <4>2, <4>3, <4>4, <4>5, <4>6, <4>7 DEF StartStep
    <3>2. q \in early[p]
      BY <1>1, <2>3, <3>1 DEF SocketInv, ThreatsAreEarly, Passive
    <3> QED
      BY <3>1, <3>2
  <2>4. CASE q = p
    (* p serves, so every step of its own changes pc[p].                   *)
    <3>1. pc[p] = "running"
      BY <1>1, <2>0 DEF SocketInv, SocketsFollowCalls
    <3>2. pc'[p] # "running"
      <4>1. CASE StartStep(p)
        BY <3>1, <4>1
        DEF StartStep, Exists, Probe, ProbeFails, Unlink, Socket, Bind, Chmod, Listen, Abort
      <4>2. CASE Start(p) \/ StopServing(p) \/ RemoveName(p) \/ Quit(p) \/ Crash(p)
        BY <2>0, <3>1, <4>2 DEF Start, StopServing, RemoveName, Quit, Crash, VarTypes
      <4> QED
        BY <2>2, <2>4, <4>1, <4>2
    <3> QED
      BY <3>1, <3>2
  <2> QED
    BY <2>3, <2>4
<1>2. SocketInv /\ [SocketNext]_socketVars =>
        [\A p \in Procs : Reachable(p) /\ ~Reachable(p)' =>
           \/ pc'[p] # pc[p]
           \/ \E q \in early[p] : pc'[q] # pc[q]
           \/ \E q \in Procs : pc[q] = "blind"]_socketVars
  BY <1>1
<1> QED
  BY <1>2, SocketInvAlways, PTL DEF SocketSpec, ServerKeepsName
=============================================================================
