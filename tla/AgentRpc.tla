------------------------------ MODULE AgentRpc ------------------------------
(***************************************************************************)
(* AgentRpcServer in a browser process (src/src/agent_rpc.cpp) and its use *)
(* in run_native (src/src/native_app.cpp): an acceptor thread, a thread    *)
(* for every connection, and the GTK main loop that executes requests.     *)
(* The server starts before the main loop does and stops after it ended,   *)
(* when the ApplicationState is destroyed.                                 *)
(*                                                                         *)
(* What is written to a connection fits into its buffer, so that write_all *)
(* does not block.  The 30 seconds of a request may pass at any moment.    *)
(* A thread that has waited uses its frame without the lock, and the       *)
(* callback has references into that frame: what a reply does that comes   *)
(* then is undefined, and the model chooses among what it can do.          *)
(*                                                                         *)
(* An operator marked "Mutant" is not part of the model: it is a way the   *)
(* code could plausibly be wrong, kept to show which property notices.     *)
(***************************************************************************)
EXTENDS Naturals, SequencesExt

CONSTANTS
  Conns,   \* the connections that clients make, each for one request
  Nobody,  \* the owner of a main context that no thread has acquired
  Main     \* the main thread

ASSUME RpcAssumption ==
  /\ Nobody \notin Conns /\ Main \notin Conns /\ Nobody # Main
  /\ "accepting" \notin Conns /\ "ended" \notin Conns

VARIABLES
  loop,      \* g_application_run: not yet called, running, or returned
  owner,     \* the thread that has acquired the main context
  queue,     \* requests that g_main_context_invoke left to the main loop
  pending,   \* requests that WebKit is to answer through a callback
  server,    \* what stop() has done so far, or that the process has died
  acceptor,  \* the acceptor thread: in accept(), with a connection, or ended
  conn,      \* conn[c]: the connection and the thread that serves it
  line,      \* line[c]: what the client sent
  replied,   \* the requests whose `done` flag is set
  answer,    \* answer[c]: what `reply` holds, in the frame of c's thread
  late       \* history: requests whose reply came when nobody waited for it

vars == <<loop, owner, queue, pending, server, acceptor, conn, line, replied, answer, late>>

(* The places of a connection's thread.                                    *)
Thread == {"reading", "invoking", "dispatching", "waiting", "checking", "writing"}

TypeOK ==
  /\ loop \in {"before", "running", "after"}
  /\ owner \in Conns \cup {Main, Nobody}
  /\ queue \in Seq(Conns)
  /\ pending \subseteq Conns
  /\ server \in {"serving", "closing", "joining", "stopped", "dead"}
  /\ acceptor \in Conns \cup {"accepting", "ended"}
  /\ conn \in [Conns -> {"off", "backlog", "accepted", "closed"} \cup Thread]
  /\ line \in [Conns -> {"none", "request", "junk"}]
  /\ replied \subseteq Conns
  /\ answer \in [Conns -> {"none", "reply", "timeout", "invalid", "torn"}]
  /\ late \subseteq Conns

(* start() has returned and g_application_run has not been called.         *)
Init ==
  /\ loop = "before"
  /\ owner = Nobody
  /\ queue = <<>>
  /\ pending = {}
  /\ server = "serving"
  /\ acceptor = "accepting"
  /\ conn = [c \in Conns |-> "off"]
  /\ line = [c \in Conns |-> "none"]
  /\ replied = {}
  /\ answer = [c \in Conns |-> "none"]
  /\ late = {}

Goto(c, from, to) == conn[c] = from /\ conn' = [conn EXCEPT ![c] = to]

-----------------------------------------------------------------------------
(* Clients.                                                                *)

Connect(c) ==
  /\ server = "serving"
  /\ Goto(c, "off", "backlog")
  /\ UNCHANGED <<loop, owner, queue, pending, server, acceptor, line, replied, answer, late>>

(* A request, or what is none: other text, a line over the limit, the end  *)
(* of the stream.                                                          *)
Send(c) ==
  /\ conn[c] \in {"backlog", "accepted", "reading"}
  /\ line[c] = "none"
  /\ \E text \in {"request", "junk"} : line' = [line EXCEPT ![c] = text]
  /\ UNCHANGED <<loop, owner, queue, pending, server, acceptor, conn, replied, answer, late>>

-----------------------------------------------------------------------------
(* The acceptor thread.                                                    *)

Accept(c) ==
  /\ acceptor = "accepting" /\ server = "serving"
  /\ Goto(c, "backlog", "accepted")
  /\ acceptor' = c
  /\ UNCHANGED <<loop, owner, queue, pending, server, line, replied, answer, late>>

Spawn(c) ==
  /\ acceptor = c
  /\ Goto(c, "accepted", "reading")
  /\ acceptor' = "accepting"
  /\ UNCHANGED <<loop, owner, queue, pending, server, line, replied, answer, late>>

(* Mutant: stop() closes the socket when the acceptor has been joined. *)
AcceptorEndsAfterJoin ==
  /\ acceptor = "accepting" /\ server = "joining"
  /\ acceptor' = "ended"
  /\ UNCHANGED <<loop, owner, queue, pending, server, conn, line, replied, answer, late>>

AcceptorEnds ==
  /\ acceptor = "accepting" /\ server # "serving"
  /\ acceptor' = "ended"
  /\ UNCHANGED <<loop, owner, queue, pending, server, conn, line, replied, answer, late>>

-----------------------------------------------------------------------------
(* The thread of a connection.                                             *)

(* parse_request: a line is a request if it has an "id" and a "method"     *)
(* that can be read; which lines do is left to the client's choice.        *)
ReadLine(c) ==
  /\ \/ /\ line[c] = "request"
        /\ Goto(c, "reading", "invoking")
        /\ UNCHANGED answer
     \/ /\ line[c] = "junk"
        /\ Goto(c, "reading", "writing")
        /\ answer' = [answer EXCEPT ![c] = "invalid"]
  /\ UNCHANGED <<loop, owner, queue, pending, server, acceptor, line, replied, late>>

(* Mutant: the request is executed by the thread that read it. *)
InvokeHere(c) ==
  /\ Goto(c, "invoking", "dispatching")
  /\ UNCHANGED <<loop, owner, queue, pending, server, acceptor, line, replied, answer, late>>

(* g_main_context_invoke: a context that no thread owns is acquired and    *)
(* the request executed at once; otherwise it is left to the main loop.    *)
Invoke(c) ==
  /\ \/ /\ owner = Nobody
        /\ owner' = c
        /\ Goto(c, "invoking", "dispatching")
        /\ UNCHANGED queue
     \/ /\ owner # Nobody
        /\ queue' = Append(queue, c)
        /\ Goto(c, "invoking", "waiting")
        /\ UNCHANGED owner
  /\ UNCHANGED <<loop, pending, server, acceptor, line, replied, answer, late>>

(* The thread of c has waited and no longer holds the lock, or has ended.  *)
GaveUp(c) == conn[c] \in {"checking", "writing", "closed"}

(* Replying to c: the callback stores the reply and sets the flag.  It has *)
(* the lock, and so has the thread while it looks at the flag in wait_for; *)
(* afterwards the two race for `reply`, whose text may be the old one, the *)
(* new one or a mixture.  The stack of a thread that has ended stays until *)
(* stop() joins it, so that a reply to it is lost there.                   *)
Reply(c) ==
  \/ /\ ~GaveUp(c)
     /\ replied' = replied \cup {c}
     /\ answer' = [answer EXCEPT ![c] = "reply"]
     /\ UNCHANGED late
  \/ /\ GaveUp(c)
     /\ late' = late \cup {c}
     /\ \/ conn[c] = "closed" /\ UNCHANGED <<replied, answer>>
        \/ /\ conn[c] # "closed"
           /\ replied' = replied \cup {c}
           /\ \E text \in {answer[c], "reply", "torn"} : answer' = [answer EXCEPT ![c] = text]

(* dispatch_agent_request: some methods are answered at once, some when    *)
(* WebKit calls back.                                                      *)
Dispatch(c) ==
  \/ Reply(c) /\ UNCHANGED pending
  \/ pending' = pending \cup {c} /\ UNCHANGED <<replied, answer, late>>

DispatchHere(c) ==
  /\ Goto(c, "dispatching", "waiting")
  /\ Dispatch(c)
  /\ owner' = Nobody
  /\ UNCHANGED <<loop, queue, server, acceptor, line>>

(* wait_for returns because of the flag or because of the time.            *)
Wake(c) ==
  /\ c \in replied
  /\ Goto(c, "waiting", "checking")
  /\ UNCHANGED <<loop, owner, queue, pending, server, acceptor, line, replied, answer, late>>

(* Mutant: a wait without a limit. *)
WaitForever(c) == FALSE /\ Wake(c)

Timeout(c) ==
  /\ c \notin replied
  /\ Goto(c, "waiting", "checking")
  /\ UNCHANGED <<loop, owner, queue, pending, server, acceptor, line, replied, answer, late>>

(* Mutant: whoever was woken up takes the reply, which may be empty. *)
CheckNothing(c) ==
  /\ Goto(c, "checking", "writing")
  /\ UNCHANGED <<loop, owner, queue, pending, server, acceptor, line, replied, answer, late>>

(* The flag is read again without the lock: a reply that came between the  *)
(* time-out and here is still taken.  A callback that is storing its reply *)
(* just then has not set the flag yet, and goes on beside the assignment:  *)
(* that is Reply in "writing".                                             *)
Check(c) ==
  /\ Goto(c, "checking", "writing")
  /\ answer' = [answer EXCEPT ![c] = IF c \in replied THEN answer[c] ELSE "timeout"]
  /\ UNCHANGED <<loop, owner, queue, pending, server, acceptor, line, replied, late>>

Write(c) ==
  /\ Goto(c, "writing", "closed")
  /\ UNCHANGED <<loop, owner, queue, pending, server, acceptor, line, replied, answer, late>>

-----------------------------------------------------------------------------
(* The main thread.                                                        *)

(* g_application_run acquires the main context, and returns at once if a   *)
(* connection's thread has it.                                             *)
RunApplication ==
  /\ loop = "before"
  /\ \/ owner = Nobody /\ owner' = Main /\ loop' = "running"
     \/ owner # Nobody /\ loop' = "after" /\ UNCHANGED owner
  /\ UNCHANGED <<queue, pending, server, acceptor, conn, line, replied, answer, late>>

(* Mutant: the source stays in the main loop after its callback. *)
MainDispatchContinuing ==
  /\ loop = "running"
  /\ queue # <<>>
  /\ Dispatch(Head(queue))
  /\ UNCHANGED <<loop, owner, queue, server, acceptor, conn, line>>

MainDispatch ==
  /\ loop = "running"
  /\ queue # <<>>
  /\ queue' = Tail(queue)
  /\ Dispatch(Head(queue))
  /\ UNCHANGED <<loop, owner, server, acceptor, conn, line>>

Callback(c) ==
  /\ loop = "running"
  /\ c \in pending
  /\ pending' = pending \ {c}
  /\ Reply(c)
  /\ UNCHANGED <<loop, owner, queue, server, acceptor, conn, line>>

(* A reply to a thread that has given up may also move a string that is    *)
(* being read, or is destroyed, and end the process.                       *)
Dies ==
  /\ loop = "running"
  /\ \E c \in Conns : GaveUp(c) /\ (c \in pending \/ (queue # <<>> /\ c = Head(queue)))
  /\ loop' = "after" /\ owner' = Nobody /\ queue' = <<>> /\ pending' = {}
  /\ server' = "dead" /\ acceptor' = "ended"
  /\ conn' = [c \in Conns |-> IF conn[c] = "off" THEN "off" ELSE "closed"]
  /\ UNCHANGED <<line, replied, answer, late>>

(* The last window was closed.                                             *)
ApplicationEnds ==
  /\ loop = "running"
  /\ loop' = "after"
  /\ owner' = Nobody
  /\ UNCHANGED <<queue, pending, server, acceptor, conn, line, replied, answer, late>>

(* stop(), from ~AgentRpcServer: the socket is closed, with the            *)
(* connections nobody accepted.                                            *)
Stop ==
  /\ loop = "after" /\ server = "serving"
  /\ server' = "closing"
  /\ conn' = [c \in Conns |-> IF conn[c] = "backlog" THEN "closed" ELSE conn[c]]
  /\ UNCHANGED <<loop, owner, queue, pending, acceptor, line, replied, answer, late>>

JoinAcceptor ==
  /\ server = "closing" /\ acceptor = "ended"
  /\ server' = "joining"
  /\ UNCHANGED <<loop, owner, queue, pending, acceptor, conn, line, replied, answer, late>>

(* Mutant: only the threads that wait for the main loop are joined. *)
JoinWaiting ==
  /\ server = "joining"
  /\ \A c \in Conns : conn[c] \notin {"waiting", "checking", "writing"}
  /\ server' = "stopped"
  /\ UNCHANGED <<loop, owner, queue, pending, acceptor, conn, line, replied, answer, late>>

JoinClients ==
  /\ server = "joining"
  /\ \A c \in Conns : conn[c] \notin Thread
  /\ server' = "stopped"
  /\ UNCHANGED <<loop, owner, queue, pending, acceptor, conn, line, replied, answer, late>>

-----------------------------------------------------------------------------
Step(c) ==
  \/ ReadLine(c) \/ Invoke(c) \/ DispatchHere(c) \/ Wake(c) \/ Timeout(c)
  \/ Check(c) \/ Write(c)

AcceptorStep == AcceptorEnds \/ \E c \in Conns : Accept(c) \/ Spawn(c)

StopStep == Stop \/ JoinAcceptor \/ JoinClients

MainStep ==
  \/ RunApplication \/ MainDispatch \/ Dies \/ ApplicationEnds \/ StopStep
  \/ \E c \in Conns : Callback(c)

Next ==
  \/ MainStep \/ AcceptorStep
  \/ \E c \in Conns : Connect(c) \/ Send(c) \/ Step(c)

Spec == Init /\ [][Next]_vars

(* Every thread runs; the main thread gets round to stop() once the main   *)
(* loop has ended, but the user need not quit.  Nothing is assumed of the  *)
(* clients: they may keep silent for ever.                                 *)
FairSpec ==
  /\ Spec
  /\ WF_vars(AcceptorStep) /\ WF_vars(StopStep)
  /\ \A c \in Conns : WF_vars(Step(c))

-----------------------------------------------------------------------------
(* stop() returns with no thread left that could use the server or the     *)
(* ApplicationState, which are destroyed next: none was accepted too late  *)
(* to be joined, and none is executing a request.                          *)
StopJoinsEveryThread ==
  server = "stopped" =>
    /\ acceptor = "ended"
    /\ owner = Nobody
    /\ \A c \in Conns : conn[c] \notin Thread \cup {"accepted"}

(* Requests are executed one at a time, and not beside the main loop, even *)
(* while the loop is not running yet or no longer.                         *)
OneDispatcher ==
  \A c \in Conns : conn[c] = "dispatching" => owner = c /\ loop # "running"

(* "a `timeout` error that echoes the request id" (AGENT-REFERENCE.md:116) *)
(* is what a client is sent exactly if no reply had come while its thread  *)
(* waited, and the reply if one had, although the thread looks at the flag *)
(* again without the lock.  What it is sent when the reply comes after the *)
(* time-out (`late`) the code does not determine.                          *)
AnswersAreHonest ==
  \A c \in Conns : conn[c] = "writing" /\ c \notin late =>
    /\ answer[c] = "invalid" <=> line[c] = "junk"
    /\ answer[c] = "reply" <=> c \in replied
    /\ answer[c] \in {"invalid", "reply", "timeout"}

(* No request is executed twice, and none that was not made.               *)
ExecutedOnce ==
  /\ \A i, j \in DOMAIN queue : i # j => queue[i] # queue[j]
  /\ \A i \in DOMAIN queue : queue[i] \notin pending \cup replied \cup late
  /\ pending \cap (replied \cup late) = {}
  /\ \A c \in pending \cup replied \cup late \cup ToSet(queue) : line[c] = "request"

(* Every connection whose client sends something, or hangs up, is answered *)
(* and closed, whatever the main loop and other clients do meanwhile.      *)
EveryConnectionEnds == \A c \in Conns : line[c] # "none" ~> conn[c] = "closed"

Silent(c) == conn[c] = "reading" /\ line[c] = "none"

(* "Keep malformed/slow clients from blocking GTK/WebKit"                  *)
(* (docs/handover/AGENT-NATIVE-BROWSER.md:88), as far as it is true: the   *)
(* main thread, which calls stop(), is held up neither by the acceptor nor *)
(* by requests that wait for the main loop, which has ended, but only by a *)
(* client that is connected and keeps silent.                              *)
StopReturns ==
  /\ server = "closing" ~> server = "joining"
  /\ server = "joining" /\ (\A c \in Conns : ~Silent(c)) ~> server = "stopped"
=============================================================================
