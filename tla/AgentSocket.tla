---------------------------- MODULE AgentSocket ----------------------------
(***************************************************************************)
(* Who owns the agent's socket.  Every normal browser process calls        *)
(* AgentRpcServer::start() for the same pathname when it comes up and      *)
(* AgentRpcServer::stop() when it goes away (src/src/agent_rpc.cpp,        *)
(* run_native in src/src/native_app.cpp).  The processes share nothing but *)
(* the file system, so each system call is a step of its own and a process *)
(* may die between any two of them.                                        *)
(*                                                                         *)
(* An operator marked "Mutant" is not part of the model: it is a way the   *)
(* code could plausibly be wrong, kept to show which property notices.     *)
(***************************************************************************)
EXTENDS Naturals, FiniteSets

CONSTANTS
  Procs,     \* the browser processes of one user
  NoFile,    \* nothing has the socket's pathname
  Stale,     \* a file has it whose socket is closed
  Shortage   \* whether socket() and listen() may fail for want of resources

ASSUME SocketAssumption ==
  /\ NoFile \notin Procs /\ Stale \notin Procs /\ NoFile # Stale
  /\ Shortage \in BOOLEAN

VARIABLES
  pc,     \* pc[p]: the call p is about to make
  sock,   \* sock[p]: the state of p's socket, impl_->fd
  path,   \* what the pathname leads to: a process's socket, Stale or NoFile
  early,  \* history: who was in start() or stop(), or served, when p began to
  littered \* history: whether a file was there at first, or a process died

socketVars == <<pc, sock, path, early, littered>>

Pc == {"off", "exists", "probe", "blind", "unlink", "socket", "bind", "chmod",
       "listen", "abort", "withdraw", "running", "joining", "refused", "starved"}

(* A process that is not there, or browses on without an agent.            *)
Passive(p) == pc[p] \in {"off", "refused", "starved"}

VarTypes ==
  /\ pc \in [Procs -> Pc]
  /\ sock \in [Procs -> {"none", "bound", "listening"}]
  /\ path \in Procs \cup {NoFile, Stale}
  /\ early \in [Procs -> SUBSET Procs]
  /\ littered \in BOOLEAN

(* No call that fails or finishes leaves a socket open, and a process      *)
(* takes itself for the server exactly while its socket accepts.           *)
SocketsFollowCalls ==
  \A p \in Procs :
    /\ sock[p] = "listening" <=> pc[p] = "running"
    /\ sock[p] = "bound" <=> pc[p] \in {"chmod", "listen"}

SocketTypeOK == VarTypes /\ SocketsFollowCalls

(* connect() to the pathname reaches p.                                    *)
Reachable(p) == path = p /\ sock[p] = "listening"

(* The pathname after p's socket was closed.                               *)
Orphaned(p) == IF path = p THEN Stale ELSE path

SocketInit ==
  /\ pc = [p \in Procs |-> "off"]
  /\ sock = [p \in Procs |-> "none"]
  /\ path \in {NoFile, Stale}
  /\ early = [p \in Procs |-> {}]
  /\ littered = (path = Stale)

Goes(p, from, to) == pc[p] = from /\ pc' = [pc EXCEPT ![p] = to]

-----------------------------------------------------------------------------
(* start(), one action per system call.                                    *)

Start(p) == Goes(p, "off", "exists") /\ UNCHANGED <<sock, path, early, littered>>

Exists(p) ==
  /\ Goes(p, "exists", IF path = NoFile THEN "socket" ELSE "probe")
  /\ UNCHANGED <<sock, path, early, littered>>

(* Mutant: the answer of connect() is ignored. *)
ProbeIgnored(p) == Goes(p, "probe", "unlink") /\ UNCHANGED <<sock, path, early, littered>>

(* The pathname is free to take if nobody accepts a connection on it.      *)
Probe(p) ==
  /\ Goes(p, "probe", IF \E q \in Procs : Reachable(q) THEN "refused" ELSE "unlink")
  /\ UNCHANGED <<sock, path, early, littered>>

(* Without a descriptor for the probe, `live` keeps its initial value.     *)
ProbeFails(p) ==
  /\ Shortage
  /\ Goes(p, "probe", "blind")
  /\ UNCHANGED <<sock, path, early, littered>>

(* Mutant: the stale file is left for bind() to fail on. *)
UnlinkForgotten(p) ==
  /\ Goes(p, "unlink", "socket") \/ Goes(p, "blind", "socket")
  /\ UNCHANGED <<sock, path, early, littered>>

Unlink(p) ==
  /\ Goes(p, "unlink", "socket") \/ Goes(p, "blind", "socket")
  /\ path' = NoFile
  /\ UNCHANGED <<sock, early, littered>>

Socket(p) ==
  /\ \/ Goes(p, "socket", "bind")
     \/ Shortage /\ Goes(p, "socket", "starved")
  /\ UNCHANGED <<sock, path, early, littered>>

(* bind() creates the file and fails if there is one.                      *)
Bind(p) ==
  \/ /\ path = NoFile
     /\ Goes(p, "bind", "chmod")
     /\ path' = p
     /\ sock' = [sock EXCEPT ![p] = "bound"]
     /\ UNCHANGED <<early, littered>>
  \/ /\ path # NoFile
     /\ Goes(p, "bind", "abort")
     /\ UNCHANGED <<sock, path, early, littered>>

(* chmod() goes by the pathname, whoever has it now, and fails if nobody   *)
(* does; the socket is closed then.                                        *)
Chmod(p) ==
  \/ /\ path # NoFile
     /\ Goes(p, "chmod", "listen")
     /\ UNCHANGED <<sock, path, early, littered>>
  \/ /\ path = NoFile
     /\ Goes(p, "chmod", "abort")
     /\ sock' = [sock EXCEPT ![p] = "none"]
     /\ UNCHANGED <<path, early, littered>>

(* A listen() that fails has the socket closed and leaves the file to the  *)
(* unlink that follows.                                                    *)
Listen(p) ==
  \/ /\ Goes(p, "listen", "running")
     /\ sock' = [sock EXCEPT ![p] = "listening"]
     /\ early' = [early EXCEPT ![p] = {q \in Procs \ {p} : ~Passive(q)}]
     /\ UNCHANGED <<path, littered>>
  \/ /\ Shortage
     /\ Goes(p, "listen", "withdraw")
     /\ sock' = [sock EXCEPT ![p] = "none"]
     /\ path' = Orphaned(p)
     /\ UNCHANGED <<early, littered>>

(* Mutant: the name is removed only if it was never bound. *)
AbortLeavingName(p) ==
  \/ /\ Goes(p, "abort", "refused")
     /\ path' = NoFile
     /\ UNCHANGED <<sock, early, littered>>
  \/ /\ Goes(p, "withdraw", "starved")
     /\ UNCHANGED <<sock, path, early, littered>>

(* A failed bind, chmod or listen unlinks the pathname, whosever it is by  *)
(* now, before start() gives up.                                           *)
Abort(p) ==
  /\ Goes(p, "abort", "refused") \/ Goes(p, "withdraw", "starved")
  /\ path' = NoFile
  /\ UNCHANGED <<sock, early, littered>>

-----------------------------------------------------------------------------
(* stop() closes the socket, joins the threads, and unlinks the pathname;  *)
(* it returns at once in a process whose start() failed.                   *)

StopServing(p) ==
  /\ Goes(p, "running", "joining")
  /\ sock' = [sock EXCEPT ![p] = "none"]
  /\ path' = Orphaned(p)
  /\ UNCHANGED <<early, littered>>

RemoveName(p) ==
  /\ Goes(p, "joining", "off")
  /\ path' = NoFile
  /\ UNCHANGED <<sock, early, littered>>

Quit(p) ==
  /\ Goes(p, "refused", "off") \/ Goes(p, "starved", "off")
  /\ UNCHANGED <<sock, path, early, littered>>

(* The process dies; the kernel closes its socket and leaves the file.     *)
Crash(p) ==
  /\ pc[p] # "off"
  /\ pc' = [pc EXCEPT ![p] = "off"]
  /\ sock' = [sock EXCEPT ![p] = "none"]
  /\ path' = Orphaned(p)
  /\ littered' = TRUE
  /\ UNCHANGED early

StartStep(p) ==
  \/ Exists(p) \/ Probe(p) \/ ProbeFails(p) \/ Unlink(p) \/ Socket(p)
  \/ Bind(p) \/ Chmod(p) \/ Listen(p) \/ Abort(p)

SocketNext ==
  \E p \in Procs :
    Start(p) \/ StartStep(p) \/ StopServing(p) \/ RemoveName(p) \/ Quit(p) \/ Crash(p)

SocketSpec == SocketInit /\ [][SocketNext]_socketVars

(* start() does not block, and a process that quits runs stop() to its end *)
(* (the threads it joins are the subject of AgentRpc).                     *)
SocketFairSpec ==
  SocketSpec /\ \A p \in Procs : WF_socketVars(StartStep(p)) /\ WF_socketVars(RemoveName(p))

-----------------------------------------------------------------------------
(* Whoever could take the name from the server that has it was already     *)
(* around when that server began to listen, or has not looked yet, or      *)
(* looked without a descriptor to probe with.  (An unlink decided on a     *)
(* look at the file that is out of date is what makes the name unsafe.)    *)
ThreatsAreEarly ==
  \A p, q \in Procs :
    Reachable(p) /\ p # q /\ ~Passive(q) /\ pc[q] \notin {"exists", "probe", "blind"}
      => q \in early[p]

(* A start() that gives up half-way leaves nothing behind, and neither does *)
(* a stop(): no descriptor stays open in a process without a server, and a *)
(* file that nobody serves is one that was there at first, that a process  *)
(* left which died, or that the process which closed its socket is about   *)
(* to unlink (src/src/agent_rpc.cpp, start and stop).                      *)
NothingLeftBehind ==
  /\ \A p \in Procs : Passive(p) => sock[p] = "none" /\ path # p
  /\ path = Stale => littered \/ \E p \in Procs : pc[p] \in {"joining", "withdraw"}

(* "launching another Vantage window cannot steal agent control"           *)
(* (src/src/native_app.cpp, run_native), as far as it is true: a server    *)
(* started while no other process was starting, serving or stopping is     *)
(* reachable under the pathname until it stops or dies, whatever starts,   *)
(* crashes and stops later, descriptors permitting.                        *)
ServerKeepsName ==
  [][\A p \in Procs : Reachable(p) /\ ~Reachable(p)' =>
       \/ pc'[p] # pc[p]
       \/ \E q \in early[p] : pc'[q] # pc[q]
       \/ \E q \in Procs : pc[q] = "blind"]_socketVars

(* Neither a stale file nor an earlier failure locks the agent out: a      *)
(* process that starts while no other is starting, serving or stopping     *)
(* comes to serve under the pathname, unless it dies, lacks a descriptor,  *)
(* or another one starts meanwhile.                                        *)
Alone(p) == \A q \in Procs \ {p} : Passive(q)

StaleIsRecovered ==
  \A p \in Procs :
    pc[p] = "exists" /\ Alone(p) ~> Reachable(p) \/ pc[p] \in {"off", "starved"} \/ ~Alone(p)
=============================================================================
