---------------------------- MODULE AgentEvents ----------------------------
(***************************************************************************)
(* AgentEventLog (src/src/agent_rpc.cpp), the events.since and             *)
(* events.clear methods (src/src/native_app.cpp) and the clients that poll *)
(* them.  Publishing, polling and clearing happen under the log's mutex,   *)
(* on the thread that owns the GTK main context: each is one step.         *)
(*                                                                         *)
(* An operator marked "Mutant" is not part of the model: it is a way the   *)
(* code could plausibly be wrong, kept to show which property notices.     *)
(***************************************************************************)
EXTENDS Naturals, FiniteSets, SequencesExt

CONSTANTS
  Capacity,    \* the constructor's argument, 2048 in ApplicationState
  Limits,      \* the values of `limit` clients send, after clamping to 1..1024
  Followers,   \* clients that pass the last sequence they consumed as `after`
  Watchers,    \* `vant agent watch`: pass the `latest` of the previous answer
  MaxSeq       \* bound: how many events are published

ASSUME EventsAssumption ==
  /\ Capacity \in Nat
  /\ Limits \subseteq Nat \ {0}
  /\ MaxSeq \in Nat
  /\ Followers \cap Watchers = {}

VARIABLES
  events,    \* events_: the sequence numbers in the log, oldest first
  next,      \* next_
  dropped,   \* dropped_
  base,      \* history: next when the log was last empty by clear
  cursor,    \* cursor[c]: the `after` of client c's next poll
  read       \* history: read[c]: the events that c was given

Clients == Followers \cup Watchers

vars == <<events, next, dropped, base, cursor, read>>

(* The constructor's std::max<std::size_t>(1, capacity).                   *)
Cap == IF Capacity = 0 THEN 1 ELSE Capacity

Log == Range(events)

Publish ==
  /\ next <= MaxSeq
  /\ IF Len(events) >= Cap
     THEN /\ events' = Append(Tail(events), next)
          /\ dropped' = dropped + 1
     ELSE /\ events' = Append(events, next)
          /\ UNCHANGED dropped
  /\ next' = next + 1
  /\ UNCHANGED <<base, cursor, read>>

(* Mutant: the overflow counter survives. *)
ClearKeepingDropped ==
  /\ events' = <<>>
  /\ base' = next
  /\ UNCHANGED <<next, dropped, cursor, read>>

(* events.clear, called by any agent.                                      *)
Clear ==
  /\ events' = <<>>
  /\ dropped' = 0
  /\ base' = next
  /\ UNCHANGED <<next, cursor, read>>

(* Mutant: an off-by-one that passes over the event after `after`. *)
PendingSkipsOne(after) == {s \in Log : s > after + 1}

(* since(): the oldest `limit` of the events after `after`.                *)
Pending(after) == {s \in Log : s > after}

(* Mutant: the newest in place of the oldest. *)
SinceNewest(after, limit) ==
  {s \in Pending(after) : Cardinality({r \in Pending(after) : r > s}) < limit}

Since(after, limit) ==
  {s \in Pending(after) : Cardinality({r \in Pending(after) : r < s}) < limit}

(* events.since answers with the batch and with latest(), next_ - 1.       *)
Latest == next - 1

(* Mutant: the client advances past what it was given. *)
FollowToLatest(c, limit) ==
  /\ read' = [read EXCEPT ![c] = @ \cup Since(cursor[c], limit)]
  /\ cursor' = [cursor EXCEPT ![c] = Latest]
  /\ UNCHANGED <<events, next, dropped, base>>

(* A direct client advances to the last sequence it was given.             *)
Follow(c, limit) ==
  LET batch == Since(cursor[c], limit)
  IN  /\ IF batch = {} THEN UNCHANGED cursor
         ELSE \E last \in batch :
                /\ \A s \in batch : s <= last
                /\ cursor' = [cursor EXCEPT ![c] = last]
      /\ read' = [read EXCEPT ![c] = @ \cup batch]
      /\ UNCHANGED <<events, next, dropped, base>>

(* `vant agent watch` advances to `latest`, whatever the batch was.        *)
Watch(c, limit) ==
  /\ read' = [read EXCEPT ![c] = @ \cup Since(cursor[c], limit)]
  /\ cursor' = [cursor EXCEPT ![c] = Latest]
  /\ UNCHANGED <<events, next, dropped, base>>

Init ==
  /\ events = <<>>
  /\ next = 1
  /\ dropped = 0
  /\ base = 1
  /\ cursor = [c \in Clients |-> 0]
  /\ read = [c \in Clients |-> {}]

Poll(c) == \E limit \in Limits : \/ c \in Followers /\ Follow(c, limit)
                                 \/ c \in Watchers /\ Watch(c, limit)

Next == Publish \/ Clear \/ \E c \in Clients : Poll(c)

Spec == Init /\ [][Next]_vars

(* Every client keeps polling ("Direct clients can loop events.since").    *)
FairSpec == Spec /\ \A c \in Clients : WF_vars(Poll(c))

-----------------------------------------------------------------------------
TypeOK ==
  /\ events \in Seq(Nat)
  /\ next \in Nat \ {0}
  /\ dropped \in Nat
  /\ base \in Nat \ {0}
  /\ cursor \in [Clients -> Nat]
  /\ read \in [Clients -> SUBSET Nat]

(* The log holds the newest events, in order, one number after the other:  *)
(* a client sees from the numbers alone whether it lost events.            *)
LogIsGapless ==
  /\ \A i \in DOMAIN events : events[i] = next - Len(events) + i - 1
  /\ Len(events) <= Cap

(* "`dropped` reports overflow" (docs/AGENT-REFERENCE.md): it is the       *)
(* number of events published since the log was last emptied that the ring *)
(* had no room for, through overflow and clear.                            *)
DroppedCountsOverflow == base + dropped + Len(events) = next

(* "cursor-based ... pass the last sequence you consumed": an event that   *)
(* is still in the log was given to every client whose cursor passed it.   *)
NothingPassedOver ==
  \A c \in Followers : \A s \in Log : s <= cursor[c] => s \in read[c]

(* No event is given to the same client twice.                             *)
EachEventOnce ==
  [][\A c \in Clients, limit \in Limits :
       Follow(c, limit) \/ Watch(c, limit) =>
         Since(cursor[c], limit) \cap read[c] = {}]_vars

(* A client that keeps polling is given every event, whatever its limit,   *)
(* unless the event overflows or is cleared first.                         *)
RetainedIsDelivered ==
  \A c \in Followers, s \in 1..MaxSeq :
    s \in Log ~> s \in read[c] \/ s \notin Log

(* The log and its followers implement the abstract feed.                  *)
Feed == INSTANCE OrderedFeed WITH
          Readers <- Followers,
          published <- Latest,
          retained <- Log,
          read <- [c \in Followers |-> read[c]]

ImplementsFeed == Feed!Spec
=============================================================================
