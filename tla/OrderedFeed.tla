---------------------------- MODULE OrderedFeed ----------------------------
(***************************************************************************)
(* What the agent's event stream promises to those who read it             *)
(* (docs/AGENT-REFERENCE.md, A11): numbered events of which the feed may   *)
(* lose any, and readers that are given, in order and without passing over *)
(* any that is still there, the ones they have not read.                   *)
(***************************************************************************)
EXTENDS Naturals

CONSTANTS Readers

VARIABLES
  published,  \* how many events have been published: their numbers are 1..published
  retained,   \* the numbers of those the feed still has
  read        \* read[c]: the numbers of those c was given

vars == <<published, retained, read>>

Init ==
  /\ published = 0
  /\ retained = {}
  /\ read = [c \in Readers |-> {}]

Publish ==
  /\ published' = published + 1
  /\ \E kept \in SUBSET retained : retained' = kept \cup {published + 1}
  /\ UNCHANGED read

Lose ==
  /\ \E kept \in SUBSET retained : retained' = kept
  /\ UNCHANGED <<published, read>>

(* c is given some of the events it has not read, all later than those it  *)
(* has, and none before an earlier one that the feed still has.            *)
Read(c) ==
  /\ \E batch \in SUBSET retained :
       /\ \A s \in batch, r \in read[c] : r < s
       /\ \A s \in batch, r \in retained \ read[c] : r < s => r \in batch
       /\ read' = [read EXCEPT ![c] = @ \cup batch]
  /\ UNCHANGED <<published, retained>>

Next == Publish \/ Lose \/ \E c \in Readers : Read(c)

Spec == Init /\ [][Next]_vars
=============================================================================
