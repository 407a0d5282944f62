------------------------- MODULE AtLeastOnceDelivery -------------------------
(***************************************************************************)
(* What the event stream promises to its consumer groups, without workers, *)
(* claims or delivery counts: every accepted message is, for every group,  *)
(* settled only after the group's handler has run to completion for it or  *)
(* a copy of it is in the dead-letter stream.                              *)
(***************************************************************************)
EXTENDS Naturals, Sequences

CONSTANTS Message, Group

VARIABLES
  log,      \* accepted messages, in order
  done,     \* done[g]: positions for which g's handler completed
  dead,     \* dead[g]: positions with a copy in the dead-letter stream
  settled   \* settled[g]: positions g will not be given again

vars == <<log, done, dead, settled>>

Init ==
  /\ log = <<>>
  /\ done = [g \in Group |-> {}]
  /\ dead = [g \in Group |-> {}]
  /\ settled = [g \in Group |-> {}]

Accept(m) ==
  /\ log' = Append(log, m)
  /\ UNCHANGED <<done, dead, settled>>

Complete(g, e) ==
  /\ done' = [done EXCEPT ![g] = @ \cup {e}]
  /\ UNCHANGED <<log, dead, settled>>

DeadLetter(g, e) ==
  /\ dead' = [dead EXCEPT ![g] = @ \cup {e}]
  /\ settled' = [settled EXCEPT ![g] = @ \cup {e}]
  /\ UNCHANGED <<log, done>>

Settle(g, e) ==
  /\ e \in done[g] \cup dead[g]
  /\ settled' = [settled EXCEPT ![g] = @ \cup {e}]
  /\ UNCHANGED <<log, done, dead>>

Next ==
  \/ \E m \in Message : Accept(m)
  \/ \E g \in Group : \E e \in 1 .. Len(log) :
       Complete(g, e) \/ DeadLetter(g, e) \/ Settle(g, e)

Spec == Init /\ [][Next]_vars
=============================================================================
