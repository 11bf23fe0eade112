----------------------------- MODULE MessageFifo -----------------------------
(***************************************************************************)
(* What the sending of messages to an IRC server promises, whatever the    *)
(* anti-flood delays: within one priority, the messages leave in the order *)
(* in which they were given, each at most once; one may be lost, but none  *)
(* may be overtaken.                                                       *)
(***************************************************************************)
EXTENDS Naturals, Sequences

CONSTANTS Prio, MaxMessages

VARIABLES
  issued,     \* how many messages were given; their numbers are their names
  pending,    \* per priority, the messages given and neither sent nor lost
  top         \* per priority, the latest message that was sent

vars == <<issued, pending, top>>

Init ==
  /\ issued = 0
  /\ pending = [p \in Prio |-> <<>>]
  /\ top = [p \in Prio |-> 0]

Issue(p) ==
  /\ issued < MaxMessages
  /\ issued' = issued + 1
  /\ pending' = [pending EXCEPT ![p] = Append(@, issued + 1)]
  /\ UNCHANGED top

Take(p) ==
  /\ pending[p] # <<>>
  /\ pending' = [pending EXCEPT ![p] = Tail(@)]
  /\ UNCHANGED issued

\* A message of no priority takes a number and is never pending.
Other ==
  /\ issued < MaxMessages
  /\ issued' = issued + 1
  /\ UNCHANGED <<pending, top>>

Deliver(p) == Take(p) /\ top' = [top EXCEPT ![p] = Head(pending[p])]

Lose(p) == Take(p) /\ UNCHANGED top

\* The connection ends, or the user empties the queues.
Flush ==
  /\ pending' = [p \in Prio |-> <<>>]
  /\ UNCHANGED <<issued, top>>

Next == Other \/ Flush \/ \E p \in Prio : Issue(p) \/ Deliver(p) \/ Lose(p)

Spec == Init /\ [][Next]_vars
=============================================================================
