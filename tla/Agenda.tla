------------------------------- MODULE Agenda -------------------------------
(***************************************************************************)
(* What an event manager promises: events are kept until their turn, and   *)
(* are handled in the order of their timestamps and keys.                  *)
(***************************************************************************)
EXTENDS Integers, Bags

CONSTANT MaxTime   \* bound on timestamps

VARIABLES
  pending,   \* the bag of events that were pushed and not handled
  now,       \* simulated time
  until      \* what the running ProcessUntil was called with, or Idle

agenda == <<pending, now, until>>

Idle == -1

Init ==
  /\ pending = EmptyBag
  /\ now = 0
  /\ until = Idle

\* Events of one timestamp go by their keys.
Precedes(e, f) == e.at < f.at \/ (e.at = f.at /\ e.key <= f.key)

Push ==
  /\ pending \sqsubseteq pending'
  /\ UNCHANGED <<now, until>>

Begin ==
  /\ until = Idle
  /\ until' \in 0..MaxTime
  /\ UNCHANGED <<pending, now>>

\* The first event is handled, unless it lies beyond the horizon; its handler
\* can only add to the agenda.
Handle ==
  \E e \in BagToSet(pending) :
    /\ \A f \in BagToSet(pending) : Precedes(e, f)
    /\ until # Idle => e.at <= until
    /\ (pending (-) SetToBag({e})) \sqsubseteq pending'
    /\ now' = e.at
    /\ UNCHANGED until

\* A run ends when nothing within its horizon is left.
End ==
  /\ until # Idle
  /\ \A e \in BagToSet(pending) : e.at > until
  /\ until' = Idle
  /\ UNCHANGED <<pending, now>>

Next == Push \/ Begin \/ Handle \/ End

Spec == Init /\ [][Next]_agenda

=============================================================================
