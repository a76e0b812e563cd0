---------------------------- MODULE EventManager ----------------------------
(***************************************************************************)
(* EventManager and its PriorityQueue, a binary heap in an array.  Next to *)
(* a timestamp an event has a key, which stands for the receiver, dispatch *)
(* order and sender that EventEarlier compares after the timestamps.       *)
(***************************************************************************)
EXTENDS Integers, SequencesExt

CONSTANTS
  MaxTime,    \* bound on timestamps
  MaxKey,     \* bound on keys
  MaxSize,    \* bound on the events in the heap
  MaxSent     \* bound on the events that one handler run pushes

ASSUME HeapBoundAssumption == {MaxTime, MaxKey, MaxSize, MaxSent} \subseteq Nat

VARIABLES
  container,   \* PriorityQueue::container_
  now,         \* EventManager::now_
  until        \* what the running ProcessUntil was called with, or Idle

vars == <<container, now, until>>

Idle == -1

\* Simulated nodes and the network push events for the present or the future.
Event == [at : now..MaxTime, key : 0..MaxKey]

Init ==
  /\ container = <<>>
  /\ now = 0
  /\ until = Idle

-----------------------------------------------------------------------------
(* The heap *)

\* EventEarlier: what the heap has in place of "less than".
EventEarlier(a, b) == a.at > b.at \/ (a.at = b.at /\ a.key > b.key)

Swap(q, i, j) == [q EXCEPT ![i] = q[j], ![j] = q[i]]

RECURSIVE RepairUp(_, _)
RepairUp(q, i) ==
  LET parent == i \div 2
  IN  IF i > 1 /\ EventEarlier(q[parent], q[i])
      THEN RepairUp(Swap(q, parent, i), parent)
      ELSE q

\* Faulty: an event sinks to the left only.
LeftChild(q, i) ==
  IF 2 * i <= Len(q) /\ EventEarlier(q[i], q[2 * i]) THEN 2 * i ELSE i

\* The position among i and its children of the event that belongs at i.
Winner(q, i) ==
  CHOOSE w \in {i, 2 * i, 2 * i + 1} \cap DOMAIN q :
    \A j \in {i, 2 * i, 2 * i + 1} \cap DOMAIN q :
      \/ EventEarlier(q[j], q[w])
      \/ ~EventEarlier(q[w], q[j]) /\ w <= j

RECURSIVE RepairDown(_, _)
RepairDown(q, i) ==
  LET winner == Winner(q, i)
  IN  IF winner = i THEN q ELSE RepairDown(Swap(q, i, winner), winner)

\* Faulty: a new event stays at the end.
PushLast(q, e) == Append(q, e)

Push(q, e) == RepairUp(Append(q, e), Len(q) + 1)

Pop(q) ==
  IF Len(q) <= 1 THEN <<>> ELSE RepairDown(Front(Swap(q, 1, Len(q))), 1)

-----------------------------------------------------------------------------
(* The event manager *)

PushEvent(e) ==
  /\ until = Idle
  /\ Len(container) < MaxSize
  /\ container' = Push(container, e)
  /\ UNCHANGED <<now, until>>

\* The exit functor of ProcessUntil; Process and Step have none.
IsBeyond(e) == until # Idle /\ e.at > until

\* ProcessUntil(t) is called; t = MaxTime stands for Process.
ProcessUntil(t) ==
  /\ until = Idle
  /\ until' = t
  /\ UNCHANGED <<container, now>>

\* Step extracts the first event; the node it is for pushes events in turn.
Step(sent) ==
  /\ container # <<>>
  /\ ~IsBeyond(Head(container))
  /\ Len(container) + Len(sent) <= MaxSize
  /\ now' = Head(container).at
  /\ \A i \in DOMAIN sent : sent[i].at >= now'
  /\ container' = FoldLeft(Push, Pop(container), sent)
  /\ UNCHANGED until

\* Faulty: the event that ends a run is lost.
Discard(q) == Pop(q)

PutBack(q) == Push(Pop(q), Head(q))

\* Step returns ERROR, which ends the loop: nothing is queued, or the event it
\* extracted is beyond the horizon and goes back.
Stop ==
  /\ until # Idle
  /\ \/ /\ container = <<>>
        /\ UNCHANGED container
     \/ /\ container # <<>>
        /\ IsBeyond(Head(container))
        /\ container' = PutBack(container)
  /\ until' = Idle
  /\ UNCHANGED now

Next ==
  \/ \E e \in Event : PushEvent(e)
  \/ \E t \in 0..MaxTime : ProcessUntil(t)
  \/ \E n \in 0..MaxSent : \E sent \in [1..n -> Event] : Step(sent)
  \/ Stop

Spec == Init /\ [][Next]_vars

-----------------------------------------------------------------------------
(* Properties *)

\* No event of the heap is earlier than the one above it, after any sequence of
\* pushes, extractions and events put back.
HeapOrdered ==
  \A i \in 2..Len(container) : ~EventEarlier(container[i \div 2], container[i])

TheAgenda == INSTANCE Agenda WITH
  pending <- [e \in Range(container) |->
                Cardinality({i \in DOMAIN container : container[i] = e})]

\* The heap is a bag from which Step takes a first event: nothing is lost or
\* duplicated, equal timestamps go by their keys, and ProcessUntil returns when
\* everything within its horizon, and nothing beyond it, has been handled.
KeepsAgenda == TheAgenda!Spec

\* Simulated time never runs back, whatever nodes push and when runs end.
TimeMovesOn == [][now' >= now]_vars

=============================================================================
