------------------------------- MODULE Network -------------------------------
(***************************************************************************)
(* The network of the simulation: a node that every message passes through *)
(* on its way.  It drops the message, and tells the sender, or schedules   *)
(* its arrival after a random delay, behind the arrivals of the same link. *)
(* The event queue hands out its events in the order of their timestamps,  *)
(* and events of the same timestamp in any order.                          *)
(***************************************************************************)
EXTENDS Integers

CONSTANTS
  Node,
  Msg,       \* the messages the nodes send, each of them once
  Delays,    \* what RandomDelay may return
  Lossy,     \* TRUE when drop_prob > 0
  MaxTime    \* bound: nothing but the queued events happens later

ASSUME DelaysAssumption == Delays \subseteq Int
ASSUME LossyAssumption == Lossy \in BOOLEAN
ASSUME TimeAssumption == MaxTime \in Nat

VARIABLES
  now,              \* EventManager::now_
  queue,            \* the message events that are queued
  failed,           \* the nodes with is_failed set
  partitionedFrom,  \* partitioned_from of every node
  lastArrival,      \* last_arrival_by_link_, Never where it has no entry
  received,         \* history: the messages that reached their receiver
  refused           \* history: the messages whose sender was told of a drop

vars ==
  <<now, queue, failed, partitionedFrom, lastArrival, received, refused>>

Never == -1

\* sent is a history field: the time the message leaves its sender.
Events ==
  [status : {"Sended", "Received", "Failed"}, msg : Msg, from : Node, to : Node,
   sent : Nat, at : Nat]

Init ==
  /\ now = 0
  /\ queue = {}
  /\ failed = {}
  /\ partitionedFrom = [n \in Node |-> {}]
  /\ lastArrival = [l \in Node \X Node |-> Never]
  /\ received = {}
  /\ refused = {}

Known == {e.msg : e \in queue} \cup received \cup refused

\* The message is routed to the network, for the instant at: the present when
\* a node sends it, any later time when the scenario does.
ScheduleMessage(i, j, m, at) ==
  /\ at \in now..MaxTime
  /\ m \notin Known
  /\ queue' = queue \cup {[status |-> "Sended", msg |-> m, from |-> i, to |-> j,
                           sent |-> at, at |-> at]}
  /\ UNCHANGED <<now, failed, partitionedFrom, lastArrival, received, refused>>

SendMessage(i, j, m) == ScheduleMessage(i, j, m, now)

\* The event manager takes an event of time t that is no message.
Reaches(t) ==
  /\ \A f \in queue : t <= f.at
  /\ now' = t

SetNodeStatus(n, fail, t) ==
  /\ Reaches(t)
  /\ failed' = IF fail THEN failed \cup {n} ELSE failed \ {n}
  /\ UNCHANGED <<queue, partitionedFrom, lastArrival, received, refused>>

\* Faulty: what b sends to a is dropped, what a sends to b is not.
CutOneWay(a, b) == [partitionedFrom EXCEPT ![a] = @ \cup {b}]

Cut(a, b) == [partitionedFrom EXCEPT ![a] = @ \cup {b}, ![b] = @ \cup {a}]

Healed(a, b) == [partitionedFrom EXCEPT ![a] = @ \ {b}, ![b] = @ \ {a}]

ApplyPartitionPair(a, b, isolate, t) ==
  /\ Reaches(t)
  /\ partitionedFrom' = IF a = b THEN partitionedFrom
                        ELSE IF isolate THEN Cut(a, b) ELSE Healed(a, b)
  /\ UNCHANGED <<queue, failed, lastArrival, received, refused>>

\* Faulty: the failure of the sender is looked at instead.
MustDropOfSender(i, j) == i \in failed \/ i \in partitionedFrom[j]

MustDrop(i, j) == j \in failed \/ i \in partitionedFrom[j]

\* Faulty: an arrival at the time of the last one of the link stays there.
ArrivalOrTie(l, t) == IF t < lastArrival[l] THEN lastArrival[l] + 1 ELSE t

\* When a message that would arrive at t does, nextafter being one time unit.
Arrival(l, t) == IF t <= lastArrival[l] THEN lastArrival[l] + 1 ELSE t

\* Faulty: the sender never hears of it.
DroppedSilently(e, t) == {}

\* MakeFailedDeliveryToSenderEvent
Dropped(e, t) == {[e EXCEPT !.status = "Failed", !.at = t]}

IsNext(e) == e \in queue /\ \A f \in queue : e.at <= f.at

\* ShouldDrop is true of the message.
Drop(e) ==
  /\ MustDrop(e.from, e.to) \/ Lossy
  /\ queue' = (queue \ {e}) \cup Dropped(e, e.at)
  /\ UNCHANGED lastArrival

Forward(e) ==
  /\ ~MustDrop(e.from, e.to)
  /\ \E d \in Delays :
       LET link == <<e.from, e.to>>
           delay == IF d > 0 THEN d ELSE 0
           arrive == Arrival(link, e.at + delay)
       IN /\ queue' = (queue \ {e}) \cup
                        {[e EXCEPT !.status = "Received", !.at = arrive]}
          /\ lastArrival' = [lastArrival EXCEPT ![link] = arrive]

HandleSend(e) ==
  /\ IsNext(e)
  /\ e.status = "Sended"
  /\ Drop(e) \/ Forward(e)
  /\ now' = e.at
  /\ UNCHANGED <<failed, partitionedFrom, received, refused>>

\* The receiver, or the sender of a dropped message, handles the event.
HandleReceived(e) ==
  /\ IsNext(e)
  /\ e.status = "Received"
  /\ queue' = queue \ {e}
  /\ received' = received \cup {e.msg}
  /\ now' = e.at
  /\ UNCHANGED <<failed, partitionedFrom, lastArrival, refused>>

HandleFailed(e) ==
  /\ IsNext(e)
  /\ e.status = "Failed"
  /\ queue' = queue \ {e}
  /\ refused' = refused \cup {e.msg}
  /\ now' = e.at
  /\ UNCHANGED <<failed, partitionedFrom, lastArrival, received>>

\* Any other event of the simulation, at time t.
OtherEvent(t) ==
  /\ Reaches(t)
  /\ UNCHANGED <<queue, failed, partitionedFrom, lastArrival, received, refused>>

StepQueue ==
  \E e \in queue : HandleSend(e) \/ HandleReceived(e) \/ HandleFailed(e)

Next ==
  \/ \E i, j \in Node, m \in Msg, at \in now..MaxTime : ScheduleMessage(i, j, m, at)
  \/ StepQueue
  \/ \E t \in now..MaxTime :
       \/ \E n \in Node, fail \in BOOLEAN : SetNodeStatus(n, fail, t)
       \/ \E a, b \in Node, isolate \in BOOLEAN : ApplyPartitionPair(a, b, isolate, t)
       \/ OtherEvent(t)

Spec == Init /\ [][Next]_vars

-----------------------------------------------------------------------------
(* Properties *)

Transit ==
  {[msg |-> e.msg, from |-> e.from, to |-> e.to, sent |-> e.sent] : e \in queue}

Link == INSTANCE Channels WITH transit <- Transit

\* The network is a set of lossy channels that keep the order of instants, for
\* any delays, drops, failures and partitions, although the queue orders no
\* two events of the same timestamp.
KeepsOrder == Link!Spec

\* A partition cuts both directions of a link and a heal restores both.
CutsAreMutual ==
  \A a, b \in Node : a \in partitionedFrom[b] <=> b \in partitionedFrom[a]

=============================================================================
