----------------------------- MODULE Simulation -----------------------------
(***************************************************************************)
(* A SimulationScenario at work: nodes with timers, the network, and the   *)
(* scenario that sends to them, fails them and cuts them apart, all in one *)
(* event queue.  Messages are those of Network, timers those of TimerBook, *)
(* one book for all nodes; this module adds local messages, control events *)
(* and the event manager that hands every event to its receiver.           *)
(***************************************************************************)
EXTENDS Network

CONSTANTS
  Alarms,       \* the timers: pairs of a node and the name of a timer it has
  Durations,    \* what SetTimer is called with
  MaxToken,     \* bound on the tokens of a timer
  Local,        \* the local messages, each of them sent once
  Sink,         \* checker_local_sink, NoNode where there is none
  Links,        \* the pairs of a node and one that is sent to in its name
  Horizons,     \* what RunUntil is called with
  Controls,     \* the control events that the scenario chooses from
  Source,       \* the node that the scenario names as their origin
  MaxControls   \* bound on the control events of the scenario

\* The identifiers of nodes are compared by their indices.  The network is
\* the first node that a scenario with a network adds.
Gateway == 0
NoNode == -1
ASSUME NodeAssumption == Node \subseteq Nat \ {Gateway}
ASSUME SinkAssumption == Sink \in Node \cup {NoNode}
ASSUME DurationsAssumption == Durations \subseteq Int
ASSUME TokenBoundAssumption == MaxToken \in Nat
ASSUME AlarmsAssumption == \A a \in Alarms : a[1] \in Node
ASSUME LinksAssumption == Links \subseteq Node \X Node
ASSUME HorizonsAssumption == Horizons \subseteq Nat
ASSUME SourceAssumption == Source \in Node
ASSUME ControlBoundAssumption == MaxControls \in Nat

\* A control event fails or recovers a node, or cuts or heals a pair.
ASSUME ControlsAssumption ==
  Controls \subseteq
    [status : {"Fail", "Normal"}, node : Node] \cup
    [isolate : BOOLEAN, a : Node, b : Node]

VARIABLES
  alarms,        \* the timer events that are queued
  current,       \* timer_books_ of the scenario
  deadline,      \* history: what each timer was last set to
  ringing,       \* history: the timer that the last step rang
  locals,        \* the local message events that are queued
  heard,         \* history: the local messages that were handled
  controls,      \* the node status and partition events that are queued
  scheduled,     \* how many of the latter the scenario scheduled
  running,       \* the node that handles an event, or NoNode
  until,         \* the horizon of the event loop, or Idle
  closedSince    \* history: when each link was closed last, or Never

Timers == INSTANCE TimerBook WITH Name <- Alarms, queue <- alarms

timerVars == <<alarms, current, deadline, ringing>>
loopVars == <<running, until>>
localVars == <<locals, heard>>
controlVars == <<controls, scheduled, closedSince>>
simVars == <<vars, timerVars, localVars, controlVars, loopVars>>

Idle == -1
Endless == MaxTime + 1   \* Process has no horizon

SimInit ==
  /\ Init
  /\ Timers!Init
  /\ locals = {}
  /\ heard = {}
  /\ controls = {}
  /\ scheduled = 0
  /\ running = NoNode
  /\ until = Idle
  /\ closedSince = [l \in Node \X Node |-> Never]

-----------------------------------------------------------------------------
(* The event queue: what EventEarlier compares *)

MessageKey(e) ==
  <<e.at,
    CASE e.status = "Sended" -> Gateway
      [] e.status = "Received" -> e.to
      [] e.status = "Failed" -> e.from,
    0, e.from>>
ControlKey(c) == <<c.at, Gateway, 0, c.from>>
LocalKey(l) == <<l.at, l.to, 0, l.from>>

\* Faulty: a timer has the dispatch order of a message.
AlarmKeyOfMessage(a) == <<a.at, a.name[1], 0, a.name[1]>>

AlarmKey(a) == <<a.at, a.name[1], 1, a.name[1]>>

Keys ==
  {MessageKey(e) : e \in queue} \cup {ControlKey(c) : c \in controls} \cup
  {LocalKey(l) : l \in locals} \cup {AlarmKey(a) : a \in alarms}

\* k does not come after l.
NotAfter(k, l) ==
  \A i \in 1..4 : (\A j \in 1..(i - 1) : k[j] = l[j]) => k[i] <= l[i]

\* The event loop takes an event with this key.
Takes(k) ==
  /\ until # Idle
  /\ running = NoNode
  /\ until = Endless \/ k[1] <= until
  /\ \A l \in Keys : NotAfter(k, l)

-----------------------------------------------------------------------------
(* The scenario, between two runs of the event loop *)

Between == until = Idle

ScheduleAppMessage(to, m, at) ==
  /\ Between
  /\ <<Source, to>> \in Links
  /\ ScheduleMessage(Source, to, m, at)
  /\ UNCHANGED <<timerVars, localVars, controlVars, loopVars>>

\* The local message is pushed, by the scenario or by a node.
PushLocal(at, to, from, msg) ==
  /\ at \in now..MaxTime
  /\ msg \notin heard \cup {l.msg : l \in locals}
  /\ locals' = locals \cup {[at |-> at, to |-> to, from |-> from, msg |-> msg]}
  /\ UNCHANGED heard

ScheduleLocalMessage(at, to, msg) ==
  /\ Between
  /\ <<Source, to>> \in Links
  /\ PushLocal(at, to, Source, msg)
  /\ UNCHANGED <<vars, timerVars, controlVars, loopVars>>

ScheduleControl(at, control) ==
  /\ Between
  /\ scheduled < MaxControls
  /\ at \in now..MaxTime
  /\ controls' = controls \cup {[at |-> at, from |-> Source, control |-> control]}
  /\ scheduled' = scheduled + 1
  /\ UNCHANGED <<vars, timerVars, localVars, loopVars, closedSince>>

RunUntil(t) ==
  /\ Between
  /\ until' = t
  /\ UNCHANGED <<vars, timerVars, localVars, controlVars, running>>

Process == RunUntil(Endless)

\* Nothing within the horizon is left.  Process() is the end of a program.
Stop ==
  /\ until \notin {Idle, Endless}
  /\ running = NoNode
  /\ \A k \in Keys : k[1] > until
  /\ until' = Idle
  /\ UNCHANGED <<vars, timerVars, localVars, controlVars, running>>

-----------------------------------------------------------------------------
(* The event loop *)

\* The gateway handles a message that was sent; a node, one that arrives and
\* the notice of one that was dropped.
TakeMessage(e) ==
  /\ Takes(MessageKey(e))
  /\ \/ HandleSend(e) /\ UNCHANGED running
     \/ HandleReceived(e) /\ running' = e.to
     \/ HandleFailed(e) /\ running' = e.from
  /\ Timers!OtherEvent(e.at)
  /\ UNCHANGED <<localVars, controlVars, until>>

\* A node does nothing about a timer that is stale.
TakeAlarm(a) ==
  /\ Takes(AlarmKey(a))
  /\ Timers!TimerEvent(a)
  /\ running' = IF ringing' = {} THEN NoNode ELSE a.name[1]
  /\ OtherEvent(a.at)
  /\ UNCHANGED <<localVars, controlVars, until>>

TakeLocal(l) ==
  /\ Takes(LocalKey(l))
  /\ locals' = locals \ {l}
  /\ heard' = heard \cup {l.msg}
  /\ running' = l.to
  /\ OtherEvent(l.at)
  /\ Timers!OtherEvent(l.at)
  /\ UNCHANGED <<controlVars, until>>

\* The link from i to j is to carry nothing.
Closed(i, j) == j \in failed \/ j \in partitionedFrom[i]

Closes(i, j) == ~Closed(i, j) /\ Closed(i, j)'

TakeControl(c) ==
  /\ Takes(ControlKey(c))
  /\ controls' = controls \ {c}
  /\ \/ /\ "node" \in DOMAIN c.control
        /\ SetNodeStatus(c.control.node, c.control.status = "Fail", c.at)
     \/ /\ "isolate" \in DOMAIN c.control
        /\ ApplyPartitionPair(c.control.a, c.control.b, c.control.isolate, c.at)
  /\ closedSince' = [l \in Node \X Node |->
                       IF Closes(l[1], l[2]) THEN c.at ELSE closedSince[l]]
  /\ Timers!OtherEvent(c.at)
  /\ UNCHANGED <<localVars, scheduled, loopVars>>

Step ==
  \/ \E e \in queue : TakeMessage(e)
  \/ \E a \in alarms : TakeAlarm(a)
  \/ \E l \in locals : TakeLocal(l)
  \/ \E c \in controls : TakeControl(c)

-----------------------------------------------------------------------------
(* What the handler of a node may do, in any order and number *)

HandlerSends(n, j, m) ==
  /\ running = n
  /\ <<n, j>> \in Links
  /\ SendMessage(n, j, m)
  /\ UNCHANGED <<timerVars, localVars, controlVars, loopVars>>

SendLocal(n, msg) ==
  /\ running = n
  /\ Sink \notin {NoNode, n}
  /\ PushLocal(now, Sink, n, msg)
  /\ UNCHANGED <<vars, timerVars, controlVars, loopVars>>

HandlerSetsTimer(n, a, duration) ==
  /\ running = n
  /\ a[1] = n
  /\ Timers!SetTimer(a, duration)
  /\ UNCHANGED <<vars, localVars, controlVars, loopVars>>

HandlerCancelsTimer(n, a) ==
  /\ running = n
  /\ a[1] = n
  /\ Timers!CancelTimer(a)
  /\ UNCHANGED <<vars, localVars, controlVars, loopVars>>

Return ==
  /\ running # NoNode
  /\ running' = NoNode
  /\ UNCHANGED <<vars, timerVars, localVars, controlVars, until>>

Handler ==
  \E n \in Node :
    \/ \E j \in Node, m \in Msg : HandlerSends(n, j, m)
    \/ \E msg \in Local : SendLocal(n, msg)
    \/ \E a \in Alarms, duration \in Durations : HandlerSetsTimer(n, a, duration)
    \/ \E a \in Alarms : HandlerCancelsTimer(n, a)

Scenario ==
  \/ \E at \in now..MaxTime :
       \/ \E to \in Node, m \in Msg : ScheduleAppMessage(to, m, at)
       \/ \E to \in Node, msg \in Local : ScheduleLocalMessage(at, to, msg)
       \/ \E control \in Controls : ScheduleControl(at, control)
  \/ \E t \in Horizons : RunUntil(t)
  \/ Process

SimNext == Scenario \/ Step \/ Stop \/ Handler \/ Return

SimSpec == SimInit /\ [][SimNext]_simVars

\* The event loop goes on until it stops; a handler returns.
SimFair ==
  /\ SimSpec
  /\ WF_simVars(Step)
  /\ WF_simVars(Return)

-----------------------------------------------------------------------------
(* Properties *)

\* A message given to the network, by a node or in advance by the scenario, is
\* received or comes back as failed when the event loop runs until it is empty.
EveryMessageSettles ==
  \A m \in Msg :
    m \in Known /\ until = Endless ~> m \in received \cup refused

\* While a node handles a timer, nothing of that instant that was queued for
\* the node is left: a heartbeat that arrives when the election timer rings is
\* handled first.
MessagesBeforeTimers ==
  \A n \in Node :
    running = n /\ (\E a \in ringing : a[1] = n) =>
      /\ \A e \in queue : e.status = "Received" /\ e.to = n => e.at > now
      /\ \A e \in queue : e.status = "Failed" /\ e.from = n => e.at > now
      /\ \A l \in locals : l.to = n => l.at > now

\* What is on its way over a link that is closed, by a partition or a failure
\* of the receiver, was sent before it was closed.
ClosedLinksCarryNothingNew ==
  \A e \in queue :
    e.status = "Received" /\ Closed(e.from, e.to) =>
      e.sent <= closedSince[<<e.from, e.to>>]

=============================================================================
