------------------------------ MODULE TimerBook ------------------------------
(***************************************************************************)
(* The timers of one node: SimulationTimerBook, SetTimer, CancelTimer and  *)
(* the event queue of the simulation.  A timer event can not be taken out  *)
(* of the queue; setting or cancelling a timer makes the events that are   *)
(* queued for it stale instead, by moving on to the timer's next token.    *)
(***************************************************************************)
EXTENDS Integers

CONSTANTS
  Name,       \* the timers of the node
  Durations,  \* what SetTimer is called with
  MaxTime,    \* bound on the simulated time
  MaxToken    \* bound on the tokens of a timer

ASSUME DurationsAssumption == Durations \subseteq Int
ASSUME TimerBoundAssumption == MaxTime \in Nat /\ MaxToken \in Nat

VARIABLES
  now,        \* EventManager::now_
  queue,      \* the timer events of the node that are queued
  current,    \* SimulationTimerBook::current_, 0 where the map has no entry
  deadline,   \* history: the deadline the node last asked for, or Off
  ringing     \* history: the name OnTimer was last called with, if it was

vars == <<now, queue, current, deadline, ringing>>

Off == -1

Init ==
  /\ now = 0
  /\ queue = {}
  /\ current = [n \in Name |-> 0]
  /\ deadline = [n \in Name |-> Off]
  /\ ringing = {}

\* Faulty: the event carries the token before the increment.
IssuedOneShort(n) == current[n]

\* The token that Issue returns and leaves in current_.
Issued(n) == current[n] + 1

SetTimer(n, duration) ==
  /\ duration > 0
  /\ current[n] < MaxToken
  /\ now + duration <= MaxTime
  /\ current' = [current EXCEPT ![n] = @ + 1]
  /\ queue' = queue \cup
       {[name |-> n, token |-> Issued(n), at |-> now + duration]}
  /\ deadline' = [deadline EXCEPT ![n] = now + duration]
  /\ ringing' = {}
  /\ UNCHANGED now

\* Faulty: the queued event stays valid.
Forget(n) == current

Invalidate(n) == [current EXCEPT ![n] = @ + 1]

CancelTimer(n) ==
  /\ current[n] < MaxToken
  /\ current' = Invalidate(n)
  /\ deadline' = [deadline EXCEPT ![n] = Off]
  /\ ringing' = {}
  /\ UNCHANGED <<now, queue>>

\* Faulty: any token that was ever issued will do.
ValidateIssued(n, token) == token <= current[n]

Validate(n, token) == token = current[n]

\* EventManager::Step takes a timer event; the node drops it when it is stale.
TimerEvent(e) ==
  /\ \A f \in queue : e.at <= f.at
  /\ queue' = queue \ {e}
  /\ now' = e.at
  /\ \/ /\ Validate(e.name, e.token)
        /\ deadline' = [deadline EXCEPT ![e.name] = Off]
        /\ ringing' = {e.name}
     \/ /\ ~Validate(e.name, e.token)
        /\ ringing' = {}
        /\ UNCHANGED deadline
  /\ UNCHANGED current

\* EventManager::Step takes an event of another kind, or of another node.
OtherEvent(t) ==
  /\ \A f \in queue : t <= f.at
  /\ now' = t
  /\ ringing' = {}
  /\ UNCHANGED <<queue, current, deadline>>

Next ==
  \/ \E n \in Name, duration \in Durations : SetTimer(n, duration)
  \/ \E n \in Name : CancelTimer(n)
  \/ \E e \in queue : TimerEvent(e)
  \/ \E t \in now..MaxTime : OtherEvent(t)

Spec == Init /\ [][Next]_vars

\* Process() runs until the queue is empty.
FairSpec == Spec /\ WF_vars(\E e \in queue : TimerEvent(e))

-----------------------------------------------------------------------------
(* Properties *)

Clock == INSTANCE AlarmClock

\* The queue and the tokens together are an alarm clock: OnTimer runs exactly
\* for the last deadline of a timer, at that time, and never for one that was
\* replaced or cancelled, however many stale events are queued.
RingsOnTime == Clock!Spec

\* The queued events of a timer that Validate would accept: one at the deadline
\* asked for, none when nothing is asked for.
LiveEvents(n) == {e \in queue : e.name = n /\ Validate(n, e.token)}
LiveEventAtDeadline ==
  \A n \in Name : {e.at : e \in LiveEvents(n)} = {deadline[n]} \ {Off}

\* A deadline does not stand for ever: the timer rings, or is set or cancelled.
DeadlinesPass ==
  \A n \in Name, d \in 1..MaxTime : deadline[n] = d ~> deadline[n] # d

=============================================================================
