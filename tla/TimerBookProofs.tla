-------------------------- MODULE TimerBookProofs --------------------------
(* TimerBook.tla implements AlarmClock.tla, for any timers and durations. *)
EXTENDS TimerBook, TLAPS

TimerEvents == [name : Name, token : Nat, at : Nat]

TypeInv ==
  /\ now \in Nat
  /\ queue \in SUBSET TimerEvents
  /\ current \in [Name -> Nat]
  /\ deadline \in [Name -> Nat \cup {Off}]

\* No queued event is from the past or has a token that is yet to be issued.
QueueInv ==
  \A e \in queue : now <= e.at /\ e.token <= current[e.name]

\* A token is on one event at most.
TokenInv ==
  \A e, f \in queue : e.name = f.name /\ e.token = f.token => e = f

\* The event with the current token is at the deadline; a deadline has one.
DeadlineInv ==
  /\ \A e \in queue : e.token = current[e.name] => e.at = deadline[e.name]
  /\ \A n \in Name : deadline[n] # Off =>
       \E e \in queue : e.name = n /\ e.token = current[n]

IInv == TypeInv /\ QueueInv /\ TokenInv /\ DeadlineInv

-----------------------------------------------------------------------------

LEMMA InitIInv == Init => IInv
  BY DEF Init, IInv, TypeInv, QueueInv, TokenInv, DeadlineInv, Off

\* SetTimer makes every queued event of the timer stale and queues a live one.
LEMMA SetTimerIInv ==
  ASSUME IInv, NEW n \in Name, NEW duration \in Durations, SetTimer(n, duration)
  PROVE  IInv'
<1> DEFINE new == [name |-> n, token |-> current[n] + 1, at |-> now + duration]
<1>1. /\ duration \in Int /\ duration > 0
      /\ current' = [current EXCEPT ![n] = @ + 1]
      /\ queue' = queue \cup {new}
      /\ deadline' = [deadline EXCEPT ![n] = now + duration]
      /\ now' = now
  BY DurationsAssumption DEF SetTimer, Issued
<1>2. /\ current[n] \in Nat /\ now + duration \in Nat
      /\ current'[n] = current[n] + 1
      /\ deadline'[n] = now + duration
      /\ \A m \in Name : m # n => current'[m] = current[m] /\ deadline'[m] = deadline[m]
  BY <1>1 DEF IInv, TypeInv
<1>3. new \in TimerEvents
  BY <1>2 DEF TimerEvents
<1>4. \A e \in queue : e \in TimerEvents /\ e.token <= current[e.name] /\ now <= e.at
  BY DEF IInv, TypeInv, QueueInv
<1>5. \A e \in queue : e.name = n => e.token # current'[n]
  BY <1>2, <1>4 DEF TimerEvents
<1> HIDE DEF new
<1>6. new.name = n /\ new.token = current'[n] /\ new.at = now + duration
  BY <1>2 DEF new
<1>7. TypeInv'
  BY <1>1, <1>2, <1>3 DEF IInv, TypeInv
<1>8. QueueInv'
  BY <1>1, <1>2, <1>4, <1>6 DEF QueueInv, TimerEvents, IInv, TypeInv
<1>9. TokenInv'
  BY <1>1, <1>5, <1>6 DEF TokenInv, IInv
<1>10. DeadlineInv'
  <2>1. \A e \in queue' : e.token = current'[e.name] => e.at = deadline'[e.name]
    <3> SUFFICES ASSUME NEW e \in queue', e.token = current'[e.name]
                 PROVE  e.at = deadline'[e.name]
      OBVIOUS
    <3>1. CASE e = new
      BY <3>1, <1>2, <1>6
    <3>2. CASE e \in queue
      <4>1. e.name \in Name /\ e.name # n
        BY <3>2, <1>4, <1>5 DEF TimerEvents
      <4> QED
        BY <3>2, <4>1, <1>2 DEF IInv, DeadlineInv
    <3> QED
      BY <3>1, <3>2, <1>1
  <2>2. ASSUME NEW m \in Name, deadline'[m] # Off
        PROVE  \E e \in queue' : e.name = m /\ e.token = current'[m]
    <3>1. CASE m = n
      BY <3>1, <1>1, <1>6
    <3>2. CASE m # n
      BY <3>2, <2>2, <1>1, <1>2 DEF IInv, DeadlineInv
    <3> QED
      BY <3>1, <3>2
  <2> QED
    BY <2>1, <2>2 DEF DeadlineInv
<1> QED
  BY <1>7, <1>8, <1>9, <1>10 DEF IInv

LEMMA CancelTimerIInv ==
  ASSUME IInv, NEW n \in Name, CancelTimer(n)
  PROVE  IInv'
<1>1. /\ current' = [current EXCEPT ![n] = @ + 1]
      /\ deadline' = [deadline EXCEPT ![n] = Off]
      /\ queue' = queue /\ now' = now
  BY DEF CancelTimer, Invalidate
<1>2. /\ current[n] \in Nat
      /\ current'[n] = current[n] + 1
      /\ deadline'[n] = Off
      /\ \A m \in Name : m # n => current'[m] = current[m] /\ deadline'[m] = deadline[m]
  BY <1>1 DEF IInv, TypeInv
<1>3. \A e \in queue : e \in TimerEvents /\ e.token <= current[e.name] /\ now <= e.at
  BY DEF IInv, TypeInv, QueueInv
<1>4. \A e \in queue : e.name = n => e.token # current'[n]
  BY <1>2, <1>3 DEF TimerEvents
<1>5. TypeInv'
  BY <1>1, <1>2 DEF IInv, TypeInv
<1>6. QueueInv'
  BY <1>1, <1>2, <1>3 DEF QueueInv, TimerEvents, IInv, TypeInv
<1>7. TokenInv'
  BY <1>1 DEF TokenInv, IInv
<1>8. DeadlineInv'
  BY <1>1, <1>2, <1>3, <1>4 DEF DeadlineInv, IInv, TimerEvents
<1> QED
  BY <1>5, <1>6, <1>7, <1>8 DEF IInv

LEMMA TimerEventIInv ==
  ASSUME IInv, NEW e \in queue, TimerEvent(e)
  PROVE  IInv'
<1>1. /\ \A f \in queue : e.at <= f.at
      /\ queue' = queue \ {e}
      /\ now' = e.at
      /\ current' = current
  BY DEF TimerEvent
<1>2. \A f \in queue : f \in TimerEvents
  BY DEF IInv, TypeInv
<1>3. e.name \in Name /\ e.at \in Nat
  BY <1>2 DEF TimerEvents
<1>4. deadline' \in [Name -> Nat \cup {Off}]
  BY DEF TimerEvent, IInv, TypeInv
<1>5. TypeInv' /\ QueueInv' /\ TokenInv'
  BY <1>1, <1>2, <1>3, <1>4 DEF IInv, TypeInv, QueueInv, TokenInv, TimerEvents
<1>6. CASE Validate(e.name, e.token)
  <2>1. /\ e.token = current[e.name]
        /\ deadline' = [deadline EXCEPT ![e.name] = Off]
    BY <1>6 DEF TimerEvent, Validate
  <2>2. \A f \in queue' : f.name = e.name => f.token # current[e.name]
    BY <1>1, <2>1 DEF IInv, TokenInv
  <2>3. /\ deadline'[e.name] = Off
        /\ \A m \in Name : m # e.name => deadline'[m] = deadline[m]
    BY <2>1, <1>3 DEF IInv, TypeInv
  <2>4. DeadlineInv'
    BY <1>1, <1>2, <2>1, <2>2, <2>3 DEF IInv, DeadlineInv, TimerEvents
  <2> QED
    BY <1>5, <2>4 DEF IInv
<1>7. CASE ~Validate(e.name, e.token)
  <2>1. deadline' = deadline /\ e.token # current[e.name]
    BY <1>7 DEF TimerEvent, Validate
  <2>2. DeadlineInv'
    BY <1>1, <2>1 DEF IInv, DeadlineInv
  <2> QED
    BY <1>5, <2>2 DEF IInv
<1> QED
  BY <1>6, <1>7

LEMMA OtherEventIInv ==
  ASSUME IInv, NEW t \in Nat, now <= t, OtherEvent(t)
  PROVE  IInv'
  BY DEF OtherEvent, IInv, TypeInv, QueueInv, TokenInv, DeadlineInv

\* A step of Next, but that other events may come at any time: what holds of
\* these steps holds wherever the timers share the queue with other events.
Steps ==
  \/ \E n \in Name, duration \in Durations : SetTimer(n, duration)
  \/ \E n \in Name : CancelTimer(n)
  \/ \E e \in queue : TimerEvent(e)
  \/ \E t \in Nat : now <= t /\ OtherEvent(t)

LEMMA NextIsSteps == IInv /\ [Next]_vars => [Steps]_vars
  BY TimerBoundAssumption DEF Next, Steps, IInv, TypeInv

LEMMA StepsIInv == IInv /\ [Steps]_vars => IInv'
<1> SUFFICES ASSUME IInv, [Steps]_vars PROVE IInv'
  OBVIOUS
<1>1. ASSUME NEW n \in Name, NEW duration \in Durations, SetTimer(n, duration)
      PROVE  IInv'
  BY <1>1, SetTimerIInv
<1>2. ASSUME NEW n \in Name, CancelTimer(n) PROVE IInv'
  BY <1>2, CancelTimerIInv
<1>3. ASSUME NEW e \in queue, TimerEvent(e) PROVE IInv'
  BY <1>3, TimerEventIInv
<1>4. ASSUME NEW t \in Nat, now <= t, OtherEvent(t) PROVE IInv'
  BY <1>4, OtherEventIInv
<1>5. CASE UNCHANGED vars
  BY <1>5 DEF vars, IInv, TypeInv, QueueInv, TokenInv, DeadlineInv
<1> QED
  BY <1>1, <1>2, <1>3, <1>4, <1>5 DEF Steps

LEMMA SpecIInv == Spec => []IInv
  BY InitIInv, NextIsSteps, StepsIInv, PTL DEF Spec

-----------------------------------------------------------------------------

\* The queued events that Validate accepts are at the deadlines asked for.
THEOREM LiveEvents_AtDeadline == Spec => []LiveEventAtDeadline
<1>1. IInv => LiveEventAtDeadline
  <2> SUFFICES ASSUME IInv, NEW n \in Name
               PROVE  {e.at : e \in LiveEvents(n)} = {deadline[n]} \ {Off}
    BY DEF LiveEventAtDeadline
  <2>1. \A e \in LiveEvents(n) : e.at = deadline[n] /\ e.at # Off
    BY DEF LiveEvents, Validate, IInv, DeadlineInv, TypeInv, TimerEvents, Off
  <2>2. deadline[n] # Off => LiveEvents(n) # {}
    BY DEF LiveEvents, Validate, IInv, DeadlineInv
  <2> QED
    BY <2>1, <2>2
<1> QED
  BY <1>1, SpecIInv, PTL

LEMMA InitRings == Init => Clock!Init
  BY DEF Init, Clock!Init, Off, Clock!Off

LEMMA StepsRing == IInv /\ [Steps]_vars => [Clock!Next]_(Clock!clock)
<1> SUFFICES ASSUME IInv, [Steps]_vars
             PROVE  Clock!Next \/ UNCHANGED Clock!clock
  OBVIOUS
<1>1. ASSUME NEW n \in Name, NEW duration \in Durations, SetTimer(n, duration)
      PROVE  Clock!Arm(n)
  BY <1>1, DurationsAssumption DEF SetTimer, Clock!Arm, IInv, TypeInv
<1>2. ASSUME NEW n \in Name, CancelTimer(n)
      PROVE  Clock!Disarm(n)
  BY <1>2 DEF CancelTimer, Clock!Disarm, Off, Clock!Off
<1>3. ASSUME NEW e \in queue, TimerEvent(e)
      PROVE  Clock!Next
  <2>1. \A t \in Nat : t <= e.at => Clock!NoneDueBefore(t)
    <3> SUFFICES ASSUME NEW t \in Nat, t <= e.at, NEW m \in Name, deadline[m] # Off
                 PROVE  t <= deadline[m]
      BY DEF Clock!NoneDueBefore, Off, Clock!Off
    <3>1. PICK f \in queue : f.name = m /\ f.token = current[m]
      BY DEF IInv, DeadlineInv
    <3>2. f.at = deadline[m] /\ e.at <= f.at
      BY <3>1, <1>3 DEF IInv, DeadlineInv, TimerEvent
    <3>3. e.at \in Nat /\ f.at \in Nat
      BY DEF IInv, TypeInv, TimerEvents
    <3> QED
      BY <3>2, <3>3
  <2>2. e.name \in Name /\ e.at \in Nat /\ now <= e.at
    BY DEF IInv, TypeInv, QueueInv, TimerEvents
  <2>3. CASE Validate(e.name, e.token)
    <3>1. deadline[e.name] = e.at
      BY <2>3 DEF Validate, IInv, DeadlineInv
    <3>2. Clock!Ring(e.name)
      BY <1>3, <2>1, <2>2, <2>3, <3>1
      DEF TimerEvent, Clock!Ring, Off, Clock!Off
    <3> QED
      BY <2>2, <3>2 DEF Clock!Next
  <2>4. CASE ~Validate(e.name, e.token)
    <3>1. Clock!Advance
      BY <1>3, <2>1, <2>2, <2>4 DEF TimerEvent, Clock!Advance
    <3> QED
      BY <3>1 DEF Clock!Next
  <2> QED
    BY <2>3, <2>4
<1>4. ASSUME NEW t \in Nat, now <= t, OtherEvent(t)
      PROVE  Clock!Advance
  <2>1. Clock!NoneDueBefore(t)
    BY <1>4 DEF OtherEvent, Clock!NoneDueBefore, IInv, DeadlineInv, Off, Clock!Off
  <2> QED
    BY <1>4, <2>1 DEF OtherEvent, Clock!Advance
<1>5. CASE UNCHANGED vars
  BY <1>5 DEF vars, Clock!clock
<1> QED
  BY <1>1, <1>2, <1>3, <1>4, <1>5 DEF Steps, Clock!Next

\* SimulationTimerBook and the event queue implement the alarm clock: OnTimer
\* runs at the deadline of a timer that is set, and for nothing else.
THEOREM TimersRingOnTime == Spec => RingsOnTime
  BY InitRings, NextIsSteps, StepsRing, SpecIInv, PTL DEF Spec, RingsOnTime, Clock!Spec

=============================================================================
