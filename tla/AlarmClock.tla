----------------------------- MODULE AlarmClock -----------------------------
(***************************************************************************)
(* What the named timers of a simulated node promise: a timer rings at the *)
(* deadline it was last given, once, unless it is cancelled before.        *)
(***************************************************************************)
EXTENDS Integers

CONSTANT Name   \* the timers of the node

VARIABLES
  now,        \* simulated time
  deadline,   \* deadline[n]: when timer n is to ring, or Off
  ringing     \* the timer that the last step rang, if it rang one

clock == <<now, deadline, ringing>>

Off == -1

Init ==
  /\ now = 0
  /\ deadline = [n \in Name |-> Off]
  /\ ringing = {}

\* No deadline lies before t.
NoneDueBefore(t) == \A n \in Name : deadline[n] = Off \/ t <= deadline[n]

Arm(n) ==
  /\ deadline'[n] \in Nat
  /\ deadline'[n] > now
  /\ deadline' = [deadline EXCEPT ![n] = deadline'[n]]
  /\ ringing' = {}
  /\ UNCHANGED now

Disarm(n) ==
  /\ deadline' = [deadline EXCEPT ![n] = Off]
  /\ ringing' = {}
  /\ UNCHANGED now

Ring(n) ==
  /\ deadline[n] # Off
  /\ NoneDueBefore(deadline[n])
  /\ now' = deadline[n]
  /\ deadline' = [deadline EXCEPT ![n] = Off]
  /\ ringing' = {n}

Advance ==
  /\ now' \in Nat
  /\ now' >= now
  /\ NoneDueBefore(now')
  /\ ringing' = {}
  /\ UNCHANGED deadline

Next ==
  \/ \E n \in Name : Arm(n)
  \/ \E n \in Name : Disarm(n)
  \/ \E n \in Name : Ring(n)
  \/ Advance

Spec == Init /\ [][Next]_clock

=============================================================================
