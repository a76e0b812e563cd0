------------------------------ MODULE Channels ------------------------------
(***************************************************************************)
(* What the simulated network promises to the nodes, and all that Raft.tla *)
(* assumes of its links: what a node sends to another at one instant stays *)
(* behind what it sent there earlier; each message is received once or     *)
(* refused, and the sender is told of a refusal.                           *)
(***************************************************************************)
EXTENDS Integers

CONSTANTS
  Node,
  Msg

VARIABLES
  now,        \* simulated time
  transit,    \* the messages on their way, with the instant they are sent at
  received,   \* the messages that reached their receiver
  refused     \* the messages that the network did not carry

channels == <<now, transit, received, refused>>

Envelopes == [msg : Msg, from : Node, to : Node, sent : Nat]

Known == {p.msg : p \in transit} \cup received \cup refused

Init ==
  /\ now = 0
  /\ transit = {}
  /\ received = {}
  /\ refused = {}

\* A message may be given to the network in advance, for a later instant.
Send ==
  \E p \in transit' :
    /\ p \in Envelopes
    /\ p.sent >= now
    /\ p.msg \notin Known
    /\ transit' = transit \cup {p}
    /\ UNCHANGED <<now, received, refused>>

\* Nothing that was sent over the same link at an earlier instant is on its way.
IsFirst(p) ==
  \A q \in transit : q.from = p.from /\ q.to = p.to => p.sent <= q.sent

Passes == now' \in Nat /\ now <= now'

\* No message ends its way before it was sent.
Ends(p) ==
  /\ transit' = transit \ {p}
  /\ Passes
  /\ p.sent <= now'

Receive(p) ==
  /\ IsFirst(p)
  /\ Ends(p)
  /\ received' = received \cup {p.msg}
  /\ UNCHANGED refused

Refuse(p) ==
  /\ Ends(p)
  /\ refused' = refused \cup {p.msg}
  /\ UNCHANGED received

Pass == Passes /\ UNCHANGED <<transit, received, refused>>

Next ==
  \/ Send
  \/ \E p \in transit : Receive(p)
  \/ \E p \in transit : Refuse(p)
  \/ Pass

Spec == Init /\ [][Next]_channels

=============================================================================
