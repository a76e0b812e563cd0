-------------------------- MODULE SimulationProofs --------------------------
(***************************************************************************)
(* The network alone and among everything else that a simulation does.     *)
(* First: Network.tla implements Channels.tla, for any nodes, messages and *)
(* delays.  Then: Simulation.tla implements Network.tla, so the same holds *)
(* of it, and what concerns the network and the other events together.     *)
(***************************************************************************)
EXTENDS Simulation, TLAPS


TypeInv ==
  /\ now \in Nat
  /\ queue \in SUBSET Events
  /\ lastArrival \in [Node \X Node -> Nat \cup {Never}]

\* A message that left its sender did so in the past; it is on at most one event,
\* which lies in the future, and was not handled before.
QueueInv ==
  /\ \A e \in queue : now <= e.at
  /\ \A e \in queue : e.status # "Sended" => e.sent <= now
  /\ \A e \in queue : e.msg \notin received \cup refused
  /\ \A e, f \in queue : e.msg = f.msg => e = f

\* The gateway handles a message, and reports a drop, at the instant of sending.
InstantInv == \A e \in queue : e.status # "Received" => e.at = e.sent

\* Arrivals on a link keep the order of sending, and none is after the last.
ArrivalInv ==
  /\ \A e \in queue :
       e.status = "Received" => e.at <= lastArrival[<<e.from, e.to>>]
  /\ \A e, f \in queue :
       /\ e.status = "Received" /\ f.status = "Received"
       /\ e.from = f.from /\ e.to = f.to
       /\ e.sent < f.sent
       => e.at < f.at

IInv == TypeInv /\ QueueInv /\ InstantInv /\ ArrivalInv

\* What the refinement mapping sees of an event.
Envelope(e) == [msg |-> e.msg, from |-> e.from, to |-> e.to, sent |-> e.sent]

-----------------------------------------------------------------------------
(* Each action preserves the invariant *)

LEMMA InitIInv == Init => IInv
  BY DEF Init, IInv, TypeInv, QueueInv, InstantInv, ArrivalInv, Never

LEMMA ScheduleMessageIInv ==
  ASSUME IInv, NEW i \in Node, NEW j \in Node, NEW m \in Msg,
         NEW at \in now..MaxTime, ScheduleMessage(i, j, m, at)
  PROVE  IInv'
<1> DEFINE new == [status |-> "Sended", msg |-> m, from |-> i, to |-> j,
                   sent |-> at, at |-> at]
<1>1. /\ queue' = queue \cup {new}
      /\ now' = now /\ lastArrival' = lastArrival
      /\ received' = received /\ refused' = refused
  BY DEF ScheduleMessage
<1>2. at \in Nat /\ now <= at
  BY TimeAssumption DEF IInv, TypeInv
<1>3. new \in Events
  BY <1>2 DEF Events
<1>4. \A e \in queue : e.msg # m
  BY DEF ScheduleMessage, Known
<1>5. m \notin received \cup refused
  BY DEF ScheduleMessage, Known
<1>6. new.status = "Sended" /\ new.msg = m /\ new.sent = at /\ new.at = at
  OBVIOUS
<1> HIDE DEF new
<1>7. TypeInv'
  BY <1>1, <1>3 DEF IInv, TypeInv
<1>8. QueueInv'
  BY <1>1, <1>2, <1>4, <1>5, <1>6 DEF IInv, QueueInv, TypeInv
<1>9. InstantInv' /\ ArrivalInv'
  BY <1>1, <1>6 DEF IInv, InstantInv, ArrivalInv
<1> QED
  BY <1>7, <1>8, <1>9 DEF IInv

\* The passing of time up to the next event keeps the invariant.
LEMMA ReachesIInv ==
  ASSUME IInv, NEW t \in now..MaxTime, Reaches(t),
         UNCHANGED <<queue, lastArrival, received, refused>>
  PROVE  IInv'
<1>1. t \in Nat /\ now <= t /\ now' = t /\ \A f \in queue : t <= f.at
  BY TimeAssumption DEF IInv, TypeInv, Reaches
<1>2. \A f \in queue : f.sent \in Nat
  BY DEF IInv, TypeInv, Events
<1>3. TypeInv' /\ InstantInv' /\ ArrivalInv'
  BY <1>1 DEF IInv, TypeInv, InstantInv, ArrivalInv
<1>4. QueueInv'
  BY <1>1, <1>2 DEF IInv, TypeInv, QueueInv
<1> QED
  BY <1>3, <1>4 DEF IInv

\* Taking an event that is next, at its time, keeps what concerns the others.
LEMMA TakeNext ==
  ASSUME IInv, NEW e, IsNext(e)
  PROVE  /\ e \in queue /\ e \in Events
         /\ e.at \in Nat /\ now <= e.at /\ e.sent <= e.at
         /\ \A f \in queue : f \in Events /\ e.at <= f.at
         /\ \A f \in queue : f.status # "Sended" => f.sent <= e.at
<1>1. /\ \A f \in queue : f \in Events /\ e.at <= f.at /\ now <= f.at
      /\ \A f \in queue : f.status # "Sended" => f.sent <= now
  BY DEF IInv, TypeInv, QueueInv, IsNext
<1>2. e \in queue
  BY DEF IsNext
<1>3. \A f \in queue : f.sent \in Nat /\ f.at \in Nat
  BY <1>1 DEF Events
<1>4. now \in Nat
  BY DEF IInv, TypeInv
<1>5. e.sent <= e.at
  <2>1. CASE e.status = "Sended"
    BY <2>1, <1>2, <1>3 DEF IInv, InstantInv
  <2>2. CASE e.status # "Sended"
    BY <2>2, <1>1, <1>2, <1>3, <1>4
  <2> QED
    BY <2>1, <2>2
<1> QED
  BY <1>1, <1>2, <1>3, <1>4, <1>5

LEMMA HandleReceivedIInv ==
  ASSUME IInv, NEW e, HandleReceived(e)
  PROVE  IInv'
<1>1. IsNext(e) /\ queue' = queue \ {e} /\ now' = e.at
      /\ received' = received \cup {e.msg} /\ refused' = refused
      /\ lastArrival' = lastArrival
  BY DEF HandleReceived
<1>2. TypeInv' /\ InstantInv' /\ ArrivalInv'
  BY <1>1, TakeNext DEF IInv, TypeInv, InstantInv, ArrivalInv
<1>3. QueueInv'
  BY <1>1, TakeNext DEF IInv, QueueInv
<1> QED
  BY <1>2, <1>3 DEF IInv

LEMMA HandleFailedIInv ==
  ASSUME IInv, NEW e, HandleFailed(e)
  PROVE  IInv'
<1>1. IsNext(e) /\ queue' = queue \ {e} /\ now' = e.at
      /\ refused' = refused \cup {e.msg} /\ received' = received
      /\ lastArrival' = lastArrival
  BY DEF HandleFailed
<1>2. TypeInv' /\ InstantInv' /\ ArrivalInv'
  BY <1>1, TakeNext DEF IInv, TypeInv, InstantInv, ArrivalInv
<1>3. QueueInv'
  BY <1>1, TakeNext DEF IInv, QueueInv
<1> QED
  BY <1>2, <1>3 DEF IInv

\* Replacing the next event by one of the same message keeps QueueInv.
LEMMA ReplaceQueueInv ==
  ASSUME IInv, NEW e, IsNext(e), NEW new,
         new.msg = e.msg, new.sent = e.sent, new.at \in Nat, e.at <= new.at,
         queue' = (queue \ {e}) \cup {new}, now' = e.at,
         received' = received, refused' = refused
  PROVE  QueueInv'
<1>1. \A f \in queue' : now' <= f.at /\ (f.status # "Sended" => f.sent <= now')
  BY TakeNext
<1>2. \A f \in queue' : f.msg \notin received' \cup refused'
  BY TakeNext DEF IInv, QueueInv
<1>3. \A f, g \in queue' : f.msg = g.msg => f = g
  BY TakeNext DEF IInv, QueueInv
<1> QED
  BY <1>1, <1>2, <1>3 DEF QueueInv

LEMMA DropIInv ==
  ASSUME IInv, NEW e, HandleSend(e), Drop(e)
  PROVE  IInv'
<1> DEFINE new == [e EXCEPT !.status = "Failed", !.at = e.at]
<1>1. /\ IsNext(e) /\ e.status = "Sended" /\ now' = e.at
      /\ queue' = (queue \ {e}) \cup {new}
      /\ lastArrival' = lastArrival /\ received' = received /\ refused' = refused
  BY DEF HandleSend, Drop, Dropped
<1>2. e \in Events
  BY <1>1, TakeNext
<1>3. /\ new \in Events
      /\ new.msg = e.msg /\ new.sent = e.sent /\ new.at = e.at
      /\ new.from = e.from /\ new.to = e.to /\ new.status = "Failed"
  BY <1>2 DEF Events
<1> HIDE DEF new
<1>4. TypeInv'
  BY <1>1, <1>3, TakeNext DEF IInv, TypeInv
<1>5. QueueInv'
  BY <1>1, <1>3, TakeNext, ReplaceQueueInv
<1>6. InstantInv'
  BY <1>1, <1>3, TakeNext DEF IInv, InstantInv
<1>7. ArrivalInv'
  BY <1>1, <1>3 DEF IInv, ArrivalInv
<1> QED
  BY <1>4, <1>5, <1>6, <1>7 DEF IInv

LEMMA ArrivalBound ==
  ASSUME IInv, NEW l \in Node \X Node, NEW t \in Nat
  PROVE  /\ Arrival(l, t) \in Nat
         /\ t <= Arrival(l, t)
         /\ lastArrival[l] < Arrival(l, t)
  BY DEF IInv, TypeInv, Arrival, Never

LEMMA ForwardIInv ==
  ASSUME IInv, NEW e, HandleSend(e), Forward(e)
  PROVE  IInv'
<1> DEFINE link == <<e.from, e.to>>
<1>1. PICK d \in Delays :
        LET arrive == Arrival(link, e.at + (IF d > 0 THEN d ELSE 0))
        IN /\ queue' = (queue \ {e}) \cup
                         {[e EXCEPT !.status = "Received", !.at = arrive]}
           /\ lastArrival' = [lastArrival EXCEPT ![link] = arrive]
  BY DEF Forward
<1> DEFINE at == e.at + (IF d > 0 THEN d ELSE 0)
           arrive == Arrival(link, at)
           new == [e EXCEPT !.status = "Received", !.at = arrive]
<1>2. /\ IsNext(e) /\ e.status = "Sended" /\ now' = e.at
      /\ queue' = (queue \ {e}) \cup {new}
      /\ lastArrival' = [lastArrival EXCEPT ![link] = arrive]
      /\ received' = received /\ refused' = refused
  BY <1>1 DEF HandleSend
<1>3. e \in queue /\ e \in Events /\ e.at \in Nat /\ link \in Node \X Node
  BY <1>2, TakeNext DEF Events
<1>4. at \in Nat /\ e.at <= at
  BY <1>3, DelaysAssumption
<1> HIDE DEF at
<1>5. arrive \in Nat /\ at <= arrive /\ lastArrival[link] < arrive
  BY <1>3, <1>4, ArrivalBound
<1> HIDE DEF arrive
<1>6. /\ new \in Events
      /\ new.msg = e.msg /\ new.sent = e.sent /\ new.at = arrive
      /\ new.from = e.from /\ new.to = e.to /\ new.status = "Received"
  BY <1>3, <1>5 DEF Events
<1> HIDE DEF new
<1>7. lastArrival' \in [Node \X Node -> Nat \cup {Never}] /\ lastArrival'[link] = arrive
      /\ \A l \in Node \X Node : l # link => lastArrival'[l] = lastArrival[l]
  BY <1>2, <1>3, <1>5 DEF IInv, TypeInv
<1>8. TypeInv'
  BY <1>2, <1>3, <1>6, <1>7 DEF IInv, TypeInv
<1>9. QueueInv'
  BY <1>2, <1>3, <1>4, <1>5, <1>6, ReplaceQueueInv
<1>10. InstantInv'
  BY <1>2, <1>6 DEF IInv, InstantInv
<1>11. ASSUME NEW f \in queue, f.status = "Received", f.from = e.from, f.to = e.to
       PROVE  f.at < arrive /\ ~(e.sent < f.sent)
  <2>1. f.at <= lastArrival[link] /\ f.at \in Nat /\ f.sent \in Nat /\ f.sent <= now
    BY <1>11 DEF IInv, ArrivalInv, TypeInv, QueueInv, Events
  <2>2. e.at = e.sent /\ now <= e.at /\ e.sent \in Nat
    BY <1>2, <1>3 DEF IInv, InstantInv, QueueInv, Events
  <2>3. lastArrival[link] \in Nat \cup {Never}
    BY <1>3 DEF IInv, TypeInv
  <2> QED
    BY <1>5, <2>1, <2>2, <2>3 DEF Never, IInv, TypeInv
<1>12. ASSUME NEW f \in queue', f.status = "Received"
       PROVE  f.at <= lastArrival'[<<f.from, f.to>>]
  <2>1. CASE f = new
    BY <2>1, <1>5, <1>6, <1>7
  <2>2. CASE f \in queue /\ <<f.from, f.to>> = link
    <3>1. f.at < arrive /\ f.at \in Nat
      BY <2>2, <1>11, <1>12 DEF IInv, TypeInv, Events
    <3> QED
      BY <3>1, <2>2, <1>5, <1>7
  <2>3. CASE f \in queue /\ <<f.from, f.to>> # link
    <3>1. <<f.from, f.to>> \in Node \X Node
      BY <2>3 DEF IInv, TypeInv, Events
    <3> QED
      BY <3>1, <2>3, <1>12, <1>7 DEF IInv, ArrivalInv
  <2> QED
    BY <2>1, <2>2, <2>3, <1>2
<1>13. ASSUME NEW f \in queue', NEW g \in queue',
              f.status = "Received", g.status = "Received",
              f.from = g.from, f.to = g.to, f.sent < g.sent
       PROVE  f.at < g.at
  <2>1. CASE f \in queue /\ g \in queue
    BY <2>1, <1>13 DEF IInv, ArrivalInv
  <2>2. CASE f \in queue /\ g = new
    BY <2>2, <1>13, <1>11, <1>6
  <2>3. CASE f = new /\ g \in queue
    BY <2>3, <1>13, <1>11, <1>6
  <2>4. CASE f = new /\ g = new
    <3>1. new.sent \in Nat
      BY <1>6 DEF Events
    <3> QED
      BY <3>1, <2>4, <1>13
  <2> QED
    BY <2>1, <2>2, <2>3, <2>4, <1>2
<1>14. ArrivalInv'
  BY <1>12, <1>13 DEF ArrivalInv
<1> QED
  BY <1>8, <1>9, <1>10, <1>14 DEF IInv

LEMMA NextIInv == IInv /\ [Next]_vars => IInv'
<1> SUFFICES ASSUME IInv, [Next]_vars PROVE IInv'
  OBVIOUS
<1>1. ASSUME NEW i \in Node, NEW j \in Node, NEW m \in Msg, NEW at \in now..MaxTime,
             ScheduleMessage(i, j, m, at)
      PROVE  IInv'
  BY <1>1, ScheduleMessageIInv
<1>2. ASSUME NEW t \in now..MaxTime, NEW n \in Node, NEW fail \in BOOLEAN,
             SetNodeStatus(n, fail, t)
      PROVE  IInv'
  BY <1>2, ReachesIInv DEF SetNodeStatus
<1>3. ASSUME NEW t \in now..MaxTime, NEW a \in Node, NEW b \in Node,
             NEW isolate \in BOOLEAN, ApplyPartitionPair(a, b, isolate, t)
      PROVE  IInv'
  BY <1>3, ReachesIInv DEF ApplyPartitionPair
<1>4. ASSUME NEW e \in queue, HandleSend(e)
      PROVE  IInv'
  BY <1>4, DropIInv, ForwardIInv DEF HandleSend
<1>5. ASSUME NEW e \in queue, HandleReceived(e)
      PROVE  IInv'
  BY <1>5, HandleReceivedIInv
<1>6. ASSUME NEW e \in queue, HandleFailed(e)
      PROVE  IInv'
  BY <1>6, HandleFailedIInv
<1>7. ASSUME NEW t \in now..MaxTime, OtherEvent(t)
      PROVE  IInv'
  BY <1>7, ReachesIInv DEF OtherEvent
<1>8. CASE UNCHANGED vars
  BY <1>8 DEF vars, IInv, TypeInv, QueueInv, InstantInv, ArrivalInv
<1> QED
  BY <1>1, <1>2, <1>3, <1>4, <1>5, <1>6, <1>7, <1>8 DEF Next, StepQueue

LEMMA SpecIInv == Spec => []IInv
  BY InitIInv, NextIInv, PTL DEF Spec

-----------------------------------------------------------------------------
(* Cuts *)

CutInv ==
  /\ partitionedFrom \in [Node -> SUBSET Node]
  /\ CutsAreMutual

\* However pairs are cut and healed, a drops what b sends iff b drops what a
\* sends: ApplyPartitionPair always updates the settings of both.
THEOREM Cuts_Mutual == Spec => []CutsAreMutual
<1>1. Init => CutInv
  BY DEF Init, CutInv, CutsAreMutual
<1>2. CutInv /\ [Next]_vars => CutInv'
  <2> SUFFICES ASSUME CutInv, [Next]_vars PROVE CutInv'
    OBVIOUS
  <2>1. ASSUME NEW t \in now..MaxTime, NEW a \in Node, NEW b \in Node,
               NEW isolate \in BOOLEAN, ApplyPartitionPair(a, b, isolate, t)
        PROVE  CutInv'
    <3>1. CASE a = b
      BY <2>1, <3>1 DEF ApplyPartitionPair, CutInv, CutsAreMutual
    <3>2. CASE a # b /\ isolate
      BY <2>1, <3>2 DEF ApplyPartitionPair, Cut, CutInv, CutsAreMutual
    <3>3. CASE a # b /\ ~isolate
      BY <2>1, <3>3 DEF ApplyPartitionPair, Healed, CutInv, CutsAreMutual
    <3> QED
      BY <3>1, <3>2, <3>3
  <2>2. ASSUME UNCHANGED partitionedFrom PROVE CutInv'
    BY <2>2 DEF CutInv, CutsAreMutual
  <2> QED
    BY <2>1, <2>2 DEF Next, vars, StepQueue, ScheduleMessage, SetNodeStatus,
                      HandleSend, HandleReceived, HandleFailed, OtherEvent
<1>3. CutInv => CutsAreMutual
  BY DEF CutInv
<1> QED
  BY <1>1, <1>2, <1>3, PTL DEF Spec

-----------------------------------------------------------------------------
(* Refinement *)

\* The messages in Transit are those of the queue.
LEMMA KnownMessages == Link!Known = Known
<1>1. {p.msg : p \in Transit} = {e.msg : e \in queue}
  <2>1. \A p \in Transit : \E e \in queue : p.msg = e.msg
    BY DEF Transit
  <2>2. \A e \in queue : Envelope(e) \in Transit /\ Envelope(e).msg = e.msg
    BY DEF Transit, Envelope
  <2> QED
    BY <2>1, <2>2
<1> QED
  BY <1>1 DEF Link!Known, Known

\* Taking an event off the queue takes its message, and no other, out of Transit.
LEMMA TransitTaken ==
  ASSUME IInv, NEW e \in queue, queue' = queue \ {e}
  PROVE  /\ Envelope(e) \in Transit
         /\ Transit' = Transit \ {Envelope(e)}
<1>1. \A f \in queue : Envelope(f) = Envelope(e) => f = e
  BY DEF IInv, QueueInv, Envelope
<1>2. Transit = {Envelope(f) : f \in queue} /\ Transit' = {Envelope(f) : f \in queue'}
  BY DEF Transit, Envelope
<1> QED
  BY <1>1, <1>2

\* Replacing an event by one of the same message, sent at the same time, is not
\* visible in Transit.
LEMMA TransitReplaced ==
  ASSUME NEW e \in queue, NEW new, Envelope(new) = Envelope(e),
         queue' = (queue \ {e}) \cup {new}
  PROVE  Transit' = Transit
<1>1. Transit = {Envelope(f) : f \in queue} /\ Transit' = {Envelope(f) : f \in queue'}
  BY DEF Transit, Envelope
<1> QED
  BY <1>1

\* The next event of the queue is first on its link.
LEMMA NextIsFirst ==
  ASSUME IInv, NEW e, IsNext(e), e.status = "Received"
  PROVE  Link!IsFirst(Envelope(e))
<1> SUFFICES ASSUME NEW f \in queue, f.from = e.from, f.to = e.to
             PROVE  e.sent <= f.sent
  BY DEF Link!IsFirst, Transit, Envelope
<1>1. e \in Events /\ f \in Events /\ e \in queue /\ e.sent <= e.at /\ e.at <= f.at
  BY TakeNext
<1>2. e.sent \in Nat /\ f.sent \in Nat /\ e.at \in Nat /\ f.at \in Nat
  BY <1>1 DEF Events
<1>3. CASE f.status = "Received"
  BY <1>1, <1>2, <1>3 DEF IInv, ArrivalInv
<1>4. CASE f.status # "Received"
  BY <1>1, <1>2, <1>4 DEF IInv, InstantInv
<1> QED
  BY <1>3, <1>4

\* The gateway, its random delays, drops and partitions, and an event queue that
\* orders no ties, implement lossy links that keep the order of the instants at
\* which messages were sent: the links that Raft.tla is written against.
THEOREM NetworkKeepsOrder == Spec => KeepsOrder
<1>1. Init => Link!Init
  BY DEF Init, Link!Init, Transit
<1>2. IInv /\ [Next]_vars => [Link!Next]_(Link!channels)
  <2> SUFFICES ASSUME IInv, [Next]_vars
               PROVE  Link!Next \/ UNCHANGED Link!channels
    OBVIOUS
  <2>1. ASSUME NEW i \in Node, NEW j \in Node, NEW m \in Msg,
               NEW at \in now..MaxTime, ScheduleMessage(i, j, m, at)
        PROVE  Link!Send
    <3> DEFINE new == [status |-> "Sended", msg |-> m, from |-> i, to |-> j,
                       sent |-> at, at |-> at]
               p == [msg |-> m, from |-> i, to |-> j, sent |-> at]
    <3>1. queue' = queue \cup {new}
      BY <2>1 DEF ScheduleMessage
    <3>2. Transit = {Envelope(f) : f \in queue} /\ Transit' = {Envelope(f) : f \in queue'}
      BY DEF Transit, Envelope
    <3>3. Envelope(new) = p
      BY DEF Envelope
    <3> HIDE DEF new
    <3>4. Transit' = Transit \cup {p}
      BY <3>1, <3>2, <3>3
    <3>5. at \in Nat /\ at >= now
      BY TimeAssumption DEF IInv, TypeInv
    <3>6. p \in Link!Envelopes /\ p.sent >= now /\ p.msg = m
      BY <3>5 DEF Link!Envelopes
    <3>7. m \notin Link!Known
      BY <2>1, KnownMessages DEF ScheduleMessage
    <3> HIDE DEF p
    <3> QED
      BY <2>1, <3>4, <3>6, <3>7 DEF Link!Send, ScheduleMessage
  <2>2. ASSUME UNCHANGED <<now, queue, received, refused>>
        PROVE  UNCHANGED Link!channels
    BY <2>2 DEF Link!channels, Transit
  <2>3. ASSUME NEW e \in queue, HandleSend(e)
        PROVE  Link!Pass
    <3>1. IsNext(e) /\ now' = e.at /\ UNCHANGED <<received, refused>>
      BY <2>3 DEF HandleSend
    <3>2. Link!Passes
      BY <3>1, TakeNext DEF Link!Passes
    <3>3. CASE Drop(e)
      <4>1. Envelope([e EXCEPT !.status = "Failed", !.at = e.at]) = Envelope(e)
        BY <3>1, TakeNext DEF Envelope, Events
      <4>2. Transit' = Transit
        BY <3>3, <4>1, TransitReplaced DEF Drop, Dropped
      <4> QED
        BY <3>1, <3>2, <4>2 DEF Link!Pass
    <3>4. CASE Forward(e)
      <4>1. PICK arrive :
              queue' = (queue \ {e}) \cup
                         {[e EXCEPT !.status = "Received", !.at = arrive]}
        BY <3>4 DEF Forward
      <4>2. Envelope([e EXCEPT !.status = "Received", !.at = arrive]) = Envelope(e)
        BY <3>1, TakeNext DEF Envelope, Events
      <4>3. Transit' = Transit
        BY <4>1, <4>2, TransitReplaced
      <4> QED
        BY <3>1, <3>2, <4>3 DEF Link!Pass
    <3> QED
      BY <2>3, <3>3, <3>4 DEF HandleSend
  <2>4. ASSUME NEW e \in queue, HandleReceived(e)
        PROVE  Link!Receive(Envelope(e)) /\ Envelope(e) \in Transit
    <3>1. /\ IsNext(e) /\ e.status = "Received" /\ now' = e.at
          /\ queue' = queue \ {e}
          /\ received' = received \cup {e.msg} /\ refused' = refused
      BY <2>4 DEF HandleReceived
    <3>2. Link!Ends(Envelope(e))
      BY <3>1, TakeNext, TransitTaken DEF Link!Ends, Link!Passes, Envelope
    <3>3. Link!IsFirst(Envelope(e))
      BY <3>1, NextIsFirst
    <3> QED
      BY <3>1, <3>2, <3>3, TransitTaken DEF Link!Receive, Envelope
  <2>5. ASSUME NEW e \in queue, HandleFailed(e)
        PROVE  Link!Refuse(Envelope(e)) /\ Envelope(e) \in Transit
    <3>1. /\ IsNext(e) /\ now' = e.at
          /\ queue' = queue \ {e}
          /\ refused' = refused \cup {e.msg} /\ received' = received
      BY <2>5 DEF HandleFailed
    <3>2. Link!Ends(Envelope(e))
      BY <3>1, TakeNext, TransitTaken DEF Link!Ends, Link!Passes, Envelope
    <3> QED
      BY <3>1, <3>2, TransitTaken DEF Link!Refuse, Envelope
  <2>6. ASSUME NEW t \in now..MaxTime, Reaches(t), UNCHANGED <<queue, received, refused>>
        PROVE  Link!Pass
    <3>1. t \in Nat /\ now <= t /\ now' = t
      BY <2>6, TimeAssumption DEF IInv, TypeInv, Reaches
    <3> QED
      BY <2>6, <3>1 DEF Link!Pass, Link!Passes, Transit
  <2> QED
    BY <2>1, <2>2, <2>3, <2>4, <2>5, <2>6
    DEF Next, StepQueue, SetNodeStatus, ApplyPartitionPair, OtherEvent, vars, Link!Next
<1> QED
  BY <1>1, <1>2, SpecIInv, PTL DEF Spec, KeepsOrder, Link!Spec

-----------------------------------------------------------------------------
(* The scenario *)


\* What waits in one of the sets of events lies in the future.
Waiting(events) == \A x \in events : x.at \in now..MaxTime

SimInv ==
  /\ running \in Node \cup {NoNode}
  /\ until = Idle => running = NoNode
  /\ Waiting(alarms) /\ Waiting(locals) /\ Waiting(controls)
  /\ \A a \in alarms : a.name \in Alarms
  /\ \A l \in locals : l.to \in Node
  /\ \A c \in controls : c.control \in Controls

-----------------------------------------------------------------------------
(* The order of events *)

LEMMA KeyTimes ==
  /\ \A e : MessageKey(e)[1] = e.at
  /\ \A c : ControlKey(c)[1] = c.at
  /\ \A l : LocalKey(l)[1] = l.at
  /\ \A a : AlarmKey(a)[1] = a.at
  BY DEF MessageKey, ControlKey, LocalKey, AlarmKey

LEMMA FirstKey ==
  ASSUME NEW k, NEW l, NotAfter(k, l)
  PROVE  k[1] <= l[1]
<1>1. 1 \in 1..4 /\ \A j \in 1..(1 - 1) : k[j] = l[j]
  OBVIOUS
<1> QED
  BY <1>1 DEF NotAfter

\* The event that is taken is not later than any other.
LEMMA TakesFirst ==
  ASSUME NEW k, Takes(k)
  PROVE  /\ \A e \in queue : k[1] <= e.at
         /\ \A a \in alarms : k[1] <= a.at
         /\ \A l \in locals : k[1] <= l.at
         /\ \A c \in controls : k[1] <= c.at
<1>1. \A l \in Keys : k[1] <= l[1]
  BY FirstKey DEF Takes
<1>2. /\ \A e \in queue : MessageKey(e) \in Keys
      /\ \A a \in alarms : AlarmKey(a) \in Keys
      /\ \A l \in locals : LocalKey(l) \in Keys
      /\ \A c \in controls : ControlKey(c) \in Keys
  BY DEF Keys
<1> QED
  BY <1>1, <1>2, KeyTimes

-----------------------------------------------------------------------------
(* Every step of the simulation is one of the network *)

LEMMA HandlerIsNetwork ==
  ASSUME IInv, SimInv, Handler
  PROVE  [Next]_vars
<1>1. ASSUME NEW n \in Node, NEW j \in Node, NEW m \in Msg, HandlerSends(n, j, m)
      PROVE  Next
  <2>1. ScheduleMessage(n, j, m, now) /\ now \in now..MaxTime
    BY <1>1 DEF HandlerSends, SendMessage, ScheduleMessage
  <2> QED
    BY <2>1 DEF Next
<1> QED
  BY <1>1 DEF Handler, SendLocal, HandlerSetsTimer, HandlerCancelsTimer

LEMMA ScenarioIsNetwork ==
  ASSUME IInv, SimInv, Scenario
  PROVE  [Next]_vars
<1>1. ASSUME NEW at \in now..MaxTime, NEW to \in Node, NEW m \in Msg,
             ScheduleAppMessage(to, m, at)
      PROVE  Next
  BY <1>1, SourceAssumption DEF ScheduleAppMessage, Next
<1> QED
  BY <1>1 DEF Scenario, ScheduleLocalMessage, ScheduleControl, RunUntil, Process

LEMMA ControlIsNetwork ==
  ASSUME SimInv, NEW c \in controls, TakeControl(c)
  PROVE  Next
<1>1. c.at \in now..MaxTime /\ c.control \in Controls
  BY DEF SimInv, Waiting
<1>2. c.control \in [status : {"Fail", "Normal"}, node : Node] \cup
                    [isolate : BOOLEAN, a : Node, b : Node]
  BY <1>1, ControlsAssumption
<1>3. CASE /\ "node" \in DOMAIN c.control
           /\ SetNodeStatus(c.control.node, c.control.status = "Fail", c.at)
  <2>1. c.control.node \in Node /\ (c.control.status = "Fail") \in BOOLEAN
    BY <1>2, <1>3
  <2> QED
    BY <1>1, <1>3, <2>1 DEF Next
<1>4. CASE /\ "isolate" \in DOMAIN c.control
           /\ ApplyPartitionPair(c.control.a, c.control.b, c.control.isolate, c.at)
  <2>1. c.control.a \in Node /\ c.control.b \in Node /\ c.control.isolate \in BOOLEAN
    BY <1>2, <1>4
  <2> QED
    BY <1>1, <1>4, <2>1 DEF Next
<1> QED
  BY <1>3, <1>4 DEF TakeControl

LEMMA StepIsNetwork ==
  ASSUME IInv, SimInv, Step
  PROVE  Next
<1>1. ASSUME NEW e \in queue, TakeMessage(e) PROVE Next
  BY <1>1 DEF TakeMessage, Next, StepQueue
<1>2. ASSUME NEW a \in alarms, TakeAlarm(a) PROVE Next
  BY <1>2 DEF TakeAlarm, Next, SimInv, Waiting
<1>3. ASSUME NEW l \in locals, TakeLocal(l) PROVE Next
  BY <1>3 DEF TakeLocal, Next, SimInv, Waiting
<1> QED
  BY <1>1, <1>2, <1>3, ControlIsNetwork DEF Step

LEMMA SimNextIsNetwork == IInv /\ SimInv /\ [SimNext]_simVars => [Next]_vars
<1> SUFFICES ASSUME IInv, SimInv, [SimNext]_simVars PROVE [Next]_vars
  OBVIOUS
<1>1. CASE Stop \/ Return \/ UNCHANGED simVars
  BY <1>1 DEF Stop, Return, simVars
<1> QED
  BY <1>1, HandlerIsNetwork, ScenarioIsNetwork, StepIsNetwork DEF SimNext

-----------------------------------------------------------------------------
(* The invariant of the events that are no messages *)

LEMMA InitSimInv == SimInit => SimInv
  BY DEF SimInit, SimInv, Waiting, Timers!Init

\* Taking the first event, at its time, keeps what waits.
LEMMA WaitingTaken ==
  ASSUME NEW S, now \in Nat, Waiting(S), now' \in Nat, \A x \in S : now' <= x.at
  PROVE  \A x \in S : x.at \in now'..MaxTime
<1>1. \A x \in S : x.at \in Int /\ x.at <= MaxTime
  BY TimeAssumption DEF Waiting
<1> QED
  BY <1>1, TimeAssumption

LEMMA ScenarioSimInv ==
  ASSUME IInv, SimInv, Scenario
  PROVE  SimInv'
<1>1. ASSUME NEW at \in now..MaxTime, NEW to \in Node, NEW m \in Msg,
             ScheduleAppMessage(to, m, at)
      PROVE  SimInv'
  BY <1>1 DEF ScheduleAppMessage, ScheduleMessage, SimInv, Waiting, timerVars,
              localVars, controlVars, loopVars
<1>2. ASSUME NEW at \in now..MaxTime, NEW to \in Node, NEW msg \in Local,
             ScheduleLocalMessage(at, to, msg)
      PROVE  SimInv'
  BY <1>2 DEF ScheduleLocalMessage, PushLocal, SimInv, Waiting, vars, timerVars,
              controlVars, loopVars
<1>3. ASSUME NEW at \in now..MaxTime, NEW control \in Controls,
             ScheduleControl(at, control)
      PROVE  SimInv'
  BY <1>3 DEF ScheduleControl, SimInv, Waiting, vars, timerVars, localVars, loopVars
<1>4. ASSUME NEW t, RunUntil(t)
      PROVE  SimInv'
  BY <1>4 DEF RunUntil, Between, SimInv, Waiting, vars, timerVars, localVars,
              controlVars
<1> QED
  BY <1>1, <1>2, <1>3, <1>4 DEF Scenario, Process

LEMMA HandlerSimInv ==
  ASSUME IInv, SimInv, Handler
  PROVE  SimInv'
<1> now \in Nat
  BY DEF IInv, TypeInv
<1>1. ASSUME NEW n \in Node, NEW j \in Node, NEW m \in Msg, HandlerSends(n, j, m)
      PROVE  SimInv'
  BY <1>1 DEF HandlerSends, SendMessage, ScheduleMessage, SimInv, Waiting, timerVars,
              localVars, controlVars, loopVars
<1>2. ASSUME NEW n \in Node, NEW msg \in Local, SendLocal(n, msg)
      PROVE  SimInv'
  BY <1>2, SinkAssumption
  DEF SendLocal, PushLocal, SimInv, Waiting, vars, timerVars, controlVars, loopVars
<1>3. ASSUME NEW n \in Node, NEW a \in Alarms, NEW duration \in Durations,
             HandlerSetsTimer(n, a, duration)
      PROVE  SimInv'
  <2> DEFINE new == [name |-> a, token |-> Timers!Issued(a), at |-> now + duration]
  <2>1. /\ duration > 0 /\ now + duration <= MaxTime
        /\ alarms' = alarms \cup {new}
        /\ now' = now
    BY <1>3 DEF HandlerSetsTimer, Timers!SetTimer
  <2>2. duration \in Int
    BY DurationsAssumption
  <2>3. new.at \in now..MaxTime /\ new.name = a
    BY <2>1, <2>2, TimeAssumption
  <2> HIDE DEF new
  <2>4. Waiting(alarms)' /\ (\A x \in alarms : x.name \in Alarms)'
    BY <2>1, <2>3 DEF SimInv, Waiting
  <2> QED
    BY <1>3, <2>1, <2>4 DEF HandlerSetsTimer, SimInv, Waiting, localVars, controlVars,
                            loopVars
<1>4. ASSUME NEW n \in Node, NEW a \in Alarms, HandlerCancelsTimer(n, a)
      PROVE  SimInv'
  BY <1>4 DEF HandlerCancelsTimer, Timers!CancelTimer, SimInv, Waiting, vars,
              localVars, controlVars, loopVars
<1> QED
  BY <1>1, <1>2, <1>3, <1>4 DEF Handler

LEMMA StepSimInv ==
  ASSUME IInv, SimInv, Step
  PROVE  SimInv'
<1> now \in Nat
  BY DEF IInv, TypeInv
<1>1. ASSUME NEW e \in queue, TakeMessage(e)
      PROVE  SimInv'
  <2>1. e.at \in Nat /\ e.from \in Node /\ e.to \in Node
    BY DEF IInv, TypeInv, Events
  <2>2. now' = e.at /\ alarms' = alarms /\ locals' = locals /\ controls' = controls
    BY <1>1 DEF TakeMessage, Timers!OtherEvent, localVars, controlVars
  <2>3. /\ \A a \in alarms : e.at <= a.at
        /\ \A l \in locals : e.at <= l.at
        /\ \A c \in controls : e.at <= c.at
    BY <1>1, TakesFirst, KeyTimes DEF TakeMessage
  <2>4. Waiting(alarms)' /\ Waiting(locals)' /\ Waiting(controls)'
    BY <2>1, <2>2, <2>3, WaitingTaken DEF SimInv, Waiting
  <2>5. running' \in Node \cup {NoNode} /\ (until' = Idle => running' = NoNode)
    BY <1>1, <2>1 DEF TakeMessage, Takes, SimInv
  <2> QED
    BY <2>2, <2>4, <2>5 DEF SimInv
<1>2. ASSUME NEW a \in alarms, TakeAlarm(a)
      PROVE  SimInv'
  <2>1. a.at \in Nat /\ a.name[1] \in Node
    BY AlarmsAssumption DEF SimInv, Waiting
  <2>2. now' = a.at /\ alarms' = alarms \ {a} /\ locals' = locals /\ controls' = controls
    BY <1>2 DEF TakeAlarm, Timers!TimerEvent, localVars, controlVars
  <2>3. /\ \A x \in alarms : a.at <= x.at
        /\ \A l \in locals : a.at <= l.at
        /\ \A c \in controls : a.at <= c.at
    BY <1>2, TakesFirst, KeyTimes DEF TakeAlarm
  <2>4. Waiting(alarms)' /\ Waiting(locals)' /\ Waiting(controls)'
    BY <2>1, <2>2, <2>3, WaitingTaken DEF SimInv, Waiting
  <2>5. running' \in Node \cup {NoNode} /\ (until' = Idle => running' = NoNode)
    BY <1>2, <2>1 DEF TakeAlarm, Takes, SimInv
  <2> QED
    BY <2>2, <2>4, <2>5 DEF SimInv
<1>3. ASSUME NEW l \in locals, TakeLocal(l)
      PROVE  SimInv'
  <2>1. l.at \in Nat /\ l.to \in Node
    BY DEF SimInv, Waiting
  <2>2. now' = l.at /\ alarms' = alarms /\ locals' = locals \ {l} /\ controls' = controls
    BY <1>3 DEF TakeLocal, Timers!OtherEvent, controlVars
  <2>3. /\ \A a \in alarms : l.at <= a.at
        /\ \A x \in locals : l.at <= x.at
        /\ \A c \in controls : l.at <= c.at
    BY <1>3, TakesFirst, KeyTimes DEF TakeLocal
  <2>4. Waiting(alarms)' /\ Waiting(locals)' /\ Waiting(controls)'
    BY <2>1, <2>2, <2>3, WaitingTaken DEF SimInv, Waiting
  <2>5. running' \in Node \cup {NoNode} /\ (until' = Idle => running' = NoNode)
    BY <1>3, <2>1 DEF TakeLocal, Takes, SimInv
  <2> QED
    BY <2>2, <2>4, <2>5 DEF SimInv
<1>4. ASSUME NEW c \in controls, TakeControl(c)
      PROVE  SimInv'
  <2>1. c.at \in Nat
    BY DEF SimInv, Waiting
  <2>2. now' = c.at /\ alarms' = alarms /\ locals' = locals /\ controls' = controls \ {c}
        /\ running' = running /\ until' = until
    BY <1>4 DEF TakeControl, Timers!OtherEvent, localVars, loopVars
  <2>3. /\ \A a \in alarms : c.at <= a.at
        /\ \A l \in locals : c.at <= l.at
        /\ \A x \in controls : c.at <= x.at
    BY <1>4, TakesFirst, KeyTimes DEF TakeControl
  <2>4. Waiting(alarms)' /\ Waiting(locals)' /\ Waiting(controls)'
    BY <2>1, <2>2, <2>3, WaitingTaken DEF SimInv, Waiting
  <2> QED
    BY <2>2, <2>4 DEF SimInv
<1> QED
  BY <1>1, <1>2, <1>3, <1>4 DEF Step

LEMMA SimNextSimInv == IInv /\ SimInv /\ [SimNext]_simVars => SimInv'
<1> SUFFICES ASSUME IInv, SimInv, [SimNext]_simVars PROVE SimInv'
  OBVIOUS
<1>1. CASE Stop
  BY <1>1 DEF Stop, SimInv, Waiting, vars, timerVars, localVars, controlVars
<1>2. CASE Return
  BY <1>2 DEF Return, SimInv, Waiting, vars, timerVars, localVars, controlVars
<1>3. CASE UNCHANGED simVars
  BY <1>3 DEF simVars, SimInv, Waiting, vars, timerVars, localVars, controlVars, loopVars
<1> QED
  BY <1>1, <1>2, <1>3, ScenarioSimInv, HandlerSimInv, StepSimInv DEF SimNext

\* Both invariants together: each step keeps the network's because it is one of
\* the network, and is one of the network because both hold.
LEMMA SimSpecInv == SimSpec => [](IInv /\ SimInv)
<1>1. SimInit => IInv /\ SimInv
  BY InitIInv, InitSimInv DEF SimInit
<1>2. IInv /\ SimInv /\ [SimNext]_simVars => (IInv /\ SimInv)'
  BY SimNextIsNetwork, NextIInv, SimNextSimInv
<1> QED
  BY <1>1, <1>2, PTL DEF SimSpec

\* The simulation, with its timers, local messages, control events, handlers and
\* runs of the event loop, implements the network: what EventEarlier takes first
\* of all events is, for the network, the next one.
THEOREM Simulation_IsNetwork == SimSpec => Spec
<1>1. SimInit => Init
  BY DEF SimInit
<1> QED
  BY <1>1, SimNextIsNetwork, SimSpecInv, PTL DEF SimSpec, Spec

\* So the nodes of a simulation have ordered lossy links, whatever else happens.
THEOREM Simulation_KeepsOrder == SimSpec => KeepsOrder
  BY Simulation_IsNetwork, NetworkKeepsOrder

\* And no sequence of control events leaves a link cut in one direction only.
THEOREM Simulation_CutsMutual == SimSpec => []CutsAreMutual
  BY Simulation_IsNetwork, Cuts_Mutual, PTL

-----------------------------------------------------------------------------
(* Messages go before timers *)

\* Nothing that was queued for n at this instant is left.
Quiet(n) ==
  /\ \A e \in queue : e.status = "Received" /\ e.to = n => e.at > now
  /\ \A e \in queue : e.status = "Failed" /\ e.from = n => e.at > now
  /\ \A l \in locals : l.to = n => l.at > now

LEMMA QuietMeans ==
  MessagesBeforeTimers <=>
    \A n \in Node : running = n /\ (\E a \in ringing : a[1] = n) => Quiet(n)
  BY DEF MessagesBeforeTimers, Quiet

\* Of events at the same time for the same node, a timer comes last.
LEMMA TimersLast ==
  ASSUME NEW a, NEW t, NEW f, a.at \in Int, t \in Int,
         NotAfter(AlarmKey(a), <<t, a.name[1], 0, f>>)
  PROVE  a.at < t
<1> DEFINE k == <<t, a.name[1], 0, f>>
<1>1. a.at <= t
  <2>1. AlarmKey(a)[1] <= k[1]
    BY FirstKey
  <2>2. AlarmKey(a)[1] = a.at /\ k[1] = t
    BY KeyTimes
  <2> QED
    BY <2>1, <2>2
<1>2. ASSUME a.at = t PROVE FALSE
  <2>1. 3 \in 1..4 /\ \A j \in 1..(3 - 1) : AlarmKey(a)[j] = k[j]
    BY <1>2 DEF AlarmKey
  <2>2. AlarmKey(a)[3] <= k[3]
    BY <2>1 DEF NotAfter
  <2> QED
    BY <2>2 DEF AlarmKey
<1> QED
  BY <1>1, <1>2

\* When a timer is taken, its node has nothing else to handle at that time.
LEMMA TakeAlarmQuiet ==
  ASSUME IInv, SimInv, NEW a \in alarms, TakeAlarm(a)
  PROVE  Quiet(a.name[1])'
<1> DEFINE n == a.name[1]
<1>1. now' = a.at /\ queue' = queue /\ locals' = locals /\ a.at \in Int
  BY DEF TakeAlarm, OtherEvent, Reaches, localVars, SimInv, Waiting
<1>2. \A k \in Keys : NotAfter(AlarmKey(a), k)
  BY DEF TakeAlarm, Takes
<1>3. ASSUME NEW e \in queue, MessageKey(e) = <<e.at, n, 0, e.from>>
      PROVE  e.at > a.at
  <2>1. MessageKey(e) \in Keys
    BY DEF Keys
  <2>2. e.at \in Int
    BY DEF IInv, TypeInv, Events
  <2> QED
    BY <1>1, <1>2, <1>3, <2>1, <2>2, TimersLast
<1>4. ASSUME NEW l \in locals, l.to = n
      PROVE  l.at > a.at
  <2>1. LocalKey(l) \in Keys /\ LocalKey(l) = <<l.at, n, 0, l.from>>
    BY <1>4 DEF Keys, LocalKey
  <2>2. l.at \in Int
    BY DEF SimInv, Waiting
  <2> QED
    BY <1>1, <1>2, <2>1, <2>2, TimersLast
<1>5. \A e \in queue : e.status = "Received" /\ e.to = n => e.at > a.at
  BY <1>3 DEF MessageKey
<1>6. \A e \in queue : e.status = "Failed" /\ e.from = n => e.at > a.at
  BY <1>3 DEF MessageKey
<1> HIDE DEF n
<1>7. Quiet(n)'
  BY <1>1, <1>4, <1>5, <1>6 DEF Quiet
<1> QED
  BY <1>7 DEF n

\* What a handler sends goes through the network first, or to another node.
LEMMA HandlerQuiet ==
  ASSUME SimInv, MessagesBeforeTimers, Handler
  PROVE  MessagesBeforeTimers'
<1>1. ASSUME NEW n \in Node, NEW j \in Node, NEW m \in Msg, HandlerSends(n, j, m)
      PROVE  MessagesBeforeTimers'
  <2> DEFINE new == [status |-> "Sended", msg |-> m, from |-> n, to |-> j,
                     sent |-> now, at |-> now]
  <2>1. /\ queue' = queue \cup {new}
        /\ UNCHANGED <<now, locals, running, ringing>>
    BY <1>1 DEF HandlerSends, SendMessage, ScheduleMessage, timerVars, localVars, loopVars
  <2>2. new.status = "Sended"
    OBVIOUS
  <2> HIDE DEF new
  <2>3. \A x \in Node : Quiet(x) => Quiet(x)'
    BY <2>1, <2>2 DEF Quiet
  <2> QED
    BY <2>1, <2>3, QuietMeans DEF MessagesBeforeTimers, Quiet
<1>2. ASSUME NEW n \in Node, NEW msg \in Local, SendLocal(n, msg)
      PROVE  MessagesBeforeTimers'
  <2> DEFINE new == [at |-> now, to |-> Sink, from |-> n, msg |-> msg]
  <2>1. /\ locals' = locals \cup {new}
        /\ UNCHANGED <<now, queue, running, ringing>>
        /\ running = n /\ Sink # n
    BY <1>2 DEF SendLocal, PushLocal, vars, timerVars, loopVars
  <2>2. new.to = Sink
    OBVIOUS
  <2> HIDE DEF new
  <2> QED
    BY <2>1, <2>2 DEF MessagesBeforeTimers
<1>3. ASSUME NEW n \in Node, NEW a \in Alarms, NEW duration \in Durations,
             HandlerSetsTimer(n, a, duration)
      PROVE  MessagesBeforeTimers'
  BY <1>3 DEF HandlerSetsTimer, Timers!SetTimer, MessagesBeforeTimers
<1>4. ASSUME NEW n \in Node, NEW a \in Alarms, HandlerCancelsTimer(n, a)
      PROVE  MessagesBeforeTimers'
  BY <1>4 DEF HandlerCancelsTimer, Timers!CancelTimer, MessagesBeforeTimers
<1> QED
  BY <1>1, <1>2, <1>3, <1>4 DEF Handler

\* A node that handles a timer has handled all that was queued for it at that
\* instant: dispatch_order puts timers behind, for every order of pushes.
THEOREM MessagesGo_BeforeTimers == SimSpec => []MessagesBeforeTimers
<1>1. SimInit => MessagesBeforeTimers
  BY DEF SimInit, Timers!Init, MessagesBeforeTimers
<1>2. IInv /\ SimInv /\ MessagesBeforeTimers /\ [SimNext]_simVars => MessagesBeforeTimers'
  <2> SUFFICES ASSUME IInv, SimInv, MessagesBeforeTimers, [SimNext]_simVars
               PROVE  MessagesBeforeTimers'
    OBVIOUS
  <2>1. NoNode \notin Node
    BY NodeAssumption DEF NoNode, Gateway
  <2>2. CASE Scenario
    <3>1. running' = NoNode
      BY <2>2 DEF Scenario, ScheduleAppMessage, ScheduleLocalMessage, ScheduleControl,
                  RunUntil, Process, Between, SimInv, loopVars
    <3> QED
      BY <2>1, <3>1 DEF MessagesBeforeTimers
  <2>3. CASE Handler
    BY <2>3, HandlerQuiet
  <2>4. CASE Stop \/ Return
    BY <2>1, <2>4 DEF Stop, Return, MessagesBeforeTimers
  <2>5. ASSUME NEW e \in queue, TakeMessage(e) PROVE MessagesBeforeTimers'
    BY <2>5 DEF TakeMessage, Timers!OtherEvent, MessagesBeforeTimers
  <2>6. ASSUME NEW a \in alarms, TakeAlarm(a) PROVE MessagesBeforeTimers'
    <3>1. running' = NoNode \/ running' = a.name[1]
      BY <2>6 DEF TakeAlarm
    <3>2. Quiet(a.name[1])'
      BY <2>6, TakeAlarmQuiet
    <3> QED
      BY <2>1, <3>1, <3>2 DEF MessagesBeforeTimers, Quiet
  <2>7. ASSUME NEW l \in locals, TakeLocal(l) PROVE MessagesBeforeTimers'
    BY <2>7 DEF TakeLocal, Timers!OtherEvent, MessagesBeforeTimers
  <2>8. ASSUME NEW c \in controls, TakeControl(c) PROVE MessagesBeforeTimers'
    BY <2>8 DEF TakeControl, Timers!OtherEvent, MessagesBeforeTimers
  <2>9. CASE UNCHANGED simVars
    BY <2>9 DEF simVars, vars, timerVars, localVars, loopVars, MessagesBeforeTimers
  <2> QED
    BY <2>2, <2>3, <2>4, <2>5, <2>6, <2>7, <2>8, <2>9 DEF SimNext, Step
<1> QED
  BY <1>1, <1>2, SimSpecInv, PTL DEF SimSpec

-----------------------------------------------------------------------------
(* Closed links *)

\* What the network forwards goes over an open link: ShouldDrop asks the receiver,
\* whose settings mirror the sender's.
LEMMA MessageOpen ==
  ASSUME IInv, CutsAreMutual, ClosedLinksCarryNothingNew,
         NEW e \in queue, TakeMessage(e)
  PROVE  ClosedLinksCarryNothingNew'
<1>1. e.from \in Node /\ e.to \in Node
  BY DEF IInv, TypeInv, Events
<1>2. UNCHANGED <<failed, partitionedFrom, closedSince>>
  BY DEF TakeMessage, HandleSend, HandleReceived, HandleFailed, controlVars
<1>3. ASSUME NEW new, queue' = (queue \ {e}) \cup {new},
             new.status = "Received" => ~Closed(new.from, new.to)
      PROVE  ClosedLinksCarryNothingNew'
  <2>1. \A i, j : Closed(i, j)' = Closed(i, j)
    BY <1>2 DEF Closed
  <2> QED
    BY <1>2, <1>3, <2>1 DEF ClosedLinksCarryNothingNew
<1>4. CASE HandleSend(e) /\ Drop(e)
  <2> DEFINE new == [e EXCEPT !.status = "Failed", !.at = e.at]
  <2>1. queue' = (queue \ {e}) \cup {new}
    BY <1>4 DEF Drop, Dropped
  <2>2. new.status # "Received"
    BY DEF IInv, TypeInv, Events
  <2> QED
    BY <1>3, <2>1, <2>2
<1>5. CASE HandleSend(e) /\ Forward(e)
  <2> DEFINE link == <<e.from, e.to>>
  <2>1. PICK d \in Delays :
          queue' = (queue \ {e}) \cup
                     {[e EXCEPT !.status = "Received",
                                !.at = Arrival(link, e.at + (IF d > 0 THEN d ELSE 0))]}
    BY <1>5 DEF Forward
  <2> DEFINE new == [e EXCEPT !.status = "Received",
                              !.at = Arrival(link, e.at + (IF d > 0 THEN d ELSE 0))]
  <2>2. new.from = e.from /\ new.to = e.to
    BY DEF IInv, TypeInv, Events
  <2>3. ~Closed(e.from, e.to)
    BY <1>1, <1>5 DEF Forward, MustDrop, Closed, CutsAreMutual
  <2>4. queue' = (queue \ {e}) \cup {new}
    BY <2>1
  <2> HIDE DEF new
  <2> QED
    BY <1>3, <2>2, <2>3, <2>4
<1>6. CASE HandleReceived(e) \/ HandleFailed(e)
  <2>1. queue' = queue \ {e}
    BY <1>6 DEF HandleReceived, HandleFailed
  <2>2. \A i, j : Closed(i, j)' = Closed(i, j)
    BY <1>2 DEF Closed
  <2> QED
    BY <1>2, <2>1, <2>2 DEF ClosedLinksCarryNothingNew
<1> QED
  BY <1>4, <1>5, <1>6 DEF TakeMessage, HandleSend

\* A link that a control event closes holds what was sent until then.
LEMMA ControlOpen ==
  ASSUME IInv, SimInv, ClosedLinksCarryNothingNew,
         NEW c \in controls, TakeControl(c)
  PROVE  ClosedLinksCarryNothingNew'
<1>1. queue' = queue /\ c.at \in Int /\ now <= c.at
  BY DEF TakeControl, SetNodeStatus, ApplyPartitionPair, SimInv, Waiting, IInv, TypeInv
<1>2. ASSUME NEW e \in queue, e.status = "Received", Closed(e.from, e.to)'
      PROVE  e.sent <= closedSince'[<<e.from, e.to>>]
  <2> DEFINE link == <<e.from, e.to>>
  <2>1. link \in Node \X Node /\ e.sent \in Nat /\ e.sent <= now /\ now \in Nat
    BY <1>2 DEF IInv, TypeInv, QueueInv, Events
  <2>2. closedSince'[link] = IF Closes(e.from, e.to) THEN c.at ELSE closedSince[link]
    BY <2>1 DEF TakeControl
  <2>3. CASE Closed(e.from, e.to)
    BY <1>2, <2>2, <2>3 DEF Closes, ClosedLinksCarryNothingNew
  <2>4. CASE ~Closed(e.from, e.to)
    BY <1>1, <1>2, <2>1, <2>2, <2>4 DEF Closes
  <2> QED
    BY <2>3, <2>4
<1> QED
  BY <1>1, <1>2 DEF ClosedLinksCarryNothingNew

\* A message sent after its link was closed never travels: partitions and failures
\* that come while a link carries messages leave those, and stop the rest.
THEOREM ClosedLinks_Closed == SimSpec => []ClosedLinksCarryNothingNew
<1>1. SimInit => ClosedLinksCarryNothingNew
  BY DEF SimInit, Init, ClosedLinksCarryNothingNew
<1>2. IInv /\ SimInv /\ CutsAreMutual /\ ClosedLinksCarryNothingNew
        /\ [SimNext]_simVars => ClosedLinksCarryNothingNew'
  <2> SUFFICES ASSUME IInv, SimInv, CutsAreMutual, ClosedLinksCarryNothingNew,
                      [SimNext]_simVars
               PROVE  ClosedLinksCarryNothingNew'
    OBVIOUS
  <2>1. ASSUME UNCHANGED <<queue, failed, partitionedFrom, closedSince>>
        PROVE  ClosedLinksCarryNothingNew'
    BY <2>1 DEF ClosedLinksCarryNothingNew, Closed
  <2>2. ASSUME NEW i \in Node, NEW j \in Node, NEW m \in Msg, NEW at \in now..MaxTime,
               ScheduleMessage(i, j, m, at), UNCHANGED closedSince
        PROVE  ClosedLinksCarryNothingNew'
    <3> DEFINE new == [status |-> "Sended", msg |-> m, from |-> i, to |-> j,
                       sent |-> at, at |-> at]
    <3>1. queue' = queue \cup {new} /\ new.status = "Sended"
      BY <2>2 DEF ScheduleMessage
    <3>2. \A x, y : Closed(x, y)' = Closed(x, y)
      BY <2>2 DEF ScheduleMessage, Closed
    <3> HIDE DEF new
    <3> QED
      BY <2>2, <3>1, <3>2 DEF ClosedLinksCarryNothingNew
  <2>3. CASE Scenario
    <3>1. ASSUME NEW at \in now..MaxTime, NEW to \in Node, NEW m \in Msg,
                 ScheduleAppMessage(to, m, at)
          PROVE  ClosedLinksCarryNothingNew'
      BY <2>2, <3>1, SourceAssumption DEF ScheduleAppMessage, controlVars
    <3> QED
      BY <2>1, <2>3, <3>1
      DEF Scenario, ScheduleLocalMessage, ScheduleControl, RunUntil, Process, vars,
          controlVars
  <2>4. CASE Handler
    <3>1. ASSUME NEW n \in Node, NEW j \in Node, NEW m \in Msg, HandlerSends(n, j, m)
          PROVE  ClosedLinksCarryNothingNew'
      <4>1. ScheduleMessage(n, j, m, now) /\ now \in now..MaxTime
        BY <3>1 DEF HandlerSends, SendMessage, ScheduleMessage
      <4> QED
        BY <2>2, <3>1, <4>1 DEF HandlerSends, controlVars
    <3> QED
      BY <2>1, <2>4, <3>1
      DEF Handler, SendLocal, HandlerSetsTimer, HandlerCancelsTimer, vars, controlVars
  <2>5. CASE Step
    <3>1. ASSUME NEW a \in alarms, TakeAlarm(a)
          PROVE  ClosedLinksCarryNothingNew'
      BY <2>1, <3>1 DEF TakeAlarm, OtherEvent, controlVars
    <3>2. ASSUME NEW l \in locals, TakeLocal(l)
          PROVE  ClosedLinksCarryNothingNew'
      BY <2>1, <3>2 DEF TakeLocal, OtherEvent, controlVars
    <3> QED
      BY <2>5, <3>1, <3>2, MessageOpen, ControlOpen DEF Step
  <2>6. CASE Stop \/ Return \/ UNCHANGED simVars
    BY <2>1, <2>6 DEF Stop, Return, simVars, vars, controlVars
  <2> QED
    BY <2>3, <2>4, <2>5, <2>6 DEF SimNext
<1> QED
  BY <1>1, <1>2, SimSpecInv, Simulation_CutsMutual, PTL DEF SimSpec

-----------------------------------------------------------------------------
(* The timers among all other events *)

Book == INSTANCE TimerBookProofs WITH Name <- Alarms, queue <- alarms

\* Every step of the simulation is one of the book that all nodes share.
LEMMA SimNextIsBook == IInv /\ SimInv /\ [SimNext]_simVars => [Book!Steps]_(Book!vars)
<1> SUFFICES ASSUME IInv, SimInv, [SimNext]_simVars PROVE [Book!Steps]_(Book!vars)
  OBVIOUS
<1> now \in Nat
  BY DEF IInv, TypeInv
<1>1. CASE Scenario
  BY <1>1
  DEF Scenario, ScheduleAppMessage, ScheduleMessage, ScheduleLocalMessage, PushLocal,
      ScheduleControl, RunUntil, Process, vars, timerVars, Book!vars
<1>2. CASE Handler
  BY <1>2
  DEF Handler, HandlerSends, SendMessage, ScheduleMessage, SendLocal, PushLocal,
      HandlerSetsTimer, HandlerCancelsTimer, vars, timerVars,
      Timers!SetTimer, Book!SetTimer, Timers!Issued, Book!Issued,
      Timers!CancelTimer, Book!CancelTimer, Timers!Invalidate, Book!Invalidate,
      Timers!Off, Book!Off, Book!Steps, Book!vars
<1>3. ASSUME NEW t \in Nat, now <= t, Timers!OtherEvent(t) PROVE Book!Steps
  BY <1>3 DEF Timers!OtherEvent, Book!OtherEvent, Book!Steps
<1>4. ASSUME NEW e \in queue, TakeMessage(e) PROVE Book!Steps
  <2>1. e.at \in Nat /\ now <= e.at
    BY DEF IInv, TypeInv, QueueInv, Events
  <2> QED
    BY <1>3, <1>4, <2>1 DEF TakeMessage
<1>5. ASSUME NEW a \in alarms, TakeAlarm(a) PROVE Book!Steps
  BY <1>5
  DEF TakeAlarm, Timers!TimerEvent, Book!TimerEvent, Timers!Validate, Book!Validate,
      Timers!Off, Book!Off, Book!Steps
<1>6. ASSUME NEW l \in locals, TakeLocal(l) PROVE Book!Steps
  BY <1>3, <1>6 DEF TakeLocal, SimInv, Waiting
<1>7. ASSUME NEW c \in controls, TakeControl(c) PROVE Book!Steps
  BY <1>3, <1>7 DEF TakeControl, SimInv, Waiting
<1>8. CASE Stop \/ Return \/ UNCHANGED simVars
  BY <1>8 DEF Stop, Return, simVars, vars, timerVars, Book!vars
<1> QED
  BY <1>1, <1>2, <1>4, <1>5, <1>6, <1>7, <1>8 DEF SimNext, Step

\* The timers of every node ring at their deadlines, and never for one that was
\* replaced or cancelled, however they mix with messages and control events.
THEOREM Simulation_TimersRing == SimSpec => Timers!RingsOnTime
<1>1. SimInit => Book!Init
  BY DEF SimInit, Init, Timers!Init, Book!Init, Timers!Off, Book!Off
<1>2. Book!Init => Book!Clock!Init
  BY Book!InitRings, DurationsAssumption, TimeAssumption, TokenBoundAssumption
<1>3. Book!Init => Book!IInv
  BY Book!InitIInv, DurationsAssumption, TimeAssumption, TokenBoundAssumption
<1>4. Book!IInv /\ [Book!Steps]_(Book!vars) => Book!IInv'
  BY Book!StepsIInv, DurationsAssumption, TimeAssumption, TokenBoundAssumption
<1>5. Book!IInv /\ [Book!Steps]_(Book!vars) => [Book!Clock!Next]_(Book!Clock!clock)
  BY Book!StepsRing, DurationsAssumption, TimeAssumption, TokenBoundAssumption
<1>6. Book!Clock!Init => Timers!Clock!Init
  BY DEF Book!Clock!Init, Timers!Clock!Init, Book!Clock!Off, Timers!Clock!Off
<1>7. [Book!Clock!Next]_(Book!Clock!clock) => [Timers!Clock!Next]_(Timers!Clock!clock)
  BY DEF Book!Clock!Next, Timers!Clock!Next, Book!Clock!clock, Timers!Clock!clock,
         Book!Clock!Arm, Timers!Clock!Arm, Book!Clock!Disarm, Timers!Clock!Disarm,
         Book!Clock!Ring, Timers!Clock!Ring, Book!Clock!Advance, Timers!Clock!Advance,
         Book!Clock!NoneDueBefore, Timers!Clock!NoneDueBefore,
         Book!Clock!Off, Timers!Clock!Off
<1> QED
  BY <1>1, <1>2, <1>3, <1>4, <1>5, <1>6, <1>7, SimNextIsBook, SimSpecInv, PTL
  DEF SimSpec, Timers!RingsOnTime, Timers!Clock!Spec

=============================================================================
