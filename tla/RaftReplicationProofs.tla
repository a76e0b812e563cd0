----------------------- MODULE RaftReplicationProofs -----------------------
(***************************************************************************)
(* The leader that followers and messages know, and the logs.              *)
(*                                                                         *)
(* Won(i, t) says that no node but i can ever lead term t; the invariant   *)
(* ReignInv has a winner behind every leader_id_ and every AppendEntries.  *)
(* The second part proves that logs match: LogInv imagines the set of all  *)
(* logs that a node has or that a message was cut from.                    *)
(***************************************************************************)
EXTENDS RaftHandlerProofs

-----------------------------------------------------------------------------
(* Who has won a term *)

\* v backs i in term t, or never will back anyone in it.
Sworn(v, i, t) ==
  /\ \/ node[v].term > t
     \/ v = i /\ Leads(i, t)
     \/ /\ node[v].term = t /\ node[v].votedFor = i
        /\ v # i /\ node[v].role = "follower"
  /\ \A c \in Server \ {i} : ~Supports(v, c, t)

Majority(Q) == Q \in SUBSET Server /\ Cardinality(Q) > Cardinality(Server) \div 2

\* i leads term t or has led it, and no one else ever will.
Won(i, t) ==
  /\ Leads(i, t) \/ node[i].term > t
  /\ \E Q : Majority(Q) /\ \A v \in Q : Sworn(v, i, t)

LEMMA LeadersMajority ==
  ASSUME ElectionInv, NEW i \in Server, NEW t \in Nat, Leads(i, t)
  PROVE  /\ Majority(node[i].acks \cup {i})
         /\ \A v \in node[i].acks : Supports(v, i, t)
<1> DEFINE acks == node[i].acks
<1>1. \A v \in acks : Supports(v, i, t)
  BY DEF Supports, Leads
<1>2. /\ acks \subseteq Server
      /\ node[i].votes = Cardinality(acks) + 1
      /\ node[i].votes > Cardinality(Server) \div 2
  BY DEF Leads, ElectionInv, NodesSound, Ballot, HasElectionMajority
<1>3. IsFiniteSet(acks)
  BY <1>2, ServerAssumption, FS_Subset
<1>4. i \notin acks
  BY <1>1 DEF ElectionInv, SupportRemembered
<1> HIDE DEF acks
<1>5. Cardinality(acks \cup {i}) = Cardinality(acks) + 1
  BY <1>3, <1>4, FS_AddElement
<1> QED
  BY <1>1, <1>2, <1>5 DEF Majority, acks

LEMMA LeadsWon ==
  ASSUME ElectionInv, NEW i \in Server, NEW t \in Nat, Leads(i, t)
  PROVE  Won(i, t)
<1>1. /\ Majority(node[i].acks \cup {i})
      /\ \A v \in node[i].acks : Supports(v, i, t)
  BY LeadersMajority
<1>2. ASSUME NEW v \in Server, v \in node[i].acks
      PROVE  Sworn(v, i, t)
  <2>1. Supports(v, i, t)
    BY <1>1, <1>2
  <2>2. node[v].term \in Nat
    BY DEF ElectionInv, NodesSound, Ballot
  <2> QED
    BY <2>1, <2>2 DEF Sworn, ElectionInv, SupportRemembered, SupportUnique
<1>3. Sworn(i, i, t)
  BY DEF Sworn, Leads, ElectionInv, SupportRemembered
<1> DEFINE Q == node[i].acks \cup {i}
<1>4. Majority(Q) /\ \A v \in Q : Sworn(v, i, t)
  BY <1>1, <1>2, <1>3 DEF Majority
<1> HIDE DEF Q
<1> QED
  BY <1>4 DEF Won

\* Two majorities share a voter.
LEMMA WonOnce ==
  ASSUME ElectionInv, NEW i \in Server, NEW j \in Server, NEW t \in Nat,
         Leads(i, t), Won(j, t)
  PROVE  i = j
<1> DEFINE N == Cardinality(Server)
           P == node[i].acks \cup {i}
<1>1. Majority(P) /\ \A v \in node[i].acks : Supports(v, i, t)
  BY LeadersMajority
<1>2. PICK Q : Majority(Q) /\ \A v \in Q : Sworn(v, j, t)
  BY DEF Won
<1> HIDE DEF P
<1>3. Cardinality(P) \in Nat /\ Cardinality(Q) \in Nat /\ N \in Nat
  BY <1>1, <1>2, ServerAssumption, FS_Subset, FS_CardinalityType DEF Majority
<1>4. Cardinality(P) + Cardinality(Q) > N
  <2>1. \A a, b \in Nat : a > N \div 2 /\ b > N \div 2 => a + b > N
    BY <1>3
  <2> HIDE DEF N
  <2> QED
    BY <1>1, <1>2, <1>3, <2>1 DEF Majority, N
<1>5. PICK v \in Server : v \in P /\ v \in Q
  BY <1>1, <1>2, <1>4, ServerAssumption, FS_MajoritiesIntersect DEF Majority
<1>6. CASE v = i
  BY <1>2, <1>5, <1>6 DEF Sworn, Leads
<1>7. CASE v \in node[i].acks
  BY <1>1, <1>2, <1>5, <1>7 DEF Sworn
<1> QED
  BY <1>5, <1>6, <1>7 DEF P

LEMMA MovedFields ==
  ASSUME NEW i \in Server, NEW u, Moved(i, u)
  PROVE  LET w == node'[i]
         IN /\ Shape(u) /\ Shape(w) /\ w.out = NoMessages
            /\ w.role = u.role /\ w.term = u.term /\ w.votedFor = u.votedFor
            /\ w.leader = u.leader /\ w.log = u.log /\ w.next = u.next
            /\ w.match = u.match /\ w.commit = u.commit
            /\ w.pending = u.pending /\ w.inflight = u.inflight
            /\ w.responses = u.responses /\ w.electionArmed = u.electionArmed
            /\ w.heartbeatArmed = u.heartbeatArmed
            /\ w.acks = u.acks
  BY DEF Moved, Trans, Ballot, Shape, NoMessages

\* What is won stays won.
LEMMA WonStable ==
  ASSUME ElectionInv, NEW k \in Server, NEW u, Moved(k, u),
         NEW i \in Server, NEW t \in Nat, Won(i, t)
  PROVE  Won(i, t)'
<1> DEFINE s == node[k]
<1>1. /\ s.term \in Nat /\ u.term \in Nat /\ s.term <= u.term
      /\ s.term = u.term /\ s.votedFor \notin {Nobody, u.votedFor} => s.role = "candidate"
      /\ s.term = u.term /\ s.role \in {"follower", "leader"} => u.role = s.role
  BY DEF Moved, Trans, Ballot, ElectionInv, NodesSound
<1>2. /\ node'[k].term = u.term /\ node'[k].role = u.role
      /\ node'[k].votedFor = u.votedFor
      /\ \A l \in Server : l # k => node'[l] = node[l]
  BY MovedFields DEF Moved
<1>3. ASSUME NEW v \in Server, Sworn(v, i, t)
      PROVE  Sworn(v, i, t)'
  <2>1. ASSUME NEW c \in Server \ {i}, Supports(v, c, t)'
        PROVE  FALSE
    <3>1. Gives(k, u, v, c, t)
      BY <1>3, <2>1 DEF Moved, Sworn
    <3> QED
      BY <1>1, <1>3, <2>1, <3>1, NobodyAssumption DEF Gives, Sworn, Leads
  <2>2. (\/ node[v].term > t
         \/ v = i /\ Leads(i, t)
         \/ /\ node[v].term = t /\ node[v].votedFor = i
            /\ v # i /\ node[v].role = "follower")'
    <3>1. CASE v = k
      BY <1>1, <1>2, <1>3, <3>1, NobodyAssumption DEF Sworn, Leads
    <3>2. CASE v # k
      BY <1>2, <1>3, <3>2 DEF Sworn, Leads
    <3> QED
      BY <3>1, <3>2
  <2> QED
    BY <2>1, <2>2 DEF Sworn
<1>4. (Leads(i, t) \/ node[i].term > t)'
  <2>1. CASE i = k
    BY <1>1, <1>2, <2>1 DEF Won, Leads
  <2>2. CASE i # k
    BY <1>2, <2>2 DEF Won, Leads
  <2> QED
    BY <2>1, <2>2
<1>5. PICK Q : Majority(Q) /\ \A v \in Q : Sworn(v, i, t)
  BY DEF Won
<1>6. Majority(Q) /\ \A v \in Q : Sworn(v, i, t)'
  BY <1>3, <1>5 DEF Majority
<1> QED
  BY <1>4, <1>6 DEF Won

LEMMA WonKept ==
  ASSUME UNCHANGED vars, NEW i, NEW t, Won(i, t)
  PROVE  Won(i, t)'
<1>1. node' = node /\ links' = links
  BY DEF vars
<1>2. \A v, c \in Server : Supports(v, c, t)' <=> Supports(v, c, t)
  BY <1>1 DEF Supports, VoteResponse, InTransit
<1>3. PICK Q : Majority(Q) /\ \A v \in Q : Sworn(v, i, t)
  BY DEF Won
<1>4. \A v \in Q : Sworn(v, i, t)'
  BY <1>1, <1>2, <1>3 DEF Sworn, Leads, Majority
<1> QED
  BY <1>1, <1>3, <1>4 DEF Won, Leads

-----------------------------------------------------------------------------
(* The leader that followers and messages know *)

\* A message on the way from j to k.
Known(j, k, m) ==
  /\ Letter(m)
  /\ m.type \in {"AppendEntries", "AppendEntriesResponse"} => j # k
  /\ m.type = "AppendEntries" => Won(j, m.term) /\ (Hybrid => m.prevTerm # Garbage)

ReignInv ==
  /\ \A i \in Server : Fit(node[i]) /\ Routed(node[i])
  /\ \A i \in Server : node[i].leader # Nobody => Won(node[i].leader, node[i].term)
  /\ \A j, k \in Server : \A m \in InTransit(j, k) : Known(j, k, m)

\* What the handler run of i that left u did: a Turn, or it accepted m.
Accepted(i, u) ==
  \E j \in Server \ {i} : \E m \in InTransit(j, i) :
    \E r \in Resolutions(m, node[i].log) :
      m.type = "AppendEntries" /\ Accepts(i, node[i], u, j, r)

LEMMA OnMessageRuns ==
  ASSUME ElectionInv, ReignInv, NEW i \in Server, NEW j \in Server,
         NEW m \in InTransit(j, i), NEW r \in Resolutions(m, node[i].log)
  PROVE  LET u == OnMessage(node[i], i, j, r)
         IN Routed(u) /\ (Turn(i, node[i], u) \/ Accepted(i, u))
<1> DEFINE s == node[i]
           u == OnMessage(s, i, j, r)
<1>1. /\ Fit(s) /\ Routed(s) /\ Ballot(i, s) /\ s.out = NoMessages
      /\ Known(j, i, m) /\ Mail(j, i, m) /\ s.term \in Nat
  BY DEF ReignInv, ElectionInv, NodesSound, LinksSound, Fit, Sane
<1>2. CASE m.type = "AppendEntries"
  <2>1. m \in AppendRequests /\ j # i /\ Won(j, m.term)
    BY <1>1, <1>2 DEF Known, Letter
  <2>2. r \in AppendRequests /\ r.type = m.type /\ r.term = m.term
    <3>1. \A p \in DOMAIN s.log : s.log[p].term \in Nat
      BY <1>1, SaneLog DEF Fit, Entries
    <3> QED
      BY <2>1, <3>1 DEF Resolutions, AppendRequests
  <2>3. s.role = "leader" => r.term # s.term
    BY <1>1, <2>1, <2>2, WonOnce DEF Leads
  <2>4. u = HandleAppendEntries(s, i, j, r)
    BY <1>2, <2>2 DEF OnMessage
  <2> HIDE DEF u
  <2>5. Routed(u) /\ (Turn(i, s, u) \/ Accepts(i, s, u, j, r))
    BY <1>1, <2>1, <2>2, <2>3, <2>4, AppendEntriesRuns
  <2> QED
    BY <1>2, <2>1, <2>5 DEF Accepted, u
<1>3. CASE m.type # "AppendEntries"
  <2>1. r = m
    BY <1>3 DEF Resolutions
  <2>2. CASE m.type = "RequestVote"
    <3>1. m.term \in Nat /\ j # i
      BY <1>1, <2>2 DEF Mail, Plain, VoteResponse
    <3>2. u = HandleRequestVote(s, j, m)
      BY <2>1, <2>2 DEF OnMessage
    <3> QED
      BY <1>1, <3>1, <3>2, RequestVoteTurn
  <2>3. CASE m.type = "RequestVoteResponse"
    <3>1. m.term \in Nat
      BY <1>1, <2>3 DEF Mail, Plain, VoteResponse
    <3>2. u = HandleRequestVoteResponse(s, i, j, m)
      BY <2>1, <2>3 DEF OnMessage
    <3> QED
      BY <1>1, <3>1, <3>2, VoteResponseTurn
  <2>4. CASE m.type = "AppendEntriesResponse"
    <3>1. m \in AppendResponses /\ j # i
      BY <1>1, <2>4 DEF Known, Letter
    <3>2. u = HandleAppendEntriesResponse(s, i, j, m)
      BY <2>1, <2>4 DEF OnMessage
    <3> QED
      BY <1>1, <3>1, <3>2, AppendResponseTurn
  <2>5. CASE m.type = "client_command_redirected"
    <3>1. m.cmd \in Commands
      BY <1>1, <2>5 DEF Known, Letter
    <3>2. u = HandleClientCommandRedirected(s, i, j, m)
      BY <2>1, <2>5 DEF OnMessage
    <3> HIDE DEF u
    <3>3. Tame(i, s, u) /\ Prompt(s, u) /\ Routed(u)
      BY <1>1, <3>1, <3>2, RedirectedTame DEF Fit
    <3>4. Turn(i, s, u)
      BY <1>1, <3>3, TurnSelf, TurnTame DEF Fit
    <3> QED
      BY <3>3, <3>4 DEF u
  <2>6. CASE m.type = "client_command_redirected_response"
    <3>1. u = HandleClientCommandRedirectedResponse(s, j, m)
      BY <2>1, <2>6 DEF OnMessage
    <3> HIDE DEF u
    <3>2. Tame(i, s, u) /\ Prompt(s, u) /\ Routed(u)
      BY <1>1, <3>1, RedirectedResponseTame DEF Fit
    <3>3. Turn(i, s, u)
      BY <1>1, <3>2, TurnSelf, TurnTame DEF Fit
    <3> QED
      BY <3>2, <3>3 DEF u
  <2> QED
    BY <1>1, <1>3, <2>2, <2>3, <2>4, <2>5, <2>6 DEF Mail, Plain, VoteResponse
<1> QED
  BY <1>2, <1>3

LEMMA RunEffect ==
  ASSUME ElectionInv, ReignInv, NEW i \in Server, NEW u, Run(i, u)
  PROVE  Routed(u) /\ (Turn(i, node[i], u) \/ Accepted(i, u))
<1> DEFINE s == node[i]
           sent == SendAppendEntries(s, Peers(i))
           idle == [s EXCEPT !.heartbeatArmed = FALSE]
<1>1. /\ Fit(s) /\ Routed(s) /\ s.out = NoMessages
  BY DEF ReignInv, ElectionInv, NodesSound
<1>2. ASSUME NEW j \in Server, NEW m \in InTransit(j, i),
             NEW r \in Resolutions(m, s.log), u = OnMessage(s, i, j, r)
      PROVE  Routed(u) /\ (Turn(i, s, u) \/ Accepted(i, u))
  BY <1>2, OnMessageRuns
<1>3. CASE s.electionArmed /\ u = StartElection(s, i)
  BY <1>1, <1>3, StartElectionTurn
<1>4. CASE s.role = "leader" /\ u = sent
  <2>1. Tame(i, s, sent) /\ SameBacklog(s, sent) /\ sent.commit = s.commit
    <3>1. Peers(i) \subseteq Server \ {i} /\ Sane(s)
      BY <1>1 DEF Peers, Fit
    <3> HIDE DEF s
    <3> QED
      BY <1>4, <3>1, SendTame
  <2> HIDE DEF sent
  <2> QED
    BY <1>1, <1>4, <2>1, TurnSelf, TurnTame, RoutedSame DEF Fit, Prompt
<1>5. CASE s.role # "leader" /\ u = idle
  <2>1. /\ Sane(idle) /\ idle.role = s.role /\ idle.term = s.term
        /\ idle.leader = s.leader /\ idle.log = s.log /\ idle.commit = s.commit
        /\ idle.responses = s.responses /\ idle.electionArmed = s.electionArmed
        /\ idle.out = NoMessages /\ SameBacklog(s, idle)
    BY <1>1 DEF Fit, Sane, Shape, SameBacklog
  <2> HIDE DEF idle
  <2>2. Turn(i, s, idle)
    BY <1>1, <1>5, <2>1 DEF Turn, Fit, Timed, Owed, Kept, NoMessages
  <2> QED
    BY <1>1, <1>5, <2>1, <2>2, RoutedSame
<1>6. ASSUME NEW cmd \in Commands, u = SubmitCommand(s, i, cmd)
      PROVE  Routed(u) /\ Turn(i, s, u)
  <2>1. Tame(i, s, u) /\ Prompt(s, u) /\ (Routed(s) => Routed(u))
    BY <1>1, <1>6, SubmitTame DEF Fit
  <2> QED
    BY <1>1, <2>1, TurnSelf, TurnTame DEF Fit
<1> QED
  BY <1>2, <1>3, <1>4, <1>5, <1>6 DEF Run, Unprompted

LeadersHaveWon == \A i \in Server : \A t \in Nat : Leads(i, t) => Won(i, t)

LEMMA LeadersWon == ElectionInv => LeadersHaveWon
  BY LeadsWon DEF LeadersHaveWon

LEMMA LeadersWonNext == (ElectionInv => LeadersHaveWon)'
  BY LeadersWon, PTL

LEMMA ReignInit == Init => ReignInv
<1> SUFFICES ASSUME Init PROVE ReignInv
  OBVIOUS
<1>1. InitNode \in {s \in {InitNode} : Fit(s) /\ Routed(s) /\ s.leader = Nobody}
  <2>1. \A S : <<>> \in Seq(S) /\ DOMAIN <<>> = {}
    BY EmptySeq
  <2>2. Shape(InitNode)
    BY DEF InitNode, Shape, NoMessages
  <2>3. Sane(InitNode)
    BY <2>1, <2>2 DEF InitNode, Sane, Roles
  <2>4. Timed(InitNode) /\ Owed(InitNode) /\ Routed(InitNode)
    BY DEF InitNode, Timed, Owed, Routed
  <2> QED
    BY <2>3, <2>4 DEF Fit, InitNode
<1>2. \A i \in Server : Fit(node[i]) /\ Routed(node[i]) /\ node[i].leader = Nobody
  BY <1>1 DEF Init
<1>3. \A j, k \in Server : InTransit(j, k) = {}
  BY DEF Init, InTransit
<1> QED
  BY <1>2, <1>3 DEF ReignInv

LEMMA FitMailed ==
  ASSUME NEW i \in Server, NEW u, Moved(i, u), Fit(u), Routed(u)
  PROVE  Fit(node'[i]) /\ Routed(node'[i])
<1>1. LET w == node'[i]
      IN /\ Shape(u) /\ Shape(w)
         /\ w.role = u.role /\ w.term = u.term
         /\ w.leader = u.leader /\ w.log = u.log /\ w.next = u.next
         /\ w.match = u.match /\ w.commit = u.commit
         /\ w.pending = u.pending /\ w.inflight = u.inflight
         /\ w.responses = u.responses /\ w.electionArmed = u.electionArmed
         /\ w.heartbeatArmed = u.heartbeatArmed
  BY MovedFields
<1> QED
  BY <1>1 DEF Fit, Sane, Timed, Owed, Routed

\* hybrid_raft/ reads no term from beyond the end of its log.
LEMMA ExcerptTerm ==
  ASSUME NEW s, Sane(s), NEW m \in AppendRequests, Excerpt(m, s.log), Hybrid
  PROVE  m.prevTerm # Garbage
<1>1. /\ Len(s.log) \in Nat /\ DOMAIN s.log = 1..Len(s.log)
      /\ \A p \in DOMAIN s.log : s.log[p].term \in Nat
  BY SaneLog DEF Entries
<1>2. m.prevIndex \in Nat /\ Len(m.entries) \in Nat
  BY LenProperties DEF AppendRequests
<1>3. /\ m.prevIndex + Len(m.entries) <= Len(s.log)
      /\ m.prevTerm = IF m.prevIndex = 0 THEN 0 ELSE s.log[m.prevIndex].term
  BY DEF Excerpt
<1>4. m.prevIndex # 0 => m.prevIndex \in DOMAIN s.log
  BY <1>1, <1>2, <1>3
<1> QED
  BY <1>1, <1>3, <1>4 DEF Garbage

LEMMA ReignStep ==
  ASSUME ElectionInv, ReignInv, NEW i \in Server, NEW u, Moved(i, u), ElectionInv'
  PROVE  ReignInv'
<1> DEFINE s == node[i]
<1>1. Routed(u) /\ (Turn(i, s, u) \/ Accepted(i, u))
  BY RunEffect DEF Moved
<1>2. Fit(u)
  BY <1>1 DEF Turn, Accepted, Accepts
<1>3. /\ node'[i].leader = u.leader /\ node'[i].term = u.term /\ node'[i].role = u.role
      /\ \A k \in Server : k # i => node'[k] = node[k]
  BY MovedFields DEF Moved
<1>4. \A j \in Server : \A t \in Nat : Won(j, t) => Won(j, t)'
  BY WonStable
<1>5. \A k \in Server : node[k].term \in Nat /\ node[k].leader \in Server \cup {Nobody}
  BY DEF ReignInv, Fit, Sane
<1>6. (\A k \in Server : Fit(node[k]) /\ Routed(node[k]))'
  BY <1>1, <1>2, <1>3, FitMailed DEF ReignInv
<1>7. ASSUME NEW k \in Server, node'[k].leader # Nobody
      PROVE  Won(node[k].leader, node[k].term)'
  <2>1. CASE k # i
    BY <1>3, <1>4, <1>5, <1>7, <2>1 DEF ReignInv
  <2>2. CASE k = i /\ Turn(i, s, u)
    BY <1>3, <1>4, <1>5, <1>7, <2>2 DEF ReignInv, Turn
  <2>3. CASE k = i /\ Accepted(i, u)
    <3> PICK j \in Server \ {i} : \E m \in InTransit(j, i) :
          \E r \in Resolutions(m, s.log) :
            m.type = "AppendEntries" /\ Accepts(i, s, u, j, r)
      BY <2>3 DEF Accepted
    <3>1. PICK m \in InTransit(j, i) :
            \E r \in Resolutions(m, s.log) :
              m.type = "AppendEntries" /\ Accepts(i, s, u, j, r)
      OBVIOUS
    <3>2. PICK r \in Resolutions(m, s.log) : Accepts(i, s, u, j, r)
      BY <3>1
    <3>3. m \in AppendRequests /\ Won(j, m.term)
      BY <3>1 DEF ReignInv, Known, Letter
    <3>4. r.term = m.term /\ m.term \in Nat
      BY <3>3 DEF Resolutions, AppendRequests
    <3> QED
      BY <1>3, <1>4, <2>3, <3>2, <3>3, <3>4 DEF Accepts
  <2> QED
    BY <1>1, <2>1, <2>2, <2>3
<1>8. ASSUME NEW j \in Server, NEW k \in Server, NEW m \in InTransit(j, k)'
      PROVE  Known(j, k, m)'
  <2>1. CASE m \in InTransit(j, k)
    <3>1. Known(j, k, m)
      BY <2>1 DEF ReignInv
    <3> QED
      BY <1>4, <3>1 DEF Known, Letter, AppendRequests
  <2>2. CASE j = i /\ m \in u.out[k] /\ Turn(i, s, u)
    <3>1. Writ(i, k, u, m)
      BY <2>2 DEF Turn
    <3>2. ASSUME m.type = "AppendEntries"
          PROVE  Won(i, m.term)' /\ (Hybrid => m.prevTerm # Garbage)
      <4>1. /\ u.role = "leader" /\ m.term = u.term /\ m.term \in Nat
        BY <3>1, <3>2 DEF Writ, Vouched, AppendRequests
      <4>3. Hybrid => m.prevTerm # Garbage
        BY <1>2, <3>1, <3>2, ExcerptTerm DEF Writ, Vouched, Fit
      <4>2. Leads(i, m.term)'
        BY <1>3, <4>1 DEF Leads
      <4> QED
        BY <4>1, <4>2, <4>3, LeadersWonNext DEF LeadersHaveWon
    <3> QED
      BY <2>2, <3>1, <3>2 DEF Known, Writ, Vouched
  <2>3. CASE j = i /\ m \in u.out[k] /\ Accepted(i, u)
    <3>1. PICK l \in Server \ {i} : \E r : Accepts(i, s, u, l, r)
      BY <2>3 DEF Accepted
    <3> QED
      BY <2>3, <3>1 DEF Known, Accepts
  <2> QED
    BY <1>1, <2>1, <2>2, <2>3 DEF Moved
<1> QED
  BY <1>6, <1>7, <1>8 DEF ReignInv

LEMMA ReignInvInductive == ElectionInv /\ ElectionInv' /\ ReignInv /\ [Next]_vars => ReignInv'
<1> SUFFICES ASSUME ElectionInv, ElectionInv', ReignInv, [Next]_vars
             PROVE  ReignInv'
  OBVIOUS
<1>1. CASE Next
  <2>1. PICK i \in Server : \E u : Moved(i, u)
    BY <1>1, NextMoves
  <2> QED
    BY <2>1, ReignStep
<1>2. CASE UNCHANGED vars
  <2>1. node' = node /\ links' = links
    BY <1>2 DEF vars
  <2>2. \A j, k \in Server : InTransit(j, k)' = InTransit(j, k)
    BY <2>1 DEF InTransit
  <2>3. \A i, t : Won(i, t) => Won(i, t)'
    BY <1>2, WonKept
  <2> QED
    BY <2>1, <2>2, <2>3 DEF ReignInv, Known
<1> QED
  BY <1>1, <1>2

THEOREM ReignInvHolds == Spec => []ReignInv
<1>1. Init => ReignInv
  BY ReignInit
<1>2. ElectionInv /\ ElectionInv' /\ ReignInv /\ [Next]_vars => ReignInv'
  BY ReignInvInductive
<1> QED
  BY <1>1, <1>2, ElectionInvHolds, PTL DEF Spec

\* leader_id_ names a node that won this node's term, and leads it unless it
\* has moved on: only an AppendEntries of that term sets it.
THEOREM KnownLeader_Led == Spec => []KnownLeaderLed
<1>1. ReignInv => KnownLeaderLed
  BY DEF ReignInv, Won, KnownLeaderLed
<1> QED
  BY <1>1, ReignInvHolds, PTL

\* Every node but a leader is one election timeout away from a new election,
\* every leader has its heartbeat armed.
THEOREM Timers_FollowRole == Spec => []TimersFollowRole
<1>1. ReignInv => TimersFollowRole
  BY DEF ReignInv, Fit, Timed, TimersFollowRole
<1> QED
  BY <1>1, ReignInvHolds, PTL

\* What waits or is in flight at a node goes where its leader_id_ says.
THEOREM Redirects_FollowLeader == Spec => []RedirectsFollowLeader
<1>1. ReignInv => RedirectsFollowLeader
  <2> SUFFICES ASSUME ReignInv, NEW i \in Server
               PROVE  /\ \A k \in DOMAIN node[i].inflight :
                           node[i].inflight[k].to = node[i].leader
                      /\ node[i].pending # <<>> => node[i].leader = Nobody
                      /\ node[i].role = "leader" =>
                           /\ node[i].leader = Nobody /\ node[i].pending = <<>>
                           /\ node[i].inflight = <<>>
    BY DEF RedirectsFollowLeader
  <2> QED
    BY DEF ReignInv, Routed
<1> QED
  BY <1>1, ReignInvHolds, PTL

\* Whatever moves the commit index answers every client owed a response for an
\* entry it covers.
THEOREM Commit_Answers == Spec => CommitAnswers
<1>1. ElectionInv /\ ReignInv /\ [Next]_vars =>
        [\A i \in Server : node'[i].commit > node[i].commit =>
           \A k \in DOMAIN node'[i].responses :
             node'[i].responses[k].index > node'[i].commit]_vars
  <2> SUFFICES ASSUME ElectionInv, ReignInv, Next, NEW i \in Server,
                      node'[i].commit > node[i].commit
               PROVE  Drained(node'[i])
    BY DEF Drained
  <2>1. PICK k \in Server : \E u : Moved(k, u)
    BY NextMoves
  <2>2. PICK u : Moved(k, u)
    BY <2>1
  <2>3. node[i].commit \in Nat
    BY DEF ReignInv, Fit, Sane
  <2>4. i = k
    BY <2>2, <2>3 DEF Moved
  <2>5. /\ node'[i].commit = u.commit /\ node'[i].responses = u.responses
    BY <2>2, <2>4, MovedFields
  <2>6. CASE Turn(i, node[i], u)
    <3>1. Drained(u)
      BY <2>3, <2>5, <2>6 DEF Turn
    <3> QED
      BY <2>5, <3>1 DEF Drained
  <2>7. CASE Accepted(i, u)
    <3>1. Fit(u) /\ u.role # "leader"
      BY <2>7 DEF Accepted, Accepts
    <3>2. u.responses = <<>>
      BY <3>1, NothingOwed DEF Fit
    <3> QED
      BY <2>5, <3>2 DEF Drained
  <2> QED
    BY <2>2, <2>4, <2>6, <2>7, RunEffect DEF Moved
<1> QED
  BY <1>1, ElectionInvHolds, ReignInvHolds, PTL DEF Spec, CommitAnswers

\* What a leader owes is for its own entries, in their order.
THEOREM Responses_MatchLog == Spec => []ResponsesMatchLog
<1>1. ReignInv => ResponsesMatchLog
  <2> SUFFICES ASSUME ReignInv, NEW i \in Server, NEW k \in DOMAIN node[i].responses
               PROVE  LET r == node[i].responses[k]
                      IN /\ node[i].role = "leader"
                         /\ r.index \in 1..Len(node[i].log)
                         /\ node[i].log[r.index] = [term |-> node[i].term, cmd |-> r.cmd]
                         /\ k > 1 => node[i].responses[k - 1].index < r.index
    BY DEF ResponsesMatchLog
  <2>1. Owed(node[i]) /\ DOMAIN node[i].log = 1..Len(node[i].log)
    BY SaneLog DEF ReignInv, Fit
  <2> QED
    BY <2>1 DEF Owed
<1> QED
  BY <1>1, ReignInvHolds, PTL

\* A leader never cuts its log: it accepts no AppendEntries of its own term.
THEOREM Leader_AppendsOnly == Spec => LeaderAppendOnly
<1>1. ElectionInv /\ ReignInv /\ [Next]_vars =>
        [\A i \in Server :
           Leads(i, node[i].term) /\ Leads(i, node[i].term)' =>
             SubSeq(node'[i].log, 1, Len(node[i].log)) = node[i].log]_vars
  <2> SUFFICES ASSUME ElectionInv, ReignInv, Next, NEW i \in Server,
                      Leads(i, node[i].term), Leads(i, node[i].term)'
               PROVE  SubSeq(node'[i].log, 1, Len(node[i].log)) = node[i].log
    OBVIOUS
  <2> DEFINE a == node[i].log
             b == node'[i].log
  <2>1. PICK k \in Server : \E u : Moved(k, u)
    BY NextMoves
  <2>2. PICK u : Moved(k, u)
    BY <2>1
  <2>3. a \in Seq(Entries) /\ Len(a) \in Nat /\ DOMAIN a = 1..Len(a)
    BY SaneLog DEF ReignInv, Fit
  <2>4. /\ b \in Seq(Entries) /\ Len(b) \in Nat /\ Len(a) <= Len(b)
        /\ \A p \in 1..Len(a) : b[p] = a[p]
    <3>1. CASE i # k
      <4>1. b = a
        BY <2>2, <3>1 DEF Moved
      <4> HIDE DEF a, b
      <4> QED
        BY <2>3, <4>1
    <3>2. CASE i = k
      <4>1. b = u.log /\ node'[i].role = u.role
        BY <2>2, <3>2, MovedFields
      <4>2. Turn(i, node[i], u)
        <5>1. Turn(i, node[i], u) \/ Accepted(i, u)
          BY <2>2, <3>2, RunEffect DEF Moved
        <5>2. u.role = "leader"
          BY <4>1 DEF Leads
        <5>3. Accepted(i, u) => u.role = "follower"
          BY DEF Accepted, Accepts
        <5> QED
          BY <5>1, <5>2, <5>3
      <4>3. u.log \in Seq(Entries) /\ Len(u.log) \in Nat
        BY <4>2, SaneLog DEF Turn, Fit
      <4>4. Kept(node[i], u)
        BY <4>2 DEF Turn
      <4>5. CASE u.log = a
        <5> HIDE DEF a, b
        <5> QED
          BY <2>3, <4>1, <4>5
      <4>6. CASE u.log # a
        BY <2>3, <4>1, <4>3, <4>4, <4>6 DEF Kept
      <4> QED
        BY <4>5, <4>6
    <3> QED
      BY <3>1, <3>2
  <2> HIDE DEF a, b
  <2> DEFINE c == SubSeq(b, 1, Len(a))
  <2>5. /\ c \in Seq(Entries) /\ Len(c) = Len(a)
        /\ \A p \in 1..Len(a) : c[p] = b[p]
    BY <2>3, <2>4, PrefixUpTo
  <2> HIDE DEF c
  <2>6. c = a
    BY <2>3, <2>4, <2>5, SeqEqual
  <2> QED
    BY <2>6 DEF a, b, c
<1> QED
  BY <1>1, ElectionInvHolds, ReignInvHolds, PTL DEF Spec, LeaderAppendOnly

\* hybrid_raft/ clamps next_index_ before it reads the term of the entry before.
THEOREM NoRead_IsWild == Hybrid => (Spec => []NoWildRead)
<1> SUFFICES ASSUME Hybrid PROVE Spec => []NoWildRead
  OBVIOUS
<1>1. ReignInv => NoWildRead
  BY DEF ReignInv, Known, NoWildRead
<1> QED
  BY <1>1, ReignInvHolds, PTL

-----------------------------------------------------------------------------
(* The logs match *)

Matching(a, b) ==
  \A p \in DOMAIN a \cap DOMAIN b :
    a[p].term = b[p].term => \A q \in 1..p : a[q] = b[q]

Prefix(a, b) == Len(a) <= Len(b) /\ \A p \in 1..Len(a) : a[p] = b[p]

TermsUpTo(log, t) == \A p \in DOMAIN log : log[p].term <= t

\* Terms do not fall along a log.
Rising(log) == \A p, q \in DOMAIN log : p <= q => log[p].term <= log[q].term

\* Every entry of the term of a leader is in the leader's log.
LedBy(s, log) ==
  s.role = "leader" => \A p \in DOMAIN log : log[p].term = s.term =>
                         p \in DOMAIN s.log /\ s.log[p].term = s.term

\* S holds the log of every node and every log that an AppendEntries in transit
\* was cut from.
Logs(S) ==
  /\ S \subseteq Seq(Entries)
  /\ \A a \in S : Rising(a)
  /\ \A a, b \in S : Matching(a, b)
  /\ \A a \in S : \A p \in DOMAIN a : \E j \in Server : Won(j, a[p].term)
  /\ \A i \in Server : \A a \in S : LedBy(node[i], a)
  /\ \A i \in Server : node[i].log \in S /\ TermsUpTo(node[i].log, node[i].term)
  /\ \A j, k \in Server : \A m \in InTransit(j, k) :
       m.type = "AppendEntries" =>
         \E a \in S : Excerpt(m, a) /\ TermsUpTo(a, m.term)

LogInv == \E S : Logs(S)

\* What a new log needs to be one of the logs.
Joins(S, u) ==
  /\ \A a \in S : Matching(u.log, a)
  /\ TermsUpTo(u.log, u.term) /\ Rising(u.log)
  /\ \A p \in DOMAIN u.log :
       \/ u.role = "leader" /\ u.log[p].term = u.term
       \/ \E a \in S : p \in DOMAIN a /\ a[p].term = u.log[p].term
  /\ \A a \in S : LedBy(u, a)

LEMMA LogDomain ==
  ASSUME NEW log \in Seq(Entries)
  PROVE  /\ Len(log) \in Nat /\ DOMAIN log = 1..Len(log)
         /\ \A p \in DOMAIN log : log[p].term \in Nat
<1>1. Len(log) \in Nat /\ DOMAIN log = 1..Len(log)
  BY LenProperties
<1>2. \A p \in DOMAIN log : log[p] \in Entries
  BY ElementOfSeq, <1>1
<1> QED
  BY <1>1, <1>2 DEF Entries

LEMMA MatchingSame ==
  ASSUME NEW a, NEW b
  PROVE  Matching(a, a) /\ (Matching(a, b) => Matching(b, a))
BY DEF Matching

\* A prefix of a log that matches another one matches it too.
LEMMA PrefixMatching ==
  ASSUME NEW a \in Seq(Entries), NEW b \in Seq(Entries), NEW c \in Seq(Entries),
         Prefix(a, b), Matching(b, c)
  PROVE  Matching(a, c)
<1>1. /\ Len(a) \in Nat /\ DOMAIN a = 1..Len(a)
      /\ Len(b) \in Nat /\ DOMAIN b = 1..Len(b)
  BY LogDomain
<1>2. Len(a) <= Len(b) /\ \A p \in 1..Len(a) : a[p] = b[p]
  BY DEF Prefix
<1> SUFFICES ASSUME NEW p \in DOMAIN a \cap DOMAIN c, a[p].term = c[p].term,
                    NEW q \in 1..p
             PROVE  a[q] = c[q]
  BY DEF Matching
<1>3. p \in DOMAIN b /\ b[p].term = c[p].term
  BY <1>1, <1>2
<1>4. b[q] = c[q]
  BY <1>3 DEF Matching
<1>5. q \in 1..Len(a)
  BY <1>1
<1> QED
  BY <1>2, <1>4, <1>5

\* The entries of m, cut from a log a that matches, bring the log up to a.
LEMMA MergeTakes ==
  ASSUME NEW log \in Seq(Entries), NEW a \in Seq(Entries), Matching(log, a),
         NEW m \in AppendRequests, m.prevIndex <= Len(log),
         m.prevIndex + Len(m.entries) <= Len(a),
         \A k \in DOMAIN m.entries : m.entries[k] = a[m.prevIndex + k],
         m.prevIndex = 0 \/ log[m.prevIndex].term = a[m.prevIndex].term
  PROVE  LET merged == Merge(log, m.prevIndex, m.entries)
         IN /\ Merged(log, m.prevIndex, m.entries, merged)
            /\ \A p \in 1..m.prevIndex : log[p] = a[p]
            /\ \A p \in 1..(m.prevIndex + Len(m.entries)) : merged[p] = a[p]
<1> DEFINE prev == m.prevIndex
           entries == m.entries
           E == Len(entries)
           N == Len(log)
           A == Len(a)
           merged == Merge(log, prev, entries)
           M == Len(merged)
<1>1. prev \in Nat /\ entries \in Seq(Entries) /\ prev <= N /\ prev + E <= A
  BY DEF AppendRequests
<1>2. /\ N \in Nat /\ DOMAIN log = 1..N /\ A \in Nat /\ DOMAIN a = 1..A
      /\ E \in Nat /\ DOMAIN entries = 1..E
      /\ \A p \in 1..N : log[p].term \in Nat
  BY <1>1, LogDomain
<1>3. Merged(log, prev, entries, merged)
  BY <1>1, <1>2, MergeMerged
<1> HIDE DEF merged
<1>4. merged \in Seq(Entries) /\ M \in Nat /\ DOMAIN merged = 1..M
  BY <1>3, LogDomain DEF Merged
<1>5. \A p \in 1..prev : log[p] = a[p]
  <2>1. CASE prev = 0
    BY <2>1
  <2>2. CASE prev # 0
    <3>1. prev \in DOMAIN log \cap DOMAIN a
      BY <1>1, <1>2, <2>2
    <3> QED
      BY <2>2, <3>1 DEF Matching
  <2> QED
    BY <2>1, <2>2
<1>6. \A k \in 1..E : entries[k] = a[prev + k]
  BY <1>2
<1>7. /\ prev + E <= M
      /\ \A p \in 1..prev : merged[p] = log[p]
      /\ \A k \in 1..E : merged[prev + k] = entries[k]
  BY <1>2, <1>3, <1>4 DEF Merged
<1> HIDE DEF prev, entries, E, N, A, M
<1>8. \A p \in 1..(prev + E) : merged[p] = a[p]
  <2> TAKE p \in 1..(prev + E)
  <2>1. CASE p <= prev
    BY <1>1, <1>2, <1>5, <1>7, <2>1
  <2>2. CASE p > prev
    <3>1. p \in Nat /\ p <= prev + E /\ prev \in Nat /\ E \in Nat
      BY <1>1, <1>2
    <3>2. p - prev \in 1..E /\ prev + (p - prev) = p
      BY <2>2, <3>1
    <3> QED
      BY <1>6, <1>7, <3>2
  <2> QED
    BY <1>1, <1>2, <2>1, <2>2
<1> QED
  BY <1>3, <1>5, <1>8 DEF prev, entries, E, merged

\* The entries of m, cut from a log that matches, give a prefix of that log or
\* leave the log as it is.
LEMMA MergePrefix ==
  ASSUME NEW log \in Seq(Entries), NEW a \in Seq(Entries), Matching(log, a),
         NEW m \in AppendRequests, m.prevIndex <= Len(log),
         m.prevIndex + Len(m.entries) <= Len(a),
         \A k \in DOMAIN m.entries : m.entries[k] = a[m.prevIndex + k],
         m.prevIndex = 0 \/ log[m.prevIndex].term = a[m.prevIndex].term
  PROVE  LET merged == Merge(log, m.prevIndex, m.entries)
         IN /\ merged \in Seq(Entries)
            /\ Prefix(merged, log) \/ Prefix(merged, a)
<1> DEFINE prev == m.prevIndex
           entries == m.entries
           E == Len(entries)
           N == Len(log)
           A == Len(a)
           merged == Merge(log, prev, entries)
           M == Len(merged)
<1>1. prev \in Nat /\ entries \in Seq(Entries) /\ prev <= N /\ prev + E <= A
  BY DEF AppendRequests
<1>2. /\ N \in Nat /\ DOMAIN log = 1..N /\ A \in Nat /\ DOMAIN a = 1..A
      /\ E \in Nat /\ DOMAIN entries = 1..E
      /\ \A p \in 1..N : log[p].term \in Nat
  BY <1>1, LogDomain
<1>3. /\ Merged(log, prev, entries, merged)
      /\ \A p \in 1..prev : log[p] = a[p]
      /\ \A p \in 1..(prev + E) : merged[p] = a[p]
  BY MergeTakes
<1> HIDE DEF merged
<1>4. merged \in Seq(Entries) /\ M \in Nat /\ DOMAIN merged = 1..M
  BY <1>3, LogDomain DEF Merged
<1>5. \A k \in 1..E : entries[k] = a[prev + k]
  BY <1>2
<1>6. /\ prev + E <= M
      /\ \A p \in 1..M : p > prev + E => p \in 1..N /\ merged[p] = log[p]
      /\ M = prev + E \/ /\ M >= N
                         /\ \A k \in 1..E : prev + k <= N => log[prev + k].term = entries[k].term
  BY <1>2, <1>3, <1>4 DEF Merged
<1>7. /\ \A p \in 1..prev : log[p] = a[p]
      /\ \A p \in 1..(prev + E) : merged[p] = a[p]
  BY <1>3
<1> HIDE DEF prev, entries, E, N, A, M
<1>8. CASE M = prev + E
  <2>1. M <= A /\ \A p \in 1..M : merged[p] = a[p]
    BY <1>1, <1>7, <1>8
  <2> QED
    BY <1>4, <2>1 DEF Prefix, M, A, merged, prev, entries
<1>9. CASE M # prev + E
  <2>1. M > prev + E /\ M \in 1..N
    BY <1>1, <1>2, <1>4, <1>6, <1>9
  <2>2. \A k \in 1..E : log[prev + k].term = entries[k].term
    BY <1>1, <1>2, <1>6, <1>9, <2>1
  <2>3. \A p \in 1..(prev + E) : log[p] = a[p]
    <3>1. CASE E = 0
      BY <1>1, <1>7, <3>1
    <3>2. CASE E # 0
      <4>1. E \in 1..E /\ prev + E \in DOMAIN log \cap DOMAIN a
        BY <1>1, <1>2, <2>1, <3>2
      <4>2. log[prev + E].term = a[prev + E].term
        BY <1>5, <2>2, <4>1
      <4> QED
        BY <4>1, <4>2 DEF Matching
    <3> QED
      BY <3>1, <3>2
  <2>4. \A p \in 1..M : merged[p] = log[p]
    <3> TAKE p \in 1..M
    <3>1. CASE p <= prev + E
      <4>1. p \in 1..(prev + E)
        BY <1>1, <1>2, <1>4, <3>1
      <4> QED
        BY <1>7, <2>3, <4>1
    <3>2. CASE p > prev + E
      BY <1>6, <3>2
    <3> QED
      BY <1>1, <1>2, <1>4, <3>1, <3>2
  <2>5. M <= N
    BY <1>2, <2>1
  <2> QED
    BY <1>4, <2>4, <2>5 DEF Prefix, M, N, merged, prev, entries
<1> QED
  BY <1>8, <1>9

LEMMA WonOnceNext == (ElectionInv => \A i, j \in Server : \A t \in Nat :
                                      Leads(i, t) /\ Won(j, t) => i = j)'
<1>1. ElectionInv => \A i, j \in Server : \A t \in Nat :
                       Leads(i, t) /\ Won(j, t) => i = j
  BY WonOnce
<1> QED
  BY <1>1, PTL

\* No log has an entry of a term that is yet to be led.
LEMMA NewLeadersTerm ==
  ASSUME ElectionInv, ElectionInv', NEW S, Logs(S),
         NEW i \in Server, NEW u, Moved(i, u), Turn(i, node[i], u),
         u.role = "leader", NEW a \in S, NEW p \in DOMAIN a, a[p].term = u.term
  PROVE  p \in DOMAIN node[i].log /\ node[i].log[p].term = u.term
<1>1. node[i].role \in {"candidate", "leader"} /\ u.term = node[i].term /\ u.term \in Nat
  BY DEF Turn, Fit, Sane
<1>2. node'[i].role = "leader" /\ node'[i].term = u.term
  BY MovedFields
<1>3. PICK j \in Server : Won(j, u.term)
  BY DEF Logs
<1>4. Won(j, u.term)'
  BY <1>1, <1>3, WonStable
<1>5. i = j
  BY <1>1, <1>2, <1>4, WonOnceNext DEF Leads
<1>6. node[i].role = "leader"
  BY <1>1, <1>3, <1>5 DEF Won, Leads
<1>7. LedBy(node[i], a)
  BY DEF Logs
<1> QED
  BY <1>1, <1>6, <1>7 DEF LedBy

LEMMA TurnJoins ==
  ASSUME ElectionInv, ElectionInv', ReignInv, NEW S, Logs(S),
         NEW i \in Server, NEW u, Moved(i, u), Turn(i, node[i], u)
  PROVE  Joins(S, u)
<1> DEFINE b == node[i].log
<1>1. /\ b \in S /\ TermsUpTo(b, node[i].term) /\ Rising(b)
      /\ \A a \in S : Matching(b, a)
  BY DEF Logs
<1>2. /\ node[i].term \in Nat /\ u.term \in Nat /\ node[i].term <= u.term
      /\ b \in Seq(Entries) /\ u.log \in Seq(Entries)
  BY DEF Moved, Trans, Turn, Fit, Sane, ReignInv
<1>3. /\ Len(b) \in Nat /\ DOMAIN b = 1..Len(b)
      /\ \A p \in DOMAIN b : b[p].term \in Nat
      /\ Len(u.log) \in Nat /\ DOMAIN u.log = 1..Len(u.log)
  BY <1>2, LogDomain
<1>4. u.role = "leader" => \A a \in S : \A p \in DOMAIN a :
        a[p].term = u.term => p \in DOMAIN b /\ b[p].term = u.term
  BY NewLeadersTerm
<1> HIDE DEF b
<1>5. /\ \A p \in DOMAIN b : p \in DOMAIN u.log /\ u.log[p] = b[p]
      /\ \A p \in DOMAIN u.log : p \notin DOMAIN b =>
           u.role = "leader" /\ u.log[p].term = u.term
  <2>1. Kept(node[i], u)
    BY DEF Turn
  <2>2. CASE u.log = b
    BY <2>2
  <2>3. CASE u.log # b
    BY <1>3, <2>1, <2>3 DEF Kept, b
  <2> QED
    BY <2>2, <2>3
<1>6. ASSUME NEW a \in S
      PROVE  Matching(u.log, a)
  <2> SUFFICES ASSUME NEW p \in DOMAIN u.log \cap DOMAIN a, u.log[p].term = a[p].term,
                      NEW q \in 1..p
               PROVE  u.log[q] = a[q]
    BY DEF Matching
  <2>1. p \in DOMAIN b
    BY <1>4, <1>5
  <2>2. b[q] = a[q]
    BY <1>1, <1>5, <2>1 DEF Matching
  <2>3. q \in DOMAIN b
    BY <1>3, <2>1
  <2> QED
    BY <1>5, <2>2, <2>3
<1>7. TermsUpTo(u.log, u.term)
  <2> SUFFICES ASSUME NEW p \in DOMAIN u.log
               PROVE  u.log[p].term <= u.term
    BY DEF TermsUpTo
  <2>1. CASE p \in DOMAIN b
    <3>1. b[p].term \in Nat /\ b[p].term <= node[i].term
      BY <1>1, <1>3, <2>1 DEF TermsUpTo
    <3> QED
      BY <1>2, <1>5, <2>1, <3>1
  <2>2. CASE p \notin DOMAIN b
    BY <1>2, <1>5, <2>2
  <2> QED
    BY <2>1, <2>2
<1>8. \A p \in DOMAIN u.log :
        \/ u.role = "leader" /\ u.log[p].term = u.term
        \/ \E a \in S : p \in DOMAIN a /\ a[p].term = u.log[p].term
  BY <1>1, <1>5
<1>9. \A a \in S : LedBy(u, a)
  BY <1>4, <1>5 DEF LedBy
<1>10. Rising(u.log)
  <2> SUFFICES ASSUME NEW p \in DOMAIN u.log, NEW q \in DOMAIN u.log, p <= q
               PROVE  u.log[p].term <= u.log[q].term
    BY DEF Rising
  <2>1. CASE q \in DOMAIN b
    <3>1. p \in DOMAIN b
      BY <1>3, <2>1
    <3> QED
      BY <1>1, <1>5, <2>1, <3>1 DEF Rising
  <2>2. CASE q \notin DOMAIN b
    BY <1>5, <1>7, <2>2 DEF TermsUpTo
  <2> QED
    BY <2>1, <2>2
<1> QED
  BY <1>6, <1>7, <1>8, <1>9, <1>10 DEF Joins

LEMMA AcceptedJoins ==
  ASSUME ElectionInv, ReignInv, NEW S, Logs(S),
         NEW i \in Server, NEW u, Moved(i, u), Accepted(i, u)
  PROVE  Joins(S, u)
<1> DEFINE s == node[i]
<1> PICK j \in Server \ {i} : \E m \in InTransit(j, i) :
          \E r \in Resolutions(m, s.log) :
            m.type = "AppendEntries" /\ Accepts(i, s, u, j, r)
  BY DEF Accepted
<1>1. PICK m \in InTransit(j, i) :
        \E r \in Resolutions(m, s.log) :
          m.type = "AppendEntries" /\ Accepts(i, s, u, j, r)
  OBVIOUS
<1>2. PICK r \in Resolutions(m, s.log) : Accepts(i, s, u, j, r)
  BY <1>1
<1>3. m \in AppendRequests
  BY <1>1 DEF ReignInv, Known, Letter
<1>4. PICK a \in S : Excerpt(m, a) /\ TermsUpTo(a, m.term)
  BY <1>1 DEF Logs
<1>5. /\ s.log \in S /\ TermsUpTo(s.log, s.term) /\ Matching(s.log, a)
      /\ s.log \in Seq(Entries) /\ a \in Seq(Entries) /\ Rising(s.log) /\ Rising(a)
  BY DEF Logs
<1>6. /\ Len(s.log) \in Nat /\ DOMAIN s.log = 1..Len(s.log)
      /\ \A p \in DOMAIN s.log : s.log[p].term \in Nat
      /\ Len(a) \in Nat /\ DOMAIN a = 1..Len(a)
      /\ \A p \in DOMAIN a : a[p].term \in Nat
  BY <1>5, LogDomain
<1>7. /\ r \in AppendRequests /\ r.term = m.term /\ r.prevIndex = m.prevIndex
      /\ r.entries = m.entries
      /\ m.prevTerm # Garbage => r.prevTerm = m.prevTerm
  BY <1>3, <1>6 DEF Resolutions, AppendRequests
<1>8. /\ u.role = "follower" /\ u.term = m.term /\ IsLogMatching(s, r)
      /\ u.log = Merge(s.log, r.prevIndex, r.entries)
  BY <1>2, <1>7 DEF Accepts
<1>9. m.prevIndex \in Nat /\ m.entries \in Seq(Entries) /\ Len(m.entries) \in Nat
  BY <1>3, LenProperties DEF AppendRequests
<1>10. m.prevIndex <= Len(s.log)
  BY <1>6, <1>7, <1>8, <1>9 DEF IsLogMatching
<1>11. u.log \in Seq(Entries) /\ (Prefix(u.log, s.log) \/ Prefix(u.log, a))
  <2>1. CASE m.prevTerm # Garbage
    <3>1. /\ m.prevIndex + Len(m.entries) <= Len(a)
          /\ \A k \in DOMAIN m.entries : m.entries[k] = a[m.prevIndex + k]
          /\ m.prevTerm = IF m.prevIndex = 0 THEN 0 ELSE a[m.prevIndex].term
      BY <1>4, <2>1 DEF Excerpt
    <3>2. m.prevIndex = 0 \/ s.log[m.prevIndex].term = a[m.prevIndex].term
      BY <1>7, <1>8, <2>1, <3>1 DEF IsLogMatching
    <3> QED
      BY <1>3, <1>5, <1>7, <1>8, <1>10, <3>1, <3>2, MergePrefix
  <2>2. CASE m.prevTerm = Garbage
    <3>1. m.entries = <<>>
      <4>1. m.prevIndex # 0 /\ m.prevIndex + Len(m.entries) <= Len(a) =>
              a[m.prevIndex].term \in Nat
        <5>1. m.prevIndex # 0 /\ m.prevIndex + Len(m.entries) <= Len(a) =>
                m.prevIndex \in DOMAIN a
          BY <1>6, <1>9
        <5> QED
          BY <1>6, <5>1
      <4> QED
        BY <1>4, <2>2, <4>1 DEF Excerpt, Garbage
    <3>2. Len(m.entries) = 0 /\ DOMAIN m.entries = {}
      BY <3>1
    <3>3. Matching(s.log, s.log)
      BY MatchingSame
    <3>4. m.prevIndex + Len(m.entries) <= Len(s.log)
      BY <1>6, <1>9, <1>10, <3>2
    <3> QED
      BY <1>3, <1>5, <1>7, <1>8, <1>10, <3>2, <3>3, <3>4, MergePrefix
  <2> QED
    BY <2>1, <2>2
<1>12. PICK c \in S : /\ Prefix(u.log, c) /\ TermsUpTo(c, u.term) /\ Rising(c)
                      /\ c \in Seq(Entries)
  <2>1. CASE Prefix(u.log, a)
    BY <1>4, <1>5, <1>8, <2>1
  <2>2. CASE Prefix(u.log, s.log)
    <3>1. s.term \in Nat /\ u.term \in Nat /\ s.term <= u.term
      BY DEF Moved, Trans, Ballot, ReignInv, Fit, Sane
    <3>2. ASSUME NEW p \in DOMAIN s.log
          PROVE  s.log[p].term <= u.term
      <4>1. s.log[p].term \in Nat /\ s.log[p].term <= s.term
        BY <1>5, <1>6 DEF TermsUpTo
      <4> QED
        BY <3>1, <4>1
    <3> QED
      BY <1>5, <2>2, <3>2 DEF TermsUpTo
  <2> QED
    BY <1>11, <2>1, <2>2
<1>13. /\ Len(u.log) \in Nat /\ DOMAIN u.log = 1..Len(u.log)
       /\ Len(c) \in Nat /\ DOMAIN c = 1..Len(c)
  BY <1>11, <1>12, LogDomain
<1>14. \A p \in DOMAIN u.log : p \in DOMAIN c /\ u.log[p] = c[p]
  BY <1>12, <1>13 DEF Prefix
<1>15. \A d \in S : Matching(u.log, d)
  <2>1. \A d \in S : d \in Seq(Entries) /\ Matching(c, d)
    BY DEF Logs
  <2> QED
    BY <1>11, <1>12, <2>1, PrefixMatching
<1>16. TermsUpTo(u.log, u.term) /\ Rising(u.log)
  BY <1>12, <1>14 DEF TermsUpTo, Rising
<1>17. \A d \in S : LedBy(u, d)
  BY <1>8 DEF LedBy
<1> QED
  BY <1>14, <1>15, <1>16, <1>17 DEF Joins

LEMMA LogsStep ==
  ASSUME ElectionInv, ElectionInv', ReignInv, ReignInv', NEW S, Logs(S),
         NEW i \in Server, NEW u, Moved(i, u), Turn(i, node[i], u) \/ Accepted(i, u)
  PROVE  Logs(S \cup {u.log})'
<1> DEFINE T == S \cup {u.log}
<1>1. Joins(S, u)
  BY TurnJoins, AcceptedJoins
<1>2. /\ node'[i].log = u.log /\ node'[i].term = u.term /\ node'[i].role = u.role
      /\ \A k \in Server : k # i => node'[k] = node[k]
  BY MovedFields DEF Moved
<1>3. u.term \in Nat /\ u.log \in Seq(Entries)
  BY <1>2 DEF ReignInv, Fit, Sane
<1>4. \A p \in DOMAIN u.log : u.log[p].term \in Nat
  BY <1>3, LogDomain
<1>5. \A j \in Server : \A t \in Nat : Won(j, t) => Won(j, t)'
  BY WonStable
<1>6. \A a \in S : a \in Seq(Entries) /\ \A p \in DOMAIN a : a[p].term \in Nat
  BY LogDomain DEF Logs
<1>7. T \subseteq Seq(Entries) /\ \A a \in T : Rising(a)
  BY <1>1, <1>3, <1>6 DEF Joins, Logs
<1>8. ASSUME NEW a \in T, NEW b \in T
      PROVE  Matching(a, b)
  <2>1. \A c \in S : Matching(u.log, c) /\ Matching(c, u.log)
    BY <1>1, MatchingSame DEF Joins
  <2>2. Matching(u.log, u.log)
    BY MatchingSame
  <2>3. \A c, d \in S : Matching(c, d)
    BY DEF Logs
  <2> QED
    BY <2>1, <2>2, <2>3
<1>9. \A a \in S : \A p \in DOMAIN a : \E j \in Server : Won(j, a[p].term)
  BY DEF Logs
<1>10. ASSUME NEW a \in T, NEW p \in DOMAIN a
       PROVE  \E j \in Server : Won(j, a[p].term)'
  <2>1. CASE a \in S
    BY <1>5, <1>6, <1>9, <2>1
  <2>2. CASE a = u.log /\ u.role = "leader" /\ u.log[p].term = u.term
    <3>1. Leads(i, u.term)'
      BY <1>2, <2>2 DEF Leads
    <3>2. Won(i, u.term)'
      BY <1>3, <3>1, LeadersWonNext DEF LeadersHaveWon
    <3> QED
      BY <2>2, <3>2
  <2>3. CASE a = u.log /\ \E c \in S : p \in DOMAIN c /\ c[p].term = u.log[p].term
    BY <1>5, <1>6, <1>9, <2>3
  <2> QED
    BY <1>1, <2>1, <2>2, <2>3 DEF Joins
<1>11. ASSUME NEW k \in Server, NEW a \in T
       PROVE  LedBy(node'[k], a)
  <2>1. CASE k = i
    <3>1. a = u.log \/ LedBy(u, a)
      BY <1>1 DEF Joins
    <3> QED
      BY <1>2, <2>1, <3>1 DEF LedBy
  <2>2. CASE k # i /\ a \in S
    BY <1>2, <2>2 DEF Logs
  <2>3. CASE k # i /\ a = u.log
    <3> SUFFICES ASSUME node[k].role = "leader", NEW p \in DOMAIN u.log,
                        u.log[p].term = node[k].term
                 PROVE  p \in DOMAIN node[k].log /\ node[k].log[p].term = node[k].term
      BY <1>2, <2>3 DEF LedBy
    <3>1. CASE u.role = "leader" /\ u.log[p].term = u.term
      <4>1. Leads(i, u.term)' /\ Leads(k, u.term)'
        BY <1>2, <2>3, <3>1 DEF Leads
      <4>2. Won(i, u.term)'
        BY <1>3, <4>1, LeadersWonNext DEF LeadersHaveWon
      <4> QED
        BY <1>3, <2>3, <4>1, <4>2, WonOnceNext
    <3>2. CASE \E c \in S : p \in DOMAIN c /\ c[p].term = u.log[p].term
      <4>1. \A c \in S : LedBy(node[k], c)
        BY DEF Logs
      <4> QED
        BY <3>2, <4>1 DEF LedBy
    <3> QED
      BY <1>1, <3>1, <3>2 DEF Joins
  <2> QED
    BY <2>1, <2>2, <2>3
<1>12. ASSUME NEW k \in Server
       PROVE  node'[k].log \in T /\ TermsUpTo(node'[k].log, node'[k].term)
  <2>1. CASE k = i
    BY <1>1, <1>2, <2>1 DEF Joins
  <2>2. CASE k # i
    BY <1>2, <2>2 DEF Logs
  <2> QED
    BY <2>1, <2>2
<1>13. ASSUME NEW j \in Server, NEW k \in Server, NEW m \in InTransit(j, k)',
              m.type = "AppendEntries"
       PROVE  \E a \in T : Excerpt(m, a) /\ TermsUpTo(a, m.term)
  <2>1. CASE m \in InTransit(j, k)
    <3>1. \E a \in S : Excerpt(m, a) /\ TermsUpTo(a, m.term)
      BY <1>13, <2>1 DEF Logs
    <3> QED
      BY <3>1
  <2>2. CASE j = i /\ m \in u.out[k] /\ Turn(i, node[i], u)
    <3>1. Vouched(i, k, u, m)
      BY <1>13, <2>2 DEF Turn, Writ
    <3> QED
      BY <1>1, <3>1 DEF Vouched, Joins
  <2>3. CASE j = i /\ m \in u.out[k] /\ Accepted(i, u)
    <3>1. PICK l \in Server \ {i} : \E r : Accepts(i, node[i], u, l, r)
      BY <2>3 DEF Accepted
    <3> QED
      BY <1>13, <2>3, <3>1 DEF Accepts
  <2> QED
    BY <2>1, <2>2, <2>3 DEF Moved
<1> HIDE DEF T
<1> QED
  BY <1>7, <1>8, <1>10, <1>11, <1>12, <1>13 DEF Logs, T

LEMMA LogInit == Init => LogInv
<1> SUFFICES ASSUME Init PROVE LogInv
  OBVIOUS
<1> DEFINE S == {<<>>}
<1>1. \A i \in Server : node[i].log = <<>>
  BY DEF Init, InitNode
<1>2. \A j, k \in Server : InTransit(j, k) = {}
  BY DEF Init, InTransit
<1>3. <<>> \in Seq(Entries) /\ DOMAIN <<>> = {}
  BY EmptySeq
<1>4. Logs(S)
  BY <1>1, <1>2, <1>3 DEF Logs, Matching, LedBy, TermsUpTo, Rising
<1> QED
  BY <1>4 DEF LogInv

LEMMA LogInvInductive ==
  ElectionInv /\ ElectionInv' /\ ReignInv /\ ReignInv' /\ LogInv /\ [Next]_vars
    => LogInv'
<1> SUFFICES ASSUME ElectionInv, ElectionInv', ReignInv, ReignInv', LogInv,
                    [Next]_vars
             PROVE  LogInv'
  OBVIOUS
<1>1. PICK S : Logs(S)
  BY DEF LogInv
<1>2. CASE Next
  <2>1. PICK i \in Server : \E u : Moved(i, u)
    BY <1>2, NextMoves
  <2>2. PICK u : Moved(i, u)
    BY <2>1
  <2>3. Turn(i, node[i], u) \/ Accepted(i, u)
    BY <2>2, RunEffect DEF Moved
  <2>4. Logs(S \cup {u.log})'
    BY <1>1, <2>2, <2>3, LogsStep
  <2> QED
    BY <2>4 DEF LogInv
<1>3. CASE UNCHANGED vars
  <2>1. node' = node /\ \A j, k \in Server : InTransit(j, k)' = InTransit(j, k)
    BY <1>3 DEF vars, InTransit
  <2>2. \A i, t : Won(i, t) => Won(i, t)'
    BY <1>3, WonKept
  <2>3. Logs(S)'
    BY <1>1, <2>1, <2>2 DEF Logs
  <2> QED
    BY <2>3 DEF LogInv
<1> QED
  BY <1>2, <1>3

THEOREM LogInvHolds == Spec => []LogInv
<1>1. Init => LogInv
  BY LogInit
<1>2. ElectionInv /\ ElectionInv' /\ ReignInv /\ ReignInv' /\ LogInv /\ [Next]_vars
        => LogInv'
  BY LogInvInductive
<1> QED
  BY <1>1, <1>2, ElectionInvHolds, ReignInvHolds, PTL DEF Spec

\* Two logs that hold an entry of the same term at a position agree up to it,
\* in every cluster and however long its history: raft/ and hybrid_raft/ alike.
THEOREM Logs_Match == Spec => []LogMatching
<1>1. ReignInv /\ LogInv => LogMatching
  <2> SUFFICES ASSUME ReignInv, LogInv, NEW i \in Server, NEW j \in Server,
                      NEW p \in DOMAIN node[i].log \cap DOMAIN node[j].log,
                      node[i].log[p].term = node[j].log[p].term
               PROVE  SubSeq(node[i].log, 1, p) = SubSeq(node[j].log, 1, p)
    BY DEF LogMatching
  <2> DEFINE a == node[i].log
             b == node[j].log
  <2>1. PICK S : Logs(S)
    BY DEF LogInv
  <2>2. Matching(a, b) /\ a \in Seq(Entries) /\ b \in Seq(Entries)
    BY <2>1 DEF Logs
  <2>3. \A q \in 1..p : a[q] = b[q]
    BY <2>2 DEF Matching
  <2> HIDE DEF a, b
  <2>4. p \in 0..Len(a) /\ p \in 0..Len(b)
    BY <2>2, LogDomain DEF a, b
  <2> DEFINE c == SubSeq(a, 1, p)
             d == SubSeq(b, 1, p)
  <2>5. /\ c \in Seq(Entries) /\ Len(c) = p /\ \A q \in 1..p : c[q] = a[q]
        /\ d \in Seq(Entries) /\ Len(d) = p /\ \A q \in 1..p : d[q] = b[q]
    BY <2>2, <2>4, PrefixUpTo
  <2> HIDE DEF c, d
  <2>6. c = d
    BY <2>3, <2>5, SeqEqual
  <2> QED
    BY <2>6 DEF a, b, c, d
<1> QED
  BY <1>1, ReignInvHolds, LogInvHolds, PTL

=============================================================================
