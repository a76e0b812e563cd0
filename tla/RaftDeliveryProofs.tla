------------------------ MODULE RaftDeliveryProofs ------------------------
(***************************************************************************)
(* What is sent arrives or is lost, and a leader never gives a follower    *)
(* up: unless the follower holds the leader's log, knows a later term or a *)
(* message was lost, a request or a rejection is between the two.  Hence   *)
(* SettledLogsAgree for hybrid_raft/.                                      *)
(*                                                                         *)
(* The rest is about votes: VoteInv says that who votes has seen no more   *)
(* than whom it votes for, so that its answers keep next_index_ and        *)
(* match_index_ within the leader's log.  Hence CommitsWithinLog.          *)
(***************************************************************************)
EXTENDS RaftReplicationProofs

-----------------------------------------------------------------------------
(* A handler sends finitely many messages and takes none back *)

Adds(s, u) ==
  /\ Shape(u)
  /\ \A k \in Server : /\ s.out[k] \subseteq u.out[k]
                       /\ IsFiniteSet(s.out[k]) => IsFiniteSet(u.out[k])

Queued(q) == \E S : q \in Seq(S)

LEMMA AddsTrans ==
  ASSUME NEW s, NEW u, NEW v, Adds(s, u), Adds(u, v)
  PROVE  Adds(s, v)
  BY DEF Adds

LEMMA AddsSame ==
  ASSUME NEW s, NEW u, Shape(u), u.out = s.out
  PROVE  Adds(s, u)
  BY DEF Adds

LEMMA FiniteImage ==
  ASSUME NEW S, IsFiniteSet(S), NEW f, DOMAIN f = S
  PROVE  IsFiniteSet({f[x] : x \in S})
<1> DEFINE T == {f[x] : x \in S}
           g == [x \in S |-> f[x]]
<1>1. g \in Surjection(S, T)
  BY DEF Surjection
<1> HIDE DEF g, T
<1> QED
  BY <1>1, FS_Surjection DEF T

LEMMA QueuedFinite ==
  ASSUME NEW q, Queued(q)
  PROVE  Len(q) \in Nat /\ DOMAIN q = 1..Len(q) /\ IsFiniteSet(DOMAIN q)
<1>1. Len(q) \in Nat /\ DOMAIN q = 1..Len(q)
  BY LenProperties DEF Queued
<1>2. IsFiniteSet(1..Len(q))
  BY <1>1, FS_Interval
<1> QED
  BY <1>1, <1>2

LEMMA PostAdds ==
  ASSUME NEW s, Shape(s), NEW j, NEW m
  PROVE  Adds(s, Post(s, j, m))
<1> DEFINE u == Post(s, j, m)
<1>1. Shape(u) /\ \A k \in Server : u.out[k] = s.out[k] \/ u.out[k] = s.out[k] \cup {m}
  BY DEF Post, Shape
<1>2. \A k \in Server : IsFiniteSet(s.out[k]) => IsFiniteSet(s.out[k] \cup {m})
  BY FS_AddElement
<1> HIDE DEF u
<1>3. Adds(s, u)
  BY <1>1, <1>2 DEF Adds
<1> QED
  BY <1>3 DEF u

LEMMA RespondAdds ==
  ASSUME NEW s, Shape(s), NEW to, NEW cmd, NEW ok, NEW value
  PROVE  Adds(s, Respond(s, to, cmd, ok, value))
<1>1. CASE to = Nobody
  BY <1>1 DEF Respond, Adds, Shape
<1>2. CASE to # Nobody
  BY <1>2, PostAdds DEF Respond
<1> QED
  BY <1>1, <1>2

LEMMA DrainAdds ==
  ASSUME NEW s, Shape(s), NEW ok, NEW n \in Nat
  PROVE  Adds(s, DrainPendingClientResponses(s, ok, n))
<1> DEFINE u == DrainPendingClientResponses(s, ok, n)
           f == [k \in 1..n |-> s.responses[k]]
           drained == {f[k] : k \in 1..n}
           owed(j) == {d \in drained : d.redirectTo = j}
           g(j) == [r \in owed(j) |-> RedirectResponse(r.cmd, ok, Absent)]
           told(j) == {g(j)[r] : r \in owed(j)}
<1>1. IsFiniteSet(drained)
  <2>1. IsFiniteSet(1..n) /\ DOMAIN f = 1..n
    BY FS_Interval
  <2> HIDE DEF f
  <2> QED
    BY <2>1, FiniteImage
<1>2. \A j : IsFiniteSet(told(j))
  <2> TAKE j
  <2>1. IsFiniteSet(owed(j))
    BY <1>1, FS_Subset
  <2>2. DOMAIN g(j) = owed(j)
    OBVIOUS
  <2> HIDE DEF drained, owed, g
  <2> QED
    BY <2>1, <2>2, FiniteImage
<1>3. Shape(u)
  BY DEF DrainPendingClientResponses, Shape
<1>4. \A j \in Server : u.out[j] = s.out[j] \cup told(j)
  <2>1. \A j : told(j) = {RedirectResponse(r.cmd, ok, Absent) : r \in owed(j)}
    OBVIOUS
  <2>2. drained = {s.responses[k] : k \in 1..n}
    OBVIOUS
  <2> HIDE DEF told, drained
  <2> QED
    BY <2>1, <2>2 DEF DrainPendingClientResponses, Shape
<1> HIDE DEF u, told
<1>5. \A j \in Server : IsFiniteSet(s.out[j]) => IsFiniteSet(s.out[j] \cup told(j))
  BY <1>2, FS_Union
<1>6. Adds(s, u)
  BY <1>3, <1>4, <1>5 DEF Adds
<1> QED
  BY <1>6 DEF u

LEMMA SendAdds ==
  ASSUME NEW s, Shape(s), NEW peers
  PROVE  LET u == SendAppendEntries(s, peers)
         IN /\ Adds(s, u)
            /\ u.log = s.log /\ u.term = s.term /\ u.role = s.role
            /\ u.responses = s.responses /\ u.pending = s.pending
            /\ \A j \in Server : j \in peers => AppendRequestFor(s, j) \in u.out[j]
<1> DEFINE u == SendAppendEntries(s, peers)
<1>1. /\ Shape(u) /\ u.log = s.log /\ u.term = s.term /\ u.role = s.role
      /\ u.responses = s.responses /\ u.pending = s.pending
      /\ \A j \in Server :
           u.out[j] = IF j \in peers THEN s.out[j] \cup {AppendRequestFor(s, j)}
                                     ELSE s.out[j]
  BY DEF SendAppendEntries, Shape
<1> HIDE DEF u
<1>2. \A j \in Server : IsFiniteSet(s.out[j]) =>
        IsFiniteSet(s.out[j] \cup {AppendRequestFor(s, j)})
  BY FS_AddElement
<1>3. Adds(s, u)
  BY <1>1, <1>2 DEF Adds
<1> QED
  BY <1>1, <1>3 DEF u

LEMMA UpdateCommitIndexAdds ==
  ASSUME NEW s, Shape(s), Queued(s.responses), NEW i
  PROVE  LET u == UpdateCommitIndex(s, i)
         IN /\ Adds(s, u)
            /\ u.log = s.log /\ u.term = s.term /\ u.role = s.role
<1> DEFINE c == Commit(s, MajorityMatch(s, i))
           n == CommittedResponses(c)
           d == DrainPendingClientResponses(c, TRUE, n)
<1>1. /\ Shape(c) /\ c.out = s.out /\ c.log = s.log /\ c.term = s.term
      /\ c.role = s.role /\ c.responses = s.responses
  BY DEF Commit, Shape
<1> HIDE DEF c
<1>2. n \in Nat
  <2>1. IsFiniteSet(DOMAIN c.responses)
    BY <1>1, QueuedFinite
  <2> QED
    BY <2>1, FS_Subset, FS_CardinalityType DEF CommittedResponses
<1> HIDE DEF n
<1>3. Adds(c, d) /\ d.log = c.log /\ d.term = c.term /\ d.role = c.role
  <2>1. Adds(c, d)
    BY <1>1, <1>2, DrainAdds
  <2>2. d.log = c.log /\ d.term = c.term /\ d.role = c.role
    BY <1>1 DEF DrainPendingClientResponses, Shape
  <2> QED
    BY <2>1, <2>2
<1> HIDE DEF d
<1>4. Adds(s, d) /\ Adds(s, s)
  BY <1>1, <1>3 DEF Adds
<1>5. UpdateCommitIndex(s, i) \in {s, d}
  BY DEF UpdateCommitIndex, d, n, c
<1> QED
  BY <1>1, <1>3, <1>4, <1>5

LEMMA ForwardAdds ==
  ASSUME NEW s, Shape(s), NEW cmds, Queued(cmds)
  PROVE  Adds(s, ForwardToLeader(s, cmds))
<1> DEFINE u == ForwardToLeader(s, cmds)
           f == [k \in DOMAIN cmds |-> Redirect(cmds[k])]
           new == {f[k] : k \in DOMAIN cmds}
<1>1. IsFiniteSet(new)
  <2>1. IsFiniteSet(DOMAIN cmds) /\ DOMAIN f = DOMAIN cmds
    BY QueuedFinite
  <2> HIDE DEF f
  <2> QED
    BY <2>1, FiniteImage
<1>2. Shape(u) /\ \A k \in Server : u.out[k] = s.out[k] \/ u.out[k] = s.out[k] \cup new
  BY DEF ForwardToLeader, Shape
<1> HIDE DEF u, new
<1>3. \A j \in Server : IsFiniteSet(s.out[j]) => IsFiniteSet(s.out[j] \cup new)
  BY <1>1, FS_Union
<1>4. Adds(s, u)
  BY <1>2, <1>3 DEF Adds
<1> QED
  BY <1>4 DEF u

-----------------------------------------------------------------------------
(* A leader that appends tells everyone *)

\* m carries the log of leader s to its end.
Reaches(m, s) ==
  m.type = "AppendEntries" /\ m.term = s.term
    /\ m.prevIndex + Len(m.entries) >= Len(s.log)

Briefed(k, u) == \E m \in u.out[k] : Reaches(m, u)

Spread(i, u) == \A k \in Server \ {i} : Briefed(k, u)

LEMMA BriefedMore ==
  ASSUME NEW s, NEW u, Adds(s, u), u.log = s.log, u.term = s.term,
         NEW k \in Server, Briefed(k, s)
  PROVE  Briefed(k, u)
  BY DEF Briefed, Adds, Reaches

LEMMA AppendRequestReaches ==
  ASSUME NEW s, Queued(s.log), NEW j, s.next[j] \in Nat \ {0}
  PROVE  Reaches(AppendRequestFor(s, j), s)
<1> DEFINE N == Len(s.log)
           prev == NextToSend(s, j) - 1
           rest == SubSeq(s.log, prev + 1, N)
<1>1. N \in Nat /\ NextToSend(s, j) \in Nat \ {0}
  BY QueuedFinite DEF NextToSend
<1>2. prev \in Nat
  BY <1>1
<1>3. Len(rest) = IF prev + 1 <= N THEN N - (prev + 1) + 1 ELSE 0
  BY <1>1, <1>2
<1>4. prev + Len(rest) >= N
  <2> HIDE DEF N, prev, rest
  <2> QED
    BY <1>1, <1>2, <1>3
<1> QED
  BY <1>4 DEF AppendRequestFor, AppendRequest, Reaches

LEMMA SendBriefed ==
  ASSUME NEW s, Shape(s), Queued(s.log), NEW peers,
         NEW k \in Server, k \in peers, s.next[k] \in Nat \ {0}
  PROVE  Briefed(k, SendAppendEntries(s, peers))
<1> DEFINE u == SendAppendEntries(s, peers)
<1>1. u.log = s.log /\ u.term = s.term /\ AppendRequestFor(s, k) \in u.out[k]
  BY SendAdds
<1> HIDE DEF u
<1> QED
  BY <1>1, AppendRequestReaches DEF Briefed, Reaches, u

LEMMA QueuedMore ==
  ASSUME NEW q, Queued(q), NEW x
  PROVE  /\ Queued(Append(q, x)) /\ Len(Append(q, x)) = Len(q) + 1
         /\ \A r : Queued(r) => Queued(q \o r)
<1>1. PICK S : q \in Seq(S)
  BY DEF Queued
<1>2. q \in Seq(S \cup {x})
  BY <1>1
<1>3. Append(q, x) \in Seq(S \cup {x}) /\ Len(Append(q, x)) = Len(q) + 1
  BY <1>2, AppendProperties
<1>4. ASSUME NEW r, Queued(r)
      PROVE  Queued(q \o r)
  <2>1. PICK T : r \in Seq(T)
    BY <1>4 DEF Queued
  <2>2. q \in Seq(S \cup T) /\ r \in Seq(S \cup T)
    BY <1>1, <2>1
  <2>3. q \o r \in Seq(S \cup T)
    BY <2>2, ConcatProperties
  <2> QED
    BY <2>3 DEF Queued
<1> QED
  BY <1>3, <1>4 DEF Queued

LEMMA ExecuteAdds ==
  ASSUME NEW i \in Server, NEW s, Sane(s), NEW cmd, NEW to
  PROVE  LET u == ExecuteClientCommand(s, i, cmd, to)
         IN /\ Adds(s, u) /\ u.term = s.term /\ u.role = s.role
            /\ u.log = s.log \/ Spread(i, u)
<1> DEFINE u == ExecuteClientCommand(s, i, cmd, to)
           appended == [s EXCEPT !.log = Append(@, Entry(s, cmd)),
                                 !.responses = Append(@, [index |-> Len(s.log) + 1,
                                                          redirectTo |-> to,
                                                          cmd |-> cmd])]
           sent == SendAppendEntries(appended, Peers(i))
           v == UpdateCommitIndex(sent, i)
<1>1. Shape(s) /\ Queued(s.log) /\ Queued(s.responses) /\ s.next \in [Server -> Nat \ {0}]
  BY DEF Sane, Queued
<1>2. CASE cmd \in Reads
  <2>1. u = Respond(s, to, cmd, TRUE, s.kv[Key[cmd]])
    BY <1>2 DEF ExecuteClientCommand
  <2>2. u.log = s.log /\ u.term = s.term /\ u.role = s.role
    BY <1>1, <2>1 DEF Respond, Post, Shape
  <2> HIDE DEF u
  <2>3. Adds(s, u)
    BY <1>1, <2>1, RespondAdds
  <2> QED
    BY <2>2, <2>3 DEF u
<1>3. CASE cmd \notin Reads
  <2>1. /\ Shape(appended) /\ appended.out = s.out /\ appended.role = s.role
        /\ appended.term = s.term /\ appended.next = s.next
        /\ Queued(appended.log) /\ Queued(appended.responses)
    BY <1>1, QueuedMore DEF Shape
  <2> HIDE DEF appended
  <2>2. /\ Adds(appended, sent) /\ sent.term = appended.term
        /\ sent.role = appended.role /\ sent.responses = appended.responses
    BY <2>1, SendAdds
  <2>3. \A k \in Server \ {i} : Briefed(k, sent)
    BY <1>1, <2>1, SendBriefed DEF Peers
  <2> HIDE DEF sent
  <2>4. Shape(sent)
    BY <2>2 DEF Adds
  <2>5. /\ Adds(sent, v) /\ v.log = sent.log /\ v.term = sent.term
        /\ v.role = sent.role
    BY <2>1, <2>2, <2>4, UpdateCommitIndexAdds
  <2> HIDE DEF v
  <2>6. Spread(i, v)
    BY <2>3, <2>5, BriefedMore DEF Spread
  <2>7. Adds(s, v)
    BY <2>1, <2>2, <2>5 DEF Adds
  <2>8. u = v
    BY <1>3 DEF ExecuteClientCommand, v, sent, appended
  <2> HIDE DEF u
  <2> QED
    BY <2>1, <2>2, <2>5, <2>6, <2>7, <2>8 DEF u
<1> QED
  BY <1>2, <1>3

\* What a new leader appends reaches whoever its first round of AppendEntries
\* was to reach.
LEMMA ExecutePendingAdds ==
  ASSUME NEW i \in Server, NEW s, Sane(s),
         \A j \in Server : s.next[j] = Len(s.log) + 1
  PROVE  LET u == ExecutePending(s, i)
         IN Adds(s, u) /\ (Spread(i, s) => Spread(i, u))
<1> DEFINE writes == Filter(s.pending, Writes)
           base == Len(s.log)
           W == Len(writes)
           new == [k \in DOMAIN writes |-> Entry(s, writes[k])]
           grown == s.log \o new
           request(j, k) == [AppendRequestFor(s, j) EXCEPT
                               !.entries = SubSeq(grown, base + 1, base + k)]
           sent(j) == [k \in DOMAIN writes |-> request(j, k)]
           told(j) == {sent(j)[k] : k \in DOMAIN writes}
           u == ExecutePending(s, i)
<1>1. /\ writes \in Seq(Writes) /\ W \in Nat /\ DOMAIN writes = 1..W
      /\ IsFiniteSet(DOMAIN writes)
  <2>1. writes \in Seq(Writes)
    <3>1. writes \in Seq(Commands \cap Writes)
      BY FilterProperties DEF Sane
    <3>2. Commands \cap Writes = Writes
      BY DEF Commands
    <3> QED
      BY <3>1, <3>2
  <2> HIDE DEF writes
  <2> QED
    BY <2>1, QueuedFinite DEF Queued
<1> HIDE DEF writes
<1>2. /\ s.log \in Seq(Entries) /\ base \in Nat /\ s.term \in Nat /\ Shape(s)
  BY SaneLog DEF Sane
<1>3. new \in Seq(Entries) /\ Len(new) = W
  <2>1. \A k \in 1..W : writes[k] \in Writes
    BY <1>1, ElementOfSeq
  <2>2. \A k \in 1..W : Entry(s, writes[k]) \in Entries
    BY <1>2, <2>1 DEF Entry, Entries
  <2> QED
    BY <1>1, <2>2
<1> HIDE DEF new
<1>4. grown \in Seq(Entries) /\ Len(grown) = base + W /\ (W = 0 => grown = s.log)
  <2>1. grown \in Seq(Entries) /\ Len(grown) = base + W
    <3>1. grown \in Seq(Entries) /\ Extension(grown, s.log, new)
      BY <1>2, <1>3, Joined
    <3> QED
      BY <1>3, <3>1 DEF Extension
  <2>2. W = 0 => new = <<>>
    BY <1>3, EmptySeq
  <2>3. s.log \o <<>> = s.log
    BY <1>2, ConcatEmptySeq
  <2> QED
    BY <2>1, <2>2, <2>3
<1>5. /\ Shape(u) /\ u.log = grown /\ u.term = s.term /\ u.role = s.role
      /\ \A j \in Server : u.out[j] = IF j = i THEN s.out[j] ELSE s.out[j] \cup told(j)
  <2>1. \A j : told(j) = {request(j, k) : k \in DOMAIN writes}
    OBVIOUS
  <2> HIDE DEF told
  <2>2. u = ExecutePending(s, i)
    OBVIOUS
  <2> QED
    BY <1>2, <2>1 DEF ExecutePending, Shape, writes, new
<1>6. \A j : IsFiniteSet(told(j))
  <2> TAKE j
  <2>1. DOMAIN sent(j) = DOMAIN writes
    OBVIOUS
  <2> HIDE DEF sent
  <2> QED
    BY <1>1, <2>1, FiniteImage
<1>7. \A j \in Server : IsFiniteSet(s.out[j]) => IsFiniteSet(s.out[j] \cup told(j))
  <2> HIDE DEF told
  <2> QED
    BY <1>6, FS_Union
<1>8. ASSUME W # 0, NEW k \in Server \ {i}
      PROVE  Briefed(k, u)
  <2>1. W \in DOMAIN writes
    BY <1>1, <1>8
  <2>2. request(k, W) \in told(k)
    BY <2>1
  <2>3. /\ request(k, W).type = "AppendEntries" /\ request(k, W).term = s.term
        /\ request(k, W).prevIndex = NextToSend(s, k) - 1
        /\ request(k, W).entries = SubSeq(grown, base + 1, base + W)
    BY DEF AppendRequestFor, AppendRequest
  <2>4. NextToSend(s, k) - 1 = base
    BY <1>2 DEF NextToSend
  <2>5. Len(SubSeq(grown, base + 1, base + W)) = W
    <3> HIDE DEF base, W, grown
    <3> QED
      BY <1>1, <1>2, <1>4
  <2> HIDE DEF request, told, W, base, grown, u
  <2>6. base + W >= base + W
    BY <1>1, <1>2
  <2> QED
    BY <1>4, <1>5, <2>2, <2>3, <2>4, <2>5, <2>6 DEF Briefed, Reaches
<1> HIDE DEF u, told
<1>9. Adds(s, u)
  BY <1>5, <1>7 DEF Adds
<1>10. Spread(i, s) => Spread(i, u)
  BY <1>4, <1>5, <1>8, <1>9, BriefedMore DEF Spread
<1> QED
  BY <1>9, <1>10 DEF u

LEMMA FlushAdds ==
  ASSUME NEW i, NEW s, Shape(s), Queued(s.pending), s.role # "leader"
  PROVE  LET u == FlushPendingClientCommands(s, i)
         IN Adds(s, u) /\ u.role = s.role
<1> DEFINE u == FlushPendingClientCommands(s, i)
           emptied == [s EXCEPT !.pending = <<>>]
           forwarded == ForwardToLeader(emptied, s.pending)
<1>1. Shape(emptied) /\ emptied.out = s.out /\ emptied.role = s.role
  BY DEF Shape
<1> HIDE DEF emptied
<1>2. Adds(emptied, forwarded)
  BY <1>1, ForwardAdds
<1>3. forwarded.role = emptied.role
  BY <1>1 DEF ForwardToLeader, Shape
<1> HIDE DEF forwarded
<1>4. Adds(s, forwarded) /\ Adds(s, s)
  BY <1>1, <1>2 DEF Adds
<1>5. u \in {s, forwarded}
  BY DEF FlushPendingClientCommands, forwarded, emptied
<1> QED
  BY <1>1, <1>3, <1>4, <1>5

-----------------------------------------------------------------------------
(* The handlers *)

LEMMA BecomeFollowerAdds ==
  ASSUME NEW s, Sane(s), NEW t
  PROVE  LET u == BecomeFollower(s, t)
         IN Adds(s, u) /\ u.role = "follower" /\ u.log = s.log
<1> DEFINE n == Len(s.responses)
           d == DrainPendingClientResponses(s, FALSE, n)
           u == BecomeFollower(s, t)
<1>1. Shape(s) /\ n \in Nat
  BY DEF Sane
<1> HIDE DEF n
<1>2. Adds(s, d)
  BY <1>1, DrainAdds
<1>3. d.log = s.log /\ Shape(d)
  BY <1>1 DEF DrainPendingClientResponses, Shape
<1> HIDE DEF d
<1>4. Shape(u) /\ u.out = d.out /\ u.role = "follower" /\ u.log = d.log
  <2> DEFINE r == RequeueAllInflight(d)
  <2>1. Shape(r) /\ r.out = d.out /\ r.log = d.log
    BY <1>3 DEF RequeueAllInflight, Shape
  <2>2. u = [r EXCEPT
               !.role = "follower", !.term = t, !.votedFor = Nobody, !.votes = 0,
               !.acks = {}, !.leader = Nobody, !.electionArmed = TRUE]
    BY DEF BecomeFollower, d, n
  <2> HIDE DEF u, r
  <2> QED
    BY <2>1, <2>2 DEF Shape
<1> HIDE DEF u
<1>5. Adds(s, u)
  BY <1>2, <1>4 DEF Adds
<1> QED
  BY <1>3, <1>4, <1>5 DEF u

LEMMA StartElectionAdds ==
  ASSUME NEW i \in Server, NEW s, Shape(s)
  PROVE  LET u == StartElection(s, i)
         IN Adds(s, u) /\ u.role = "candidate"
<1> DEFINE u == StartElection(s, i)
           b == BecomeCandidate(s, i)
           request == VoteRequest(b.term, GetLastLogIndex(b), GetLastLogTerm(b))
<1>1. Shape(b) /\ b.out = s.out /\ b.role = "candidate"
  BY DEF BecomeCandidate, RequeueAllInflight, Shape
<1> HIDE DEF b
<1>2. /\ Shape(u) /\ u.role = "candidate"
      /\ \A j \in Server : u.out[j] = IF j = i THEN s.out[j]
                                                ELSE s.out[j] \cup {request}
  BY <1>1 DEF StartElection, ResetElectionTimer, Shape, b
<1> HIDE DEF u, request
<1>3. \A j \in Server : IsFiniteSet(s.out[j]) => IsFiniteSet(s.out[j] \cup {request})
  BY FS_AddElement
<1>4. Adds(s, u)
  BY <1>2, <1>3 DEF Adds
<1> QED
  BY <1>2, <1>4 DEF u

LEMMA BecomeLeaderAdds ==
  ASSUME NEW i \in Server, NEW s, Sane(s)
  PROVE  Adds(s, BecomeLeader(s, i)) /\ Spread(i, BecomeLeader(s, i))
<1> DEFINE base == GetLastLogIndex(s)
           elected == [s EXCEPT
                         !.role = "leader", !.next = [j \in Server |-> base + 1],
                         !.match = [j \in Server |-> 0],
                         !.heartbeatArmed = TRUE, !.electionArmed = FALSE]
           sent == SendAppendEntries(elected, Peers(i))
           u == ExecutePending(sent, i)
<1>1. base \in Nat /\ base = Len(s.log)
  BY SaneLog DEF GetLastLogIndex
<1> HIDE DEF base
<1>2. /\ Sane(elected) /\ elected.role = "leader" /\ elected.log = s.log
      /\ elected.out = s.out /\ \A j \in Server : elected.next[j] = Len(s.log) + 1
  BY <1>1 DEF Sane, Shape, Roles
<1> HIDE DEF elected
<1>3. /\ Adds(elected, sent) /\ sent.role = "leader" /\ sent.log = s.log
  BY <1>2, SendAdds DEF Sane
<1>4. Spread(i, sent)
  <2>1. Queued(elected.log) /\ Shape(elected)
    BY <1>2 DEF Sane, Queued
  <2>2. \A k \in Server \ {i} : elected.next[k] \in Nat \ {0}
    BY <1>1, <1>2
  <2> QED
    BY <2>1, <2>2, SendBriefed DEF Spread, Peers
<1>5. Sane(sent)
  BY <1>2, SendTame DEF Peers, Tame
<1>6. \A j \in Server : sent.next[j] = Len(sent.log) + 1
  <2>1. \A j \in Server : sent.next[j] = IF j \in Peers(i) THEN NextToSend(elected, j)
                                                         ELSE elected.next[j]
    BY <1>2 DEF SendAppendEntries, Sane, Shape
  <2> QED
    BY <1>2, <1>3, <2>1 DEF NextToSend
<1> HIDE DEF sent
<1>7. Adds(sent, u) /\ Spread(i, u)
  BY <1>4, <1>5, <1>6, ExecutePendingAdds
<1>8. Adds(s, u)
  BY <1>2, <1>3, <1>7 DEF Adds
<1>9. u = BecomeLeader(s, i)
  BY <1>3 DEF BecomeLeader, FlushPendingClientCommands, sent, elected, base
<1> QED
  BY <1>7, <1>8, <1>9

\* Whoever leads after a handler run led before with the same log, or has sent
\* everyone an AppendEntries that carries the log to its end.
Announces(i, s, u) ==
  /\ Adds(s, u)
  /\ u.role = "leader" => (s.role = "leader" /\ u.log = s.log) \/ Spread(i, u)

LEMMA AnnouncesSame ==
  ASSUME NEW i, NEW s, NEW u, Adds(s, u),
         u.role # "leader" \/ (u.role = s.role /\ u.log = s.log)
  PROVE  Announces(i, s, u)
  BY DEF Announces

LEMMA RequestVoteAnnounces ==
  ASSUME NEW i, NEW j, NEW s, Sane(s), NEW m
  PROVE  Announces(i, s, HandleRequestVote(s, j, m))
<1> DEFINE u == IF m.term > s.term THEN BecomeFollower(s, m.term) ELSE s
           granted == GrantVote(u, j)
           v == IF CanGrant(u, j, m) THEN granted ELSE u
           w == Post(v, j, VoteResponse(u.term, CanGrant(u, j, m)))
<1>1. Adds(s, u) /\ (u.role # "leader" \/ (u.role = s.role /\ u.log = s.log))
  <2>1. Adds(s, s)
    BY DEF Sane, Adds
  <2> QED
    BY <2>1, BecomeFollowerAdds
<1> HIDE DEF u
<1>2. /\ Shape(granted) /\ granted.out = u.out /\ granted.role = u.role
      /\ granted.log = u.log
  BY <1>1 DEF GrantVote, ResetElectionTimer, Adds, Shape
<1> HIDE DEF granted
<1>3. Shape(v) /\ v.out = u.out /\ v.role = u.role /\ v.log = u.log
  BY <1>1, <1>2 DEF Adds
<1> HIDE DEF v
<1>4. Adds(v, w) /\ w.role = v.role /\ w.log = v.log
  BY <1>3, PostAdds DEF Post, Shape
<1> HIDE DEF w
<1>5. Adds(s, w)
  BY <1>1, <1>3, <1>4 DEF Adds
<1>6. Announces(i, s, w)
  BY <1>1, <1>3, <1>4, <1>5, AnnouncesSame
<1> QED
  BY <1>6 DEF HandleRequestVote, w, v, granted, u

LEMMA VoteResponseAnnounces ==
  ASSUME NEW i \in Server, NEW j \in Server, NEW s, Sane(s), NEW m
  PROVE  Announces(i, s, HandleRequestVoteResponse(s, i, j, m))
<1> DEFINE counted == IF m.ack /\ j \notin s.acks
                      THEN [s EXCEPT !.acks = @ \cup {j}, !.votes = @ + 1] ELSE s
           deposed == BecomeFollower(s, m.term)
           elected == BecomeLeader(counted, i)
           u == HandleRequestVoteResponse(s, i, j, m)
<1>1. /\ Sane(counted) /\ counted.out = s.out /\ counted.role = s.role
      /\ counted.log = s.log
  BY DEF Sane, Shape
<1>2. u \in {s, counted, deposed, elected}
  BY DEF HandleRequestVoteResponse
<1> HIDE DEF counted, u
<1>3. Adds(s, s) /\ Adds(s, counted)
  BY <1>1 DEF Sane, Adds
<1>4. Adds(s, deposed) /\ deposed.role = "follower"
  BY BecomeFollowerAdds
<1>5. Adds(counted, elected) /\ Spread(i, elected)
  BY <1>1, BecomeLeaderAdds
<1> HIDE DEF deposed, elected
<1>6. Adds(s, elected)
  BY <1>3, <1>5 DEF Adds
<1>7. Announces(i, s, u)
  BY <1>1, <1>2, <1>3, <1>4, <1>5, <1>6 DEF Announces
<1> QED
  BY <1>7 DEF u

LEMMA AppendResponseAnnounces ==
  ASSUME NEW i \in Server, NEW j \in Server, NEW s, Fit(s), Routed(s),
         NEW m \in AppendResponses
  PROVE  LET u == HandleAppendEntriesResponse(s, i, j, m)
         IN /\ Announces(i, s, u)
            /\ ~m.ok /\ s.role = "leader" /\ u.role = "leader" => Briefed(j, u)
<1> DEFINE best == IF m.match > s.match[j] THEN m.match ELSE s.match[j]
           back == BackOff(s, j, m)
           deposed == BecomeFollower(s, m.term)
           retreated == [s EXCEPT !.next[j] = back]
           retried == SendAppendEntries(retreated, {j})
           matched == [s EXCEPT !.match[j] = best, !.next[j] = best + 1]
           advanced == UpdateCommitIndex(matched, i)
           u == HandleAppendEntriesResponse(s, i, j, m)
<1>1. Shape(s) /\ Queued(s.log) /\ Queued(s.responses) /\ Sane(s)
  BY DEF Fit, Sane, Queued
<1>2. back \in Nat \ {0}
  BY BackOffType DEF Fit
<1>3. \/ u \in {s, deposed} /\ (~m.ok /\ s.role = "leader" => u = deposed)
      \/ s.role = "leader" /\ ~m.ok /\ u = retried
      \/ m.ok /\ u = advanced
  BY DEF HandleAppendEntriesResponse
<1> HIDE DEF back, best, u
<1>4. /\ Shape(retreated) /\ retreated.log = s.log /\ retreated.role = s.role
      /\ retreated.out = s.out /\ retreated.next[j] = back
      /\ Shape(matched) /\ matched.log = s.log /\ matched.role = s.role
      /\ matched.out = s.out /\ matched.responses = s.responses
  BY <1>1 DEF Shape, Sane
<1> HIDE DEF retreated, matched
<1>5. /\ Adds(retreated, retried) /\ retried.log = s.log /\ retried.role = s.role
      /\ Briefed(j, retried)
  BY <1>1, <1>2, <1>4, SendAdds, SendBriefed
<1>6. Adds(matched, advanced) /\ advanced.log = s.log /\ advanced.role = s.role
  BY <1>1, <1>4, UpdateCommitIndexAdds
<1>7. Adds(s, deposed) /\ deposed.role = "follower"
  BY <1>1, BecomeFollowerAdds
<1> HIDE DEF deposed, retried, advanced
<1>8. Adds(s, s) /\ Adds(s, retried) /\ Adds(s, advanced)
  BY <1>1, <1>4, <1>5, <1>6 DEF Adds
<1>9. /\ Announces(i, s, u)
      /\ ~m.ok /\ s.role = "leader" /\ u.role = "leader" => Briefed(j, u)
  BY <1>3, <1>5, <1>6, <1>7, <1>8 DEF Announces
<1> QED
  BY <1>9 DEF u

LEMMA AcceptAdds ==
  ASSUME NEW i, NEW j \in Server, NEW s, Sane(s), s.role # "leader", NEW m
  PROVE  Adds(s, Accept(s, i, j, m)) /\ Accept(s, i, j, m).role # "leader"
<1> DEFINE log == Merge(s.log, m.prevIndex, m.entries)
           upTo == IF m.commit <= Len(log) THEN m.commit ELSE Len(log)
           reset == ResetElectionTimer(s)
           requeued == RequeueInflightNotTo(reset, j)
           known == [requeued EXCEPT !.leader = j, !.log = log]
           v == IF upTo > s.commit THEN Commit(known, upTo) ELSE known
           w == Post(v, j, AppendResponse(s.term, TRUE, Len(log), 0, 0))
           u == FlushPendingClientCommands(w, i)
<1>1. /\ Shape(requeued) /\ requeued.role = s.role /\ requeued.out = s.out
      /\ Queued(requeued.pending)
  <2>1. Sane(reset) /\ reset.role = s.role /\ reset.out = s.out
    BY DEF ResetElectionTimer, Sane, Shape
  <2> HIDE DEF reset
  <2>2. Tame(i, reset, requeued) /\ requeued.out = reset.out
    BY <2>1, RequeueNotToTame
  <2>3. Sane(requeued) /\ requeued.role = reset.role
    BY <2>2 DEF Tame, SameReign
  <2> QED
    BY <2>1, <2>2, <2>3 DEF Sane, Queued
<1> HIDE DEF reset, requeued, log, upTo
<1>2. /\ Shape(known) /\ known.role = s.role /\ known.out = s.out
      /\ Queued(known.pending)
  BY <1>1 DEF Shape
<1> HIDE DEF known
<1>3. /\ Shape(v) /\ v.role = s.role /\ v.out = s.out
      /\ Queued(v.pending)
  BY <1>2 DEF Commit, Shape
<1> HIDE DEF v
<1>4. Adds(v, w) /\ w.role = s.role /\ Queued(w.pending)
  <2>1. Adds(v, w)
    BY <1>3, PostAdds
  <2>2. w.role = v.role /\ w.pending = v.pending
    BY <1>3 DEF Post, Shape
  <2> QED
    BY <1>3, <2>1, <2>2
<1> HIDE DEF w
<1>5. Adds(w, u) /\ u.role = w.role
  BY <1>4, FlushAdds DEF Adds
<1> HIDE DEF u
<1>6. Adds(s, u) /\ u.role # "leader"
  BY <1>3, <1>4, <1>5 DEF Adds
<1> QED
  BY <1>6 DEF Accept, u, w, v, known, requeued, reset, upTo, log

LEMMA AppendEntriesAnnounces ==
  ASSUME NEW i \in Server, NEW j \in Server, NEW s, Fit(s), s.out = NoMessages,
         NEW m, m.term \in Nat, s.role = "leader" => m.term # s.term
  PROVE  LET u == HandleAppendEntries(s, i, j, m)
         IN Announces(i, s, u) /\ (IsStale(s, m) \/ u.role # "leader")
<1> DEFINE deposed == BecomeFollower(s, m.term)
           yielded == YieldToLeader(s)
           u == IF m.term > s.term THEN deposed
                ELSE IF s.role = "candidate" THEN yielded
                ELSE s
           stale == Post(s, j, AppendResponse(s.term, FALSE, 0, 0, 0))
           accepted == Accept(u, i, j, m)
           refused == Post(u, j, Reject(u, m))
           w == HandleAppendEntries(s, i, j, m)
<1>1. Sane(s) /\ Shape(s) /\ s.term \in Nat
  BY DEF Fit, Sane
<1>2. Adds(s, stale) /\ stale.role = s.role /\ stale.log = s.log
  BY <1>1, PostAdds DEF Post, Shape
<1>3. CASE IsStale(s, m)
  <2>1. w = stale
    BY <1>3 DEF HandleAppendEntries
  <2> HIDE DEF w, stale
  <2> QED
    BY <1>2, <1>3, <2>1, AnnouncesSame DEF w
<1>4. CASE ~IsStale(s, m)
  <2>1. Sane(deposed) /\ Adds(s, deposed) /\ deposed.role = "follower"
    <3>1. Adds(s, deposed) /\ deposed.role = "follower"
      BY <1>1, BecomeFollowerAdds
    <3>2. Turn(i, s, deposed)
      BY BecomeFollowerTurn
    <3> HIDE DEF deposed
    <3> QED
      BY <3>1, <3>2 DEF Turn, Fit
  <2>2. Sane(yielded) /\ Adds(s, yielded) /\ yielded.role = "follower"
    BY <1>1 DEF YieldToLeader, Sane, Shape, Roles, Adds
  <2>3. Adds(s, s)
    BY <1>1 DEF Adds
  <2> HIDE DEF deposed, yielded
  <2>4. Sane(u) /\ Adds(s, u) /\ u.role # "leader"
    BY <1>1, <1>4, <2>1, <2>2, <2>3 DEF IsStale
  <2>5. w \in {accepted, refused}
    BY <1>4 DEF HandleAppendEntries, deposed, yielded
  <2> HIDE DEF u, w
  <2>6. Adds(u, accepted) /\ accepted.role # "leader"
    BY <2>4, AcceptAdds
  <2>7. Adds(u, refused) /\ refused.role # "leader"
    BY <2>4, PostAdds DEF Post, Sane, Shape
  <2> HIDE DEF accepted, refused
  <2>8. Adds(s, w) /\ w.role # "leader"
    BY <2>4, <2>5, <2>6, <2>7 DEF Adds
  <2> QED
    BY <2>8, AnnouncesSame DEF w
<1> QED
  BY <1>3, <1>4

LEMMA SubmitAnnounces ==
  ASSUME NEW i \in Server, NEW s, Sane(s), NEW cmd
  PROVE  Announces(i, s, SubmitCommand(s, i, cmd))
<1> DEFINE executed == ExecuteClientCommand(s, i, cmd, Nobody)
           waiting == [s EXCEPT !.pending = Append(@, cmd)]
           forwarded == ForwardToLeader(s, <<cmd>>)
<1>1. Shape(s)
  BY DEF Sane
<1>2. CASE s.role = "leader"
  <2>1. Announces(i, s, executed)
    BY <1>2, ExecuteAdds DEF Announces
  <2> QED
    BY <1>2, <2>1 DEF SubmitCommand
<1>3. CASE s.role # "leader"
  <2>1. Adds(s, waiting) /\ waiting.role = s.role
    BY <1>1 DEF Adds, Shape
  <2>2. Adds(s, forwarded)
    <3>1. Queued(<<cmd>>)
      <4>1. <<cmd>> \in Seq({cmd})
        OBVIOUS
      <4> QED
        BY <4>1 DEF Queued
    <3> QED
      BY <1>1, <3>1, ForwardAdds
  <2>3. forwarded.role = s.role
    BY <1>1 DEF ForwardToLeader, Shape
  <2>4. SubmitCommand(s, i, cmd) \in {waiting, forwarded}
    BY <1>3 DEF SubmitCommand
  <2> HIDE DEF waiting, forwarded
  <2> QED
    BY <1>3, <2>1, <2>2, <2>3, <2>4, AnnouncesSame
<1> QED
  BY <1>2, <1>3

LEMMA RedirectedAnnounces ==
  ASSUME NEW i \in Server, NEW j, NEW s, Sane(s), NEW m
  PROVE  Announces(i, s, HandleClientCommandRedirected(s, i, j, m))
<1>1. Announces(i, s, s)
  BY AnnouncesSame DEF Adds, Sane
<1>2. Announces(i, s, ExecuteClientCommand(s, i, m.cmd, j)) \/ s.role # "leader"
  BY ExecuteAdds DEF Announces
<1> QED
  BY <1>1, <1>2 DEF HandleClientCommandRedirected

LEMMA RedirectedResponseAnnounces ==
  ASSUME NEW i, NEW j, NEW s, Shape(s), NEW m
  PROVE  Announces(i, s, HandleClientCommandRedirectedResponse(s, j, m))
<1> DEFINE first == FirstOf(MatchingInflight(s, j, m.cmd))
           taken == [s EXCEPT !.inflight = SubSeq(@, 1, first - 1)
                                           \o SubSeq(@, first + 1, Len(@))]
           cmd == s.inflight[first].cmd
           u == Respond(taken, Nobody, cmd, m.ok, m.value)
<1>1. Shape(taken) /\ taken.out = s.out /\ taken.role = s.role /\ taken.log = s.log
  BY DEF Shape
<1>2. HandleClientCommandRedirectedResponse(s, j, m) \in {s, u}
  BY DEF HandleClientCommandRedirectedResponse
<1> HIDE DEF taken, cmd
<1>3. Adds(taken, u) /\ u.role = taken.role /\ u.log = taken.log
  BY <1>1, RespondAdds DEF Respond, Shape
<1> HIDE DEF u
<1>4. Adds(s, s) /\ Adds(s, u)
  BY <1>1, <1>3 DEF Adds
<1> QED
  BY <1>1, <1>2, <1>3, <1>4, AnnouncesSame

LEMMA OnMessageAnnounces ==
  ASSUME ElectionInv, ReignInv, NEW i \in Server, NEW j \in Server,
         NEW m \in InTransit(j, i), NEW r \in Resolutions(m, node[i].log)
  PROVE  LET s == node[i]
             u == OnMessage(s, i, j, r)
         IN /\ Announces(i, s, u)
            /\ m.type = "AppendEntries" => Refused(j, u) \/ Accepts(i, s, u, j, r)
            /\ m.type = "AppendEntriesResponse" /\ ~m.ok
                 /\ s.role = "leader" /\ u.role = "leader" => Briefed(j, u)
<1> DEFINE s == node[i]
           u == OnMessage(s, i, j, r)
<1>1. /\ Fit(s) /\ Routed(s) /\ s.out = NoMessages /\ Sane(s) /\ Shape(s)
      /\ Known(j, i, m) /\ Mail(j, i, m) /\ s.term \in Nat
  BY DEF ReignInv, ElectionInv, NodesSound, LinksSound, Fit, Sane
<1>2. CASE m.type = "AppendEntries"
  <2>1. m \in AppendRequests /\ j # i /\ Won(j, m.term)
    BY <1>1, <1>2 DEF Known, Letter
  <2>2. r \in AppendRequests /\ r.type = m.type /\ r.term = m.term /\ r.term \in Nat
    <3>1. \A p \in DOMAIN s.log : s.log[p].term \in Nat
      BY <1>1, SaneLog DEF Fit, Entries
    <3> QED
      BY <2>1, <3>1 DEF Resolutions, AppendRequests
  <2>3. s.role = "leader" => r.term # s.term
    BY <1>1, <2>1, <2>2, WonOnce DEF Leads
  <2>4. u = HandleAppendEntries(s, i, j, r)
    BY <1>2, <2>2 DEF OnMessage
  <2> HIDE DEF u
  <2>5. Refused(j, u) \/ Accepts(i, s, u, j, r)
    BY <1>1, <2>1, <2>2, <2>3, <2>4, AppendEntriesRuns
  <2>6. Announces(i, s, u)
    BY <1>1, <2>2, <2>3, <2>4, AppendEntriesAnnounces
  <2> QED
    BY <1>2, <2>5, <2>6 DEF u
<1>3. CASE m.type # "AppendEntries"
  <2>1. r = m
    BY <1>3 DEF Resolutions
  <2>2. CASE m.type = "RequestVote"
    <3>1. u = HandleRequestVote(s, j, m)
      BY <2>1, <2>2 DEF OnMessage
    <3> QED
      BY <1>1, <2>2, <3>1, RequestVoteAnnounces
  <2>3. CASE m.type = "RequestVoteResponse"
    <3>1. u = HandleRequestVoteResponse(s, i, j, m)
      BY <2>1, <2>3 DEF OnMessage
    <3> QED
      BY <1>1, <2>3, <3>1, VoteResponseAnnounces
  <2>4. CASE m.type = "AppendEntriesResponse"
    <3>1. m \in AppendResponses
      BY <1>1, <2>4 DEF Known, Letter
    <3>2. u = HandleAppendEntriesResponse(s, i, j, m)
      BY <2>1, <2>4 DEF OnMessage
    <3> HIDE DEF u
    <3>3. /\ Announces(i, s, u)
          /\ ~m.ok /\ s.role = "leader" /\ u.role = "leader" => Briefed(j, u)
      BY <1>1, <3>1, <3>2, AppendResponseAnnounces
    <3> QED
      BY <2>4, <3>3 DEF u
  <2>5. CASE m.type = "client_command_redirected"
    <3>1. u = HandleClientCommandRedirected(s, i, j, m)
      BY <2>1, <2>5 DEF OnMessage
    <3> QED
      BY <1>1, <2>5, <3>1, RedirectedAnnounces
  <2>6. CASE m.type = "client_command_redirected_response"
    <3>1. u = HandleClientCommandRedirectedResponse(s, j, m)
      BY <2>1, <2>6 DEF OnMessage
    <3> QED
      BY <1>1, <2>6, <3>1, RedirectedResponseAnnounces
  <2> QED
    BY <1>1, <1>3, <2>2, <2>3, <2>4, <2>5, <2>6 DEF Mail, Plain, VoteResponse
<1> QED
  BY <1>2, <1>3

LEMMA RunAnnounces ==
  ASSUME ElectionInv, ReignInv, NEW i \in Server, NEW u, Run(i, u)
  PROVE  Announces(i, node[i], u)
<1> DEFINE s == node[i]
           sent == SendAppendEntries(s, Peers(i))
           idle == [s EXCEPT !.heartbeatArmed = FALSE]
<1>1. Sane(s) /\ Shape(s)
  BY DEF ReignInv, Fit, Sane
<1>2. ASSUME NEW j \in Server, NEW m \in InTransit(j, i),
             NEW r \in Resolutions(m, s.log), u = OnMessage(s, i, j, r)
      PROVE  Announces(i, s, u)
  BY <1>2, OnMessageAnnounces
<1>3. Announces(i, s, StartElection(s, i))
  BY <1>1, StartElectionAdds DEF Announces
<1>4. Announces(i, s, sent)
  BY <1>1, SendAdds, AnnouncesSame
<1>5. Announces(i, s, idle)
  <2>1. Adds(s, idle) /\ idle.role = s.role /\ idle.log = s.log
    BY <1>1 DEF Adds, Shape
  <2> QED
    BY <2>1, AnnouncesSame
<1>6. \A cmd : Announces(i, s, SubmitCommand(s, i, cmd))
  BY <1>1, SubmitAnnounces
<1> HIDE DEF sent, idle
<1> QED
  BY <1>2, <1>3, <1>4, <1>5, <1>6 DEF Run, Unprompted, sent, idle

-----------------------------------------------------------------------------
(* What the links keep *)

BudgetInv == left \in [elections : Nat, heartbeats : Nat, losses : 0..MaxLosses]

LEMMA SentFinite ==
  ASSUME NEW out, \A j \in Server : IsFiniteSet(out[j])
  PROVE  IsFiniteSet(Sent(out))
<1> DEFINE f(j) == [m \in out[j] |-> <<j, m>>]
           mail(j) == {f(j)[m] : m \in out[j]}
           g == [j \in Server |-> mail(j)]
           mails == {g[j] : j \in Server}
<1>1. \A j \in Server : IsFiniteSet(mail(j))
  <2> TAKE j \in Server
  <2>1. DOMAIN f(j) = out[j]
    OBVIOUS
  <2> HIDE DEF f
  <2> QED
    BY <2>1, FiniteImage
<1>2. Sent(out) = UNION mails
  <2>1. \A j \in Server : g[j] = {<<j, m>> : m \in out[j]}
    OBVIOUS
  <2>2. mails = {{<<j, m>> : m \in out[j]} : j \in Server}
    <3> HIDE DEF g
    <3> QED
      BY <2>1
  <2> QED
    BY <2>2 DEF Sent
<1>3. \A T \in mails : IsFiniteSet(T)
  BY <1>1
<1>4. IsFiniteSet(mails)
  <2>1. DOMAIN g = Server
    OBVIOUS
  <2> HIDE DEF g
  <2> QED
    BY <2>1, FiniteImage, ServerAssumption
<1> HIDE DEF mails
<1> QED
  BY <1>2, <1>3, <1>4, FS_UNION

LEMMA QueueKeeps ==
  ASSUME NEW q, Queued(q), NEW a, NEW b, NEW i, NEW out, NEW lost
  PROVE  LET r == Queue(<<a, b>>, i, out, lost, q)
         IN /\ AllOf(q) \subseteq AllOf(r)
            /\ a = i /\ lost = {} => out[b] \subseteq AllOf(r)
<1> DEFINE kept == {m \in out[b] : <<b, m>> \notin lost}
           r == Append(q, kept)
           v == Queue(<<a, b>>, i, out, lost, q)
<1>1. PICK S : q \in Seq(S)
  BY DEF Queued
<1>2. q \in Seq(S \cup {kept}) /\ Len(q) \in Nat /\ DOMAIN q = 1..Len(q)
  BY <1>1
<1> HIDE DEF kept
<1>3. /\ r \in Seq(S \cup {kept}) /\ Len(r) = Len(q) + 1 /\ r[Len(q) + 1] = kept
      /\ \A n \in 1..Len(q) : r[n] = q[n]
  BY <1>2, AppendProperties
<1>4. DOMAIN r = 1..(Len(q) + 1)
  BY <1>3, LenProperties
<1>5. v = IF a = i /\ kept # {} THEN r ELSE q
  BY DEF Queue, kept
<1> HIDE DEF r, v
<1>6. AllOf(q) \subseteq AllOf(r)
  BY <1>2, <1>3, <1>4 DEF AllOf
<1>7. kept \subseteq AllOf(r)
  <2>1. Len(q) + 1 \in DOMAIN r
    BY <1>2, <1>4
  <2> QED
    BY <1>3, <2>1 DEF AllOf
<1>8. lost = {} => kept = out[b]
  BY DEF kept
<1> QED
  BY <1>5, <1>6, <1>7, <1>8 DEF v

LEMMA TakenKeeps ==
  ASSUME ElectionInv, NEW i \in Server, NEW j \in Server, NEW m,
         links[<<j, i>>] # <<>>
  PROVE  /\ \A a, b \in Server : \A n \in InTransit(a, b) :
              n \in AllOf(Taken(j, i, m)[<<a, b>>]) \/ (a = j /\ b = i /\ n = m)
         /\ \A a, b \in Server : Queued(Taken(j, i, m)[<<a, b>>])
<1> DEFINE q == links[<<j, i>>]
           rest == Head(q) \ {m}
           first == <<rest>>
           others == Tail(q)
           r == IF rest = {} THEN others ELSE first \o others
<1>1. PICK S : q \in Seq(S)
  BY DEF ElectionInv, LinksSound
<1>2. /\ others \in Seq(S) /\ Len(others) = Len(q) - 1 /\ Len(q) \in Nat /\ Len(q) > 0
      /\ DOMAIN q = 1..Len(q) /\ rest = q[1] \ {m}
      /\ \A n \in 1..(Len(q) - 1) : others[n] = q[n + 1]
  BY <1>1
<1>3. first \in Seq({rest}) /\ Len(first) = 1 /\ first[1] = rest
  OBVIOUS
<1>4. /\ Taken(j, i, m)[<<j, i>>] = r
      /\ \A a, b \in Server : <<a, b>> # <<j, i>> =>
           Taken(j, i, m)[<<a, b>>] = links[<<a, b>>]
  BY DEF Taken, ElectionInv
<1> HIDE DEF rest, first, others
<1>5. ASSUME NEW n \in AllOf(q), n # m
      PROVE  n \in AllOf(r)
  <2>1. PICK k \in 1..Len(q) : n \in q[k]
    BY <1>2, <1>5 DEF AllOf
  <2>2. DOMAIN others = 1..(Len(q) - 1)
    BY <1>2, LenProperties
  <2>3. k # 1 => k - 1 \in 1..(Len(q) - 1) /\ (k - 1) + 1 = k
    BY <1>2
  <2>4. k # 1 => n \in others[k - 1]
    BY <1>2, <2>1, <2>3
  <2>5. k = 1 => n \in rest
    BY <1>2, <1>5, <2>1
  <2>6. CASE rest = {}
    BY <2>2, <2>3, <2>4, <2>5, <2>6 DEF AllOf
  <2>7. CASE rest # {}
    <3>1. first \in Seq(S \cup {rest}) /\ others \in Seq(S \cup {rest})
      BY <1>2, <1>3
    <3>2. Extension(first \o others, first, others)
      BY <3>1, Joined
    <3>3. r = first \o others
      BY <2>7
    <3> HIDE DEF r
    <3>4. 1 \in DOMAIN r /\ r[1] = rest
      BY <1>2, <1>3, <3>2, <3>3 DEF Extension
    <3>5. k # 1 => 1 + (k - 1) \in DOMAIN r /\ r[1 + (k - 1)] = others[k - 1]
      BY <1>2, <1>3, <2>3, <3>2, <3>3 DEF Extension
    <3> QED
      BY <2>4, <2>5, <3>4, <3>5 DEF AllOf
  <2> QED
    BY <2>6, <2>7
<1>6. Queued(r)
  <2>1. Queued(first) /\ Queued(others)
    BY <1>2, <1>3 DEF Queued
  <2> QED
    BY <2>1, QueuedMore
<1>7. AllOf(q) = InTransit(j, i)
  BY DEF AllOf, InTransit
<1> HIDE DEF r
<1>8. \A a, b \in Server : Queued(links[<<a, b>>]) /\ InTransit(a, b) = AllOf(links[<<a, b>>])
  BY DEF ElectionInv, LinksSound, Queued, InTransit, AllOf
<1> QED
  BY <1>4, <1>5, <1>6, <1>7, <1>8

\* Node i comes to u by handling message n of node a.
Handles(i, u, a, n) ==
  \E r \in Resolutions(n, node[i].log) : u = OnMessage(node[i], i, a, r)

\* The links before the new messages are posted: nothing is gone but the
\* message that i handled.
Survives(i, u, before, a, b) ==
  \A n \in InTransit(a, b) :
    n \in AllOf(before[<<a, b>>]) \/ (b = i /\ Handles(i, u, a, n))

\* A step of i in which nothing is lost: what i sent is on the way, and so is
\* what was before, but for the message that i handled.
Delivers(i, u) ==
  /\ \A k \in Server : u.out[k] \subseteq InTransit(i, k)'
  /\ \A a, b \in Server : \A n \in InTransit(a, b) :
       n \in InTransit(a, b)' \/ (b = i /\ Handles(i, u, a, n))

LEMMA ReceivedKeeps ==
  ASSUME ElectionInv, NEW i \in Server, NEW u, NEW before, Received(i, u, before)
  PROVE  \A a, b \in Server :
           Queued(before[<<a, b>>]) /\ Survives(i, u, before, a, b)
<1>1. CASE before = links
  BY <1>1 DEF ElectionInv, LinksSound, Queued, InTransit, AllOf, Survives
<1>2. ASSUME NEW j \in Server, links[<<j, i>>] # <<>>, NEW m \in Head(links[<<j, i>>]),
             Handles(i, u, j, m), before = Taken(j, i, m)
      PROVE  \A a, b \in Server :
               Queued(before[<<a, b>>]) /\ Survives(i, u, before, a, b)
  <2>1. /\ \A a, b \in Server : \A n \in InTransit(a, b) :
              n \in AllOf(before[<<a, b>>]) \/ (a = j /\ b = i /\ n = m)
        /\ \A a, b \in Server : Queued(before[<<a, b>>])
    BY <1>2, TakenKeeps
  <2>2. ASSUME NEW a \in Server, NEW b \in Server, NEW n \in InTransit(a, b)
        PROVE  n \in AllOf(before[<<a, b>>]) \/ (b = i /\ Handles(i, u, a, n))
    <3>1. CASE a = j /\ b = i /\ n = m
      <4>1. Handles(i, u, a, n)
        BY <1>2, <3>1, Zenon
      <4> QED
        BY <3>1, <4>1
    <3>2. CASE ~(a = j /\ b = i /\ n = m)
      BY <2>1, <3>2
    <3> QED
      BY <3>1, <3>2
  <2>3. \A a, b \in Server : Survives(i, u, before, a, b)
    BY <2>2, Zenon DEF Survives
  <2> QED
    BY <2>1, <2>3, Zenon
<1>3. \/ before = links
      \/ \E j \in Server : /\ links[<<j, i>>] # <<>>
                           /\ \E m \in Head(links[<<j, i>>]) :
                                Handles(i, u, j, m) /\ before = Taken(j, i, m)
  BY DEF Received, Handles
<1>4. ASSUME NEW j \in Server, links[<<j, i>>] # <<>>,
             \E m \in Head(links[<<j, i>>]) :
               Handles(i, u, j, m) /\ before = Taken(j, i, m)
      PROVE  \A a, b \in Server :
               Queued(before[<<a, b>>]) /\ Survives(i, u, before, a, b)
  <2>1. PICK m \in Head(links[<<j, i>>]) :
          Handles(i, u, j, m) /\ before = Taken(j, i, m)
    BY <1>4, Zenon
  <2> QED
    BY <1>2, <1>4, <2>1, Zenon
<1> QED
  BY <1>1, <1>3, <1>4, Zenon

LEMMA StepDelivers ==
  ASSUME ElectionInv, ReignInv, BudgetInv, NEW i \in Server, NEW u, NEW before,
         NEW budget, Moved(i, u), Mailed(i, u, before, budget)
  PROVE  /\ BudgetInv'
         /\ left'.losses = MaxLosses => left.losses = MaxLosses /\ Delivers(i, u)
<1>1. budget \in [elections : Nat, heartbeats : Nat, losses : 0..MaxLosses]
      /\ budget.losses = left.losses
  BY DEF Mailed, Spent, BudgetInv
<1>2. PICK lost \in IF budget.losses > 0 THEN SUBSET Sent(u.out) ELSE {{}} :
        /\ Cardinality(lost) <= budget.losses
        /\ links' = [l \in Server \X Server |-> Queue(l, i, u.out, lost, before[l])]
        /\ left' = [budget EXCEPT !.losses = @ - Cardinality(lost)]
  BY DEF Mailed, Step
<1>3. Announces(i, node[i], u) /\ node[i].out = NoMessages
  BY RunAnnounces DEF Moved, ElectionInv, NodesSound
<1>4. IsFiniteSet(lost) /\ Cardinality(lost) \in Nat
  <2>1. \A k \in Server : IsFiniteSet(node[i].out[k])
    BY <1>3, FS_EmptySet DEF NoMessages
  <2>2. \A k \in Server : IsFiniteSet(u.out[k])
    BY <1>3, <2>1 DEF Announces, Adds
  <2>3. IsFiniteSet(Sent(u.out))
    BY <2>2, SentFinite
  <2>4. IsFiniteSet(lost)
    BY <1>2, <2>3, FS_Subset, FS_EmptySet
  <2> QED
    BY <2>4, FS_CardinalityType
<1>5. /\ left'.losses = left.losses - Cardinality(lost) /\ BudgetInv'
      /\ left.losses \in 0..MaxLosses
  <2>1. MaxLosses \in Nat
    BY BoundAssumption
  <2> QED
    BY <1>1, <1>2, <1>4, <2>1 DEF BudgetInv
<1>6. ASSUME left'.losses = MaxLosses
      PROVE  left.losses = MaxLosses /\ lost = {}
  <2>1. left.losses = MaxLosses /\ Cardinality(lost) = 0
    <3>1. MaxLosses \in Nat
      BY BoundAssumption
    <3> QED
      BY <1>4, <1>5, <1>6, <3>1
  <2> QED
    BY <1>4, <2>1, FS_EmptySet
<1>7. ASSUME left'.losses = MaxLosses
      PROVE  Delivers(i, u)
  <2>1. \A a, b \in Server :
          /\ AllOf(before[<<a, b>>]) \subseteq InTransit(a, b)'
          /\ a = i => u.out[b] \subseteq InTransit(a, b)'
    <3> TAKE a, b \in Server
    <3>1. Queued(before[<<a, b>>])
      BY ReceivedKeeps DEF Mailed
    <3>2. links'[<<a, b>>] = Queue(<<a, b>>, i, u.out, lost, before[<<a, b>>])
      BY <1>2
    <3>3. InTransit(a, b)' = AllOf(links'[<<a, b>>])
      BY DEF InTransit, AllOf
    <3> QED
      BY <1>6, <1>7, <3>1, <3>2, <3>3, QueueKeeps
  <2>2. \A a, b \in Server : Survives(i, u, before, a, b)
    BY ReceivedKeeps DEF Mailed
  <2> QED
    BY <2>1, <2>2 DEF Delivers, Survives
<1> QED
  BY <1>5, <1>6, <1>7

-----------------------------------------------------------------------------
(* What a leader has sent in its term, it still stands by *)

Sending ==
  \A a, k \in Server : \A m \in InTransit(a, k) :
    m.type = "AppendEntries" /\ Leads(a, m.term) => Vouched(a, k, node[a], m)

LEMMA SendingStep ==
  ASSUME ElectionInv, ReignInv, Sending, NEW i \in Server, NEW u, Moved(i, u)
  PROVE  Sending'
<1> DEFINE s == node[i]
<1>1. /\ node'[i].log = u.log /\ node'[i].term = u.term /\ node'[i].role = u.role
      /\ \A k \in Server : k # i => node'[k] = node[k]
  BY MovedFields DEF Moved
<1>2. Turn(i, s, u) \/ Accepted(i, u)
  BY RunEffect DEF Moved
<1>3. /\ Accepted(i, u) => /\ u.role = "follower"
                           /\ \A k \in Server : \A m \in u.out[k] :
                                m.type # "AppendEntries"
  BY DEF Accepted, Accepts
<1>4. Sane(s)
  BY DEF ReignInv, Fit
<1> SUFFICES ASSUME NEW a \in Server, NEW k \in Server, NEW m \in InTransit(a, k)',
                    m.type = "AppendEntries", Leads(a, m.term)'
             PROVE  Vouched(a, k, node'[a], m)
  BY DEF Sending
<1>5. CASE a = i /\ m \in u.out[k]
  <2>1. Vouched(i, k, u, m)
    BY <1>2, <1>3, <1>5 DEF Turn, Writ
  <2> QED
    BY <1>1, <1>5, <2>1 DEF Vouched, Whole
<1>6. CASE m \in InTransit(a, k) /\ a # i
  BY <1>1, <1>6 DEF Sending, Leads
<1>7. CASE m \in InTransit(a, k) /\ a = i
  <2>1. u.role = "leader" /\ u.term = m.term
    BY <1>1, <1>7 DEF Leads
  <2>2. /\ Turn(i, s, u) /\ s.role \in {"candidate", "leader"} /\ s.term = m.term
        /\ Sane(u) /\ Kept(s, u)
    BY <1>2, <1>3, <2>1 DEF Turn, Fit
  <2>3. Known(i, k, m) /\ m.term \in Nat
    BY <1>4, <1>7, <2>2 DEF ReignInv, Sane
  <2>4. s.role = "leader"
    BY <2>2, <2>3 DEF Known, Won, Leads
  <2>5. Vouched(i, k, s, m)
    BY <1>7, <2>2, <2>4 DEF Sending, Leads
  <2>6. Grown(s, u)
    BY <2>1, <2>2, <2>4 DEF Kept, Grown
  <2>7. Vouched(i, k, u, m)
    BY <1>4, <2>1, <2>2, <2>4, <2>5, <2>6, VouchedGrown
  <2> QED
    BY <1>1, <1>7, <2>7 DEF Vouched, Whole
<1> QED
  BY <1>5, <1>6, <1>7 DEF Moved

-----------------------------------------------------------------------------
(* A leader never gives a follower up *)

LEMMA PrefixTrans ==
  ASSUME NEW a \in Seq(Entries), NEW b \in Seq(Entries), NEW c,
         Prefix(a, b), Prefix(b, c), Len(c) \in Nat
  PROVE  Prefix(a, c)
<1>1. Len(a) \in Nat /\ Len(b) \in Nat
  BY LogDomain
<1> QED
  BY <1>1 DEF Prefix

\* A request cut from a: what it reaches of a is in the log that merges it, and
\* a prefix that is there already stays.
LEMMA MergeReaches ==
  ASSUME NEW log \in Seq(Entries), NEW a \in Seq(Entries), Matching(log, a),
         NEW m \in AppendRequests, IsLogMatching([log |-> log], m),
         m.prevTerm # Garbage, Excerpt(m, a)
  PROVE  LET merged == Merge(log, m.prevIndex, m.entries)
         IN /\ merged \in Seq(Entries)
            /\ m.prevIndex + Len(m.entries) >= Len(a) => Prefix(a, merged)
            /\ Prefix(a, log) => Prefix(a, merged)
<1> DEFINE prev == m.prevIndex
           entries == m.entries
           E == Len(entries)
           N == Len(log)
           A == Len(a)
           merged == Merge(log, prev, entries)
           M == Len(merged)
<1>1. /\ prev \in Nat /\ entries \in Seq(Entries) /\ prev <= N /\ prev + E <= A
      /\ \A k \in DOMAIN entries : entries[k] = a[prev + k]
      /\ prev = 0 \/ log[prev].term = a[prev].term
  <2>1. N \in Nat
    BY LogDomain
  <2> QED
    BY <2>1 DEF AppendRequests, Excerpt, IsLogMatching
<1>2. /\ N \in Nat /\ DOMAIN log = 1..N /\ A \in Nat /\ DOMAIN a = 1..A
      /\ E \in Nat /\ DOMAIN entries = 1..E
  BY <1>1, LogDomain
<1>3. /\ Merged(log, prev, entries, merged)
      /\ \A p \in 1..(prev + E) : merged[p] = a[p]
  BY <1>1, MergeTakes
<1> HIDE DEF merged
<1>4. merged \in Seq(Entries) /\ M \in Nat /\ DOMAIN merged = 1..M
  BY <1>3, LogDomain DEF Merged
<1>5. /\ prev + E <= M
      /\ \A k \in 1..E : entries[k] = a[prev + k]
      /\ \A p \in 1..M : p > prev + E => p \in 1..N /\ merged[p] = log[p]
      /\ \/ M >= N
         \/ \E k \in 1..E : prev + k <= N /\ log[prev + k].term # entries[k].term
  BY <1>1, <1>2, <1>3, <1>4 DEF Merged
<1>6. \A p \in 1..(prev + E) : merged[p] = a[p]
  BY <1>3
<1> HIDE DEF prev, entries, E, N, A, M
<1>7. ASSUME prev + E >= A
      PROVE  A <= M /\ \A p \in 1..A : merged[p] = a[p]
  BY <1>1, <1>2, <1>4, <1>5, <1>6, <1>7
<1>8. ASSUME A <= N, \A p \in 1..A : a[p] = log[p]
      PROVE  A <= M /\ \A p \in 1..A : merged[p] = a[p]
  <2>1. \A k \in 1..E : prev + k \in 1..A /\ log[prev + k] = entries[k]
    <3>1. \A k \in 1..E : prev + k \in 1..A
      BY <1>1, <1>2
    <3> QED
      BY <1>5, <1>8, <3>1
  <2>2. M >= N
    BY <1>5, <2>1
  <2>3. A <= M
    BY <1>2, <1>4, <1>8, <2>2
  <2> SUFFICES ASSUME NEW p \in 1..A PROVE merged[p] = a[p]
    BY <2>3
  <2>4. CASE p <= prev + E
    <3>1. p \in 1..(prev + E)
      BY <1>1, <1>2, <2>4
    <3> QED
      BY <1>6, <3>1
  <2>5. CASE p > prev + E
    <3>1. p \in 1..M
      BY <1>2, <1>4, <2>3
    <3> QED
      BY <1>5, <1>8, <2>5, <3>1
  <2> QED
    BY <1>1, <1>2, <2>4, <2>5
<1> QED
  <2>1. prev + E >= A => Prefix(a, merged)
    BY <1>7 DEF Prefix, A, M
  <2>2. Prefix(a, log) => Prefix(a, merged)
    BY <1>8 DEF Prefix, A, M, N
  <2> QED
    BY <1>4, <2>1, <2>2 DEF prev, entries, E, A, merged

\* What an AppendEntries of the leader i makes of j's log, once j accepts it.
LEMMA LeaderMerged ==
  ASSUME ElectionInv, ReignInv, LogInv, Sending, Hybrid,
         NEW i \in Server, node[i].role = "leader", NEW j \in Server \ {i},
         NEW k \in Server, NEW m \in InTransit(k, j), m.type = "AppendEntries",
         NEW u, NEW r \in Resolutions(m, node[j].log),
         Accepts(j, node[j], u, k, r), u.term = node[i].term
  PROVE  /\ k = i
         /\ Reaches(m, node[i]) => Prefix(node[i].log, u.log)
         /\ Prefix(node[i].log, node[j].log) => Prefix(node[i].log, u.log)
<1>1. Known(k, j, m) /\ node[i].term \in Nat
  BY DEF ReignInv, Fit, Sane
<1>2. m \in AppendRequests /\ r = m /\ Won(k, m.term) /\ m.prevTerm # Garbage
  BY <1>1 DEF Known, Letter, Resolutions
<1>3. /\ m.term = node[i].term /\ IsLogMatching(node[j], m)
      /\ u.log = Merge(node[j].log, m.prevIndex, m.entries)
  BY <1>2 DEF Accepts
<1>4. Leads(i, m.term)
  BY <1>3 DEF Leads
<1>5. k = i
  BY <1>1, <1>2, <1>3, <1>4, WonOnce
<1>6. Vouched(i, j, node[i], m)
  BY <1>4, <1>5 DEF Sending
<1> DEFINE a == node[i].log
           log == node[j].log
<1>7. Excerpt(m, a)
  BY <1>6 DEF Vouched
<1>8. a \in Seq(Entries) /\ log \in Seq(Entries) /\ Matching(log, a)
  BY DEF LogInv, Logs
<1>9. IsLogMatching([log |-> log], m)
  BY <1>3 DEF IsLogMatching
<1> HIDE DEF a, log
<1>10. /\ m.prevIndex + Len(m.entries) >= Len(a) => Prefix(a, Merge(log, m.prevIndex, m.entries))
       /\ Prefix(a, log) => Prefix(a, Merge(log, m.prevIndex, m.entries))
  BY <1>2, <1>7, <1>8, <1>9, MergeReaches
<1> QED
  BY <1>3, <1>5, <1>10 DEF a, log, Reaches

Unwilling(m) == m.type = "AppendEntriesResponse" /\ ~m.ok

\* The log of the leader i is in the log of j, or there is a message on the way
\* that leads there: a request that reaches the end of the log, or a rejection,
\* which i will answer with the next request.
Pursues(i, j) ==
  \/ node[j].term > node[i].term
  \/ node[j].term = node[i].term /\ Prefix(node[i].log, node[j].log)
  \/ \E m \in InTransit(i, j) : Reaches(m, node[i])
  \/ \E m \in InTransit(j, i) : Unwilling(m)

Catching ==
  left.losses = MaxLosses =>
    \A i \in Server : \A j \in Server \ {i} : node[i].role = "leader" => Pursues(i, j)

\* The leader moves.
LEMMA LeaderPursues ==
  ASSUME ElectionInv, ReignInv, NEW i \in Server, NEW u, Moved(i, u),
         Delivers(i, u), NEW j \in Server \ {i}, node[i].role = "leader" => Pursues(i, j),
         u.role = "leader"
  PROVE  Pursues(i, j)'
<1> DEFINE s == node[i]
<1>1. /\ node'[i].log = u.log /\ node'[i].term = u.term /\ node'[j] = node[j]
  BY MovedFields DEF Moved
<1>2. Announces(i, s, u)
  BY RunAnnounces DEF Moved
<1>3. CASE Briefed(j, u)
  <2>1. PICK m \in u.out[j] : Reaches(m, u)
    BY <1>3 DEF Briefed
  <2>2. m \in InTransit(i, j)' /\ Reaches(m, node'[i])
    BY <1>1, <2>1 DEF Delivers, Reaches
  <2> QED
    BY <2>2 DEF Pursues
<1>4. CASE s.role = "leader" /\ u.log = s.log /\ ~Briefed(j, u)
  <2>1. u.term = s.term
    <3>1. Turn(i, s, u) \/ Accepted(i, u)
      BY RunEffect DEF Moved
    <3> QED
      BY <3>1 DEF Turn, Accepted, Accepts
  <2>2. /\ node'[i].log = node[i].log /\ node'[i].term = node[i].term
    BY <1>1, <1>4, <2>1
  <2>3. \A m \in InTransit(i, j) : m \in InTransit(i, j)'
    BY DEF Delivers
  <2>4. ASSUME NEW m \in InTransit(j, i), Unwilling(m)
        PROVE  m \in InTransit(j, i)'
    <3>1. ASSUME Handles(i, u, j, m)
          PROVE  FALSE
      <4>1. PICK r \in Resolutions(m, s.log) : u = OnMessage(s, i, j, r)
        BY <3>1 DEF Handles
      <4>2. Briefed(j, u)
        BY <1>4, <2>4, <4>1, OnMessageAnnounces DEF Unwilling
      <4> QED
        BY <1>4, <4>2
    <3> QED
      BY <3>1 DEF Delivers
  <2>5. Pursues(i, j)
    BY <1>4
  <2>6. (\E m \in InTransit(i, j) : Reaches(m, node[i])) => Pursues(i, j)'
    BY <2>2, <2>3 DEF Pursues, Reaches
  <2>7. (\E m \in InTransit(j, i) : Unwilling(m)) => Pursues(i, j)'
    BY <2>4 DEF Pursues
  <2> QED
    BY <1>1, <2>2, <2>5, <2>6, <2>7 DEF Pursues
<1> QED
  BY <1>2, <1>3, <1>4 DEF Announces, Spread

\* The follower moves.
LEMMA FollowerPursued ==
  ASSUME ElectionInv, ReignInv, LogInv, Sending, Hybrid,
         NEW i \in Server, NEW j \in Server \ {i}, NEW u, Moved(j, u),
         Delivers(j, u), node[i].role = "leader", Pursues(i, j)
  PROVE  Pursues(i, j)'
<1> DEFINE a == node[i].log
           s == node[j]
<1>1. /\ node'[j].log = u.log /\ node'[j].term = u.term /\ node'[i] = node[i]
  BY MovedFields DEF Moved
<1>2. s.term \in Nat /\ u.term \in Nat /\ node[i].term \in Nat /\ s.term <= u.term
  BY DEF Moved, Trans, Ballot, ReignInv, Fit, Sane
<1>3. CASE u.term > node[i].term
  BY <1>1, <1>3 DEF Pursues
<1>4. CASE s.term > node[i].term
  BY <1>1, <1>2, <1>4 DEF Pursues
<1>5. ASSUME s.term = node[i].term, Prefix(a, s.log), u.term = s.term
      PROVE  Pursues(i, j)'
  <2>1. CASE Turn(j, s, u)
    <3>1. /\ Kept(s, u) /\ Sane(u) /\ Sane(s) /\ Sane(node[i])
      BY <2>1 DEF Turn, Fit, ReignInv
    <3>2. /\ Len(s.log) \in Nat /\ DOMAIN s.log = 1..Len(s.log) /\ Len(u.log) \in Nat
          /\ a \in Seq(Entries) /\ s.log \in Seq(Entries)
      BY <3>1, SaneLog
    <3>3. u.log = s.log \/ Prefix(s.log, u.log)
      BY <3>1, <3>2 DEF Kept, Prefix
    <3>4. Prefix(a, u.log)
      <4>1. Prefix(s.log, u.log) => Prefix(a, u.log)
        <5> HIDE DEF a
        <5> QED
          BY <1>5, <3>2, PrefixTrans
      <4> QED
        BY <1>5, <3>3, <4>1
    <3> QED
      BY <1>1, <1>5, <3>4 DEF Pursues
  <2>2. CASE Accepted(j, u)
    <3>1. PICK k \in Server \ {j} : \E m \in InTransit(k, j) :
            \E r \in Resolutions(m, s.log) :
              m.type = "AppendEntries" /\ Accepts(j, s, u, k, r)
      BY <2>2 DEF Accepted
    <3>2. PICK m \in InTransit(k, j) : \E r \in Resolutions(m, s.log) :
            m.type = "AppendEntries" /\ Accepts(j, s, u, k, r)
      BY <3>1
    <3>3. PICK r \in Resolutions(m, s.log) : Accepts(j, s, u, k, r)
      BY <3>2
    <3>4. Prefix(a, u.log)
      BY <1>5, <3>2, <3>3, LeaderMerged
    <3> QED
      BY <1>1, <1>5, <3>4 DEF Pursues
  <2>3. Turn(j, s, u) \/ Accepted(j, u)
    BY RunEffect DEF Moved
  <2> QED
    BY <2>1, <2>2, <2>3
<1>6. ASSUME NEW m \in InTransit(i, j), Reaches(m, node[i])
      PROVE  Pursues(i, j)'
  <2>1. CASE m \in InTransit(i, j)'
    BY <1>1, <1>6, <2>1 DEF Pursues, Reaches
  <2>2. CASE Handles(j, u, i, m)
    <3>1. PICK r \in Resolutions(m, s.log) : u = OnMessage(s, j, i, r)
      BY <2>2 DEF Handles
    <3>2. Refused(i, u) \/ Accepts(j, s, u, i, r)
      BY <1>6, <3>1, OnMessageAnnounces DEF Reaches
    <3>3. CASE Refused(i, u)
      <4>1. PICK n \in u.out[i] : Unwilling(n)
        BY <3>3 DEF Refused, Unwilling
      <4>2. n \in InTransit(j, i)'
        BY <4>1 DEF Delivers
      <4> QED
        BY <4>1, <4>2 DEF Pursues
    <3>4. CASE Accepts(j, s, u, i, r)
      <4>1. u.term = node[i].term
        <5>1. Known(i, j, m)
          BY DEF ReignInv
        <5> QED
          BY <1>6, <3>4, <5>1 DEF Accepts, Reaches, Known, Letter, Resolutions
      <4>2. Prefix(a, u.log)
        BY <1>6, <3>4, <4>1, LeaderMerged DEF Reaches
      <4> QED
        BY <1>1, <4>1, <4>2 DEF Pursues
    <3> QED
      BY <3>2, <3>3, <3>4
  <2> QED
    BY <2>1, <2>2 DEF Delivers
<1>7. ASSUME NEW m \in InTransit(j, i), Unwilling(m)
      PROVE  Pursues(i, j)'
  <2>1. m \in InTransit(j, i)'
    BY DEF Delivers
  <2> QED
    BY <1>7, <2>1 DEF Pursues
<1> QED
  BY <1>2, <1>3, <1>4, <1>5, <1>6, <1>7 DEF Pursues

LEMMA CatchingStep ==
  ASSUME ElectionInv, ReignInv, LogInv, Sending, Catching, Hybrid,
         NEW i \in Server, NEW u, Moved(i, u),
         left'.losses = MaxLosses => left.losses = MaxLosses /\ Delivers(i, u)
  PROVE  Catching'
<1> SUFFICES ASSUME left'.losses = MaxLosses, NEW a \in Server, NEW b \in Server \ {a},
                    node'[a].role = "leader"
             PROVE  Pursues(a, b)'
  BY DEF Catching
<1>1. Delivers(i, u) /\ (node[a].role = "leader" => Pursues(a, b))
  BY DEF Catching
<1>2. CASE i = a
  <2>1. u.role = "leader"
    BY <1>2, MovedFields
  <2> QED
    BY <1>1, <1>2, <2>1, LeaderPursues
<1>3. CASE i # a
  <2>1. node'[a] = node[a] /\ Pursues(a, b)
    BY <1>1, <1>3 DEF Moved
  <2>2. CASE i = b
    BY <1>1, <2>1, <2>2, FollowerPursued
  <2>3. CASE i # b
    <3>1. node'[b] = node[b]
      BY <2>3 DEF Moved
    <3>2. \A m \in InTransit(a, b) : m \in InTransit(a, b)'
      BY <1>1, <2>3 DEF Delivers
    <3>3. \A m \in InTransit(b, a) : m \in InTransit(b, a)'
      BY <1>1, <1>3 DEF Delivers
    <3> QED
      BY <2>1, <3>1, <3>2, <3>3 DEF Pursues, Reaches, Unwilling
  <2> QED
    BY <2>2, <2>3
<1> QED
  BY <1>2, <1>3

FollowInv == BudgetInv /\ Sending /\ (Hybrid => Catching)

LEMMA FollowInit == Init => FollowInv
<1> SUFFICES ASSUME Init PROVE FollowInv
  OBVIOUS
<1>1. \A j, k \in Server : InTransit(j, k) = {}
  BY DEF Init, InTransit
<1>2. \A i \in Server : node[i].role = "follower"
  BY DEF Init, InitNode
<1>3. BudgetInv
  <2>1. {MaxElections, MaxHeartbeats, MaxLosses} \subseteq Nat
    BY BoundAssumption
  <2> QED
    BY <2>1 DEF Init, BudgetInv
<1> QED
  BY <1>1, <1>2, <1>3 DEF FollowInv, Sending, Catching

LEMMA FollowInvInductive ==
  ElectionInv /\ ReignInv /\ LogInv /\ FollowInv /\ [Next]_vars => FollowInv'
<1> SUFFICES ASSUME ElectionInv, ReignInv, LogInv, FollowInv, [Next]_vars
             PROVE  FollowInv'
  OBVIOUS
<1> BudgetInv /\ Sending /\ (Hybrid => Catching)
  BY DEF FollowInv
<1>1. CASE Next
  <2>1. PICK i \in Server : \E u, before, budget :
          Moved(i, u) /\ Mailed(i, u, before, budget)
    BY <1>1, NextMailed
  <2>2. PICK u, before, budget : Moved(i, u) /\ Mailed(i, u, before, budget)
    BY <2>1
  <2>3. /\ BudgetInv'
        /\ left'.losses = MaxLosses => left.losses = MaxLosses /\ Delivers(i, u)
    BY <2>2, StepDelivers
  <2>4. Sending'
    BY <2>2, SendingStep
  <2>5. Hybrid => Catching'
    BY <2>2, <2>3, CatchingStep
  <2> QED
    BY <2>3, <2>4, <2>5 DEF FollowInv
<1>2. CASE UNCHANGED vars
  <2>1. node' = node /\ left' = left
        /\ \A j, k \in Server : InTransit(j, k)' = InTransit(j, k)
    BY <1>2 DEF vars, InTransit
  <2>2. BudgetInv' /\ Sending'
    BY <2>1 DEF BudgetInv, Sending, Leads
  <2>3. Hybrid => Catching'
    BY <2>1 DEF Catching, Pursues
  <2> QED
    BY <2>2, <2>3 DEF FollowInv
<1> QED
  BY <1>1, <1>2

\* What SendAppendEntries sent in a reign is still cut from the leader's log
\* (Sending), and in hybrid_raft/ a leader that lost no message pursues all others
\* (Catching): a rejection makes HandleAppendEntriesResponse send the next request.
THEOREM FollowInvHolds == Spec => []FollowInv
<1>1. Init => FollowInv
  BY FollowInit
<1>2. ElectionInv /\ ReignInv /\ LogInv /\ FollowInv /\ [Next]_vars => FollowInv'
  BY FollowInvInductive
<1> QED
  BY <1>1, <1>2, ElectionInvHolds, ReignInvHolds, LogInvHolds, PTL DEF Spec

\* hybrid_raft/: where nothing was lost and nothing is on the way, the log of a
\* leader that every node follows is the beginning of theirs.  A leader never
\* gives a follower up: until the follower has the leader's log, a request that
\* reaches the log's end or a rejection is on its way between them.
THEOREM SettledLogs_Agree == Hybrid => (Spec => []SettledLogsAgree)
<1> SUFFICES ASSUME Hybrid PROVE Spec => []SettledLogsAgree
  OBVIOUS
<1>1. ElectionInv /\ ReignInv /\ FollowInv => SettledLogsAgree
  <2> SUFFICES ASSUME ElectionInv, ReignInv, FollowInv, NEW i \in Server, Settled(i),
                      NEW j \in Server
               PROVE  /\ Len(node[i].log) <= Len(node[j].log)
                      /\ SubSeq(node[j].log, 1, Len(node[i].log)) = node[i].log
    BY DEF SettledLogsAgree
  <2> DEFINE a == node[i].log
             b == node[j].log
  <2>1. /\ a \in Seq(Entries) /\ Len(a) \in Nat
        /\ b \in Seq(Entries) /\ Len(b) \in Nat
    BY SaneLog DEF ReignInv, Fit
  <2>2. Len(a) <= Len(b) /\ \A p \in 1..Len(a) : a[p] = b[p]
    <3>1. CASE j = i
      BY <2>1, <3>1
    <3>2. CASE j # i
      <4>1. \A k, l \in Server : InTransit(k, l) = {}
        BY DEF Settled, InTransit
      <4>2. Pursues(i, j)
        BY <3>2 DEF Settled, FollowInv, Catching
      <4>3. node[j].term = node[i].term /\ node[i].term \in Nat
        BY <3>2 DEF Settled, Peers, ReignInv, Fit, Sane
      <4>4. Prefix(a, b)
        BY <4>1, <4>2, <4>3 DEF Pursues
      <4> QED
        BY <4>4 DEF Prefix
    <3> QED
      BY <3>1, <3>2
  <2> HIDE DEF a, b
  <2> DEFINE c == SubSeq(b, 1, Len(a))
  <2>3. /\ c \in Seq(Entries) /\ Len(c) = Len(a)
        /\ \A p \in 1..Len(a) : c[p] = b[p]
    BY <2>1, <2>2, PrefixUpTo
  <2> HIDE DEF c
  <2>4. c = a
    BY <2>1, <2>2, <2>3, SeqEqual
  <2> QED
    BY <2>2, <2>4 DEF a, b, c
<1> QED
  BY <1>1, ElectionInvHolds, ReignInvHolds, FollowInvHolds, PTL

-----------------------------------------------------------------------------
(* Where a leader tries next *)

\* The term at prevIndex was read from the log.
InRange(m) == m.type = "AppendEntries" => m.prevTerm # Garbage

\* Where next_index_ is within the log, or just after it, it stays there, and no
\* term is read from beyond the log.
Aims(s, u) ==
  \A k \in Server : s.next[k] <= Len(s.log) + 1 =>
    /\ u.next[k] <= Len(u.log) + 1
    /\ \A m \in u.out[k] : m \in s.out[k] \/ InRange(m)

LEMMA AimsTrans ==
  ASSUME NEW s, NEW u, NEW v, Aims(s, u), Aims(u, v)
  PROVE  Aims(s, v)
  BY DEF Aims

LEMMA AimsSame ==
  ASSUME NEW s, NEW u, u.next = s.next, u.log = s.log,
         \A k \in Server : \A m \in u.out[k] : m \in s.out[k] \/ InRange(m)
  PROVE  Aims(s, u)
  BY DEF Aims

LEMMA RespondAims ==
  ASSUME NEW s, Shape(s), NEW to, NEW cmd, NEW ok, NEW value
  PROVE  Aims(s, Respond(s, to, cmd, ok, value))
<1> DEFINE m == RedirectResponse(cmd, ok, value)
           u == Respond(s, to, cmd, ok, value)
<1>1. InRange(m)
  BY DEF InRange, RedirectResponse
<1> HIDE DEF m
<1>2. /\ u.next = s.next /\ u.log = s.log
      /\ \A k \in Server : u.out[k] = s.out[k] \/ u.out[k] = s.out[k] \cup {m}
  BY DEF Respond, Post, Shape, m
<1> HIDE DEF u
<1>3. Aims(s, u)
  BY <1>1, <1>2, AimsSame
<1> QED
  BY <1>3 DEF u

LEMMA DrainAims ==
  ASSUME NEW s, Shape(s), NEW ok, NEW n
  PROVE  Aims(s, DrainPendingClientResponses(s, ok, n))
<1> DEFINE u == DrainPendingClientResponses(s, ok, n)
<1>1. u.next = s.next /\ u.log = s.log
  BY DEF DrainPendingClientResponses, Shape
<1>2. ASSUME NEW k \in Server, NEW m \in u.out[k]
      PROVE  m \in s.out[k] \/ m.type = "client_command_redirected_response"
  BY DEF DrainPendingClientResponses, Shape, RedirectResponse
<1> HIDE DEF u
<1>3. Aims(s, u)
  BY <1>1, <1>2, AimsSame DEF InRange
<1> QED
  BY <1>3 DEF u

LEMMA UpdateCommitIndexAims ==
  ASSUME NEW s, Shape(s), NEW i
  PROVE  LET u == UpdateCommitIndex(s, i)
         IN Aims(s, u) /\ u.next = s.next
<1> DEFINE c == Commit(s, MajorityMatch(s, i))
           n == CommittedResponses(c)
           d == DrainPendingClientResponses(c, TRUE, n)
<1>1. Shape(c) /\ c.out = s.out /\ c.log = s.log /\ c.next = s.next
  BY DEF Commit, Shape
<1> HIDE DEF c, n
<1>2. Aims(s, c) /\ Aims(s, s)
  BY <1>1, AimsSame
<1>3. Aims(c, d) /\ d.next = c.next
  <2>1. Aims(c, d)
    BY <1>1, DrainAims
  <2>2. d.next = c.next
    BY <1>1 DEF DrainPendingClientResponses, Shape
  <2> QED
    BY <2>1, <2>2
<1> HIDE DEF d
<1>4. Aims(s, d)
  BY <1>2, <1>3, AimsTrans
<1>5. UpdateCommitIndex(s, i) \in {s, d}
  BY DEF UpdateCommitIndex, d, n, c
<1> QED
  BY <1>1, <1>2, <1>3, <1>4, <1>5

\* The request to j reads the log within its bounds.
LEMMA AppendRequestInRange ==
  ASSUME NEW s, Sane(s), NEW j \in Server, s.next[j] <= Len(s.log) + 1
  PROVE  /\ NextToSend(s, j) = s.next[j]
         /\ InRange(AppendRequestFor(s, j))
         /\ AppendRequestFor(s, j).prevTerm # Garbage
<1> DEFINE prev == NextToSend(s, j) - 1
<1>1. /\ s.next[j] \in Nat \ {0} /\ Len(s.log) \in Nat /\ DOMAIN s.log = 1..Len(s.log)
      /\ \A p \in DOMAIN s.log : s.log[p].term \in Nat
  BY SaneLog DEF Sane, Entries
<1>2. NextToSend(s, j) = s.next[j]
  BY <1>1 DEF NextToSend
<1>3. prev \in 0..Len(s.log)
  BY <1>1, <1>2
<1> HIDE DEF prev
<1>4. TermAt(s, prev) # Garbage
  <2>1. CASE prev = 0
    BY <2>1 DEF TermAt, Garbage
  <2>2. CASE prev # 0
    <3>1. prev \in DOMAIN s.log /\ prev <= Len(s.log)
      BY <1>1, <1>3, <2>2
    <3>2. s.log[prev].term \in Nat
      BY <1>1, <3>1
    <3> QED
      BY <2>2, <3>1, <3>2 DEF TermAt, Garbage
  <2> QED
    BY <2>1, <2>2
<1>5. AppendRequestFor(s, j).prevTerm = TermAt(s, prev)
  BY DEF AppendRequestFor, AppendRequest, prev
<1> QED
  BY <1>2, <1>4, <1>5 DEF InRange

LEMMA SendAims ==
  ASSUME NEW s, Sane(s), NEW peers
  PROVE  Aims(s, SendAppendEntries(s, peers))
<1> DEFINE u == SendAppendEntries(s, peers)
<1>1. /\ u.log = s.log
      /\ \A k \in Server :
           /\ u.next[k] = IF k \in peers THEN NextToSend(s, k) ELSE s.next[k]
           /\ u.out[k] = IF k \in peers THEN s.out[k] \cup {AppendRequestFor(s, k)}
                                        ELSE s.out[k]
  BY DEF SendAppendEntries, Sane, Shape
<1> HIDE DEF u
<1>2. ASSUME NEW k \in Server, s.next[k] <= Len(s.log) + 1
      PROVE  /\ u.next[k] <= Len(u.log) + 1
             /\ \A m \in u.out[k] : m \in s.out[k] \/ InRange(m)
  <2>1. NextToSend(s, k) = s.next[k] /\ InRange(AppendRequestFor(s, k))
    BY <1>2, AppendRequestInRange
  <2>2. u.next[k] = s.next[k]
    BY <1>1, <2>1
  <2> QED
    BY <1>1, <1>2, <2>1, <2>2
<1>3. Aims(s, u)
  BY <1>2 DEF Aims
<1> QED
  BY <1>3 DEF u

LEMMA ExecuteAims ==
  ASSUME NEW i \in Server, NEW s, Sane(s), s.role = "leader", NEW cmd \in Commands,
         NEW to \in Server \cup {Nobody}
  PROVE  Aims(s, ExecuteClientCommand(s, i, cmd, to))
<1> DEFINE u == ExecuteClientCommand(s, i, cmd, to)
           appended == [s EXCEPT !.log = Append(@, Entry(s, cmd)),
                                 !.responses = Append(@, [index |-> Len(s.log) + 1,
                                                          redirectTo |-> to,
                                                          cmd |-> cmd])]
           sent == SendAppendEntries(appended, Peers(i))
           v == UpdateCommitIndex(sent, i)
<1>1. Shape(s) /\ s.log \in Seq(Entries) /\ Len(s.log) \in Nat
  BY SaneLog DEF Sane
<1>2. CASE cmd \in Reads
  <2>1. u = Respond(s, to, cmd, TRUE, s.kv[Key[cmd]])
    BY <1>2 DEF ExecuteClientCommand
  <2> HIDE DEF u
  <2>2. Aims(s, u)
    BY <1>1, <2>1, RespondAims
  <2> QED
    BY <2>2 DEF u
<1>3. CASE cmd \notin Reads
  <2>1. cmd \in Writes
    BY <1>3 DEF Commands
  <2>2. Entry(s, cmd) \in Entries
    BY <2>1 DEF Entry, Entries, Sane
  <2>3. Append(s.log, Entry(s, cmd)) \in Seq(Entries)
        /\ Len(Append(s.log, Entry(s, cmd))) = Len(s.log) + 1
    BY <1>1, <2>2, AppendProperties
  <2>4. Append(s.responses, [index |-> Len(s.log) + 1, redirectTo |-> to, cmd |-> cmd])
          \in Seq(Debts)
    <3>1. [index |-> Len(s.log) + 1, redirectTo |-> to, cmd |-> cmd] \in Debts
      BY <1>1, <2>1 DEF Debts
    <3>2. s.responses \in Seq(Debts)
      BY DEF Sane
    <3> QED
      BY <3>1, <3>2, AppendProperties
  <2>5. /\ Sane(appended) /\ appended.next = s.next /\ appended.out = s.out
        /\ Len(appended.log) = Len(s.log) + 1
    BY <2>3, <2>4 DEF Sane, Shape
  <2> HIDE DEF appended
  <2>6. Aims(s, appended)
    <3>1. \A k \in Server : s.next[k] \in Nat
      BY DEF Sane
    <3> QED
      BY <1>1, <2>5, <3>1 DEF Aims
  <2>7. Aims(appended, sent) /\ Shape(sent)
    BY <2>5, SendAims DEF SendAppendEntries, Sane, Shape
  <2> HIDE DEF sent
  <2>8. Aims(sent, v)
    BY <2>7, UpdateCommitIndexAims
  <2> HIDE DEF v
  <2>9. Aims(s, v)
    BY <2>6, <2>7, <2>8, AimsTrans
  <2>10. u = v
    BY <1>3 DEF ExecuteClientCommand, v, sent, appended
  <2> QED
    BY <2>9, <2>10
<1> QED
  BY <1>2, <1>3

LEMMA ExecutePendingAims ==
  ASSUME NEW i \in Server, NEW s, Sane(s), s.role = "leader",
         \A j \in Server : s.next[j] = Len(s.log) + 1
  PROVE  Aims(s, ExecutePending(s, i))
<1> DEFINE writes == Filter(s.pending, Writes)
           base == Len(s.log)
           new == [k \in DOMAIN writes |-> Entry(s, writes[k])]
           grown == s.log \o new
           request(j, k) == [AppendRequestFor(s, j) EXCEPT
                               !.entries = SubSeq(grown, base + 1, base + k)]
           told(j) == {request(j, k) : k \in DOMAIN writes}
           u == ExecutePending(s, i)
<1>1. /\ u.next = s.next
      /\ \A j \in Server : u.out[j] = IF j = i THEN s.out[j] ELSE s.out[j] \cup told(j)
  <2> HIDE DEF told
  <2>1. u = ExecutePending(s, i)
    OBVIOUS
  <2> QED
    BY <2>1 DEF ExecutePending, Sane, Shape, told, new
<1>2. ASSUME NEW j \in Server, NEW m \in told(j)
      PROVE  InRange(m)
  <2>1. \A k : request(j, k).prevTerm = AppendRequestFor(s, j).prevTerm
    BY DEF AppendRequestFor, AppendRequest
  <2>2. s.next[j] <= Len(s.log) + 1
    BY SaneLog
  <2>3. AppendRequestFor(s, j).prevTerm # Garbage
    BY <2>2, AppendRequestInRange
  <2> HIDE DEF request
  <2> QED
    BY <2>1, <2>3 DEF InRange
<1>3. Len(s.log) \in Nat /\ Len(u.log) \in Nat /\ Len(s.log) <= Len(u.log)
  <2> HIDE DEF u
  <2>1. Sane(u) /\ Grown(s, u)
    BY ExecutePendingTame DEF Tame, u
  <2> QED
    BY <2>1, SaneLog DEF Grown
<1> HIDE DEF u, told
<1>4. ASSUME NEW k \in Server
      PROVE  /\ u.next[k] <= Len(u.log) + 1
             /\ \A m \in u.out[k] : m \in s.out[k] \/ InRange(m)
  <2>1. u.next[k] = Len(s.log) + 1
    BY <1>1
  <2>2. u.next[k] <= Len(u.log) + 1
    BY <1>3, <2>1
  <2> QED
    BY <1>1, <1>2, <2>2
<1>5. Aims(s, u)
  BY <1>4 DEF Aims
<1> QED
  BY <1>5 DEF u

LEMMA BecomeLeaderAims ==
  ASSUME NEW i \in Server, NEW s, Sane(s)
  PROVE  LET u == BecomeLeader(s, i)
         IN /\ \A k \in Server : u.match[k] = 0 /\ u.next[k] <= Len(u.log) + 1
            /\ \A k \in Server : \A m \in u.out[k] : m \in s.out[k] \/ InRange(m)
<1> DEFINE base == GetLastLogIndex(s)
           elected == [s EXCEPT
                         !.role = "leader", !.next = [j \in Server |-> base + 1],
                         !.match = [j \in Server |-> 0],
                         !.heartbeatArmed = TRUE, !.electionArmed = FALSE]
           sent == SendAppendEntries(elected, Peers(i))
           u == ExecutePending(sent, i)
<1>1. base \in Nat /\ base = Len(s.log)
  BY SaneLog DEF GetLastLogIndex
<1> HIDE DEF base
<1>2. /\ Sane(elected) /\ elected.role = "leader" /\ elected.log = s.log
      /\ elected.out = s.out
      /\ \A j \in Server : elected.next[j] = Len(s.log) + 1 /\ elected.match[j] = 0
  BY <1>1 DEF Sane, Shape, Roles
<1> HIDE DEF elected
<1>3. Aims(elected, sent)
  BY <1>2, SendAims
<1>4. Sane(sent) /\ sent.role = "leader" /\ sent.match = elected.match /\ sent.log = s.log
  <2>1. Tame(i, elected, sent) /\ sent.log = elected.log
    BY <1>2, SendTame DEF Peers
  <2> HIDE DEF sent
  <2> QED
    BY <1>2, <2>1 DEF Tame, SameReign
<1>5. \A j \in Server : sent.next[j] = Len(sent.log) + 1
  <2>1. \A j \in Server : sent.next[j] = IF j \in Peers(i) THEN NextToSend(elected, j)
                                                         ELSE elected.next[j]
    BY <1>2 DEF SendAppendEntries, Sane, Shape
  <2> QED
    BY <1>2, <1>4, <2>1 DEF NextToSend
<1> HIDE DEF sent
<1>6. Aims(sent, u)
  BY <1>4, <1>5, ExecutePendingAims
<1>7. u.match = sent.match
  BY <1>4, <1>5, ExecutePendingTame DEF Tame, SameReign
<1>8. Aims(elected, u)
  BY <1>3, <1>6, AimsTrans
<1>9. \A k \in Server : elected.next[k] <= Len(elected.log) + 1
  BY <1>1, <1>2
<1> HIDE DEF u
<1>10. /\ \A k \in Server : u.match[k] = 0 /\ u.next[k] <= Len(u.log) + 1
       /\ \A k \in Server : \A m \in u.out[k] : m \in s.out[k] \/ InRange(m)
  BY <1>2, <1>4, <1>7, <1>8, <1>9 DEF Aims
<1>11. u = BecomeLeader(s, i)
  BY <1>4 DEF BecomeLeader, FlushPendingClientCommands, u, sent, elected, base
<1> QED
  BY <1>10, <1>11

\* raft/ reads the log where next_index_ says: within its bounds for a k whose
\* match is within them.
Steady(s, u, k) ==
  ~Hybrid /\ u.match[k] <= Len(s.log)
    /\ (s.role = "leader" => s.next[k] <= Len(s.log) + 1) =>
    /\ u.next[k] <= Len(u.log) + 1
    /\ \A m \in u.out[k] : InRange(m)

LEMMA AimsSteady ==
  ASSUME NEW s, s.role = "leader", s.out = NoMessages, NEW u, Aims(s, u)
  PROVE  \A k \in Server : Steady(s, u, k)
  BY DEF Aims, Steady, NoMessages

\* In raft/ a rejection moves next_index_ back by one, and an OK moves it to the
\* position after the match.
LEMMA AppendResponseSteady ==
  ASSUME NEW i \in Server, NEW j \in Server, NEW s, Sane(s), s.role = "leader",
         s.out = NoMessages, NEW m \in AppendResponses
  PROVE  LET u == HandleAppendEntriesResponse(s, i, j, m)
         IN \/ u.role = "follower"
            \/ \A k \in Server :
                 /\ \/ u.match[k] = s.match[k]
                    \/ k = j /\ m.ok /\ m.term <= s.term /\ u.match[k] = m.match
                 /\ Steady(s, u, k)
<1> DEFINE best == IF m.match > s.match[j] THEN m.match ELSE s.match[j]
           back == BackOff(s, j, m)
           deposed == BecomeFollower(s, m.term)
           retreated == [s EXCEPT !.next[j] = back]
           retried == SendAppendEntries(retreated, {j})
           matched == [s EXCEPT !.match[j] = best, !.next[j] = best + 1]
           advanced == UpdateCommitIndex(matched, i)
           u == HandleAppendEntriesResponse(s, i, j, m)
<1>1. /\ Shape(s) /\ Len(s.log) \in Nat /\ s.next \in [Server -> Nat \ {0}]
      /\ s.match \in [Server -> Nat] /\ m.match \in Nat /\ s.term \in Nat /\ m.term \in Nat
  BY SaneLog DEF Sane, AppendResponses
<1>2. back \in Nat \ {0} /\ best \in Nat
  BY <1>1, BackOffType
<1>3. ~Hybrid => back <= s.next[j]
  <2>1. ~Hybrid => m.hintIndex = 0 /\ m.hintTerm = 0
    BY DEF AppendResponses, Hints
  <2>2. ~Hybrid => back = IF s.next[j] > 1 THEN s.next[j] - 1 ELSE 1
    BY <2>1, Zenon DEF BackOff
  <2> QED
    BY <1>1, <2>2
<1>4. \/ u = deposed
      \/ ~m.ok /\ u = retried
      \/ m.ok /\ m.term <= s.term /\ u = advanced
  BY <1>1 DEF HandleAppendEntriesResponse
<1>5. best = m.match \/ best = s.match[j]
  OBVIOUS
<1> HIDE DEF back, best, u
<1>6. CASE u = deposed
  <2>1. deposed.role = "follower"
    BY BecomeFollowerAdds
  <2> HIDE DEF deposed
  <2> QED
    BY <1>6, <2>1 DEF u
<1>7. CASE ~m.ok /\ u = retried
  <2>1. /\ Sane(retreated) /\ retreated.log = s.log /\ retreated.out = s.out
        /\ retreated.match = s.match
        /\ \A k \in Server : retreated.next[k] = IF k = j THEN back ELSE s.next[k]
    BY <1>1, <1>2 DEF Sane, Shape
  <2> HIDE DEF retreated
  <2>2. Aims(retreated, retried)
    BY <2>1, SendAims
  <2>5. retried.match = retreated.match
    BY <2>1 DEF SendAppendEntries, Sane, Shape
  <2> HIDE DEF retried
  <2>3. ASSUME NEW k \in Server, ~Hybrid, s.next[k] <= Len(s.log) + 1
        PROVE  retreated.next[k] <= Len(retreated.log) + 1
    BY <1>1, <1>2, <1>3, <2>1, <2>3
  <2>4. \A k \in Server : retried.match[k] = s.match[k] /\ Steady(s, retried, k)
    BY <2>1, <2>2, <2>3, <2>5 DEF Aims, Steady, NoMessages
  <2> QED
    BY <1>7, <2>4, Zenon DEF u
<1>8. CASE m.ok /\ m.term <= s.term /\ u = advanced
  <2>1. /\ Sane(matched) /\ matched.log = s.log /\ matched.out = s.out
        /\ \A k \in Server :
             /\ matched.match[k] = IF k = j THEN best ELSE s.match[k]
             /\ matched.next[k] = IF k = j THEN best + 1 ELSE s.next[k]
    <3>1. best + 1 \in Nat \ {0}
      BY <1>2
    <3>2. /\ [s.match EXCEPT ![j] = best] \in [Server -> Nat]
          /\ [s.next EXCEPT ![j] = best + 1] \in [Server -> Nat \ {0}]
      BY <1>1, <1>2, <3>1
    <3>3. Sane(matched)
      BY <1>1, <3>2 DEF Sane, Shape
    <3> QED
      BY <1>1, <3>3 DEF Shape
  <2> HIDE DEF matched
  <2>2. Aims(matched, advanced)
    BY <2>1, UpdateCommitIndexAims DEF Sane
  <2>3. advanced.match = matched.match
    BY <2>1, UpdateCommitIndexTame DEF Tame, SameReign
  <2> HIDE DEF advanced
  <2>4. ASSUME NEW k \in Server, s.next[k] <= Len(s.log) + 1,
               matched.match[k] <= Len(s.log)
        PROVE  matched.next[k] <= Len(matched.log) + 1
    BY <1>1, <1>2, <2>1, <2>4
  <2>5. \A k \in Server : Steady(s, advanced, k)
    BY <2>1, <2>2, <2>3, <2>4 DEF Aims, Steady, NoMessages
  <2>6. \A k \in Server :
          advanced.match[k] = s.match[k] \/ (k = j /\ advanced.match[k] = m.match)
    BY <1>5, <2>1, <2>3
  <2> QED
    BY <1>8, <2>5, <2>6, Zenon DEF u
<1> QED
  BY <1>4, <1>6, <1>7, <1>8

\* Where the node leads after the run, it led before, and knows of no more.
Stays(s, u) ==
  u.role = "leader" => s.role = "leader" /\ u.match = s.match /\ Aims(s, u)

LEMMA TameStays ==
  ASSUME NEW i, NEW s, NEW u, Tame(i, s, u), s.role = "leader" => Aims(s, u)
  PROVE  Stays(s, u)
  BY DEF Tame, SameReign, Stays

LEMMA RequestVoteStays ==
  ASSUME NEW i, NEW j, NEW s, Sane(s), NEW m
  PROVE  Stays(s, HandleRequestVote(s, j, m))
<1> DEFINE u == IF m.term > s.term THEN BecomeFollower(s, m.term) ELSE s
           granted == GrantVote(u, j)
           v == IF CanGrant(u, j, m) THEN granted ELSE u
           answer == VoteResponse(u.term, CanGrant(u, j, m))
           w == Post(v, j, answer)
<1>1. Shape(u) /\ (u.role # "leader" \/ u = s)
  <2>1. Shape(s) /\ Shape(BecomeFollower(s, m.term))
    BY BecomeFollowerAdds DEF Sane, Adds
  <2>2. BecomeFollower(s, m.term).role = "follower"
    BY BecomeFollowerAdds
  <2> QED
    BY <2>1, <2>2
<1> HIDE DEF u
<1>2. /\ Shape(granted) /\ granted.out = u.out /\ granted.role = u.role
      /\ granted.log = u.log /\ granted.next = u.next /\ granted.match = u.match
  BY <1>1 DEF GrantVote, ResetElectionTimer, Shape
<1> HIDE DEF granted
<1>3. /\ Shape(v) /\ v.out = u.out /\ v.role = u.role /\ v.log = u.log
      /\ v.next = u.next /\ v.match = u.match
  BY <1>1, <1>2
<1>4. InRange(answer)
  BY DEF InRange, VoteResponse
<1> HIDE DEF v, answer
<1>5. /\ w.role = v.role /\ w.log = v.log /\ w.next = v.next /\ w.match = v.match
      /\ \A k \in Server : \A n \in w.out[k] : n \in v.out[k] \/ n = answer
  BY <1>3 DEF Post, Shape
<1> HIDE DEF w
<1>6. Aims(u, w)
  BY <1>3, <1>4, <1>5, AimsSame
<1>7. Stays(s, w)
  BY <1>1, <1>3, <1>5, <1>6 DEF Stays
<1> QED
  BY <1>7 DEF HandleRequestVote, w, v, granted, u, answer

LEMMA AppendEntriesStays ==
  ASSUME NEW i \in Server, NEW j \in Server, NEW s, Fit(s), s.out = NoMessages,
         NEW m, m.term \in Nat, s.role = "leader" => m.term # s.term
  PROVE  Stays(s, HandleAppendEntries(s, i, j, m))
<1> DEFINE stale == AppendResponse(s.term, FALSE, 0, 0, 0)
           posted == Post(s, j, stale)
           w == HandleAppendEntries(s, i, j, m)
<1>1. IsStale(s, m) \/ w.role # "leader"
  BY AppendEntriesAnnounces
<1>2. IsStale(s, m) => w = posted
  BY DEF HandleAppendEntries
<1>3. InRange(stale)
  BY DEF InRange, AppendResponse
<1> HIDE DEF stale, w
<1>4. /\ posted.role = s.role /\ posted.match = s.match
      /\ posted.next = s.next /\ posted.log = s.log
      /\ \A k \in Server : \A n \in posted.out[k] : n \in s.out[k] \/ n = stale
  BY DEF Post, Fit, Sane, Shape
<1> HIDE DEF posted
<1>5. Aims(s, posted)
  BY <1>3, <1>4, AimsSame
<1>6. Stays(s, w)
  BY <1>1, <1>2, <1>4, <1>5 DEF Stays
<1> QED
  BY <1>6 DEF w

LEMMA SubmitStays ==
  ASSUME NEW i \in Server, NEW s, Sane(s), NEW cmd \in Commands
  PROVE  Stays(s, SubmitCommand(s, i, cmd))
<1> DEFINE u == SubmitCommand(s, i, cmd)
           executed == ExecuteClientCommand(s, i, cmd, Nobody)
<1>1. Tame(i, s, u)
  BY SubmitTame
<1>2. s.role = "leader" => u = executed
  BY DEF SubmitCommand
<1>3. s.role = "leader" => Aims(s, executed)
  BY ExecuteAims
<1> HIDE DEF u, executed
<1>4. Stays(s, u)
  BY <1>1, <1>2, <1>3, TameStays
<1> QED
  BY <1>4 DEF u

LEMMA RedirectedStays ==
  ASSUME NEW i \in Server, NEW j \in Server, NEW s, Sane(s), NEW m, m.cmd \in Commands
  PROVE  Stays(s, HandleClientCommandRedirected(s, i, j, m))
<1> DEFINE u == HandleClientCommandRedirected(s, i, j, m)
           executed == ExecuteClientCommand(s, i, m.cmd, j)
<1>1. Tame(i, s, u)
  BY RedirectedTame
<1>2. s.role = "leader" => u = executed
  BY DEF HandleClientCommandRedirected
<1>3. s.role = "leader" => Aims(s, executed)
  BY ExecuteAims
<1> HIDE DEF u, executed
<1>4. Stays(s, u)
  BY <1>1, <1>2, <1>3, TameStays
<1> QED
  BY <1>4 DEF u

LEMMA RedirectedResponseStays ==
  ASSUME NEW i \in Server, NEW j \in Server, NEW s, Sane(s), NEW m
  PROVE  Stays(s, HandleClientCommandRedirectedResponse(s, j, m))
<1> DEFINE first == FirstOf(MatchingInflight(s, j, m.cmd))
           taken == [s EXCEPT !.inflight = SubSeq(@, 1, first - 1)
                                           \o SubSeq(@, first + 1, Len(@))]
           cmd == s.inflight[first].cmd
           v == Respond(taken, Nobody, cmd, m.ok, m.value)
           u == HandleClientCommandRedirectedResponse(s, j, m)
<1>1. /\ Shape(taken) /\ taken.out = s.out /\ taken.next = s.next /\ taken.log = s.log
  BY DEF Sane, Shape
<1>2. u \in {s, v}
  BY DEF HandleClientCommandRedirectedResponse
<1>3. Tame(i, s, u)
  BY RedirectedResponseTame
<1> HIDE DEF taken, cmd, u
<1>4. Aims(s, taken) /\ Aims(s, s)
  BY <1>1, AimsSame
<1>5. Aims(taken, v)
  BY <1>1, RespondAims
<1> HIDE DEF v
<1>6. Aims(s, u)
  BY <1>2, <1>4, <1>5, AimsTrans
<1>7. Stays(s, u)
  BY <1>3, <1>6, TameStays
<1> QED
  BY <1>7 DEF u

\* k has told i in an answer, of no later term than i's, that it matches up to p.
Ok(m) == m.type = "AppendEntriesResponse" /\ m.ok

Heard(i, k, p) ==
  \E n \in InTransit(k, i) : Ok(n) /\ n.term <= node[i].term /\ n.match = p

\* What a run that leaves i the leader makes of what it knows about k.
Guides(i, u, k) ==
  LET s == node[i]
  IN /\ s.role # "leader" => u.match[k] = 0
     /\ s.role = "leader" => u.match[k] = s.match[k] \/ Heard(i, k, u.match[k])
     /\ Steady(s, u, k)

Leading(i, u) == u.role = "leader" => \A k \in Server : Guides(i, u, k)

LEMMA StaysLeading ==
  ASSUME NEW i \in Server, node[i].out = NoMessages, NEW u, Stays(node[i], u)
  PROVE  Leading(i, u)
  BY AimsSteady DEF Stays, Leading, Guides

LEMMA VoteResponseLeading ==
  ASSUME NEW i \in Server, NEW j \in Server, Sane(node[i]), node[i].out = NoMessages,
         NEW m
  PROVE  Leading(i, HandleRequestVoteResponse(node[i], i, j, m))
<1> DEFINE s == node[i]
           counted == IF m.ack /\ j \notin s.acks
                      THEN [s EXCEPT !.acks = @ \cup {j}, !.votes = @ + 1] ELSE s
           deposed == BecomeFollower(s, m.term)
           elected == BecomeLeader(counted, i)
           u == HandleRequestVoteResponse(s, i, j, m)
<1>1. /\ Sane(counted) /\ counted.out = s.out /\ counted.role = s.role
  BY DEF Sane, Shape
<1>2. \/ u = s
      \/ s.role = "candidate" /\ u \in {counted, deposed, elected}
  BY DEF HandleRequestVoteResponse, IsVoteVoid
<1> HIDE DEF counted, u
<1>3. Leading(i, s)
  <2>1. Stays(s, s)
    BY DEF Stays, Aims
  <2> QED
    BY <2>1, StaysLeading
<1>4. s.role = "candidate" => Leading(i, counted)
  BY <1>1 DEF Leading
<1>5. Leading(i, deposed)
  <2>1. deposed.role = "follower"
    BY BecomeFollowerAdds
  <2> QED
    BY <2>1 DEF Leading
<1>6. s.role = "candidate" => Leading(i, elected)
  <2> HIDE DEF s
  <2>1. /\ \A k \in Server : elected.match[k] = 0 /\ elected.next[k] <= Len(elected.log) + 1
        /\ \A k \in Server : \A n \in elected.out[k] : n \in counted.out[k] \/ InRange(n)
    BY <1>1, BecomeLeaderAims
  <2> HIDE DEF elected
  <2>2. counted.out = NoMessages
    BY <1>1 DEF s
  <2>3. \A k \in Server : Steady(s, elected, k)
    BY <2>1, <2>2 DEF Steady, NoMessages
  <2> QED
    BY <2>1, <2>3 DEF Leading, Guides, s
<1> HIDE DEF deposed, elected
<1>7. Leading(i, u)
  BY <1>2, <1>3, <1>4, <1>5, <1>6
<1> QED
  BY <1>7 DEF u

LEMMA OnMessageLeading ==
  ASSUME ElectionInv, ReignInv, NEW i \in Server, NEW j \in Server,
         NEW m \in InTransit(j, i), NEW r \in Resolutions(m, node[i].log)
  PROVE  Leading(i, OnMessage(node[i], i, j, r))
<1> DEFINE s == node[i]
           u == OnMessage(s, i, j, r)
<1>1. /\ Fit(s) /\ Routed(s) /\ s.out = NoMessages /\ Sane(s) /\ Shape(s)
      /\ Known(j, i, m) /\ Mail(j, i, m) /\ s.term \in Nat
  BY DEF ReignInv, ElectionInv, NodesSound, LinksSound, Fit, Sane
<1>2. CASE m.type = "AppendEntries"
  <2>1. m \in AppendRequests /\ Won(j, m.term) /\ j # i
    BY <1>1, <1>2 DEF Known, Letter
  <2>2. r.type = m.type /\ r.term = m.term /\ r.term \in Nat
    BY <1>2, <2>1 DEF Resolutions, AppendRequests
  <2>3. s.role = "leader" => r.term # s.term
    BY <1>1, <2>1, <2>2, WonOnce DEF Leads
  <2>4. u = HandleAppendEntries(s, i, j, r)
    BY <1>2, <2>2 DEF OnMessage
  <2>5. Stays(s, HandleAppendEntries(s, i, j, r))
    BY <1>1, <2>2, <2>3, AppendEntriesStays
  <2> QED
    BY <1>1, <2>4, <2>5, StaysLeading
<1>3. CASE m.type # "AppendEntries"
  <2>1. r = m
    BY <1>3 DEF Resolutions
  <2>2. CASE m.type = "RequestVote"
    <3>1. u = HandleRequestVote(s, j, m)
      BY <2>1, <2>2 DEF OnMessage
    <3>2. Stays(s, HandleRequestVote(s, j, m))
      BY <1>1, RequestVoteStays
    <3> QED
      BY <1>1, <3>1, <3>2, StaysLeading
  <2>3. CASE m.type = "RequestVoteResponse"
    <3>1. u = HandleRequestVoteResponse(s, i, j, m)
      BY <2>1, <2>3 DEF OnMessage
    <3> QED
      BY <1>1, <3>1, VoteResponseLeading
  <2>4. CASE m.type = "AppendEntriesResponse"
    <3> DEFINE w == HandleAppendEntriesResponse(s, i, j, m)
    <3>1. m \in AppendResponses
      BY <1>1, <2>4 DEF Known, Letter
    <3>2. u = w
      BY <2>1, <2>4 DEF OnMessage
    <3>3. s.role # "leader" => w = s
      BY DEF HandleAppendEntriesResponse
    <3>4. s.role = "leader" =>
            \/ w.role = "follower"
            \/ \A k \in Server :
                 /\ \/ w.match[k] = s.match[k]
                    \/ k = j /\ m.ok /\ m.term <= s.term /\ w.match[k] = m.match
                 /\ Steady(s, w, k)
      <4> HIDE DEF s
      <4> QED
        BY <1>1, <3>1, AppendResponseSteady
    <3> HIDE DEF w
    <3>5. Leading(i, w)
      <4>1. \A p : m.ok /\ m.term <= s.term /\ p = m.match => Heard(i, j, p)
        BY <2>4 DEF Heard, Ok
      <4> QED
        BY <3>3, <3>4, <4>1 DEF Leading, Guides
    <3> QED
      BY <3>2, <3>5
  <2>5. CASE m.type = "client_command_redirected"
    <3>1. u = HandleClientCommandRedirected(s, i, j, m)
      BY <2>1, <2>5 DEF OnMessage
    <3>2. m.cmd \in Commands
      BY <1>1, <2>5 DEF Known, Letter
    <3>3. Stays(s, HandleClientCommandRedirected(s, i, j, m))
      BY <1>1, <3>2, RedirectedStays
    <3> QED
      BY <1>1, <3>1, <3>3, StaysLeading
  <2>6. CASE m.type = "client_command_redirected_response"
    <3>1. u = HandleClientCommandRedirectedResponse(s, j, m)
      BY <2>1, <2>6 DEF OnMessage
    <3>2. Stays(s, HandleClientCommandRedirectedResponse(s, j, m))
      BY <1>1, RedirectedResponseStays
    <3> QED
      BY <1>1, <3>1, <3>2, StaysLeading
  <2> QED
    BY <1>1, <1>3, <2>2, <2>3, <2>4, <2>5, <2>6 DEF Mail, Plain, VoteResponse
<1> QED
  BY <1>2, <1>3

LEMMA RunLeading ==
  ASSUME ElectionInv, ReignInv, NEW i \in Server, NEW u, Run(i, u)
  PROVE  Leading(i, u)
<1> DEFINE s == node[i]
           sent == SendAppendEntries(s, Peers(i))
           idle == [s EXCEPT !.heartbeatArmed = FALSE]
<1>1. Sane(s) /\ Shape(s) /\ s.out = NoMessages
  BY DEF ReignInv, ElectionInv, NodesSound, Fit, Sane
<1>2. ASSUME NEW j \in Server, NEW m \in InTransit(j, i),
             NEW r \in Resolutions(m, s.log), u = OnMessage(s, i, j, r)
      PROVE  Leading(i, u)
  BY <1>2, OnMessageLeading
<1>3. Leading(i, StartElection(s, i))
  BY <1>1, StartElectionAdds DEF Leading
<1>4. s.role = "leader" => Leading(i, sent)
  <2>1. s.role = "leader" => Tame(i, s, sent)
    BY <1>1, SendTame DEF Peers
  <2>2. Aims(s, sent)
    BY <1>1, SendAims
  <2> HIDE DEF sent
  <2>3. s.role = "leader" => Stays(s, sent)
    BY <2>1, <2>2, TameStays
  <2> QED
    BY <1>1, <2>3, StaysLeading
<1>5. s.role # "leader" => Leading(i, idle)
  BY <1>1 DEF Leading, Shape
<1>6. \A cmd \in Commands : Leading(i, SubmitCommand(s, i, cmd))
  BY <1>1, SubmitStays, StaysLeading
<1> HIDE DEF sent, idle
<1> QED
  BY <1>2, <1>3, <1>4, <1>5, <1>6 DEF Run, Unprompted, sent, idle

-----------------------------------------------------------------------------
(* Who votes has seen no more than whom it votes for *)

\* What a run does to the term and the log of the node.
LEMMA MovedLog ==
  ASSUME ElectionInv, ReignInv, NEW i \in Server, NEW u, Moved(i, u)
  PROVE  LET s == node[i]
         IN /\ s.term \in Nat /\ u.term \in Nat /\ s.term <= u.term
            /\ s.log \in Seq(Entries) /\ u.log \in Seq(Entries)
            /\ s.role \in Roles /\ u.role \in Roles
            /\ Turn(i, s, u) \/ (Accepted(i, u) /\ u.role = "follower")
            /\ u.role # "follower" => Prefix(s.log, u.log)
            /\ u.role # "leader" /\ Turn(i, s, u) => u.log = s.log
            /\ u.role # "follower" /\ u.term = s.term => s.role # "follower"
            /\ u.role = "leader" => u.term = s.term
<1> DEFINE s == node[i]
<1>1. Turn(i, s, u) \/ Accepted(i, u)
  BY RunEffect DEF Moved
<1>2. Trans(i, s, u)
  BY DEF Moved
<1>3. Sane(s) /\ Sane(u)
  BY <1>1 DEF ReignInv, Fit, Turn, Accepted, Accepts
<1>4. /\ s.term \in Nat /\ u.term \in Nat /\ s.term <= u.term
      /\ s.log \in Seq(Entries) /\ u.log \in Seq(Entries)
      /\ s.role \in Roles /\ u.role \in Roles
  BY <1>2, <1>3 DEF Sane, Trans
<1>5. Accepted(i, u) => u.role = "follower"
  BY DEF Accepted, Accepts
<1>6. u.role # "leader" /\ Turn(i, s, u) => u.log = s.log
  BY DEF Turn, Kept
<1>7. u.role # "follower" => Prefix(s.log, u.log)
  <2>1. Len(s.log) \in Nat /\ DOMAIN s.log = 1..Len(s.log) /\ Len(u.log) \in Nat
    BY <1>4, LogDomain
  <2> QED
    BY <1>1, <1>5, <2>1 DEF Turn, Kept, Prefix
<1>8. /\ u.role # "follower" /\ u.term = s.term => s.role # "follower"
      /\ u.role = "leader" => u.term = s.term
  BY <1>1, <1>2, <1>4, <1>5 DEF Trans, Turn, Roles
<1> QED
  BY <1>1, <1>4, <1>5, <1>6, <1>7, <1>8

\* A candidate has no entry of its term.
Fresh ==
  \A i \in Server : node[i].role = "candidate" =>
    \A p \in DOMAIN node[i].log : node[i].log[p].term < node[i].term

\* m names an entry of log, of an earlier term than its own, or that there is none.
Names(m, log) ==
  \/ m.lastIndex = 0 /\ m.lastTerm = 0
  \/ /\ m.lastIndex \in DOMAIN log /\ log[m.lastIndex].term = m.lastTerm
     /\ m.lastTerm < m.term

\* A request for votes names an entry of the candidate's log as long as the
\* candidate is in that election or leads.
Asking ==
  \A i, k \in Server : \A m \in InTransit(i, k) :
    m.type = "RequestVote" =>
      /\ m.term <= node[i].term
      /\ node[i].role # "follower" /\ node[i].term = m.term => Names(m, node[i].log)

\* A vote answers a request.
Timely ==
  \A v, c \in Server : \A t \in Nat :
    VoteResponse(t, TRUE) \in InTransit(v, c) => t <= node[c].term

LEMMA FreshStep ==
  ASSUME ElectionInv, ReignInv, LogInv, Fresh, NEW i \in Server, NEW u, Moved(i, u)
  PROVE  Fresh'
<1> DEFINE s == node[i]
<1>1. /\ node'[i].role = u.role /\ node'[i].log = u.log /\ node'[i].term = u.term
      /\ \A k \in Server : k # i => node'[k] = node[k]
  BY MovedFields DEF Moved
<1>2. ASSUME u.role = "candidate", NEW p \in DOMAIN u.log
      PROVE  u.log[p].term < u.term
  <2>1. /\ u.log = s.log /\ s.term \in Nat /\ u.term \in Nat /\ s.term <= u.term
        /\ s.log \in Seq(Entries)
    BY <1>2, MovedLog
  <2>2. s.log[p].term \in Nat
    BY <1>2, <2>1, LogDomain
  <2>3. CASE u.term = s.term
    <3>1. s.role = "candidate"
      BY <1>2, <2>3, MovedLog DEF Moved, Trans, Roles
    <3> QED
      BY <1>2, <2>1, <2>3, <3>1 DEF Fresh
  <2>4. CASE u.term # s.term
    <3>1. TermsUpTo(s.log, s.term)
      BY DEF LogInv, Logs
    <3>2. s.log[p].term <= s.term
      BY <1>2, <2>1, <3>1 DEF TermsUpTo
    <3> QED
      BY <2>1, <2>2, <2>4, <3>2
  <2> QED
    BY <2>3, <2>4
<1> QED
  BY <1>1, <1>2 DEF Fresh

LEMMA NamesLonger ==
  ASSUME NEW m, NEW a \in Seq(Entries), NEW b \in Seq(Entries), Names(m, a), Prefix(a, b)
  PROVE  Names(m, b)
<1>1. /\ DOMAIN a = 1..Len(a) /\ DOMAIN b = 1..Len(b)
      /\ Len(a) \in Nat /\ Len(b) \in Nat
  BY LogDomain
<1> QED
  BY <1>1 DEF Names, Prefix

LEMMA AskingStep ==
  ASSUME ElectionInv, ReignInv, LogInv, Fresh, Asking, NEW i \in Server, NEW u,
         Moved(i, u), Fresh'
  PROVE  Asking'
<1> DEFINE s == node[i]
<1>1. /\ node'[i].role = u.role /\ node'[i].log = u.log /\ node'[i].term = u.term
      /\ \A k \in Server : k # i => node'[k] = node[k]
  BY MovedFields DEF Moved
<1>2. /\ s.term \in Nat /\ u.term \in Nat /\ s.term <= u.term
      /\ s.log \in Seq(Entries) /\ u.log \in Seq(Entries)
  BY MovedLog
<1> SUFFICES ASSUME NEW a \in Server, NEW k \in Server, NEW m \in InTransit(a, k)',
                    m.type = "RequestVote"
             PROVE  /\ m.term <= node'[a].term
                    /\ node'[a].role # "follower" /\ node'[a].term = m.term =>
                         Names(m, node'[a].log)
  BY DEF Asking
<1>3. CASE m \in InTransit(a, k)
  <2>1. /\ m.term <= node[a].term
        /\ node[a].role # "follower" /\ node[a].term = m.term => Names(m, node[a].log)
    BY <1>3 DEF Asking
  <2>2. CASE a # i
    BY <1>1, <2>1, <2>2
  <2>3. CASE a = i
    <3>1. m.term \in Nat
      <4>1. Known(a, k, m)
        BY <1>3 DEF ReignInv
      <4> QED
        BY <4>1 DEF Known, Letter, VoteRequests
    <3>2. ASSUME u.role # "follower", u.term = m.term
          PROVE  Names(m, u.log)
      <4>1. s.term = u.term
        BY <1>2, <2>1, <2>3, <3>1, <3>2
      <4>2. s.role # "follower" /\ Prefix(s.log, u.log)
        BY <3>2, <4>1, MovedLog
      <4> QED
        BY <1>2, <2>1, <2>3, <3>2, <4>1, <4>2, NamesLonger
    <3> QED
      BY <1>1, <1>2, <2>1, <2>3, <3>1, <3>2
  <2> QED
    BY <2>2, <2>3
<1>4. CASE m \notin InTransit(a, k)
  <2>1. a = i /\ m \in u.out[k]
    BY <1>4 DEF Moved
  <2>2. ~ \E j, r : Accepts(i, s, u, j, r)
    BY <2>1 DEF Accepts
  <2>3. Turn(i, s, u)
    BY <2>2, MovedLog DEF Accepted
  <2>4. /\ u.role = "candidate"
        /\ m = VoteRequest(u.term, GetLastLogIndex(u), GetLastLogTerm(u))
    BY <2>1, <2>3 DEF Turn, Writ
  <2>5. /\ m.term = u.term /\ m.lastIndex = GetLastLogIndex(u)
        /\ m.lastTerm = GetLastLogTerm(u)
    BY <2>4 DEF VoteRequest
  <2>6. Len(u.log) \in Nat /\ DOMAIN u.log = 1..Len(u.log)
    BY <1>2, LogDomain
  <2>7. CASE u.log = <<>>
    <3>1. Len(u.log) = 0
      BY <2>7
    <3> QED
      BY <1>1, <1>2, <2>1, <2>5, <2>7, <3>1 DEF Names, GetLastLogIndex, GetLastLogTerm
  <2>8. CASE u.log # <<>>
    <3>1. Len(u.log) \in DOMAIN u.log
      BY <1>2, <2>6, <2>8, EmptySeq
    <3>2. \A p \in DOMAIN u.log : u.log[p].term < u.term
      BY <1>1, <2>4 DEF Fresh
    <3>3. Names(m, u.log)
      BY <2>5, <2>8, <3>1, <3>2 DEF Names, GetLastLogIndex, GetLastLogTerm
    <3> QED
      BY <1>1, <1>2, <2>1, <2>5, <3>3
  <2> QED
    BY <2>7, <2>8
<1> QED
  BY <1>3, <1>4

\* A vote that i grants answers a request of a log that is not behind its own.
Asked(i, c, t) ==
  \E m \in InTransit(c, i) :
    m.type = "RequestVote" /\ m.term = t /\ IsLogOk(node[i], m)

LEMMA BallotGranted ==
  ASSUME NEW i, NEW u, NEW before, Ballots(i, u, before),
         NEW c \in Server, NEW t, VoteResponse(t, TRUE) \in u.out[c]
  PROVE  u.log = node[i].log /\ Asked(i, c, t)
  BY Zenon DEF Ballots, Asked

LEMMA TimelyStep ==
  ASSUME ElectionInv, ReignInv, Asking, Timely, NEW i \in Server, NEW u, NEW before,
         Moved(i, u), Ballots(i, u, before)
  PROVE  Timely'
<1> SUFFICES ASSUME NEW v \in Server, NEW c \in Server, NEW t \in Nat,
                    VoteResponse(t, TRUE) \in InTransit(v, c)'
             PROVE  t <= node'[c].term
  BY DEF Timely
<1>1. t <= node[c].term
  <2>1. CASE VoteResponse(t, TRUE) \in InTransit(v, c)
    BY <2>1 DEF Timely
  <2>2. CASE VoteResponse(t, TRUE) \notin InTransit(v, c)
    <3>1. v = i /\ VoteResponse(t, TRUE) \in u.out[c]
      BY <2>2 DEF Moved
    <3>2. PICK m \in InTransit(c, i) :
            m.type = "RequestVote" /\ m.term = t /\ IsLogOk(node[i], m)
      <4>1. Asked(i, c, t)
        BY <3>1, BallotGranted
      <4> QED
        BY <4>1, Zenon DEF Asked
    <3> QED
      BY <3>2 DEF Asking
  <2> QED
    BY <2>1, <2>2
<1>2. node[c].term <= node'[c].term /\ node[c].term \in Nat /\ node'[c].term \in Nat
  <2>1. node'[i].term = u.term /\ \A k \in Server : k # i => node'[k] = node[k]
    BY MovedFields DEF Moved
  <2>2. \A k \in Server : node[k].term \in Nat
    BY DEF ReignInv, Fit, Sane
  <2>3. node[i].term <= u.term /\ u.term \in Nat
    BY MovedLog
  <2> QED
    BY <2>1, <2>2, <2>3
<1> QED
  BY <1>1, <1>2

\* Every entry of b is one of term t within the length of a, or a has an entry
\* of an earlier term than t that is at least as far.
Covered(b, a, t) ==
  \A p \in DOMAIN b :
    \/ b[p].term = t /\ p <= Len(a)
    \/ \E q \in DOMAIN a :
         /\ a[q].term < t
         /\ b[p].term < a[q].term \/ (b[p].term = a[q].term /\ p <= q)

LEMMA CoveredLonger ==
  ASSUME NEW b \in Seq(Entries), NEW a \in Seq(Entries), NEW c \in Seq(Entries),
         NEW t, Prefix(a, c), Covered(b, a, t)
  PROVE  Covered(b, c, t)
<1>1. /\ DOMAIN a = 1..Len(a) /\ DOMAIN b = 1..Len(b) /\ DOMAIN c = 1..Len(c)
      /\ Len(a) \in Nat /\ Len(b) \in Nat /\ Len(c) \in Nat
  BY LogDomain
<1>2. Len(a) <= Len(c) /\ \A q \in DOMAIN a : q \in DOMAIN c /\ c[q] = a[q]
  BY <1>1 DEF Prefix
<1> SUFFICES ASSUME NEW p \in DOMAIN b
             PROVE  \/ b[p].term = t /\ p <= Len(c)
                    \/ \E q \in DOMAIN c :
                         /\ c[q].term < t
                         /\ b[p].term < c[q].term \/ (b[p].term = c[q].term /\ p <= q)
  BY DEF Covered
<1>3. CASE b[p].term = t /\ p <= Len(a)
  <2>1. p \in Nat
    BY <1>1
  <2> QED
    BY <1>1, <1>2, <1>3, <2>1
<1>4. CASE \E q \in DOMAIN a :
             /\ a[q].term < t
             /\ b[p].term < a[q].term \/ (b[p].term = a[q].term /\ p <= q)
  BY <1>2, <1>4
<1> QED
  BY <1>3, <1>4 DEF Covered

\* What IsLogOk compares decides for the whole log, as terms do not fall along it.
LEMMA VoteCovers ==
  ASSUME NEW s, s.log \in Seq(Entries), Rising(s.log), NEW a \in Seq(Entries),
         NEW m \in VoteRequests, Names(m, a), IsLogOk(s, m)
  PROVE  Covered(s.log, a, m.term)
<1> DEFINE b == s.log
           L == Len(b)
<1>1. /\ DOMAIN a = 1..Len(a) /\ DOMAIN b = 1..L /\ Len(a) \in Nat /\ L \in Nat
      /\ \A p \in DOMAIN b : b[p].term \in Nat
      /\ \A p \in DOMAIN a : a[p].term \in Nat
  BY LogDomain
<1>2. m.lastIndex \in Nat /\ m.lastTerm \in Nat /\ m.term \in Nat
  BY DEF VoteRequests
<1> SUFFICES ASSUME NEW p \in DOMAIN b
             PROVE  \E q \in DOMAIN a :
                      /\ a[q].term < m.term
                      /\ b[p].term < a[q].term \/ (b[p].term = a[q].term /\ p <= q)
  BY DEF Covered
<1>3. L \in DOMAIN b /\ p <= L /\ p \in Nat /\ b # <<>>
  BY <1>1
<1>4. \/ m.lastTerm > b[L].term
      \/ m.lastTerm = b[L].term /\ m.lastIndex >= L
  BY <1>3 DEF IsLogOk, GetLastLogTerm, GetLastLogIndex
<1>5. b[p].term <= b[L].term
  BY <1>3 DEF Rising
<1> HIDE DEF b, L
<1>6. b[p].term \in Nat /\ b[L].term \in Nat
  BY <1>1, <1>3
<1>7. /\ m.lastIndex \in DOMAIN a /\ a[m.lastIndex].term = m.lastTerm
      /\ m.lastTerm < m.term
  <2>1. ~ (m.lastIndex = 0 /\ m.lastTerm = 0)
    BY <1>1, <1>3, <1>4, <1>6
  <2> QED
    BY <2>1 DEF Names
<1>8. b[p].term < m.lastTerm \/ (b[p].term = m.lastTerm /\ p <= m.lastIndex)
  BY <1>1, <1>2, <1>3, <1>4, <1>5, <1>6
<1> QED
  BY <1>7, <1>8

\* What a leader of term t sends keeps a log covered.
LEMMA MergeCovered ==
  ASSUME NEW log \in Seq(Entries), NEW a \in Seq(Entries), NEW m \in AppendRequests,
         m.prevIndex <= Len(log), Excerpt(m, a), NEW t \in Nat, TermsUpTo(a, t),
         Covered(log, a, t)
  PROVE  Covered(Merge(log, m.prevIndex, m.entries), a, t)
<1> DEFINE prev == m.prevIndex
           entries == m.entries
           E == Len(entries)
           merged == Merge(log, prev, entries)
<1>1. prev \in Nat /\ entries \in Seq(Entries)
  BY DEF AppendRequests
<1>2. /\ Len(log) \in Nat /\ DOMAIN log = 1..Len(log)
      /\ Len(a) \in Nat /\ DOMAIN a = 1..Len(a)
      /\ E \in Nat /\ DOMAIN entries = 1..E
      /\ \A p \in DOMAIN a : a[p].term \in Nat
      /\ \A p \in DOMAIN log : log[p].term \in Nat
  BY <1>1, LogDomain
<1>3. Merged(log, prev, entries, merged)
  BY <1>1, <1>2, MergeMerged
<1> HIDE DEF merged
<1>4. DOMAIN merged = 1..Len(merged) /\ Len(merged) \in Nat
  BY <1>3, LogDomain DEF Merged
<1> SUFFICES ASSUME NEW p \in DOMAIN merged
             PROVE  \/ merged[p].term = t /\ p <= Len(a)
                    \/ \E q \in DOMAIN a :
                         /\ a[q].term < t
                         /\ \/ merged[p].term < a[q].term
                            \/ merged[p].term = a[q].term /\ p <= q
  BY DEF Covered, merged, prev, entries
<1>5. p \in Nat /\ p >= 1
  BY <1>4
<1>6. CASE p \in DOMAIN log /\ merged[p] = log[p]
  BY <1>6 DEF Covered
<1>7. CASE p <= prev
  <2>1. p \in DOMAIN log /\ merged[p] = log[p]
    <3>1. p \in 1..prev
      BY <1>1, <1>5, <1>7
    <3>2. merged[p] = log[p]
      BY <1>3, <3>1 DEF Merged
    <3>3. p \in 1..Len(log)
      BY <1>1, <1>2, <1>5, <1>7
    <3> QED
      BY <1>2, <3>2, <3>3
  <2> QED
    BY <1>6, <2>1
<1>8. CASE p > prev + E
  BY <1>3, <1>6, <1>8 DEF Merged
<1>9. CASE p > prev /\ p <= prev + E
  <2>1. p - prev \in 1..E /\ prev + (p - prev) = p
    BY <1>1, <1>2, <1>5, <1>9
  <2>2. merged[prev + (p - prev)] = entries[p - prev]
    BY <1>2, <1>3, <2>1 DEF Merged
  <2>3. prev + E <= Len(a) /\ entries[p - prev] = a[prev + (p - prev)]
    <3>1. entries # <<>>
      BY <1>2, <2>1
    <3> QED
      BY <1>2, <2>1, <3>1 DEF Excerpt
  <2> HIDE DEF entries, E, prev
  <2>4. merged[p] = a[p] /\ p <= Len(a) /\ p \in DOMAIN a
    BY <1>1, <1>2, <1>5, <1>9, <2>1, <2>2, <2>3
  <2>5. a[p].term <= t /\ a[p].term \in Nat
    BY <1>2, <2>4 DEF TermsUpTo
  <2>6. a[p].term = t \/ (a[p].term < t /\ p <= p)
    BY <1>5, <2>5
  <2> QED
    BY <2>4, <2>6
<1> QED
  BY <1>1, <1>2, <1>5, <1>7, <1>8, <1>9

LEMMA SupportTimely ==
  ASSUME Timely, NEW v \in Server, NEW c \in Server, NEW t \in Nat, Supports(v, c, t)
  PROVE  t <= node[c].term
<1>1. VoteResponse(t, TRUE) \in InTransit(v, c) => t <= node[c].term
  BY Zenon DEF Timely
<1>2. node[c].term = t => t <= node[c].term
  OBVIOUS
<1> QED
  BY <1>1, <1>2 DEF Supports

\* Who backs c in the term t that c campaigns or leads in has seen no more than
\* c, unless v has moved on or another node has won that term.
Backed(v, c, t) ==
  \/ node[v].term > t
  \/ Covered(node[v].log, node[c].log, t)
  \/ \E k \in Server \ {c} : Won(k, t)

Backing ==
  \A v, c \in Server : \A t \in Nat :
    node[c].term = t /\ node[c].role # "follower" /\ Supports(v, c, t) =>
      Backed(v, c, t)

\* What v makes of a request of the leader c, or of another's.
LEMMA AcceptedBacked ==
  ASSUME ElectionInv, ReignInv, LogInv, FollowInv, NEW v \in Server, NEW c \in Server,
         NEW u, Accepted(v, u), NEW t \in Nat, u.term = t,
         node[c].term = t, node[c].role # "follower",
         Covered(node[v].log, node[c].log, t)
  PROVE  Covered(u.log, node[c].log, t) \/ \E k \in Server \ {c} : Won(k, t)
<1> DEFINE s == node[v]
           a == node[c].log
<1> PICK j \in Server \ {v} : \E m \in InTransit(j, v) :
          \E r \in Resolutions(m, s.log) :
            m.type = "AppendEntries" /\ Accepts(v, s, u, j, r)
  BY DEF Accepted
<1>1. PICK m \in InTransit(j, v) :
        \E r \in Resolutions(m, s.log) :
          m.type = "AppendEntries" /\ Accepts(v, s, u, j, r)
  OBVIOUS
<1>2. PICK r \in Resolutions(m, s.log) : Accepts(v, s, u, j, r)
  BY <1>1
<1>3. m \in AppendRequests /\ Won(j, m.term)
  BY <1>1 DEF ReignInv, Known, Letter
<1>4. r.term = m.term /\ r.prevIndex = m.prevIndex /\ r.entries = m.entries
  BY <1>3 DEF Resolutions, AppendRequests
<1>5. /\ m.term = t /\ m.prevIndex <= Len(s.log)
      /\ u.log = Merge(s.log, m.prevIndex, m.entries)
  <2>1. /\ u.term = r.term /\ IsLogMatching(s, r)
        /\ u.log = Merge(s.log, r.prevIndex, r.entries)
    BY <1>2 DEF Accepts
  <2>2. Len(s.log) \in Nat /\ s.log \in Seq(Entries)
    BY LogDomain DEF ReignInv, Fit, Sane
  <2>3. r.prevIndex <= Len(s.log)
    BY <1>3, <1>4, <2>1, <2>2 DEF IsLogMatching, AppendRequests
  <2> QED
    BY <1>4, <2>1, <2>3
<1>6. CASE j # c
  BY <1>3, <1>5, <1>6
<1>7. CASE j = c
  <2>1. Leads(c, t)
    BY <1>3, <1>5, <1>7 DEF Won, Leads
  <2>2. Vouched(c, v, node[c], m)
    BY <1>1, <1>5, <1>7, <2>1 DEF FollowInv, Sending
  <2>3. Excerpt(m, a)
    BY <2>2 DEF Vouched
  <2>4. s.log \in Seq(Entries) /\ a \in Seq(Entries) /\ TermsUpTo(a, t)
    BY DEF LogInv, Logs
  <2> HIDE DEF a
  <2>5. Covered(Merge(s.log, m.prevIndex, m.entries), a, t)
    BY <1>3, <1>5, <2>3, <2>4, MergeCovered DEF a
  <2> QED
    BY <1>5, <2>5 DEF a
<1> QED
  BY <1>6, <1>7

LEMMA BackingStep ==
  ASSUME ElectionInv, ReignInv, LogInv, FollowInv, Asking, Timely, Backing,
         NEW i \in Server, NEW u, NEW before, Moved(i, u), Ballots(i, u, before)
  PROVE  Backing'
<1> DEFINE s == node[i]
<1>1. /\ node'[i].role = u.role /\ node'[i].log = u.log /\ node'[i].term = u.term
      /\ node'[i].acks = u.acks
      /\ \A k \in Server : k # i => node'[k] = node[k]
  BY MovedFields DEF Moved
<1>2. \A k \in Server : /\ node[k].log \in Seq(Entries) /\ node[k].term \in Nat
                        /\ node[k].role \in Roles
  BY DEF ReignInv, Fit, Sane
<1>3. /\ u.log \in Seq(Entries) /\ u.term \in Nat /\ s.term <= u.term
      /\ u.role \in Roles
      /\ u.role # "follower" => Prefix(s.log, u.log)
      /\ u.role # "follower" /\ u.term = s.term => s.role # "follower"
  BY MovedLog
<1> SUFFICES ASSUME NEW v \in Server, NEW c \in Server, NEW t \in Nat,
                    node'[c].term = t, node'[c].role # "follower", Supports(v, c, t)'
             PROVE  Backed(v, c, t)'
  BY DEF Backing
<1>5. Supports(v, c, t) \/ Gives(i, u, v, c, t)
  BY DEF Moved
<1>6. node[c].term = t /\ node[c].role # "follower"
  <2>1. CASE c # i
    BY <1>1, <2>1
  <2>2. CASE c = i
    <3>1. Supports(v, c, t)
      BY <1>5, <2>2 DEF Gives
    <3>2. t <= s.term
      BY <2>2, <3>1, SupportTimely
    <3> QED
      BY <1>1, <1>2, <1>3, <2>2, <3>2
  <2> QED
    BY <2>1, <2>2
<1>7. Prefix(node[c].log, node'[c].log) /\ node'[c].log \in Seq(Entries)
  <2>1. CASE c # i
    BY <1>1, <1>2, <2>1, LogDomain DEF Prefix
  <2>2. CASE c = i
    BY <1>1, <1>3, <2>2
  <2> QED
    BY <2>1, <2>2
<1>8. CASE Supports(v, c, t)
  <2>1. Backed(v, c, t)
    BY <1>6, <1>8 DEF Backing
  <2>2. CASE node[v].term > t
    <3>1. node'[v].term > t
      BY <1>1, <1>2, <1>3, <2>2
    <3> QED
      BY <3>1 DEF Backed
  <2>3. CASE \E k \in Server \ {c} : Won(k, t)
    <3>1. \E k \in Server \ {c} : Won(k, t)'
      BY <2>3, WonStable
    <3> QED
      BY <3>1 DEF Backed
  <2>4. CASE Covered(node[v].log, node[c].log, t)
    <3>1. CASE node'[v].log = node[v].log
      <4>1. Covered(node[v].log, node'[c].log, t)
        BY <1>2, <1>7, <2>4, CoveredLonger
      <4> QED
        BY <3>1, <4>1 DEF Backed
    <3>2. CASE node'[v].log # node[v].log
      <4>1. v = i
        BY <1>1, <3>2
      <4>2. /\ v # c /\ t <= s.term
            /\ t = s.term => s.role = "follower"
        BY <1>8, <4>1 DEF ElectionInv, SupportRemembered
      <4>3. CASE u.term > t
        BY <1>1, <4>1, <4>3 DEF Backed
      <4>4. CASE u.term = t
        <5>1. s.term = t /\ s.role = "follower"
          BY <1>2, <1>3, <4>1, <4>2, <4>4
        <5>2. u.role = "follower"
          BY <4>4, <5>1 DEF Moved, Trans
        <5>3. Accepted(i, u)
          <6>1. u.log # s.log
            BY <1>1, <3>2, <4>1
          <6> QED
            BY <5>2, <6>1, MovedLog
        <5>4. Covered(u.log, node[c].log, t) \/ \E k \in Server \ {c} : Won(k, t)
          BY <1>6, <2>4, <4>1, <4>4, <5>3, AcceptedBacked
        <5>5. CASE Covered(u.log, node[c].log, t)
          BY <1>1, <4>1, <4>2, <5>5 DEF Backed
        <5>6. CASE \E k \in Server \ {c} : Won(k, t)
          BY <2>3, <5>6
        <5> QED
          BY <5>4, <5>5, <5>6
      <4> QED
        BY <1>2, <1>3, <4>1, <4>2, <4>3, <4>4
    <3> QED
      BY <3>1, <3>2
  <2> QED
    BY <2>1, <2>2, <2>3, <2>4 DEF Backed
<1>9. CASE ~Supports(v, c, t)
  <2>1. v = i /\ c # i
    BY <1>5, <1>9 DEF Gives
  <2>2. VoteResponse(t, TRUE) \in u.out[c]
    <3>1. VoteResponse(t, TRUE) \in InTransit(v, c)'
      BY <1>1, <1>6, <1>9, <2>1 DEF Supports
    <3>2. VoteResponse(t, TRUE) \notin InTransit(v, c)
      BY <1>9 DEF Supports
    <3> QED
      BY <2>1, <3>1, <3>2 DEF Moved
  <2>3. u.log = s.log /\ Asked(i, c, t)
    BY <2>2, BallotGranted
  <2>4. PICK m \in InTransit(c, i) :
          m.type = "RequestVote" /\ m.term = t /\ IsLogOk(s, m)
    BY <2>3, Zenon DEF Asked
  <2>5. m \in VoteRequests /\ Names(m, node[c].log)
    BY <1>6, <2>4 DEF Asking, ReignInv, Known, Letter
  <2>6. s.log \in Seq(Entries) /\ Rising(s.log)
    BY DEF LogInv, Logs
  <2>7. Covered(s.log, node[c].log, t)
    BY <1>2, <2>4, <2>5, <2>6, VoteCovers
  <2> QED
    BY <1>1, <2>1, <2>3, <2>7 DEF Backed
<1> QED
  BY <1>8, <1>9

-----------------------------------------------------------------------------
(* A vote arrives before what its term accepts *)

Vote(m) == m.type = "RequestVoteResponse" /\ m.ack

\* No OK on a link is of an earlier term than a vote before it.
Ordered(q) ==
  \A k, n \in DOMAIN q : k <= n =>
    \A x \in q[k], y \in q[n] : Vote(x) /\ Ok(y) => x.term <= y.term

InOrder == \A v, c \in Server : Ordered(links[<<v, c>>])

LEMMA QueueOrdered ==
  ASSUME NEW q, Queued(q), Ordered(q), NEW a, NEW b, NEW i, NEW out, NEW lost,
         a = i => \A y \in out[b] : Ok(y) =>
                    \A x \in AllOf(q) \cup out[b] : Vote(x) => x.term <= y.term
  PROVE  Ordered(Queue(<<a, b>>, i, out, lost, q))
<1> DEFINE kept == {m \in out[b] : <<b, m>> \notin lost}
           r == Append(q, kept)
           v == Queue(<<a, b>>, i, out, lost, q)
<1>1. PICK S : q \in Seq(S)
  BY DEF Queued
<1>2. q \in Seq(S \cup {kept}) /\ Len(q) \in Nat /\ DOMAIN q = 1..Len(q)
  BY <1>1
<1>3. kept \subseteq out[b]
  OBVIOUS
<1>4. v = IF a = i /\ kept # {} THEN r ELSE q
  BY DEF Queue
<1> HIDE DEF kept
<1>5. /\ r \in Seq(S \cup {kept}) /\ Len(r) = Len(q) + 1 /\ r[Len(q) + 1] = kept
      /\ \A n \in 1..Len(q) : r[n] = q[n]
  BY <1>2, AppendProperties
<1>6. DOMAIN r = 1..(Len(q) + 1)
  BY <1>5, LenProperties
<1> HIDE DEF r, v
<1>7. ASSUME a = i
      PROVE  Ordered(r)
  <2> SUFFICES ASSUME NEW k \in DOMAIN r, NEW n \in DOMAIN r, k <= n,
                      NEW x \in r[k], NEW y \in r[n], Vote(x), Ok(y)
               PROVE  x.term <= y.term
    BY Zenon DEF Ordered
  <2>1. CASE n \in 1..Len(q)
    <3>1. k \in DOMAIN q /\ n \in DOMAIN q /\ x \in q[k] /\ y \in q[n]
      BY <1>2, <1>5, <1>6, <2>1
    <3> QED
      BY <3>1 DEF Ordered
  <2>2. CASE n \notin 1..Len(q)
    <3>1. y \in out[b]
      BY <1>2, <1>3, <1>5, <1>6, <2>2
    <3>2. x \in AllOf(q) \cup out[b]
      <4>1. CASE k \in 1..Len(q)
        BY <1>2, <1>5, <4>1 DEF AllOf
      <4>2. CASE k \notin 1..Len(q)
        BY <1>2, <1>3, <1>5, <1>6, <4>2
      <4> QED
        BY <4>1, <4>2
    <3> QED
      BY <1>7, <3>1, <3>2
  <2> QED
    BY <2>1, <2>2
<1> QED
  BY <1>4, <1>7 DEF v

LEMMA TakenOrdered ==
  ASSUME ElectionInv, InOrder, NEW i \in Server, NEW j \in Server, NEW m,
         links[<<j, i>>] # <<>>
  PROVE  \A a, b \in Server : Ordered(Taken(j, i, m)[<<a, b>>])
<1> DEFINE q == links[<<j, i>>]
           rest == Head(q) \ {m}
           first == <<rest>>
           others == Tail(q)
           r == IF rest = {} THEN others ELSE first \o others
<1>1. PICK S : q \in Seq(S)
  BY DEF ElectionInv, LinksSound
<1>2. /\ others \in Seq(S) /\ Len(others) = Len(q) - 1 /\ Len(q) \in Nat /\ Len(q) > 0
      /\ DOMAIN q = 1..Len(q) /\ rest \subseteq q[1]
      /\ \A n \in 1..(Len(q) - 1) : others[n] = q[n + 1]
  BY <1>1
<1>3. first \in Seq({rest}) /\ Len(first) = 1 /\ first[1] = rest
  OBVIOUS
<1>4. /\ Taken(j, i, m)[<<j, i>>] = r
      /\ \A a, b \in Server : <<a, b>> # <<j, i>> =>
           Taken(j, i, m)[<<a, b>>] = links[<<a, b>>]
  BY DEF Taken, ElectionInv
<1>5. Ordered(q)
  BY DEF InOrder
<1> HIDE DEF q, rest, first, others
<1>6. \E h \in {0, 1} : \A n \in DOMAIN r :
        n \in Nat /\ n + h \in DOMAIN q /\ r[n] \subseteq q[n + h]
  <2>1. DOMAIN others = 1..(Len(q) - 1)
    BY <1>2, LenProperties
  <2>2. CASE rest = {}
    <3>1. r = others
      BY <2>2
    <3> HIDE DEF r
    <3>2. \A n \in DOMAIN r : n \in Nat /\ n + 1 \in DOMAIN q /\ r[n] \subseteq q[n + 1]
      BY <1>2, <2>1, <3>1
    <3> QED
      BY <3>2
  <2>3. CASE rest # {}
    <3>1. first \in Seq(S \cup {rest}) /\ others \in Seq(S \cup {rest})
      BY <1>2, <1>3
    <3>2. Extension(first \o others, first, others)
      BY <3>1, Joined
    <3>3. r = first \o others
      BY <2>3
    <3> HIDE DEF r
    <3>4. DOMAIN r = 1..Len(q) /\ r[1] = rest
      BY <1>2, <1>3, <3>2, <3>3 DEF Extension
    <3>5. ASSUME NEW n \in DOMAIN r
          PROVE  n \in Nat /\ n + 0 \in DOMAIN q /\ r[n] \subseteq q[n + 0]
      <4>1. n \in Nat /\ n + 0 = n /\ n \in DOMAIN q
        BY <1>2, <3>4
      <4>2. CASE n = 1
        BY <1>2, <3>4, <4>1, <4>2
      <4>3. CASE n # 1
        <5>1. n - 1 \in 1..(Len(q) - 1) /\ (n - 1) + 1 = n /\ 1 + (n - 1) = n
          BY <1>2, <3>4, <4>3
        <5>2. r[1 + (n - 1)] = others[n - 1]
          BY <1>2, <1>3, <3>2, <3>3, <5>1 DEF Extension
        <5>3. others[n - 1] = q[(n - 1) + 1]
          BY <1>2, <5>1
        <5> QED
          BY <4>1, <5>1, <5>2, <5>3
      <4> QED
        BY <4>2, <4>3
    <3> QED
      BY <3>5
  <2> QED
    BY <2>2, <2>3
<1> HIDE DEF r
<1>7. Ordered(r)
  <2> PICK h \in {0, 1} : \A n \in DOMAIN r :
        n \in Nat /\ n + h \in DOMAIN q /\ r[n] \subseteq q[n + h]
    BY <1>6
  <2> SUFFICES ASSUME NEW k \in DOMAIN r, NEW n \in DOMAIN r, k <= n,
                      NEW x \in r[k], NEW y \in r[n], Vote(x), Ok(y)
               PROVE  x.term <= y.term
    BY Zenon DEF Ordered
  <2>1. k + h \in DOMAIN q /\ n + h \in DOMAIN q /\ k + h <= n + h
    OBVIOUS
  <2>2. x \in q[k + h] /\ y \in q[n + h]
    OBVIOUS
  <2> QED
    BY <1>5, <2>1, <2>2 DEF Ordered
<1> QED
  BY <1>4, <1>7 DEF InOrder

\* i answers OK to the leader that sent the request it accepted.
AnswersOk(i, u, k) ==
  \E m \in InTransit(k, i) :
    /\ m.type = "AppendEntries" /\ m.term = u.term
    /\ \E r \in Resolutions(m, node[i].log) : Accepts(i, node[i], u, k, r)

LEMMA NewOk ==
  ASSUME ElectionInv, ReignInv, NEW i \in Server, NEW u, Moved(i, u),
         NEW k \in Server, NEW n \in u.out[k], Ok(n)
  PROVE  /\ k # i /\ n.term = u.term /\ n.match = Len(u.log)
         /\ Won(k, u.term) /\ AnswersOk(i, u, k)
<1> DEFINE s == node[i]
<1>1. Turn(i, s, u) \/ Accepted(i, u)
  BY RunEffect DEF Moved
<1>2. ~ Turn(i, s, u)
  BY DEF Turn, Writ, Ok
<1> PICK j \in Server \ {i} : \E m \in InTransit(j, i) :
          \E r \in Resolutions(m, s.log) :
            m.type = "AppendEntries" /\ Accepts(i, s, u, j, r)
  BY <1>1, <1>2 DEF Accepted
<1>3. PICK m \in InTransit(j, i) :
        \E r \in Resolutions(m, s.log) :
          m.type = "AppendEntries" /\ Accepts(i, s, u, j, r)
  OBVIOUS
<1>4. PICK r \in Resolutions(m, s.log) : Accepts(i, s, u, j, r)
  BY <1>3
<1>5. m \in AppendRequests /\ Won(j, m.term)
  BY <1>3 DEF ReignInv, Known, Letter
<1>6. r.term = m.term
  BY <1>5 DEF Resolutions, AppendRequests
<1>7. u.term = r.term /\ k = j /\ n = AppendResponse(u.term, TRUE, Len(u.log), 0, 0)
  BY <1>4 DEF Accepts, Ok
<1>8. n.term = u.term /\ n.match = Len(u.log)
  BY <1>7 DEF AppendResponse
<1>9. AnswersOk(i, u, k)
  BY <1>3, <1>4, <1>6, <1>7, Zenon DEF AnswersOk
<1> QED
  BY <1>5, <1>6, <1>7, <1>8, <1>9

LEMMA InOrderStep ==
  ASSUME ElectionInv, ReignInv, InOrder, NEW i \in Server, NEW u, NEW before,
         NEW budget, Moved(i, u), Mailed(i, u, before, budget)
  PROVE  InOrder'
<1> DEFINE s == node[i]
<1>1. /\ NothingNew(before)
      /\ \A a, b \in Server : Queued(before[<<a, b>>]) /\ Ordered(before[<<a, b>>])
  <2>1. CASE before = links
    BY <2>1, LinksNotNew DEF InOrder, ElectionInv, LinksSound, Queued
  <2>2. ASSUME NEW j \in Server, links[<<j, i>>] # <<>>, NEW m, before = Taken(j, i, m)
        PROVE  /\ NothingNew(before)
               /\ \A a, b \in Server :
                    Queued(before[<<a, b>>]) /\ Ordered(before[<<a, b>>])
    BY <2>2, TakenNotNew, TakenOrdered DEF NothingNew, Queued
  <2>3. \/ before = links
        \/ \E j \in Server : links[<<j, i>>] # <<>> /\ \E m : before = Taken(j, i, m)
    BY DEF Mailed, Received
  <2> QED
    BY <2>1, <2>2, <2>3
<1>2. PICK lost : links' = [l \in Server \X Server |-> Queue(l, i, u.out, lost, before[l])]
  BY DEF Mailed, Step
<1>3. s.term \in Nat /\ u.term \in Nat /\ s.term <= u.term
  BY MovedLog
<1>4. ASSUME NEW c \in Server, NEW y \in u.out[c], Ok(y),
             NEW x \in AllOf(before[<<i, c>>]) \cup u.out[c], Vote(x)
      PROVE  x.term <= y.term
  <2>1. y.term = u.term
    BY <1>4, NewOk
  <2>2. CASE x \in u.out[c]
    <3>1. Posted(i, s, u, c, x)
      BY <2>2 DEF Moved, Trans
    <3>2. x.term = u.term
      BY <1>4, <3>1 DEF Posted, Plain, Vote, VoteResponse
    <3> QED
      BY <1>3, <2>1, <3>2
  <2>3. CASE x \in AllOf(before[<<i, c>>])
    <3>1. x \in InTransit(i, c)
      BY <1>1, <2>3 DEF NothingNew
    <3>2. Mail(i, c, x)
      BY <3>1 DEF ElectionInv, LinksSound
    <3>3. PICK t \in Nat, ack \in BOOLEAN : x = VoteResponse(t, ack)
      BY <1>4, <3>2 DEF Mail, Plain, Vote
    <3>4. ack = TRUE /\ x.term = t
      BY <1>4, <3>3 DEF Vote, VoteResponse
    <3>5. Supports(i, c, t)
      BY <3>1, <3>3, <3>4 DEF Supports
    <3>6. t <= s.term
      BY <3>5 DEF ElectionInv, SupportRemembered
    <3> QED
      BY <1>3, <2>1, <3>4, <3>6
  <2> QED
    BY <1>4, <2>2, <2>3
<1>5. ASSUME NEW a \in Server, NEW b \in Server
      PROVE  Ordered(links'[<<a, b>>])
  <2>1. links'[<<a, b>>] = Queue(<<a, b>>, i, u.out, lost, before[<<a, b>>])
    BY <1>2
  <2>2. a = i => \A y \in u.out[b] : Ok(y) =>
                   \A x \in AllOf(before[<<a, b>>]) \cup u.out[b] :
                     Vote(x) => x.term <= y.term
    BY <1>4
  <2>3. Ordered(Queue(<<a, b>>, i, u.out, lost, before[<<a, b>>]))
    BY <1>1, <2>2, QueueOrdered
  <2> QED
    BY <2>1, <2>3
<1> QED
  BY <1>5 DEF InOrder

\* Only who leads or has led a term gets an OK of it.
Oks == \A v, c \in Server : \A n \in InTransit(v, c) : Ok(n) => Won(c, n.term)

LEMMA OksStep ==
  ASSUME ElectionInv, ReignInv, Oks, NEW i \in Server, NEW u, Moved(i, u)
  PROVE  Oks'
<1> SUFFICES ASSUME NEW v \in Server, NEW c \in Server, NEW n \in InTransit(v, c)', Ok(n)
             PROVE  Won(c, n.term)'
  BY DEF Oks
<1>1. Won(c, n.term) /\ n.term \in Nat
  <2>1. CASE n \in InTransit(v, c)
    <3>1. Known(v, c, n)
      BY <2>1 DEF ReignInv
    <3> QED
      BY <2>1, <3>1 DEF Oks, Known, Letter, AppendResponses, Ok
  <2>2. CASE n \notin InTransit(v, c)
    <3>1. v = i /\ n \in u.out[c]
      BY <2>2 DEF Moved
    <3>2. u.term \in Nat
      BY MovedLog
    <3> QED
      BY <3>1, <3>2, NewOk
  <2> QED
    BY <2>1, <2>2
<1> QED
  BY <1>1, WonStable

\* Whose vote is counted has sent nothing older than the vote any more.
Recent ==
  \A v, c \in Server : node[c].role # "follower" /\ v \in node[c].acks =>
    \A n \in InTransit(v, c) : Ok(n) => n.term >= node[c].term

LEMMA RecentStep ==
  ASSUME ElectionInv, ElectionInv', ReignInv, InOrder, Recent, NEW i \in Server, NEW u,
         NEW before, Moved(i, u), Ballots(i, u, before)
  PROVE  Recent'
<1> DEFINE s == node[i]
<1>1. /\ node'[i].role = u.role /\ node'[i].term = u.term /\ node'[i].acks = u.acks
      /\ \A k \in Server : k # i => node'[k] = node[k]
  BY MovedFields DEF Moved
<1>2. /\ s.term \in Nat /\ u.term \in Nat /\ s.term <= u.term
      /\ \A k \in Server : node[k].term \in Nat /\ node[k].role \in Roles
  BY MovedLog DEF ReignInv, Fit, Sane
<1> SUFFICES ASSUME NEW v \in Server, NEW c \in Server, node'[c].role # "follower",
                    v \in node'[c].acks, NEW n \in InTransit(v, c)', Ok(n)
             PROVE  n.term >= node'[c].term
  BY DEF Recent
<1>3. v # c
  <2>1. node'[c].term \in Nat /\ node'[c].role \in {"candidate", "leader"}
    BY <1>1, <1>2, MovedLog DEF Roles
  <2>2. \A t \in Nat : node'[c].term = t => Supports(v, c, t)'
    BY <2>1 DEF Supports
  <2>3. \A t \in Nat : Supports(v, c, t)' => v # c
    BY DEF ElectionInv, SupportRemembered
  <2> QED
    BY <2>1, <2>2, <2>3
<1>4. CASE c # i
  <2>1. node'[c] = node[c]
    BY <1>1, <1>4
  <2>2. CASE n \in InTransit(v, c)
    BY <2>1, <2>2 DEF Recent
  <2>3. CASE n \notin InTransit(v, c)
    <3>1. v = i /\ n \in u.out[c]
      BY <2>3 DEF Moved
    <3>2. n.term = u.term
      BY <3>1, NewOk
    <3>3. Supports(v, c, node[c].term)
      BY <1>2, <2>1 DEF Supports, Roles
    <3>4. node[c].term <= s.term
      BY <1>2, <3>1, <3>3 DEF ElectionInv, SupportRemembered
    <3> QED
      BY <1>2, <2>1, <3>2, <3>4
  <2> QED
    BY <2>2, <2>3
<1>5. CASE c = i
  <2>1. n \in InTransit(v, c)
    BY <1>3, <1>5 DEF Moved
  <2>2. /\ s.role # "follower" /\ u.term = s.term
        /\ \/ v \in s.acks
           \/ \E m \in Head(links[<<v, i>>]) :
                m = VoteResponse(s.term, TRUE) /\ links[<<v, i>>] # <<>>
    <3>1. u.role # "follower" /\ v \in u.acks
      BY <1>1, <1>5
    <3>2. u.role # "follower" /\ u.acks # {} =>
            /\ s.role # "follower" /\ u.term = s.term
            /\ \A w \in u.acks :
                 \/ w \in s.acks
                 \/ \E m \in Head(links[<<w, i>>]) :
                      m = VoteResponse(s.term, TRUE) /\ links[<<w, i>>] # <<>>
      BY Zenon DEF Ballots
    <3> QED
      BY <3>1, <3>2
  <2>3. CASE v \in s.acks
    BY <1>1, <1>5, <2>1, <2>2, <2>3 DEF Recent
  <2>4. ASSUME NEW m \in Head(links[<<v, i>>]), m = VoteResponse(s.term, TRUE),
               links[<<v, i>>] # <<>>
        PROVE  s.term <= n.term
    <3> DEFINE q == links[<<v, i>>]
    <3>1. PICK S : q \in Seq(S)
      BY DEF ElectionInv, LinksSound
    <3>2. DOMAIN q = 1..Len(q) /\ 1 \in DOMAIN q /\ m \in q[1]
      <4>1. m \in Head(q) /\ q # <<>>
        BY <2>4
      <4> HIDE DEF q
      <4>2. /\ DOMAIN q = 1..Len(q) /\ Len(q) \in Nat /\ Len(q) > 0
            /\ Head(q) = q[1]
        BY <3>1, <4>1
      <4> QED
        BY <4>1, <4>2
    <3>3. PICK p \in DOMAIN q : n \in q[p]
      BY <1>5, <2>1 DEF InTransit
    <3>4. 1 <= p
      BY <3>2
    <3>5. Vote(m) /\ m.term = s.term
      BY <2>4 DEF Vote, VoteResponse
    <3>6. Ordered(q)
      BY DEF InOrder
    <3> QED
      BY <3>2, <3>3, <3>4, <3>5, <3>6 DEF Ordered
  <2>5. v \notin s.acks => s.term <= n.term
    BY <2>2, <2>4
  <2>6. n.term \in Nat
    <3>1. Known(v, c, n)
      BY <2>1 DEF ReignInv
    <3> QED
      BY <3>1 DEF Known, Letter, AppendResponses, Ok
  <2> QED
    BY <1>1, <1>2, <1>5, <2>2, <2>3, <2>5, <2>6
<1> QED
  BY <1>4, <1>5

-----------------------------------------------------------------------------
(* What a leader commits is in its log *)

\* A merge makes a log that a covers no longer than a: what m leaves behind its
\* last entry is covered by an entry of a that m brought.
LEMMA MergeNoLonger ==
  ASSUME NEW log \in Seq(Entries), NEW a \in Seq(Entries), Matching(log, a),
         NEW m \in AppendRequests, IsLogMatching([log |-> log], m),
         m.prevTerm # Garbage, Excerpt(m, a), NEW t \in Nat,
         \A p \in DOMAIN a : p > m.prevIndex + Len(m.entries) => a[p].term = t,
         Rising(Merge(log, m.prevIndex, m.entries)),
         Covered(Merge(log, m.prevIndex, m.entries), a, t)
  PROVE  Len(Merge(log, m.prevIndex, m.entries)) <= Len(a)
<1> DEFINE last == m.prevIndex + Len(m.entries)
           merged == Merge(log, m.prevIndex, m.entries)
<1>1. m.prevIndex \in Nat /\ m.entries \in Seq(Entries) /\ Len(m.entries) \in Nat
  BY LenProperties DEF AppendRequests
<1>2. /\ last <= Len(a)
      /\ \A k \in DOMAIN m.entries : m.entries[k] = a[m.prevIndex + k]
      /\ m.prevTerm = IF m.prevIndex = 0 THEN 0 ELSE a[m.prevIndex].term
  BY DEF Excerpt
<1>3. m.prevIndex <= Len(log) /\ (m.prevIndex = 0 \/ log[m.prevIndex].term = a[m.prevIndex].term)
  <2>1. Len(log) \in Nat
    BY LogDomain
  <2> QED
    BY <1>1, <1>2, <2>1 DEF IsLogMatching
<1>4. /\ Merged(log, m.prevIndex, m.entries, merged)
      /\ \A p \in 1..last : merged[p] = a[p]
  BY <1>2, <1>3, MergeTakes
<1>5. Rising(merged) /\ Covered(merged, a, t)
  OBVIOUS
<1> HIDE DEF merged
<1>6. /\ merged \in Seq(Entries) /\ Len(merged) \in Nat /\ DOMAIN merged = 1..Len(merged)
      /\ \A p \in DOMAIN merged : merged[p].term \in Nat
      /\ Len(a) \in Nat /\ DOMAIN a = 1..Len(a) /\ last \in Nat /\ last <= Len(merged)
      /\ \A p \in DOMAIN a : a[p].term \in Nat
  BY <1>1, <1>4, LogDomain DEF Merged
<1>7. \A p \in DOMAIN a : p > last => a[p].term = t
  OBVIOUS
<1> DEFINE p == Len(merged)
<1> HIDE DEF last, p
<1>8. SUFFICES ASSUME p > last
               PROVE  p <= Len(a)
  BY <1>2, <1>6 DEF p, merged
<1>9. p \in DOMAIN merged /\ p \in Nat
  BY <1>6, <1>8 DEF p
<1>10. CASE merged[p].term = t /\ p <= Len(a)
  BY <1>10
<1>11. ASSUME NEW q \in DOMAIN a, a[q].term < t,
              merged[p].term < a[q].term \/ (merged[p].term = a[q].term /\ p <= q)
       PROVE  FALSE
  <2>1. q \in 1..last
    BY <1>6, <1>7, <1>11
  <2>2. q < p /\ q \in DOMAIN merged /\ merged[q] = a[q]
    BY <1>4, <1>6, <1>8, <1>9, <2>1
  <2>3. merged[q].term <= merged[p].term
    BY <1>5, <1>9, <2>2 DEF Rising
  <2> QED
    BY <1>6, <1>9, <1>11, <2>1, <2>2, <2>3
<1> QED
  BY <1>5, <1>9, <1>10, <1>11 DEF Covered

\* Where c leads, v, one of those whose votes were counted, is known to match no
\* more than c has, and has told no more.
Trails(v, c) ==
  LET N == Len(node[c].log)
  IN /\ node[c].match[v] <= N
     /\ ~Hybrid => node[c].next[v] <= N + 1
     /\ \A n \in InTransit(v, c) : Ok(n) /\ n.term = node[c].term => n.match <= N
     /\ \A m \in InTransit(c, v) :
          m.type = "AppendEntries" /\ m.term = node[c].term => m.prevTerm # Garbage

Behind ==
  \A v, c \in Server : node[c].role = "leader" /\ v \in node[c].acks => Trails(v, c)

LEMMA AnswerWithin ==
  ASSUME ElectionInv, ReignInv, LogInv, FollowInv, Behind,
         NEW v \in Server, NEW c \in Server, node[c].role = "leader", v \in node[c].acks,
         NEW u, AnswersOk(v, u, c), u.term = node[c].term, Rising(u.log),
         Covered(u.log, node[c].log, u.term)
  PROVE  Len(u.log) <= Len(node[c].log)
<1> DEFINE log == node[v].log
           a == node[c].log
           t == node[c].term
<1>1. PICK m \in InTransit(c, v) :
        /\ m.type = "AppendEntries" /\ m.term = t
        /\ \E r \in Resolutions(m, node[v].log) : Accepts(v, node[v], u, c, r)
  BY DEF AnswersOk
<1>2. m.prevTerm # Garbage
  BY <1>1 DEF Behind, Trails
<1>3. Accepts(v, node[v], u, c, m)
  BY <1>1, <1>2 DEF Resolutions
<1>4. IsLogMatching(node[v], m) /\ u.log = Merge(log, m.prevIndex, m.entries)
  BY <1>3 DEF Accepts
<1>5. IsLogMatching([log |-> log], m)
  BY <1>4 DEF IsLogMatching
<1>6. Vouched(c, v, node[c], m) /\ t \in Nat
  BY <1>1 DEF FollowInv, Sending, Leads, ReignInv, Fit, Sane
<1>7. /\ m \in AppendRequests /\ Excerpt(m, a)
      /\ \A p \in DOMAIN a : p > m.prevIndex + Len(m.entries) => a[p].term = t
  BY <1>6 DEF Vouched, Whole
<1>8. a \in Seq(Entries) /\ log \in Seq(Entries) /\ Matching(log, a)
  BY DEF LogInv, Logs
<1> HIDE DEF log, a, t
<1>9. Rising(Merge(log, m.prevIndex, m.entries))
  BY <1>4
<1>10. Covered(Merge(log, m.prevIndex, m.entries), a, t)
  BY <1>4 DEF a, t
<1>11. Len(Merge(log, m.prevIndex, m.entries)) <= Len(a)
  BY <1>2, <1>5, <1>6, <1>7, <1>8, <1>9, <1>10, MergeNoLonger
<1> QED
  BY <1>4, <1>11 DEF a

\* The leader moves.
LEMMA LeaderTrailed ==
  ASSUME ElectionInv, ReignInv, ReignInv', Oks, Recent, Behind,
         NEW c \in Server, NEW u, NEW before, Moved(c, u), Ballots(c, u, before),
         u.role = "leader", NEW v \in Server \ {c}, v \in u.acks
  PROVE  Trails(v, c)'
<1> DEFINE s == node[c]
           t == s.term
           N == Len(s.log)
<1>1. /\ node'[c].log = u.log /\ node'[c].term = u.term /\ node'[c].next = u.next
      /\ node'[c].match = u.match
  BY MovedFields
<1>2. /\ u.term = t /\ s.role \in {"candidate", "leader"} /\ t \in Nat
      /\ N \in Nat /\ Len(u.log) \in Nat /\ N <= Len(u.log)
  <2>1. s.log \in Seq(Entries) /\ u.log \in Seq(Entries)
    BY MovedLog
  <2>2. /\ u.term = t /\ t \in Nat /\ s.role # "follower" /\ s.role \in Roles
        /\ Prefix(s.log, u.log)
    BY MovedLog
  <2> QED
    BY <2>1, <2>2, LogDomain DEF Prefix, Roles
<1>3. Guides(c, u, v)
  BY RunLeading DEF Moved, Leading
<1>4. \A n \in InTransit(v, c)' : n \in InTransit(v, c)
  BY DEF Moved
<1>5. /\ u.match[v] <= N
      /\ s.role = "leader" => (~Hybrid => s.next[v] <= N + 1)
      /\ \A n \in InTransit(v, c) : Ok(n) /\ n.term = t => n.match <= N
      /\ \A m \in InTransit(c, v) : m.type = "AppendEntries" /\ m.term = t =>
           m.prevTerm # Garbage
  <2>1. CASE s.role = "leader"
    <3>1. u.acks = s.acks
      BY <2>1, Zenon DEF Ballots
    <3>2. Trails(v, c) /\ s.role # "follower"
      BY <2>1, <3>1 DEF Behind
    <3>3. ASSUME Heard(c, v, u.match[v])
          PROVE  u.match[v] <= N
      <4>1. PICK n \in InTransit(v, c) : Ok(n) /\ n.term <= t /\ n.match = u.match[v]
        BY <3>3 DEF Heard
      <4>2. n.term >= t
        BY <3>1, <3>2, <4>1 DEF Recent
      <4>3. n.term \in Nat
        <5>1. Known(v, c, n)
          BY <4>1 DEF ReignInv
        <5> QED
          BY <4>1, <5>1 DEF Known, Letter, AppendResponses, Ok
      <4>4. n.term = t
        BY <1>2, <4>1, <4>2, <4>3
      <4> QED
        BY <3>2, <4>1, <4>4 DEF Trails
    <3> QED
      BY <2>1, <3>2, <3>3, <1>3 DEF Trails, Guides
  <2>2. CASE s.role = "candidate"
    <3>1. ~ Won(c, t)
      BY <1>2, <2>2 DEF Won, Leads
    <3>2. \A n \in InTransit(v, c) : ~ (Ok(n) /\ n.term = t)
      BY <3>1 DEF Oks
    <3>3. \A m \in InTransit(c, v) : ~ (m.type = "AppendEntries" /\ m.term = t)
      BY <3>1 DEF ReignInv, Known
    <3>4. u.match[v] = 0
      BY <1>3, <2>2 DEF Guides
    <3> QED
      BY <1>2, <2>2, <3>2, <3>3, <3>4
  <2> QED
    BY <1>2, <2>1, <2>2
<1>6. ~Hybrid => u.next[v] <= Len(u.log) + 1 /\ \A m \in u.out[v] : InRange(m)
  BY <1>3, <1>5 DEF Guides, Steady
<1>7. ASSUME NEW m \in InTransit(c, v)', m.type = "AppendEntries", m.term = t
      PROVE  m.prevTerm # Garbage
  <2>1. CASE Hybrid
    BY <1>7, <2>1 DEF ReignInv, Known
  <2>2. CASE ~Hybrid /\ m \in InTransit(c, v)
    BY <1>5, <1>7, <2>2
  <2>3. CASE ~Hybrid /\ m \in u.out[v]
    BY <1>6, <1>7, <2>3 DEF InRange
  <2> QED
    BY <2>1, <2>2, <2>3 DEF Moved
<1>8. u.match[v] <= Len(u.log)
  <2>1. u.match[v] \in Nat
    BY <1>1 DEF ReignInv, Fit, Sane
  <2> QED
    BY <1>2, <1>5, <2>1
<1>9. ASSUME NEW n \in InTransit(v, c)', Ok(n), n.term = t
      PROVE  n.match <= Len(u.log)
  <2>1. n \in InTransit(v, c) /\ n.match <= N
    BY <1>4, <1>5, <1>9
  <2>2. n.match \in Nat
    <3>1. Known(v, c, n)
      BY <2>1 DEF ReignInv
    <3> QED
      BY <1>9, <3>1 DEF Known, Letter, AppendResponses, Ok
  <2> QED
    BY <1>2, <2>1, <2>2
<1> QED
  BY <1>1, <1>2, <1>6, <1>7, <1>8, <1>9 DEF Trails

\* The follower moves.
LEMMA FollowerTrails ==
  ASSUME ElectionInv, ElectionInv', ReignInv, LogInv, FollowInv, Behind, Backing',
         NEW v \in Server, NEW u, Moved(v, u), NEW c \in Server \ {v},
         node[c].role = "leader", v \in node[c].acks
  PROVE  Trails(v, c)'
<1> PICK t \in Nat : t = node[c].term
  BY DEF ReignInv, Fit, Sane
<1>1. node'[c] = node[c] /\ node'[v].term = u.term /\ node'[v].log = u.log
  BY MovedFields DEF Moved
<1>2. Trails(v, c)
  BY DEF Behind
<1>3. \A m \in InTransit(c, v)' : m \in InTransit(c, v)
  BY DEF Moved
<1>4. ASSUME NEW n \in u.out[c], Ok(n), n.term = t
      PROVE  n.match <= Len(node[c].log)
  <2>1. /\ c # v /\ u.term = t /\ n.match = Len(u.log) /\ AnswersOk(v, u, c)
    BY <1>4, NewOk
  <2>2. Covered(u.log, node[c].log, t)
    <3>1. Supports(v, c, t)' /\ Leads(c, t)'
      BY <1>1 DEF Supports, Leads
    <3>2. Backed(v, c, t)'
      BY <1>1, <1>2, <3>1 DEF Backing
    <3>3. ASSUME NEW k \in Server \ {c}, Won(k, t)'
          PROVE  FALSE
      BY <1>2, <3>1, <3>3, WonOnceNext
    <3>4. ~ (u.term > t)
      BY <1>2, <2>1
    <3> QED
      BY <1>1, <3>2, <3>3, <3>4 DEF Backed
  <2>3. Rising(u.log)
    <3>1. Accepted(v, u)
      BY <2>1 DEF AnswersOk, Accepted
    <3>2. PICK S : Logs(S)
      BY DEF LogInv
    <3>3. Joins(S, u)
      BY <3>1, <3>2, AcceptedJoins
    <3> QED
      BY <3>3 DEF Joins
  <2> QED
    BY <2>1, <2>2, <2>3, AnswerWithin
<1>5. ASSUME NEW n \in InTransit(v, c)', Ok(n), n.term = t
      PROVE  n.match <= Len(node[c].log)
  <2>1. n \in InTransit(v, c) \/ n \in u.out[c]
    BY DEF Moved
  <2> QED
    BY <1>2, <1>4, <1>5, <2>1 DEF Trails
<1> QED
  BY <1>1, <1>2, <1>3, <1>5 DEF Trails

LEMMA BehindStep ==
  ASSUME ElectionInv, ElectionInv', ReignInv, ReignInv', LogInv, FollowInv,
         Oks, Recent, Behind, Backing', NEW i \in Server, NEW u, NEW before,
         Moved(i, u), Ballots(i, u, before)
  PROVE  Behind'
<1>1. /\ node'[i].role = u.role /\ node'[i].acks = u.acks
      /\ \A k \in Server : k # i => node'[k] = node[k]
  BY MovedFields DEF Moved
<1> SUFFICES ASSUME NEW v \in Server, NEW c \in Server, node'[c].role = "leader",
                    v \in node'[c].acks
             PROVE  Trails(v, c)'
  BY DEF Behind
<1>2. v # c
  <2>1. node'[c].term \in Nat
    BY DEF ReignInv, Fit, Sane
  <2>2. \A t \in Nat : node'[c].term = t => Supports(v, c, t)'
    BY DEF Supports
  <2>3. \A t \in Nat : Supports(v, c, t)' => v # c
    BY DEF ElectionInv, SupportRemembered
  <2> QED
    BY <2>1, <2>2, <2>3
<1>3. CASE c = i
  BY <1>1, <1>2, <1>3, LeaderTrailed
<1>4. CASE v = i
  BY <1>1, <1>2, <1>4, FollowerTrails
<1>5. CASE c # i /\ v # i
  <2>1. Trails(v, c) /\ node'[c] = node[c]
    BY <1>1, <1>5 DEF Behind
  <2>2. /\ \A n \in InTransit(v, c)' : n \in InTransit(v, c)
        /\ \A m \in InTransit(c, v)' : m \in InTransit(c, v)
    BY <1>5 DEF Moved
  <2> QED
    BY <2>1, <2>2 DEF Trails
<1> QED
  BY <1>3, <1>4, <1>5

VoteInv ==
  /\ Fresh /\ Asking /\ Timely
  /\ Backing
  /\ InOrder /\ Oks /\ Recent
  /\ Behind

LEMMA VoteInit == Init => VoteInv
<1> SUFFICES ASSUME Init PROVE VoteInv
  OBVIOUS
<1>1. \A j, k \in Server : InTransit(j, k) = {} /\ links[<<j, k>>] = <<>>
  BY DEF Init, InTransit
<1>2. \A i \in Server : node[i].role = "follower"
  BY DEF Init, InitNode
<1>3. InOrder
  BY <1>1 DEF InOrder, Ordered
<1> QED
  BY <1>1, <1>2, <1>3 DEF VoteInv, Fresh, Asking, Timely, Backing, Oks, Recent, Behind

LEMMA VoteInvInductive ==
  /\ ElectionInv /\ ReignInv /\ LogInv /\ FollowInv /\ VoteInv
  /\ ElectionInv' /\ ReignInv'
  /\ [Next]_vars
  => VoteInv'
<1> SUFFICES ASSUME ElectionInv, ReignInv, LogInv, FollowInv, VoteInv,
                    ElectionInv', ReignInv', [Next]_vars
             PROVE  VoteInv'
  OBVIOUS
<1> /\ Fresh /\ Asking /\ Timely /\ Backing /\ InOrder /\ Oks /\ Recent /\ Behind
  BY DEF VoteInv
<1>1. CASE Next
  <2>1. PICK i \in Server : \E u, before, budget :
          Moved(i, u) /\ Mailed(i, u, before, budget)
    BY <1>1, NextMailed
  <2>2. PICK u, before, budget : Moved(i, u) /\ Mailed(i, u, before, budget)
    BY <2>1
  <2>3. Ballots(i, u, before)
    BY <2>2, MailedBallots DEF Mailed
  <2>4. Fresh'
    BY <2>2, FreshStep
  <2>5. Asking' /\ Timely'
    BY <2>2, <2>3, <2>4, AskingStep, TimelyStep
  <2>6. Backing'
    BY <2>2, <2>3, BackingStep
  <2>7. InOrder' /\ Oks' /\ Recent'
    BY <2>2, <2>3, InOrderStep, OksStep, RecentStep
  <2>8. Behind'
    BY <2>2, <2>3, <2>6, BehindStep
  <2> QED
    BY <2>4, <2>5, <2>6, <2>7, <2>8 DEF VoteInv
<1>2. CASE UNCHANGED vars
  <2>1. node' = node /\ links' = links
        /\ \A j, k \in Server : InTransit(j, k)' = InTransit(j, k)
    BY <1>2 DEF vars, InTransit
  <2>2. Fresh' /\ Asking' /\ Timely' /\ InOrder' /\ Recent' /\ Behind'
    BY <2>1 DEF Fresh, Asking, Timely, InOrder, Recent, Behind, Trails
  <2>3. \A k \in Server : \A t : Won(k, t) => Won(k, t)'
    BY <1>2, WonKept
  <2>4. Oks'
    BY <2>1, <2>3 DEF Oks
  <2>5. Backing'
    <3> SUFFICES ASSUME NEW v \in Server, NEW c \in Server, NEW t \in Nat,
                        node'[c].term = t, node'[c].role # "follower", Supports(v, c, t)'
                 PROVE  Backed(v, c, t)'
      BY DEF Backing
    <3>1. Supports(v, c, t)
      BY <2>1 DEF Supports
    <3>2. Backed(v, c, t)
      BY <2>1, <3>1 DEF Backing
    <3> QED
      BY <2>1, <2>3, <3>2 DEF Backed
  <2> QED
    BY <2>2, <2>4, <2>5 DEF VoteInv
<1> QED
  BY <1>1, <1>2

\* Whoever votes for a candidate holds nothing beyond the entry that its request
\* named, but for what the candidate itself has sent it since; and links keep their
\* order, so that nothing a voter acknowledged before its vote is still to come.
THEOREM VoteInvHolds == Spec => []VoteInv
<1>1. Init => VoteInv
  BY VoteInit
<1>2. /\ ElectionInv /\ ReignInv /\ LogInv /\ FollowInv /\ VoteInv
      /\ ElectionInv' /\ ReignInv'
      /\ [Next]_vars
      => VoteInv'
  BY VoteInvInductive
<1> QED
  BY <1>1, <1>2, ElectionInvHolds, ReignInvHolds, LogInvHolds, FollowInvHolds, PTL DEF Spec

\* UpdateCommitIndex reads the term of an entry that is there, in raft/ as in
\* hybrid_raft/: a majority reaches the position, another one elected the leader,
\* and nobody in both is known to match more than the leader's log holds.
THEOREM Commits_WithinLog == Spec => []CommitsWithinLog
<1>1. ElectionInv /\ ReignInv /\ VoteInv => CommitsWithinLog
  <2> SUFFICES ASSUME ElectionInv, ReignInv, VoteInv, NEW i \in Server,
                      node[i].role = "leader"
               PROVE  MajorityMatch(node[i], i) <= Len(node[i].log)
    BY DEF CommitsWithinLog
  <2> DEFINE s == node[i]
             N == Cardinality(Server)
             P == s.acks \cup {i}
             M == MajorityMatch(s, i)
             Q == {j \in Server : Reach(s, i, j) >= M}
  <2>1. Sane(s) /\ s.term \in Nat /\ Len(s.log) \in Nat
    BY SaneLog DEF ReignInv, Fit, Sane
  <2>2. Majority(P)
    BY <2>1, LeadersMajority DEF Leads
  <2>3. M \in Nat /\ Majority(Q)
    BY <2>1, MajorityMatchBacked DEF Majority
  <2> HIDE DEF P, M, Q
  <2>4. Cardinality(P) \in Nat /\ Cardinality(Q) \in Nat /\ N \in Nat
    BY <2>2, <2>3, ServerAssumption, FS_Subset, FS_CardinalityType DEF Majority
  <2>5. Cardinality(P) + Cardinality(Q) > N
    <3>1. \A a, b \in Nat : a > N \div 2 /\ b > N \div 2 => a + b > N
      BY <2>4
    <3> HIDE DEF N
    <3> QED
      BY <2>2, <2>3, <2>4, <3>1 DEF Majority, N
  <2>6. PICK v \in Server : v \in P /\ v \in Q
    BY <2>2, <2>3, <2>5, ServerAssumption, FS_MajoritiesIntersect DEF Majority
  <2>7. Reach(s, i, v) >= M
    BY <2>6 DEF Q
  <2>8. CASE v = i
    BY <2>1, <2>3, <2>7, <2>8 DEF Reach, M
  <2>9. CASE v # i
    <3>1. v \in s.acks
      BY <2>6, <2>9 DEF P
    <3>2. s.match[v] <= Len(s.log)
      BY <3>1 DEF VoteInv, Behind, Trails
    <3>3. s.match[v] \in Nat /\ s.match[v] >= M
      BY <2>1, <2>7, <2>9 DEF Sane, Reach
    <3> QED
      BY <2>1, <2>3, <3>2, <3>3 DEF M
  <2> QED
    BY <2>8, <2>9
<1> QED
  BY <1>1, ElectionInvHolds, ReignInvHolds, VoteInvHolds, PTL

=============================================================================
