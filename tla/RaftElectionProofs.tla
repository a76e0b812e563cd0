------------------------- MODULE RaftElectionProofs -------------------------
(***************************************************************************)
(* At most one leader per term, for any number of nodes, commands, losses  *)
(* and timeouts.                                                           *)
(*                                                                         *)
(* The handlers are long, but few of their steps concern the election.     *)
(* Neutral(s, u) says that u differs from s in other things only, and the  *)
(* first part shows it of every helper that does nothing else.  Trans      *)
(* gathers what the invariant needs of a handler run; every handler is a   *)
(* change of role that satisfies it, followed by neutral helpers.          *)
(***************************************************************************)
EXTENDS RaftProperties, FiniteSetTheorems, SequenceTheorems, TLAPS

\* A node's record.  Its election needs no type of the other fields.
Shape(s) ==
  /\ DOMAIN s = {"role", "term", "votedFor", "votes", "acks", "leader", "log",
                 "next", "match", "commit", "kv", "pending", "inflight",
                 "responses", "electionArmed", "heartbeatArmed", "out", "answered"}
  /\ DOMAIN s.out = Server

\* Messages that are no part of an election; those of a term t carry it.
Plain(m, t) ==
  \/ /\ m.type \in {"AppendEntries", "AppendEntriesResponse"}
     /\ {"type", "term"} \subseteq DOMAIN m
     /\ m.term = t
  \/ m.type \in {"client_command_redirected", "client_command_redirected_response"}

SameElection(s, u) ==
  /\ u.role = s.role /\ u.term = s.term /\ u.votedFor = s.votedFor
  /\ u.votes = s.votes /\ u.acks = s.acks

Neutral(s, u) ==
  /\ Shape(u)
  /\ SameElection(s, u)
  /\ \A k \in Server : \A m \in u.out[k] : m \in s.out[k] \/ Plain(m, s.term)

-----------------------------------------------------------------------------
(* Helpers that leave the election alone *)

LEMMA NeutralSelf ==
  ASSUME NEW s, Shape(s)
  PROVE  Neutral(s, s)
  BY DEF Neutral, SameElection

LEMMA NeutralTrans ==
  ASSUME NEW s, NEW u, NEW v, Neutral(s, u), Neutral(u, v)
  PROVE  Neutral(s, v)
  BY DEF Neutral, SameElection

LEMMA PostNeutral ==
  ASSUME NEW s, Shape(s), NEW j, NEW m, Plain(m, s.term)
  PROVE  Neutral(s, Post(s, j, m))
  BY DEF Neutral, SameElection, Post, Shape

LEMMA ResponsePlain ==
  ASSUME NEW cmd, NEW ok, NEW value, NEW t
  PROVE  Plain(RedirectResponse(cmd, ok, value), t)
  BY DEF RedirectResponse, Plain

LEMMA AppendRequestPlain ==
  ASSUME NEW s, NEW j
  PROVE  Plain(AppendRequestFor(s, j), s.term)
  BY DEF AppendRequestFor, AppendRequest, Plain

LEMMA CommitNeutral ==
  ASSUME NEW s, Shape(s), NEW upTo
  PROVE  Neutral(s, Commit(s, upTo))
  BY DEF Neutral, SameElection, Commit, Shape

LEMMA ResetNeutral ==
  ASSUME NEW s, Shape(s)
  PROVE  Neutral(s, ResetElectionTimer(s))
  BY DEF Neutral, SameElection, ResetElectionTimer, Shape

LEMMA RequeueAllNeutral ==
  ASSUME NEW s, Shape(s)
  PROVE  Neutral(s, RequeueAllInflight(s))
  BY DEF Neutral, SameElection, RequeueAllInflight, Shape

LEMMA RequeueNotToNeutral ==
  ASSUME NEW s, Shape(s), NEW l
  PROVE  Neutral(s, RequeueInflightNotTo(s, l))
  BY DEF Neutral, SameElection, RequeueInflightNotTo, Shape

LEMMA DrainNeutral ==
  ASSUME NEW s, Shape(s), NEW ok, NEW n
  PROVE  Neutral(s, DrainPendingClientResponses(s, ok, n))
  BY ResponsePlain DEF Neutral, SameElection, DrainPendingClientResponses, Shape

LEMMA RespondNeutral ==
  ASSUME NEW s, Shape(s), NEW to, NEW cmd, NEW ok, NEW value
  PROVE  Neutral(s, Respond(s, to, cmd, ok, value))
<1>1. CASE to = Nobody
  BY <1>1 DEF Neutral, SameElection, Respond, Shape
<1>2. CASE to # Nobody
  BY <1>2, PostNeutral, ResponsePlain DEF Respond
<1> QED
  BY <1>1, <1>2

LEMMA SendNeutral ==
  ASSUME NEW s, Shape(s), NEW peers
  PROVE  Neutral(s, SendAppendEntries(s, peers))
  BY AppendRequestPlain DEF Neutral, SameElection, SendAppendEntries, Shape

LEMMA UpdateCommitIndexNeutral ==
  ASSUME NEW s, Shape(s), NEW i
  PROVE  Neutral(s, UpdateCommitIndex(s, i))
<1> DEFINE candidate == MajorityMatch(s, i)
           committed == Commit(s, candidate)
<1>1. Neutral(s, committed) /\ Shape(committed)
  BY CommitNeutral DEF Neutral
<1>2. Neutral(s, DrainPendingClientResponses(committed, TRUE,
                                             CommittedResponses(committed)))
  BY <1>1, DrainNeutral, NeutralTrans
<1> QED
  BY <1>2, NeutralSelf DEF UpdateCommitIndex

LEMMA ExecuteNeutral ==
  ASSUME NEW s, Shape(s), NEW i, NEW cmd, NEW to
  PROVE  Neutral(s, ExecuteClientCommand(s, i, cmd, to))
<1>1. CASE cmd \in Reads
  BY <1>1, RespondNeutral DEF ExecuteClientCommand
<1>2. CASE cmd \notin Reads
  <2> DEFINE appended ==
        [s EXCEPT !.log = Append(@, Entry(s, cmd)),
                  !.responses = Append(@, [index |-> Len(s.log) + 1,
                                           redirectTo |-> to, cmd |-> cmd])]
             sent == SendAppendEntries(appended, Peers(i))
  <2>1. Neutral(s, appended) /\ Shape(appended)
    BY DEF Neutral, SameElection, Shape
  <2> HIDE DEF appended
  <2>2. Neutral(s, sent) /\ Shape(sent)
    BY <2>1, SendNeutral, NeutralTrans DEF Neutral
  <2> HIDE DEF sent
  <2>3. Neutral(s, UpdateCommitIndex(sent, i))
    BY <2>2, UpdateCommitIndexNeutral, NeutralTrans
  <2>4. ExecuteClientCommand(s, i, cmd, to) = UpdateCommitIndex(sent, i)
    BY <1>2 DEF ExecuteClientCommand, appended, sent
  <2> QED
    BY <2>3, <2>4
<1> QED
  BY <1>1, <1>2

LEMMA ExecutePendingNeutral ==
  ASSUME NEW s, Shape(s), NEW i
  PROVE  Neutral(s, ExecutePending(s, i))
<1> DEFINE u == ExecutePending(s, i)
           writes == Filter(s.pending, Writes)
           grown == s.log \o [k \in DOMAIN writes |-> Entry(s, writes[k])]
           request(j, k) == [AppendRequestFor(s, j) EXCEPT
                               !.entries = SubSeq(grown, Len(s.log) + 1, Len(s.log) + k)]
           requests(j) == {request(j, k) : k \in DOMAIN writes}
           mail == [j \in Server |-> IF j = i THEN s.out[j]
                                    ELSE s.out[j] \cup requests(j)]
<1>1. \A j, k : Plain(request(j, k), s.term)
  BY DEF AppendRequestFor, AppendRequest, Plain
<1> HIDE DEF request
<1>2. \A j : \A m \in requests(j) : Plain(m, s.term)
  BY <1>1
<1>3. Shape(u) /\ u.out = mail /\ SameElection(s, u)
  BY DEF ExecutePending, Shape, SameElection, request
<1> HIDE DEF u, requests
<1>4. \A k \in Server : \A m \in u.out[k] : m \in s.out[k] \/ Plain(m, s.term)
  BY <1>2, <1>3
<1> QED
  BY <1>3, <1>4 DEF Neutral, u

LEMMA ForwardNeutral ==
  ASSUME NEW s, Shape(s), NEW cmds
  PROVE  Neutral(s, ForwardToLeader(s, cmds))
  BY DEF Neutral, SameElection, ForwardToLeader, Shape, Redirect, Plain

LEMMA FlushNeutral ==
  ASSUME NEW s, Shape(s), NEW i
  PROVE  Neutral(s, FlushPendingClientCommands(s, i))
<1> DEFINE flushed == [s EXCEPT !.pending = <<>>]
<1>1. Neutral(s, flushed) /\ Shape(flushed)
  BY DEF Neutral, SameElection, Shape
<1> HIDE DEF flushed
<1>2. Neutral(s, ForwardToLeader(flushed, s.pending))
  BY <1>1, ForwardNeutral, NeutralTrans
<1> QED
  BY <1>2, NeutralSelf, ExecutePendingNeutral DEF FlushPendingClientCommands, flushed

LEMMA SubmitNeutral ==
  ASSUME NEW s, Shape(s), NEW i, NEW cmd
  PROVE  Neutral(s, SubmitCommand(s, i, cmd))
<1>1. Neutral(s, [s EXCEPT !.pending = Append(@, cmd)])
  BY DEF Neutral, SameElection, Shape
<1> QED
  BY <1>1, ExecuteNeutral, ForwardNeutral DEF SubmitCommand

LEMMA RedirectedNeutral ==
  ASSUME NEW s, Shape(s), NEW i, NEW j, NEW m
  PROVE  Neutral(s, HandleClientCommandRedirected(s, i, j, m))
  BY ExecuteNeutral, NeutralSelf DEF HandleClientCommandRedirected

LEMMA RedirectedResponseNeutral ==
  ASSUME NEW s, Shape(s), NEW j, NEW m
  PROVE  Neutral(s, HandleClientCommandRedirectedResponse(s, j, m))
<1> DEFINE first == FirstOf(MatchingInflight(s, j, m.cmd))
           cmd == s.inflight[first].cmd
<1>1. ASSUME NEW q
      PROVE  Neutral(s, Respond([s EXCEPT !.inflight = q], Nobody, cmd, m.ok, m.value))
  <2>1. Neutral(s, [s EXCEPT !.inflight = q]) /\ Shape([s EXCEPT !.inflight = q])
    BY DEF Neutral, SameElection, Shape
  <2> QED
    BY <2>1, RespondNeutral, NeutralTrans
<1>2. HandleClientCommandRedirectedResponse(s, j, m) =
        IF MatchingInflight(s, j, m.cmd) = {} THEN s
        ELSE Respond([s EXCEPT !.inflight = SubSeq(s.inflight, 1, first - 1)
                                     \o SubSeq(s.inflight, first + 1, Len(s.inflight))],
                     Nobody, cmd, m.ok, m.value)
  BY DEF HandleClientCommandRedirectedResponse
<1> HIDE DEF cmd, first
<1> QED
  BY <1>1, <1>2, NeutralSelf

LEMMA RejectNeutral ==
  ASSUME NEW s, Shape(s), NEW j, NEW m
  PROVE  /\ Neutral(s, Post(s, j, Reject(s, m)))
         /\ Neutral(s, Post(s, j, AppendResponse(s.term, FALSE, 0, 0, 0)))
<1>1. \A ok, match, hi, ht : Plain(AppendResponse(s.term, ok, match, hi, ht), s.term)
  BY DEF AppendResponse, Plain
<1>2. Plain(Reject(s, m), s.term)
  BY <1>1 DEF Reject, ConflictHintReject
<1> QED
  BY <1>1, <1>2, PostNeutral

LEMMA AcceptNeutral ==
  ASSUME NEW s, Shape(s), NEW i, NEW j, NEW m
  PROVE  Neutral(s, Accept(s, i, j, m))
<1> DEFINE log == Merge(s.log, m.prevIndex, m.entries)
           upTo == IF m.commit <= Len(log) THEN m.commit ELSE Len(log)
           requeued == RequeueInflightNotTo(ResetElectionTimer(s), j)
           u == [requeued EXCEPT !.leader = j, !.log = log]
           v == IF upTo > s.commit THEN Commit(u, upTo) ELSE u
           w == Post(v, j, AppendResponse(s.term, TRUE, Len(log), 0, 0))
<1> HIDE DEF log, upTo
<1>1. Neutral(s, requeued) /\ Shape(requeued)
  BY ResetNeutral, RequeueNotToNeutral, NeutralTrans DEF Neutral
<1> HIDE DEF requeued
<1>2. Neutral(requeued, u) /\ Shape(u)
  BY <1>1 DEF Neutral, SameElection, Shape
<1> HIDE DEF u
<1>3. Neutral(u, v) /\ Shape(v)
  BY <1>2, CommitNeutral, NeutralSelf DEF Neutral
<1> HIDE DEF v
<1>4. Neutral(s, v)
  BY <1>1, <1>2, <1>3, NeutralTrans
<1>5. Plain(AppendResponse(s.term, TRUE, Len(log), 0, 0), v.term)
  BY <1>4 DEF AppendResponse, Plain, Neutral, SameElection
<1>6. Neutral(v, w) /\ Shape(w)
  BY <1>3, <1>5, PostNeutral DEF Neutral
<1>7. Neutral(s, FlushPendingClientCommands(w, i))
  BY <1>4, <1>6, FlushNeutral, NeutralTrans
<1> QED
  BY <1>7 DEF Accept, log, upTo, requeued, u, v

LEMMA BackedOffNeutral ==
  ASSUME NEW s, Shape(s), NEW i, NEW j, NEW m
  PROVE  /\ Neutral(s, SendAppendEntries([s EXCEPT !.next[j] = BackOff(s, j, m)], {j}))
         /\ \A match, next :
              Neutral(s, UpdateCommitIndex(
                           [s EXCEPT !.match[j] = match, !.next[j] = next], i))
<1>1. ASSUME NEW next
      PROVE  Neutral(s, [s EXCEPT !.next[j] = next]) /\ Shape([s EXCEPT !.next[j] = next])
  BY DEF Neutral, SameElection, Shape
<1>2. ASSUME NEW match, NEW next
      PROVE  /\ Neutral(s, [s EXCEPT !.match[j] = match, !.next[j] = next])
             /\ Shape([s EXCEPT !.match[j] = match, !.next[j] = next])
  BY DEF Neutral, SameElection, Shape
<1>3. Neutral(s, SendAppendEntries([s EXCEPT !.next[j] = BackOff(s, j, m)], {j}))
  BY <1>1, SendNeutral, NeutralTrans
<1>4. ASSUME NEW match, NEW next
      PROVE  Neutral(s, UpdateCommitIndex(
                          [s EXCEPT !.match[j] = match, !.next[j] = next], i))
  BY <1>2, UpdateCommitIndexNeutral, NeutralTrans
<1> QED
  BY <1>3, <1>4

-----------------------------------------------------------------------------
(* What a handler run does to an election *)

\* The part of the invariant that concerns the record s of one node i.
Ballot(i, s) ==
  /\ Shape(s)
  /\ s.role \in Roles /\ s.term \in Nat
  /\ s.votedFor \in Server \cup {Nobody} /\ s.acks \in SUBSET Server
  /\ s.role # "follower" => s.votedFor = i /\ s.votes = Cardinality(s.acks) + 1
  /\ s.role = "leader" => HasElectionMajority(s)

\* Everyone whose vote is counted in s supports i: a past vote, remembered.
Counted(i, s) ==
  s.role # "follower" => \A v \in s.acks : Supports(v, i, s.term)

\* A message that i, which entered the handler as s and left it as u, may send
\* to k.  A vote is given only to another node, by a follower that records it
\* and has not voted for anyone else in that term.
Posted(i, s, u, k, m) ==
  \/ \E t \in Nat : Plain(m, t)
  \/ /\ m.type = "RequestVote" /\ k # i
     /\ {"type", "term"} \subseteq DOMAIN m /\ m.term = u.term
  \/ \E ack \in BOOLEAN :
       /\ m = VoteResponse(u.term, ack)
       /\ ack => /\ k # i /\ u.votedFor = k /\ u.role = "follower"
                 /\ s.term < u.term \/ s.votedFor \in {Nobody, k}

\* Node i's record may go from s to u.
Trans(i, s, u) ==
  /\ Ballot(i, u)
  /\ Counted(i, u)
  /\ s.term <= u.term
  /\ s.term = u.term /\ s.votedFor \notin {Nobody, u.votedFor} =>
       s.votedFor = i /\ s.role = "candidate" /\ u.role = "follower"
  /\ s.term = u.term /\ s.role \in {"follower", "leader"} => u.role = s.role
  /\ \A k \in Server : \A m \in u.out[k] : Posted(i, s, u, k, m)

\* A record between two handler runs.
AtRest(i, s) == Ballot(i, s) /\ Counted(i, s) /\ s.out = NoMessages

LEMMA TransSelf ==
  ASSUME NEW i, NEW s, AtRest(i, s)
  PROVE  Trans(i, s, s)
  BY DEF AtRest, Trans, NoMessages, Ballot

LEMMA TransNeutral ==
  ASSUME NEW i, NEW s, NEW u, NEW w, Trans(i, s, u), Neutral(u, w)
  PROVE  Trans(i, s, w)
<1>1. Ballot(i, w) /\ Counted(i, w) /\ u.term \in Nat
  BY DEF Trans, Neutral, SameElection, Ballot, Counted, HasElectionMajority
<1>2. ASSUME NEW k \in Server, NEW m \in w.out[k]
      PROVE  Posted(i, s, w, k, m)
  <2>1. CASE m \in u.out[k]
    BY <2>1 DEF Trans, Posted, Neutral, SameElection
  <2>2. CASE Plain(m, u.term)
    BY <1>1, <2>2 DEF Posted
  <2> QED
    BY <2>1, <2>2 DEF Neutral
<1> QED
  BY <1>1, <1>2 DEF Trans, Neutral, SameElection

LEMMA RestNeutral ==
  ASSUME NEW i, NEW s, NEW w, AtRest(i, s), Neutral(s, w)
  PROVE  Trans(i, s, w)
  BY TransSelf, TransNeutral

LEMMA BecomeFollowerTrans ==
  ASSUME NEW i, NEW s, AtRest(i, s), NEW t \in Nat, t > s.term
  PROVE  LET u == BecomeFollower(s, t)
         IN /\ Trans(i, s, u)
            /\ u.role = "follower" /\ u.votedFor = Nobody /\ u.term = t
            /\ \A k \in Server : \A m \in u.out[k] : Plain(m, s.term)
<1> DEFINE drained == DrainPendingClientResponses(s, FALSE, Len(s.responses))
           requeued == RequeueAllInflight(drained)
           u == BecomeFollower(s, t)
<1>1. Shape(s) /\ s.term \in Nat /\ s.acks \in SUBSET Server
  BY DEF AtRest, Ballot
<1>2. Neutral(s, requeued) /\ Shape(requeued)
  <2>1. Neutral(s, drained) /\ Shape(drained)
    BY <1>1, DrainNeutral DEF Neutral
  <2> HIDE DEF drained
  <2>2. Neutral(drained, requeued) /\ Shape(requeued)
    BY <2>1, RequeueAllNeutral DEF Neutral
  <2> HIDE DEF requeued
  <2> QED
    BY <2>1, <2>2, NeutralTrans
<1>3. u = [requeued EXCEPT
             !.role = "follower", !.term = t, !.votedFor = Nobody, !.votes = 0,
             !.acks = {}, !.leader = Nobody, !.electionArmed = TRUE]
  BY DEF BecomeFollower
<1> HIDE DEF drained, requeued, u
<1>4. /\ Shape(u) /\ u.role = "follower" /\ u.votedFor = Nobody /\ u.term = t
      /\ u.acks = {} /\ u.out = requeued.out
  BY <1>2, <1>3 DEF Shape
<1>5. \A k \in Server : \A m \in u.out[k] : Plain(m, s.term)
  BY <1>2, <1>4 DEF Neutral, AtRest, NoMessages
<1>6. Ballot(i, u) /\ Counted(i, u)
  BY <1>4 DEF Ballot, Roles, Counted
<1>7. Trans(i, s, u)
  BY <1>1, <1>4, <1>5, <1>6 DEF Trans, Posted
<1> QED
  BY <1>4, <1>5, <1>7 DEF u

LEMMA YieldTrans ==
  ASSUME NEW i, NEW s, AtRest(i, s), s.role = "candidate"
  PROVE  Trans(i, s, YieldToLeader(s))
<1> DEFINE u == YieldToLeader(s)
<1>1. /\ Shape(u) /\ u.role = "follower" /\ u.votedFor = Nobody /\ u.term = s.term
      /\ u.acks = s.acks /\ u.out = NoMessages
  BY DEF YieldToLeader, AtRest, Ballot, Shape
<1> HIDE DEF u
<1>2. Trans(i, s, u)
  BY <1>1 DEF Trans, AtRest, Ballot, Counted, Roles, NoMessages
<1> QED
  BY <1>2 DEF u

LEMMA StartElectionTrans ==
  ASSUME NEW i \in Server, NEW s, AtRest(i, s)
  PROVE  Trans(i, s, StartElection(s, i))
<1> DEFINE requeued == RequeueAllInflight(s)
           c == BecomeCandidate(s, i)
           request == VoteRequest(c.term, GetLastLogIndex(c), GetLastLogTerm(c))
           u == StartElection(s, i)
<1>1. Neutral(s, requeued) /\ Shape(requeued)
  BY RequeueAllNeutral DEF AtRest, Ballot, Neutral
<1>2. c = [requeued EXCEPT !.role = "candidate", !.term = @ + 1, !.votedFor = i,
                           !.votes = 1, !.acks = {}, !.leader = Nobody]
  BY DEF BecomeCandidate
<1> HIDE DEF requeued, c
<1>3. /\ Shape(c) /\ c.role = "candidate" /\ c.term = s.term + 1
      /\ c.votedFor = i /\ c.votes = 1 /\ c.acks = {} /\ c.out = requeued.out
  BY <1>1, <1>2 DEF Shape, Neutral, SameElection
<1>4. /\ request.type = "RequestVote" /\ request.term = s.term + 1
      /\ {"type", "term"} \subseteq DOMAIN request
  BY <1>3 DEF VoteRequest
<1> HIDE DEF request
<1>5. u = [c EXCEPT !.out = [j \in Server |-> IF j = i THEN c.out[j]
                                              ELSE c.out[j] \cup {request}],
                    !.electionArmed = TRUE]
  BY <1>3 DEF StartElection, ResetElectionTimer, c, request, Shape
<1> HIDE DEF u
<1>6. /\ Shape(u) /\ u.role = "candidate" /\ u.term = s.term + 1
      /\ u.votedFor = i /\ u.votes = 1 /\ u.acks = {}
      /\ u.out = [j \in Server |-> IF j = i THEN c.out[j] ELSE c.out[j] \cup {request}]
  BY <1>3, <1>5 DEF Shape
<1>7. s.term \in Nat /\ s.out = NoMessages
  BY DEF AtRest, Ballot
<1>8. Ballot(i, u) /\ Counted(i, u)
  BY <1>6, <1>7, FS_EmptySet DEF Ballot, Roles, Counted
<1>9. ASSUME NEW k \in Server, NEW m \in u.out[k]
      PROVE  Posted(i, s, u, k, m)
  <2>1. CASE m \in c.out[k]
    BY <1>1, <1>3, <1>7, <2>1 DEF Neutral, NoMessages, Posted
  <2>2. CASE m = request /\ k # i
    BY <1>4, <1>6, <2>2 DEF Posted
  <2> QED
    BY <1>6, <2>1, <2>2
<1>10. Trans(i, s, u)
  BY <1>6, <1>7, <1>8, <1>9 DEF Trans
<1> QED
  BY <1>10 DEF u

LEMMA GrantTrans ==
  ASSUME NEW i \in Server, NEW j \in Server, NEW s, AtRest(i, s), j # i,
         NEW m, m.term \in Nat
  PROVE  Trans(i, s, HandleRequestVote(s, j, m))
<1> DEFINE u == IF m.term > s.term THEN BecomeFollower(s, m.term) ELSE s
           canGrant == CanGrant(u, j, m)
           v == IF canGrant THEN GrantVote(u, j) ELSE u
           w == Post(v, j, VoteResponse(u.term, canGrant))
<1>1. /\ Trans(i, s, u)
      /\ \A k \in Server : \A n \in u.out[k] : Plain(n, s.term)
      /\ \/ s.term < u.term /\ u.role = "follower"
         \/ u = s
  <2>1. CASE m.term > s.term
    BY <2>1, BecomeFollowerTrans
  <2>2. CASE ~(m.term > s.term)
    BY <2>2, TransSelf DEF AtRest, NoMessages
  <2> QED
    BY <2>1, <2>2
<1>2. Ballot(i, u) /\ s.term \in Nat /\ Counted(i, u) /\ s.term <= u.term
  BY <1>1 DEF Trans, AtRest, Ballot
<1>3. canGrant => u.role = "follower" /\ u.votedFor \in {Nobody, j}
  BY <1>2, NobodyAssumption DEF CanGrant, Ballot
<1>4. canGrant \in BOOLEAN
  BY DEF CanGrant, IsLogOk
<1> HIDE DEF u, canGrant
<1>5. /\ Shape(v) /\ v.role = u.role /\ v.term = u.term /\ v.votes = u.votes
      /\ v.acks = u.acks /\ v.out = u.out
      /\ v.votedFor = IF canGrant THEN j ELSE u.votedFor
  BY <1>2 DEF GrantVote, ResetElectionTimer, Shape, Ballot
<1> HIDE DEF v
<1>6. /\ Shape(w) /\ w.role = u.role /\ w.term = u.term /\ w.votes = u.votes
      /\ w.acks = u.acks /\ w.votedFor = v.votedFor
      /\ \A k \in Server : \A n \in w.out[k] :
           n \in u.out[k] \/ (k = j /\ n = VoteResponse(u.term, canGrant))
  BY <1>5 DEF Post, Shape
<1> HIDE DEF w
<1>7. Ballot(i, w) /\ Counted(i, w)
  BY <1>2, <1>3, <1>5, <1>6 DEF Ballot, Counted, HasElectionMajority
<1>8. ASSUME NEW k \in Server, NEW n \in w.out[k]
      PROVE  Posted(i, s, w, k, n)
  <2>1. CASE n \in u.out[k]
    BY <1>1, <1>2, <2>1 DEF Posted
  <2>2. CASE k = j /\ n = VoteResponse(u.term, canGrant)
    BY <1>1, <1>2, <1>3, <1>4, <1>5, <1>6, <2>2 DEF Posted
  <2> QED
    BY <1>6, <2>1, <2>2
<1>9. Trans(i, s, w)
  BY <1>1, <1>2, <1>3, <1>5, <1>6, <1>7, <1>8 DEF Trans
<1> QED
  BY <1>9 DEF HandleRequestVote, u, canGrant, v, w

LEMMA CountTrans ==
  ASSUME NEW i \in Server, NEW j \in Server, NEW s, AtRest(i, s),
         NEW t \in Nat, NEW ack \in BOOLEAN,
         ack => Supports(j, i, t)
  PROVE  Trans(i, s, HandleRequestVoteResponse(s, i, j, VoteResponse(t, ack)))
<1> DEFINE m == VoteResponse(t, ack)
           counted == IF ack /\ j \notin s.acks
                      THEN [s EXCEPT !.acks = @ \cup {j}, !.votes = @ + 1] ELSE s
           elected == [counted EXCEPT
                         !.role = "leader",
                         !.next = [k \in Server |-> GetLastLogIndex(counted) + 1],
                         !.match = [k \in Server |-> 0],
                         !.heartbeatArmed = TRUE, !.electionArmed = FALSE]
           u == HandleRequestVoteResponse(s, i, j, m)
<1>1. m.term = t /\ m.ack = ack
  BY DEF VoteResponse
<1> HIDE DEF m
<1>2. CASE IsVoteVoid(s, m)
  BY <1>2, TransSelf DEF HandleRequestVoteResponse, m
<1>3. CASE ~IsVoteVoid(s, m) /\ t > s.term
  BY <1>1, <1>3, BecomeFollowerTrans DEF HandleRequestVoteResponse, m
<1>4. CASE ~IsVoteVoid(s, m) /\ ~(t > s.term)
  <2>1. /\ s.role = "candidate" /\ t = s.term /\ Shape(s) /\ s.acks \in SUBSET Server
        /\ s.votes = Cardinality(s.acks) + 1 /\ s.votedFor = i /\ s.out = NoMessages
        /\ IsFiniteSet(s.acks) /\ s.term \in Nat
    BY <1>1, <1>4, ServerAssumption, FS_Subset DEF IsVoteVoid, AtRest, Ballot
  <2>2. /\ Shape(counted) /\ counted.role = s.role /\ counted.term = s.term
        /\ counted.votedFor = i /\ counted.out = NoMessages
        /\ counted.acks \in SUBSET Server
        /\ counted.votes = Cardinality(counted.acks) + 1
    <3>1. CASE ack /\ j \notin s.acks
      <4>1. Cardinality(s.acks \cup {j}) = Cardinality(s.acks) + 1
        BY <2>1, <3>1, FS_AddElement
      <4>2. Cardinality(s.acks) \in Nat
        BY <2>1, FS_CardinalityType
      <4> QED
        BY <2>1, <3>1, <4>1, <4>2 DEF Shape
    <3>2. CASE ~(ack /\ j \notin s.acks)
      BY <2>1, <3>2
    <3> QED
      BY <3>1, <3>2
  <2>3. \A v \in counted.acks : Supports(v, i, t)
    BY <2>1 DEF AtRest, Counted, Shape
  <2> HIDE DEF counted
  <2>4. Trans(i, s, counted)
    BY <2>1, <2>2, <2>3 DEF Trans, Ballot, Counted, Roles, NoMessages
  <2>5. ASSUME HasElectionMajority(counted)
        PROVE  Trans(i, s, BecomeLeader(counted, i))
    <3>1. /\ Shape(elected) /\ elected.role = "leader" /\ elected.term = s.term
          /\ elected.votedFor = i /\ elected.out = NoMessages
          /\ elected.acks = counted.acks /\ elected.votes = counted.votes
      BY <2>2 DEF Shape
    <3>2. BecomeLeader(counted, i)
            = FlushPendingClientCommands(SendAppendEntries(elected, Peers(i)), i)
      BY DEF BecomeLeader
    <3> HIDE DEF elected
    <3>3. Trans(i, s, elected)
      BY <2>1, <2>2, <2>3, <2>5, <3>1
      DEF Trans, Ballot, Counted, Roles, NoMessages, HasElectionMajority
    <3>4. LET sent == SendAppendEntries(elected, Peers(i))
          IN Neutral(elected, sent) /\ Shape(sent)
      BY <3>1, SendNeutral DEF Neutral
    <3> QED
      BY <3>2, <3>3, <3>4, FlushNeutral, NeutralTrans, TransNeutral
  <2>6. u = IF HasElectionMajority(counted) THEN BecomeLeader(counted, i) ELSE counted
    BY <1>1, <1>4 DEF HandleRequestVoteResponse, counted
  <2> QED
    BY <2>4, <2>5, <2>6 DEF m
<1> QED
  BY <1>2, <1>3, <1>4

LEMMA AppendTrans ==
  ASSUME NEW i \in Server, NEW j \in Server, NEW s, AtRest(i, s),
         NEW m, m.term \in Nat
  PROVE  Trans(i, s, HandleAppendEntries(s, i, j, m))
<1> DEFINE u == IF m.term > s.term THEN BecomeFollower(s, m.term)
                ELSE IF s.role = "candidate" THEN YieldToLeader(s)
                ELSE s
<1>1. Trans(i, s, u) /\ Shape(u)
  BY BecomeFollowerTrans, YieldTrans, TransSelf DEF Trans, Ballot
<1>2. Shape(s)
  BY DEF AtRest, Ballot
<1> HIDE DEF u
<1>3. Trans(i, s, Post(s, j, AppendResponse(s.term, FALSE, 0, 0, 0)))
  BY <1>2, RejectNeutral, RestNeutral
<1>4. Trans(i, s, Accept(u, i, j, m)) /\ Trans(i, s, Post(u, j, Reject(u, m)))
  BY <1>1, AcceptNeutral, RejectNeutral, TransNeutral
<1> QED
  BY <1>3, <1>4 DEF HandleAppendEntries, u

LEMMA AppendResponseTrans ==
  ASSUME NEW i \in Server, NEW j \in Server, NEW s, AtRest(i, s),
         NEW m, m.term \in Nat
  PROVE  Trans(i, s, HandleAppendEntriesResponse(s, i, j, m))
<1>1. Shape(s)
  BY DEF AtRest, Ballot
<1>2. Trans(i, s, SendAppendEntries([s EXCEPT !.next[j] = BackOff(s, j, m)], {j}))
  BY <1>1, BackedOffNeutral, RestNeutral
<1>3. \A match, next :
        Trans(i, s, UpdateCommitIndex(
                      [s EXCEPT !.match[j] = match, !.next[j] = next], i))
  BY <1>1, BackedOffNeutral, RestNeutral
<1> QED
  BY <1>2, <1>3, TransSelf, BecomeFollowerTrans DEF HandleAppendEntriesResponse

-----------------------------------------------------------------------------
(* The inductive invariant *)

NodesSound ==
  /\ DOMAIN node = Server
  /\ \A i \in Server : Ballot(i, node[i]) /\ node[i].out = NoMessages

\* What the link from a to b may carry.
Mail(a, b, m) ==
  \/ \E t \in Nat : Plain(m, t)
  \/ /\ m.type = "RequestVote" /\ a # b
     /\ {"type", "term"} \subseteq DOMAIN m /\ m.term \in Nat
  \/ \E t \in Nat, ack \in BOOLEAN : m = VoteResponse(t, ack)

AllOf(q) == UNION {q[n] : n \in DOMAIN q}

LinksSound ==
  \A a, b \in Server :
    /\ \E S : links[<<a, b>>] \in Seq(S)
    /\ \A m \in InTransit(a, b) : Mail(a, b, m)

SupportRemembered ==
  \A v, c \in Server : \A t \in Nat :
    Supports(v, c, t) =>
      /\ v # c
      /\ t <= node[v].term
      /\ t = node[v].term => node[v].votedFor = c /\ node[v].role = "follower"

SupportUnique ==
  \A v, c, d \in Server : \A t \in Nat :
    Supports(v, c, t) /\ Supports(v, d, t) => c = d

ElectionInv ==
  /\ NodesSound /\ DOMAIN links = Server \X Server /\ LinksSound
  /\ SupportRemembered /\ SupportUnique

LEMMA NodesAtRest ==
  ASSUME ElectionInv, NEW i \in Server
  PROVE  AtRest(i, node[i]) /\ Shape(node[i])
  BY DEF ElectionInv, NodesSound, AtRest, Counted, Supports, Ballot, Roles

LEMMA InitHolds == Init => ElectionInv
<1> SUFFICES ASSUME Init PROVE ElectionInv
  OBVIOUS
<1>1. /\ DOMAIN node = Server
      /\ \A i \in Server :
           /\ Shape(node[i]) /\ node[i].role = "follower" /\ node[i].term = 0
           /\ node[i].votedFor = Nobody /\ node[i].acks = {}
           /\ node[i].out = NoMessages
  BY DEF Init, InitNode, Shape, NoMessages
<1>2. DOMAIN links = Server \X Server
  BY DEF Init
<1>3. \A a, b \in Server : links[<<a, b>>] = <<>>
  BY DEF Init
<1>4. \A a, b \in Server : InTransit(a, b) = {}
  <2>1. DOMAIN <<>> = {}
    OBVIOUS
  <2> QED
    BY <1>3, <2>1, Zenon DEF InTransit
<1>5. NodesSound
  BY <1>1 DEF NodesSound, Ballot, Roles
<1>6. LinksSound
  <2>1. <<>> \in Seq({})
    OBVIOUS
  <2> QED
    BY <1>3, <1>4, <2>1, Zenon DEF LinksSound
<1>7. \A v, c \in Server : \A t : ~Supports(v, c, t)
  <2>1. \A c \in Server : node[c].acks = {}
    BY <1>1
  <2> QED
    BY <1>4, <2>1, Zenon DEF Supports
<1> QED
  BY <1>2, <1>5, <1>6, <1>7 DEF ElectionInv, SupportRemembered, SupportUnique

-----------------------------------------------------------------------------
(* A handler run keeps the invariant *)

\* The links as a handler run finds them: nothing is there that was not before.
NothingNew(before) ==
  \A a, b \in Server :
    /\ \E S : before[<<a, b>>] \in Seq(S)
    /\ AllOf(before[<<a, b>>]) \subseteq InTransit(a, b)

LEMMA LinksNotNew ==
  ASSUME ElectionInv
  PROVE  NothingNew(links)
  BY DEF ElectionInv, LinksSound, NothingNew, AllOf, InTransit

LEMMA TakenNotNew ==
  ASSUME ElectionInv, NEW i \in Server, NEW j \in Server, NEW m,
         links[<<j, i>>] # <<>>
  PROVE  NothingNew(Taken(j, i, m))
<1> DEFINE q == links[<<j, i>>]
           rest == Head(q) \ {m}
           r == IF rest = {} THEN Tail(q) ELSE <<rest>> \o Tail(q)
<1>1. PICK S : q \in Seq(S)
  BY DEF ElectionInv, LinksSound
<1>2. r \in Seq(S \cup {rest}) /\ \A n \in DOMAIN r : \E k \in DOMAIN q : r[n] \subseteq q[k]
  <2>1. Tail(q) \in Seq(S) /\ Len(Tail(q)) = Len(q) - 1 /\ Len(q) \in Nat /\ Len(q) > 0
        /\ DOMAIN q = 1..Len(q)
        /\ \A n \in 1..(Len(q) - 1) : Tail(q)[n] = q[n + 1]
    BY <1>1
  <2>2. CASE rest = {}
    <3>1. r = Tail(q)
      BY <2>2
    <3> HIDE DEF r
    <3>2. r \in Seq(S \cup {rest}) /\ DOMAIN r = 1..(Len(q) - 1)
      BY <2>1, <3>1
    <3>3. ASSUME NEW n \in 1..(Len(q) - 1)
          PROVE  r[n] \subseteq q[n + 1] /\ n + 1 \in DOMAIN q
      BY <2>1, <3>1
    <3> QED
      BY <3>2, <3>3
  <2>3. CASE rest # {}
    <3>1. r = <<rest>> \o Tail(q)
      BY <2>3
    <3>2. /\ <<rest>> \in Seq(S \cup {rest}) /\ Tail(q) \in Seq(S \cup {rest})
          /\ Len(<<rest>>) = 1 /\ <<rest>>[1] = rest
      BY <2>1
    <3>3. rest \subseteq q[1]
      BY <1>1, <2>1
    <3> DEFINE first == <<rest>>
               others == Tail(q)
               T == S \cup {rest}
    <3> HIDE DEF q, r, rest, first, others, T
    <3>4. /\ r \in Seq(T) /\ Len(r) = Len(q)
          /\ \A n \in 1..Len(q) : r[n] = IF n <= 1 THEN first[n] ELSE others[n - 1]
      <4>1. first \in Seq(T) /\ others \in Seq(T) /\ r = first \o others
            /\ Len(first) = 1 /\ Len(others) = Len(q) - 1 /\ Len(q) \in Nat
        BY <2>1, <3>1, <3>2 DEF first, others, T
      <4>2. /\ r \in Seq(T) /\ Len(r) = Len(first) + Len(others)
            /\ \A n \in 1..(Len(first) + Len(others)) :
                 r[n] = IF n <= Len(first) THEN first[n] ELSE others[n - Len(first)]
        BY <4>1, ConcatProperties
      <4> QED
        BY <4>1, <4>2
    <3>5. ASSUME NEW n \in 1..Len(q)
          PROVE  r[n] \subseteq q[n]
      <4>1. CASE n = 1
        BY <3>2, <3>3, <3>4, <4>1 DEF first
      <4>2. CASE n # 1
        <5>1. n - 1 \in 1..(Len(q) - 1) /\ (n - 1) + 1 = n /\ ~(n <= 1)
          BY <2>1, <4>2
        <5> QED
          BY <2>1, <3>4, <5>1 DEF others
      <4> QED
        BY <4>1, <4>2
    <3>6. DOMAIN r = 1..Len(q)
      BY <2>1, <3>4
    <3> QED
      BY <2>1, <3>4, <3>5, <3>6 DEF T
  <2> QED
    BY <2>2, <2>3
<1> HIDE DEF r
<1>3. AllOf(r) \subseteq AllOf(q)
  BY <1>2 DEF AllOf
<1>4. /\ Taken(j, i, m)[<<j, i>>] = r
      /\ \A a, b \in Server : <<a, b>> # <<j, i>> =>
           Taken(j, i, m)[<<a, b>>] = links[<<a, b>>]
  BY DEF Taken, ElectionInv, r
<1>5. AllOf(q) = InTransit(j, i)
  BY DEF AllOf, InTransit
<1> QED
  BY <1>2, <1>3, <1>4, <1>5, LinksNotNew DEF NothingNew

LEMMA QueueAdds ==
  ASSUME NEW S, NEW q \in Seq(S), NEW a, NEW b, NEW i, NEW out, NEW lost
  PROVE  LET r == Queue(<<a, b>>, i, out, lost, q)
         IN /\ \E T : r \in Seq(T)
            /\ \A m \in AllOf(r) : m \in AllOf(q) \/ (a = i /\ m \in out[b])
<1> DEFINE kept == {m \in out[b] : <<b, m>> \notin lost}
           r == Append(q, kept)
<1>1. r \in Seq(S \cup {kept}) /\ DOMAIN r = 1..(Len(q) + 1) /\ r[Len(q) + 1] = kept
      /\ \A n \in 1..Len(q) : r[n] = q[n]
  OBVIOUS
<1>2. DOMAIN q = 1..Len(q) /\ Len(q) \in Nat
  OBVIOUS
<1> HIDE DEF r
<1>3. \A m \in AllOf(r) : m \in AllOf(q) \/ m \in out[b]
  <2> SUFFICES ASSUME NEW n \in DOMAIN r, NEW m \in r[n]
               PROVE  m \in AllOf(q) \/ m \in out[b]
    BY DEF AllOf
  <2>1. CASE n = Len(q) + 1
    BY <1>1, <2>1
  <2>2. CASE n \in 1..Len(q)
    BY <1>1, <1>2, <2>2 DEF AllOf
  <2> QED
    BY <1>1, <1>2, <2>1, <2>2
<1>4. Queue(<<a, b>>, i, out, lost, q) \in {r, q}
      /\ (Queue(<<a, b>>, i, out, lost, q) = r => a = i \/ r = q)
  BY DEF Queue, r
<1> QED
  BY <1>1, <1>3, <1>4

LEMMA StepMail ==
  ASSUME ElectionInv, NEW i \in Server, NEW u, NEW before, NEW budget,
         NothingNew(before), Step(i, u, before, budget)
  PROVE  /\ DOMAIN links' = Server \X Server
         /\ \A a, b \in Server :
              /\ \E S : links'[<<a, b>>] \in Seq(S)
              /\ \A m \in InTransit(a, b)' :
                   m \in InTransit(a, b) \/ (a = i /\ m \in u.out[b])
<1>1. PICK lost : links' = [l \in Server \X Server |->
                              Queue(l, i, u.out, lost, before[l])]
  BY DEF Step
<1>2. ASSUME NEW a \in Server, NEW b \in Server
      PROVE  /\ \E S : links'[<<a, b>>] \in Seq(S)
             /\ \A m \in AllOf(links'[<<a, b>>]) :
                  m \in AllOf(before[<<a, b>>]) \/ (a = i /\ m \in u.out[b])
  <2>1. links'[<<a, b>>] = Queue(<<a, b>>, i, u.out, lost, before[<<a, b>>])
    BY <1>1
  <2>2. PICK S : before[<<a, b>>] \in Seq(S)
    BY DEF NothingNew
  <2> QED
    BY <2>1, <2>2, QueueAdds
<1>3. \A a, b \in Server : InTransit(a, b)' = AllOf(links'[<<a, b>>])
  BY DEF InTransit, AllOf
<1> QED
  BY <1>1, <1>2, <1>3 DEF NothingNew

LEMMA StepNode ==
  ASSUME ElectionInv, NEW i \in Server, NEW u, NEW before, NEW budget,
         Step(i, u, before, budget), Trans(i, node[i], u)
  PROVE  /\ DOMAIN node' = Server
         /\ \A k \in Server : k # i => node'[k] = node[k]
         /\ Shape(node'[i]) /\ SameElection(u, node'[i]) /\ node'[i].out = NoMessages
<1>1. node' = [node EXCEPT ![i] = [u EXCEPT !.out = NoMessages]]
  BY DEF Step
<1>2. DOMAIN node = Server /\ Shape(u)
  BY DEF ElectionInv, NodesSound, Trans, Ballot
<1> QED
  BY <1>1, <1>2 DEF Shape, SameElection, NoMessages

\* Node i, which a handler leaves as u, gives its vote of term t to c.
Gives(i, u, v, c, t) ==
  /\ v = i /\ c # i /\ t = u.term /\ u.votedFor = c /\ u.role = "follower"
  /\ node[i].term < t \/ node[i].votedFor \in {Nobody, c}

\* A vote that counts after a step counted before it, or it is the one that the
\* handler gives.
LEMMA StepSupport ==
  ASSUME ElectionInv, NEW i \in Server, NEW u, NEW before, NEW budget,
         NothingNew(before), Step(i, u, before, budget), Trans(i, node[i], u),
         NEW v \in Server, NEW c \in Server, NEW t \in Nat, Supports(v, c, t)'
  PROVE  Supports(v, c, t) \/ Gives(i, u, v, c, t)
<1> DEFINE s == node[i]
           Votes == v = i /\ VoteResponse(t, TRUE) \in u.out[c]
<1>1. /\ \A k \in Server : k # i => node'[k] = node[k]
      /\ SameElection(u, node'[i])
  BY StepNode
<1>2. \A a, b \in Server : \A m \in InTransit(a, b)' :
        m \in InTransit(a, b) \/ (a = i /\ m \in u.out[b])
  BY StepMail
<1>3. Supports(v, c, t) \/ Votes
  <2>1. CASE VoteResponse(t, TRUE) \in InTransit(v, c)'
    BY <1>2, <2>1 DEF Supports
  <2>2. CASE /\ v \in node'[c].acks /\ node'[c].term = t
             /\ node'[c].role \in {"candidate", "leader"}
    <3>1. CASE c = i
      BY <1>1, <2>2, <3>1 DEF SameElection, Trans, Counted
    <3>2. CASE c # i
      BY <1>1, <2>2, <3>2 DEF Supports
    <3> QED
      BY <3>1, <3>2
  <2> QED
    BY <2>1, <2>2 DEF Supports, VoteResponse
<1>4. ASSUME Votes
      PROVE  Gives(i, u, v, c, t)
  <2>1. Posted(i, s, u, c, VoteResponse(t, TRUE))
    BY <1>4 DEF Trans
  <2>2. VoteResponse(t, TRUE).type = "RequestVoteResponse"
    BY DEF VoteResponse
  <2>3. PICK ack \in BOOLEAN :
          /\ VoteResponse(t, TRUE) = VoteResponse(u.term, ack)
          /\ ack => /\ c # i /\ u.votedFor = c /\ u.role = "follower"
                    /\ s.term < u.term \/ s.votedFor \in {Nobody, c}
    BY <2>1, <2>2 DEF Posted, Plain
  <2>4. t = u.term /\ ack = TRUE
    BY <2>3 DEF VoteResponse
  <2> QED
    BY <1>4, <2>3, <2>4 DEF Gives
<1> QED
  BY <1>3, <1>4

LEMMA StepInv ==
  ASSUME ElectionInv, NEW i \in Server, NEW u, NEW before, NEW budget,
         NothingNew(before), Step(i, u, before, budget), Trans(i, node[i], u)
  PROVE  ElectionInv'
<1> DEFINE s == node[i]
           w == node'[i]
<1>1. /\ DOMAIN node' = Server
      /\ \A k \in Server : k # i => node'[k] = node[k]
      /\ Shape(w) /\ SameElection(u, w) /\ w.out = NoMessages
  BY StepNode
<1>2. /\ DOMAIN links' = Server \X Server
      /\ \A a, b \in Server :
           /\ \E S : links'[<<a, b>>] \in Seq(S)
           /\ \A m \in InTransit(a, b)' :
                m \in InTransit(a, b) \/ (a = i /\ m \in u.out[b])
  BY StepMail
<1>3. \A k \in Server : Ballot(k, node[k]) /\ node[k].out = NoMessages
  BY DEF ElectionInv, NodesSound
<1>4. NodesSound'
  <2>1. Ballot(i, w)
    BY <1>1 DEF Trans, Ballot, SameElection, HasElectionMajority
  <2>2. ASSUME NEW k \in Server
        PROVE  Ballot(k, node'[k]) /\ node'[k].out = NoMessages
    BY <1>1, <1>3, <2>1
  <2> QED
    BY <1>1, <2>2 DEF NodesSound, Ballot, Shape, HasElectionMajority, NoMessages
<1>5. LinksSound'
  <2>1. u.term \in Nat
    BY DEF Trans, Ballot
  <2>2. ASSUME NEW b \in Server, NEW m \in u.out[b]
        PROVE  Mail(i, b, m)
    <3>1. Posted(i, s, u, b, m)
      BY DEF Trans
    <3> QED
      BY <2>1, <3>1 DEF Posted, Mail
  <2>3. \A a, b \in Server : \A m \in InTransit(a, b)' : Mail(a, b, m)
    BY <1>2, <2>2 DEF ElectionInv, LinksSound
  <2> QED
    BY <1>2, <2>3 DEF LinksSound, Mail
<1>6. ASSUME NEW v \in Server, NEW c \in Server, NEW t \in Nat, Supports(v, c, t)'
      PROVE  Supports(v, c, t) \/ Gives(i, u, v, c, t)
  BY <1>6, StepSupport
<1>8. /\ s.term \in Nat /\ u.term \in Nat /\ s.term <= u.term
      /\ s.term = u.term /\ s.votedFor \notin {Nobody, u.votedFor} => s.role = "candidate"
      /\ s.term = u.term /\ s.role = "follower" => u.role = "follower"
  BY <1>3 DEF Trans, Ballot
<1>9. ASSUME NEW v \in Server, NEW c \in Server, NEW t \in Nat, Supports(v, c, t)
      PROVE  /\ v # c
             /\ t <= node[v].term
             /\ t = node[v].term => node[v].votedFor = c /\ node[v].role = "follower"
  BY <1>9 DEF ElectionInv, SupportRemembered
<1>10. ASSUME NEW v \in Server, NEW c \in Server, NEW t \in Nat, Supports(v, c, t)'
       PROVE  /\ v # c
              /\ t <= node'[v].term
              /\ t = node'[v].term => node'[v].votedFor = c /\ node'[v].role = "follower"
  <2>1. CASE Gives(i, u, v, c, t)
    BY <1>1, <1>8, <2>1 DEF Gives, SameElection
  <2>2. CASE Supports(v, c, t) /\ v # i
    BY <1>1, <1>9, <2>2
  <2>3. CASE Supports(v, c, t) /\ v = i
    BY <1>1, <1>8, <1>9, <2>3, NobodyAssumption DEF SameElection
  <2> QED
    BY <1>6, <1>10, <2>1, <2>2, <2>3
<1>11. ASSUME NEW v \in Server, NEW c \in Server, NEW d \in Server, NEW t \in Nat,
              Supports(v, c, t)', Supports(v, d, t)'
       PROVE  c = d
  <2>1. ASSUME NEW a \in Server, NEW b \in Server, Supports(v, a, t), Gives(i, u, v, b, t)
        PROVE  a = b
    <3>1. /\ v = i /\ t = u.term
          /\ s.term < t \/ s.votedFor \in {Nobody, b}
      BY <2>1 DEF Gives
    <3>2. t <= s.term /\ (t = s.term => s.votedFor = a)
      BY <1>9, <2>1, <3>1
    <3> QED
      BY <1>8, <3>1, <3>2, NobodyAssumption
  <2>2. CASE Supports(v, c, t) /\ Supports(v, d, t)
    BY <2>2 DEF ElectionInv, SupportUnique
  <2>3. CASE Gives(i, u, v, c, t) /\ Gives(i, u, v, d, t)
    BY <2>3 DEF Gives
  <2> QED
    BY <1>6, <1>11, <2>1, <2>2, <2>3
<1>12. SupportRemembered'
  BY <1>10 DEF SupportRemembered
<1>13. SupportUnique'
  BY <1>11 DEF SupportUnique
<1> QED
  BY <1>2, <1>4, <1>5, <1>12, <1>13 DEF ElectionInv

-----------------------------------------------------------------------------
(* Every action is a handler run *)

\* u is what a timer or a client makes of node i's record.
Unprompted(i, u) ==
  \/ node[i].electionArmed /\ u = StartElection(node[i], i)
  \/ node[i].role = "leader" /\ u = SendAppendEntries(node[i], Peers(i))
  \/ node[i].role # "leader" /\ u = [node[i] EXCEPT !.heartbeatArmed = FALSE]
  \/ \E cmd \in Commands : u = SubmitCommand(node[i], i, cmd)

\* u is what a handler that node i can run now leaves of its record.
Run(i, u) ==
  \/ \E j \in Server : \E m \in InTransit(j, i) :
       \E r \in Resolutions(m, node[i].log) : u = OnMessage(node[i], i, j, r)
  \/ Unprompted(i, u)

\* The links as the run that leaves u finds them: the message it handles is off.
Received(i, u, before) ==
  \/ Unprompted(i, u) /\ before = links
  \/ \E j \in Server :
       /\ links[<<j, i>>] # <<>>
       /\ \E m \in Head(links[<<j, i>>]) : \E r \in Resolutions(m, node[i].log) :
            before = Taken(j, i, m) /\ u = OnMessage(node[i], i, j, r)

\* What is left of the bounds once a timer has fired, if the run is a timer's.
Spent(budget) ==
  \/ budget = left
  \/ left.elections > 0 /\ budget = [left EXCEPT !.elections = @ - 1]
  \/ left.heartbeats > 0 /\ budget = [left EXCEPT !.heartbeats = @ - 1]

Mailed(i, u, before, budget) ==
  Received(i, u, before) /\ Spent(budget) /\ Step(i, u, before, budget)

\* Node i runs a handler that leaves its record as u; u.out is its mail.
Handled(i) ==
  \E u, before, budget :
    /\ Run(i, u) /\ NothingNew(before) /\ Mailed(i, u, before, budget)
    /\ Trans(i, node[i], u)

LEMMA OnMessageTrans ==
  ASSUME NEW i \in Server, NEW j \in Server, NEW s, AtRest(i, s),
         NEW m, Mail(j, i, m),
         \A t : m = VoteResponse(t, TRUE) => Supports(j, i, t)
  PROVE  Trans(i, s, OnMessage(s, i, j, m))
<1>1. Shape(s)
  BY DEF AtRest, Ballot
<1>2. CASE m.type = "AppendEntries"
  <2>1. m.term \in Nat
    BY <1>2 DEF Mail, Plain, VoteResponse
  <2> QED
    BY <1>2, <2>1, AppendTrans DEF OnMessage
<1>3. CASE m.type = "AppendEntriesResponse"
  <2>1. m.term \in Nat
    BY <1>3 DEF Mail, Plain, VoteResponse
  <2> QED
    BY <1>3, <2>1, AppendResponseTrans DEF OnMessage
<1>4. CASE m.type = "RequestVote"
  <2>1. m.term \in Nat /\ j # i
    BY <1>4 DEF Mail, Plain, VoteResponse
  <2> QED
    BY <1>4, <2>1, GrantTrans DEF OnMessage
<1>5. CASE m.type = "RequestVoteResponse"
  <2>1. PICK t \in Nat, ack \in BOOLEAN : m = VoteResponse(t, ack)
    BY <1>5 DEF Mail, Plain
  <2>2. ack => Supports(j, i, t)
    BY <2>1
  <2>3. Trans(i, s, HandleRequestVoteResponse(s, i, j, m))
    BY <2>1, <2>2, CountTrans
  <2> QED
    BY <1>5, <2>3 DEF OnMessage
<1>6. CASE m.type = "client_command_redirected"
  BY <1>1, <1>6, RedirectedNeutral, RestNeutral DEF OnMessage
<1>7. CASE m.type = "client_command_redirected_response"
  BY <1>1, <1>7, RedirectedResponseNeutral, RestNeutral DEF OnMessage
<1> QED
  BY <1>2, <1>3, <1>4, <1>5, <1>6, <1>7 DEF Mail, Plain, VoteResponse

LEMMA DeliverHandled ==
  ASSUME ElectionInv, NEW i \in Server, NEW j \in Server, Deliver(j, i)
  PROVE  Handled(i)
<1>1. PICK m \in Head(links[<<j, i>>]) : \E r \in Resolutions(m, node[i].log) :
        Step(i, OnMessage(node[i], i, j, r), Taken(j, i, m), left)
  BY DEF Deliver
<1>2. PICK r \in Resolutions(m, node[i].log) :
        Step(i, OnMessage(node[i], i, j, r), Taken(j, i, m), left)
  BY <1>1
<1>3. links[<<j, i>>] # <<>>
  BY DEF Deliver
<1>4. m \in InTransit(j, i)
  <2>1. PICK S : links[<<j, i>>] \in Seq(S)
    BY DEF ElectionInv, LinksSound
  <2>2. 1 \in DOMAIN links[<<j, i>>] /\ Head(links[<<j, i>>]) = links[<<j, i>>][1]
    BY <1>3, <2>1
  <2> QED
    BY <1>1, <2>2 DEF InTransit
<1>5. Mail(j, i, m)
  BY <1>4 DEF ElectionInv, LinksSound
<1>6. Mail(j, i, r)
  <2>1. CASE m.type = "AppendEntries"
    <3>1. PICK t \in Nat : Plain(m, t) /\ {"type", "term"} \subseteq DOMAIN m
      BY <1>5, <2>1 DEF Mail, Plain, VoteResponse
    <3>2. r.type = m.type /\ r.term = m.term /\ DOMAIN r = DOMAIN m
      BY <3>1 DEF Resolutions
    <3> QED
      BY <2>1, <3>1, <3>2 DEF Mail, Plain
  <2>2. CASE m.type # "AppendEntries"
    BY <1>5, <2>2 DEF Resolutions
  <2> QED
    BY <2>1, <2>2
<1>7. ASSUME NEW t, r = VoteResponse(t, TRUE)
      PROVE  Supports(j, i, t)
  <2>1. CASE m.type = "AppendEntries"
    <3>1. {"type", "term"} \subseteq DOMAIN m
      BY <1>5, <2>1 DEF Mail, Plain, VoteResponse
    <3>2. r.type = "AppendEntries"
      BY <2>1, <3>1 DEF Resolutions
    <3> QED
      BY <1>7, <3>2 DEF VoteResponse
  <2>2. CASE m.type # "AppendEntries"
    BY <1>4, <1>7, <2>2 DEF Resolutions, Supports
  <2> QED
    BY <2>1, <2>2
<1>8. Trans(i, node[i], OnMessage(node[i], i, j, r))
  BY <1>6, <1>7, NodesAtRest, OnMessageTrans
<1>9. Run(i, OnMessage(node[i], i, j, r))
  BY <1>2, <1>4 DEF Run
<1>10. Mailed(i, OnMessage(node[i], i, j, r), Taken(j, i, m), left)
  BY <1>1, <1>2, <1>3 DEF Mailed, Received, Spent
<1> QED
  BY <1>3, <1>8, <1>9, <1>10, TakenNotNew DEF Handled

LEMMA NextHandled ==
  ASSUME ElectionInv, Next
  PROVE  \E i \in Server : Handled(i)
<1>1. ASSUME NEW i \in Server, NEW j \in Server, Deliver(j, i)
      PROVE  Handled(i)
  BY <1>1, DeliverHandled
<1>2. ASSUME NEW i \in Server, ElectionTimeout(i)
      PROVE  Handled(i)
  <2>1. Run(i, StartElection(node[i], i))
    BY <1>2 DEF ElectionTimeout, Run, Unprompted
  <2>2. Mailed(i, StartElection(node[i], i), links, [left EXCEPT !.elections = @ - 1])
    BY <1>2 DEF ElectionTimeout, Mailed, Received, Unprompted, Spent
  <2> QED
    BY <2>1, <2>2, NodesAtRest, StartElectionTrans, LinksNotNew DEF Handled
<1>3. ASSUME NEW i \in Server, HeartbeatTimeout(i)
      PROVE  Handled(i)
  <2> DEFINE idle == [node[i] EXCEPT !.heartbeatArmed = FALSE]
             sent == SendAppendEntries(node[i], Peers(i))
  <2>1. Neutral(node[i], idle)
    BY NodesAtRest DEF Neutral, SameElection, Shape
  <2>2. Neutral(node[i], sent)
    BY NodesAtRest, SendNeutral
  <2>3. Run(i, IF node[i].role = "leader" THEN sent ELSE idle)
    BY DEF Run, Unprompted
  <2> HIDE DEF idle, sent
  <2>4. Trans(i, node[i], idle) /\ Trans(i, node[i], sent)
    BY <2>1, <2>2, NodesAtRest, RestNeutral
  <2>5. \E budget : Mailed(i, IF node[i].role = "leader" THEN sent ELSE idle,
                           links, budget)
    BY <1>3 DEF HeartbeatTimeout, idle, sent, Mailed, Received, Unprompted, Spent
  <2> QED
    BY <2>3, <2>4, <2>5, LinksNotNew DEF Handled
<1>4. ASSUME NEW i \in Server, NEW cmd \in Commands, ClientCommand(i, cmd)
      PROVE  Handled(i)
  <2>1. Trans(i, node[i], SubmitCommand(node[i], i, cmd))
    BY NodesAtRest, SubmitNeutral, RestNeutral
  <2>2. Run(i, SubmitCommand(node[i], i, cmd))
    BY DEF Run, Unprompted
  <2>3. Mailed(i, SubmitCommand(node[i], i, cmd), links, left)
    BY <1>4 DEF ClientCommand, Mailed, Received, Unprompted, Spent
  <2> QED
    BY <2>1, <2>2, <2>3, LinksNotNew DEF Handled
<1> QED
  BY <1>1, <1>2, <1>3, <1>4 DEF Next

\* What later proofs use of a step: node i's handler left u, u.out is all the
\* mail that is new, and u gives the only vote that is.
Moved(i, u) ==
  /\ Run(i, u) /\ Trans(i, node[i], u)
  /\ DOMAIN node' = Server
  /\ \A k \in Server : k # i => node'[k] = node[k]
  /\ node'[i] = [u EXCEPT !.out = NoMessages]
  /\ \A a, b \in Server : \A m \in InTransit(a, b)' :
       m \in InTransit(a, b) \/ (a = i /\ m \in u.out[b])
  /\ \A v, c \in Server : \A t \in Nat :
       Supports(v, c, t)' => Supports(v, c, t) \/ Gives(i, u, v, c, t)

\* And how the links come by it.
LEMMA NextMailed ==
  ASSUME ElectionInv, Next
  PROVE  \E i \in Server : \E u, before, budget :
           Moved(i, u) /\ Mailed(i, u, before, budget)
<1>1. PICK i \in Server : Handled(i)
  BY NextHandled
<1>2. PICK u, before, budget :
        /\ Run(i, u) /\ NothingNew(before) /\ Mailed(i, u, before, budget)
        /\ Trans(i, node[i], u)
  BY <1>1 DEF Handled
<1> Step(i, u, before, budget)
  BY <1>2 DEF Mailed
<1>3. DOMAIN node' = Server /\ \A k \in Server : k # i => node'[k] = node[k]
  BY <1>2, StepNode
<1>4. node'[i] = [u EXCEPT !.out = NoMessages]
  BY <1>2 DEF Step, ElectionInv, NodesSound
<1>5. \A a, b \in Server : \A m \in InTransit(a, b)' :
        m \in InTransit(a, b) \/ (a = i /\ m \in u.out[b])
  BY <1>2, StepMail
<1>6. \A v, c \in Server : \A t \in Nat :
        Supports(v, c, t)' => Supports(v, c, t) \/ Gives(i, u, v, c, t)
  BY <1>2, StepSupport
<1>7. Moved(i, u)
  BY <1>2, <1>3, <1>4, <1>5, <1>6 DEF Moved
<1> QED
  BY <1>2, <1>7

LEMMA NextMoves ==
  ASSUME ElectionInv, Next
  PROVE  \E i \in Server : \E u : Moved(i, u)
BY NextMailed

LEMMA ElectionInvInductive == ElectionInv /\ [Next]_vars => ElectionInv'
<1> SUFFICES ASSUME ElectionInv, [Next]_vars PROVE ElectionInv'
  OBVIOUS
<1>1. CASE Next
  BY <1>1, NextHandled, StepInv DEF Handled, Mailed
<1>2. CASE UNCHANGED vars
  <2>1. node' = node /\ links' = links
    BY <1>2 DEF vars
  <2>2. \A a, b \in Server : InTransit(a, b)' = InTransit(a, b)
    BY <2>1 DEF InTransit
  <2>3. \A v, c \in Server : \A t : Supports(v, c, t)' <=> Supports(v, c, t)
    BY <2>1, <2>2 DEF Supports, VoteResponse
  <2>4. NodesSound'
    BY <2>1 DEF ElectionInv, NodesSound, Ballot, Shape, HasElectionMajority, NoMessages
  <2>5. LinksSound' /\ DOMAIN links' = Server \X Server
    BY <2>1, <2>2 DEF ElectionInv, LinksSound, Mail
  <2>6. SupportRemembered' /\ SupportUnique'
    BY <2>1, <2>3 DEF ElectionInv, SupportRemembered, SupportUnique
  <2> QED
    BY <2>4, <2>5, <2>6 DEF ElectionInv
<1> QED
  BY <1>1, <1>2

\* The invariant the theorems below rest on holds in every state.
THEOREM ElectionInvHolds == Spec => []ElectionInv
  BY InitHolds, ElectionInvInductive, PTL DEF Spec

-----------------------------------------------------------------------------
(* What follows *)

LEMMA SafeElections ==
  ASSUME ElectionInv
  PROVE  ElectionSafety
<1> DEFINE N == Cardinality(Server)
           Voters(k) == node[k].acks \cup {k}
<1> SUFFICES ASSUME NEW i \in Server, NEW j \in Server, NEW t \in Nat, i # j,
                    Leads(i, t), Leads(j, t)
             PROVE  FALSE
  BY DEF ElectionSafety, ElectionInv, NodesSound, Ballot
<1>1. ASSUME NEW v \in Server, NEW c \in Server, Leads(c, t), v \in node[c].acks
      PROVE  Supports(v, c, t)
  BY <1>1 DEF Supports, Leads
<1>2. ASSUME NEW k \in Server, Leads(k, t)
      PROVE  /\ Voters(k) \subseteq Server
             /\ Cardinality(Voters(k)) \in Nat
             /\ Cardinality(Voters(k)) > N \div 2
  <2>1. /\ node[k].acks \subseteq Server
        /\ node[k].votes = Cardinality(node[k].acks) + 1 /\ node[k].votes > N \div 2
    BY <1>2 DEF Leads, ElectionInv, NodesSound, Ballot, HasElectionMajority
  <2>2. IsFiniteSet(node[k].acks)
    BY <2>1, ServerAssumption, FS_Subset
  <2>3. k \notin node[k].acks
    BY <1>1, <1>2 DEF ElectionInv, SupportRemembered
  <2>4. Cardinality(Voters(k)) = node[k].votes
    BY <2>1, <2>2, <2>3, FS_AddElement
  <2>5. Cardinality(Voters(k)) \in Nat
    BY <2>2, <2>4, <2>1, FS_CardinalityType
  <2> QED
    BY <2>1, <2>4, <2>5
<1>3. N \in Nat
  BY ServerAssumption, FS_CardinalityType
<1>4. Cardinality(Voters(i)) + Cardinality(Voters(j)) > N
  <2>1. \A a, b \in Nat : a > N \div 2 /\ b > N \div 2 => a + b > N
    BY <1>3
  <2> HIDE DEF N, Voters
  <2> QED
    BY <1>2, <2>1
<1>5. PICK v \in Server : v \in Voters(i) /\ v \in Voters(j)
  BY <1>2, <1>4, ServerAssumption, FS_MajoritiesIntersect
<1>6. v \in node[i].acks => Supports(v, i, t)
  BY <1>1
<1>7. v \in node[j].acks => Supports(v, j, t)
  BY <1>1
<1>8. CASE v = i
  BY <1>5, <1>7, <1>8 DEF Leads, ElectionInv, SupportRemembered
<1>9. CASE v = j
  BY <1>5, <1>6, <1>9 DEF Leads, ElectionInv, SupportRemembered
<1>10. CASE v # i /\ v # j
  BY <1>5, <1>6, <1>7, <1>10 DEF ElectionInv, SupportUnique
<1> QED
  BY <1>8, <1>9, <1>10

\* At most one leader per term, whatever is lost or reordered between links:
\* two majorities share a voter, and a voter backs one candidate of a term.
THEOREM Elections_Safe == Spec => []ElectionSafety
<1>1. ElectionInv => ElectionSafety
  BY SafeElections
<1> QED
  BY <1>1, ElectionInvHolds, PTL

\* A node backs one candidate of a term, as a follower that remembers it, even
\* though a candidate that yields to a leader clears voted_for_.
THEOREM OneVote_PerTerm == Spec => []OneVotePerTerm
<1>1. ElectionInv => OneVotePerTerm
  BY DEF ElectionInv, NodesSound, Ballot, SupportRemembered, SupportUnique, OneVotePerTerm
<1> QED
  BY <1>1, ElectionInvHolds, PTL

\* Terms never fall, and only a candidate that yields withdraws a vote.
THEOREM Votes_AreFinal == Spec => VotesAreFinal
<1>1. ElectionInv /\ [Next]_vars =>
        [\A i \in Server : VoteStands(i, node[i], node'[i])]_vars
  <2> SUFFICES ASSUME ElectionInv, Next, NEW i \in Server
               PROVE  VoteStands(i, node[i], node'[i])
    OBVIOUS
  <2>1. node[i].term \in Nat
    BY DEF ElectionInv, NodesSound, Ballot
  <2>2. PICK k \in Server : Handled(k)
    BY NextHandled
  <2>3. PICK u, before, budget :
          Step(k, u, before, budget) /\ Trans(k, node[k], u)
    BY <2>2 DEF Handled, Mailed
  <2>4. /\ \A l \in Server : l # k => node'[l] = node[l]
        /\ SameElection(u, node'[k])
    BY <2>3, StepNode
  <2>5. CASE i = k
    BY <2>3, <2>4, <2>5 DEF Trans, SameElection, VoteStands
  <2>6. CASE i # k
    BY <2>1, <2>4, <2>6 DEF VoteStands
  <2> QED
    BY <2>5, <2>6
<1> QED
  BY <1>1, ElectionInvHolds, PTL DEF Spec, VotesAreFinal

-----------------------------------------------------------------------------
(* Who votes for whom, and whose votes are counted *)

\* A handler run that grants no vote and counts none.
Routine(s, u) ==
  /\ \A k \in Server : \A t : VoteResponse(t, TRUE) \notin u.out[k]
  /\ u.role # "follower" =>
       u.acks = {} \/ (u.role = s.role /\ u.term = s.term /\ u.acks = s.acks)

LEMMA RoutineSelf ==
  ASSUME NEW s, s.out = NoMessages
  PROVE  Routine(s, s)
  BY DEF Routine, NoMessages

LEMMA RoutineNeutral ==
  ASSUME NEW s, NEW u, NEW w, Routine(s, u), Neutral(u, w)
  PROVE  Routine(s, w)
<1>1. \A t, v : ~Plain(VoteResponse(t, TRUE), v)
  BY DEF VoteResponse, Plain
<1> QED
  BY <1>1 DEF Routine, Neutral, SameElection

LEMMA BecomeFollowerRoutine ==
  ASSUME NEW i, NEW s, AtRest(i, s), NEW t \in Nat, t > s.term
  PROVE  Routine(s, BecomeFollower(s, t))
<1>1. \A n, v : ~Plain(VoteResponse(n, TRUE), v)
  BY DEF VoteResponse, Plain
<1> DEFINE u == BecomeFollower(s, t)
<1>2. /\ u.role = "follower"
      /\ \A k \in Server : \A m \in u.out[k] : Plain(m, s.term)
  BY BecomeFollowerTrans
<1> HIDE DEF u
<1>3. Routine(s, u)
  BY <1>1, <1>2 DEF Routine
<1> QED
  BY <1>3 DEF u

LEMMA StartElectionRoutine ==
  ASSUME NEW i \in Server, NEW s, AtRest(i, s)
  PROVE  Routine(s, StartElection(s, i))
<1> DEFINE u == StartElection(s, i)
<1>1. u.role = "candidate" /\ u.acks = {}
  BY DEF StartElection, ResetElectionTimer, BecomeCandidate, RequeueAllInflight,
         AtRest, Ballot, Shape
<1>2. Trans(i, s, u)
  BY StartElectionTrans
<1> HIDE DEF u
<1>3. \A k \in Server : \A m \in u.out[k] : Posted(i, s, u, k, m)
  BY <1>2 DEF Trans
<1>4. \A k \in Server : \A t : ~Posted(i, s, u, k, VoteResponse(t, TRUE))
  BY <1>1 DEF Posted, Plain, VoteResponse
<1>5. Routine(s, u)
  BY <1>1, <1>3, <1>4 DEF Routine
<1> QED
  BY <1>5 DEF u

LEMMA AppendEntriesRoutine ==
  ASSUME NEW i \in Server, NEW j \in Server, NEW s, AtRest(i, s),
         NEW m, m.term \in Nat
  PROVE  Routine(s, HandleAppendEntries(s, i, j, m))
<1> DEFINE u == IF m.term > s.term THEN BecomeFollower(s, m.term)
                ELSE IF s.role = "candidate" THEN YieldToLeader(s)
                ELSE s
<1>1. Shape(s) /\ Routine(s, s)
  BY RoutineSelf DEF AtRest, Ballot
<1>2. Shape(u) /\ Routine(s, u)
  <2>1. CASE m.term > s.term
    BY <2>1, BecomeFollowerTrans, BecomeFollowerRoutine DEF Trans, Ballot
  <2>2. CASE ~(m.term > s.term) /\ s.role = "candidate"
    <3>1. LET y == YieldToLeader(s)
          IN Shape(y) /\ y.role = "follower" /\ y.out = NoMessages
      BY <1>1, <2>2 DEF YieldToLeader, AtRest, Shape
    <3> QED
      BY <2>2, <3>1 DEF Routine, NoMessages
  <2>3. CASE ~(m.term > s.term) /\ s.role # "candidate"
    BY <1>1, <2>3
  <2> QED
    BY <2>1, <2>2, <2>3
<1> HIDE DEF u
<1>3. Routine(s, Post(s, j, AppendResponse(s.term, FALSE, 0, 0, 0)))
  BY <1>1, RejectNeutral, RoutineNeutral
<1>4. Routine(s, Accept(u, i, j, m)) /\ Routine(s, Post(u, j, Reject(u, m)))
  BY <1>2, AcceptNeutral, RejectNeutral, RoutineNeutral
<1> QED
  BY <1>3, <1>4 DEF HandleAppendEntries, u

LEMMA AppendResponseRoutine ==
  ASSUME NEW i \in Server, NEW j \in Server, NEW s, AtRest(i, s),
         NEW m, m.term \in Nat
  PROVE  Routine(s, HandleAppendEntriesResponse(s, i, j, m))
<1>1. Shape(s) /\ Routine(s, s) /\ s.term \in Nat
  BY RoutineSelf DEF AtRest, Ballot
<1>2. Routine(s, SendAppendEntries([s EXCEPT !.next[j] = BackOff(s, j, m)], {j}))
  BY <1>1, BackedOffNeutral, RoutineNeutral
<1>3. \A match, next :
        Routine(s, UpdateCommitIndex(
                     [s EXCEPT !.match[j] = match, !.next[j] = next], i))
  BY <1>1, BackedOffNeutral, RoutineNeutral
<1> QED
  BY <1>1, <1>2, <1>3, BecomeFollowerRoutine DEF HandleAppendEntriesResponse

\* A vote is granted to the sender j of the request m, which is of the term that
\* the node is in by then, and whose log is not behind the node's.
Grants(s, u, j, m) ==
  /\ \A k \in Server : \A t : VoteResponse(t, TRUE) \in u.out[k] =>
       k = j /\ t = m.term /\ IsLogOk(s, m)
  /\ u.log = s.log
  /\ u.role # "follower" => u.role = s.role /\ u.term = s.term /\ u.acks = s.acks

\* Only a candidate counts votes, and those of its term: the one of j, if granted.
Counts(s, u, j, granted) ==
  /\ s.role = "candidate" /\ u.term = s.term
  /\ \A v \in u.acks : v \in s.acks \/ (v = j /\ granted)
  /\ \A k \in Server : \A t : VoteResponse(t, TRUE) \notin u.out[k]

LEMMA RequestVoteGrants ==
  ASSUME NEW i \in Server, NEW j \in Server, NEW s, AtRest(i, s),
         NEW m, m.term \in Nat
  PROVE  Grants(s, HandleRequestVote(s, j, m), j, m)
<1> DEFINE u == IF m.term > s.term THEN BecomeFollower(s, m.term) ELSE s
           canGrant == CanGrant(u, j, m)
           v == IF canGrant THEN GrantVote(u, j) ELSE u
           w == Post(v, j, VoteResponse(u.term, canGrant))
<1>1. Shape(s) /\ s.term \in Nat /\ Routine(s, s)
  BY RoutineSelf DEF AtRest, Ballot
<1>2. /\ Shape(u) /\ u.log = s.log /\ Routine(s, u) /\ u.term \in Nat /\ u.term >= m.term
      /\ \/ u.role = "follower"
         \/ u = s
  <2>1. CASE m.term > s.term
    <3>1. BecomeFollower(s, m.term).log = s.log
      BY <1>1 DEF BecomeFollower, RequeueAllInflight, DrainPendingClientResponses, Shape
    <3> QED
      BY <2>1, <3>1, BecomeFollowerTrans, BecomeFollowerRoutine DEF Trans, Ballot
  <2>2. CASE ~(m.term > s.term)
    BY <1>1, <2>2
  <2> QED
    BY <2>1, <2>2
<1>3. canGrant => u.term = m.term /\ IsLogOk(s, m)
  BY <1>2 DEF CanGrant, IsLogOk, GetLastLogTerm, GetLastLogIndex
<1> HIDE DEF u, canGrant
<1>4. /\ Shape(v) /\ v.role = u.role /\ v.term = u.term /\ v.log = u.log
      /\ v.acks = u.acks /\ v.out = u.out
  BY <1>2 DEF GrantVote, ResetElectionTimer, Shape
<1> HIDE DEF v
<1>5. /\ w.role = u.role /\ w.term = u.term /\ w.log = u.log /\ w.acks = u.acks
      /\ \A k \in Server : \A n \in w.out[k] :
           n \in u.out[k] \/ (k = j /\ n = VoteResponse(u.term, canGrant))
  BY <1>4 DEF Post, Shape
<1> HIDE DEF w
<1>6. ASSUME NEW k \in Server, NEW t, VoteResponse(t, TRUE) \in w.out[k]
      PROVE  k = j /\ t = m.term /\ IsLogOk(s, m)
  <2>1. k = j /\ VoteResponse(t, TRUE) = VoteResponse(u.term, canGrant)
    BY <1>2, <1>5, <1>6 DEF Routine
  <2>2. t = u.term /\ canGrant
    BY <2>1 DEF VoteResponse
  <2> QED
    BY <1>3, <2>1, <2>2
<1>7. w.role # "follower" => w.role = s.role /\ w.term = s.term /\ w.acks = s.acks
  BY <1>2, <1>5
<1>8. w.log = s.log
  BY <1>2, <1>5
<1>9. w = HandleRequestVote(s, j, m)
  BY DEF HandleRequestVote, u, canGrant, v, w
<1>10. Grants(s, w, j, m)
  BY <1>6, <1>7, <1>8 DEF Grants
<1> QED
  BY <1>9, <1>10

LEMMA VoteResponseCounts ==
  ASSUME NEW i \in Server, NEW j \in Server, NEW s, AtRest(i, s),
         NEW t \in Nat, NEW ack \in BOOLEAN
  PROVE  LET u == HandleRequestVoteResponse(s, i, j, VoteResponse(t, ack))
         IN Routine(s, u) \/ Counts(s, u, j, ack /\ t = s.term)
<1> DEFINE m == VoteResponse(t, ack)
           counted == IF ack /\ j \notin s.acks
                      THEN [s EXCEPT !.acks = @ \cup {j}, !.votes = @ + 1] ELSE s
           elected == [counted EXCEPT
                         !.role = "leader",
                         !.next = [k \in Server |-> GetLastLogIndex(counted) + 1],
                         !.match = [k \in Server |-> 0],
                         !.heartbeatArmed = TRUE, !.electionArmed = FALSE]
           u == HandleRequestVoteResponse(s, i, j, m)
<1>1. m.term = t /\ m.ack = ack
  BY DEF VoteResponse
<1>2. Routine(s, s) /\ Shape(s) /\ s.term \in Nat /\ s.out = NoMessages
  BY RoutineSelf DEF AtRest, Ballot
<1> HIDE DEF m
<1>3. CASE IsVoteVoid(s, m)
  BY <1>2, <1>3 DEF HandleRequestVoteResponse, m
<1>4. CASE ~IsVoteVoid(s, m) /\ t > s.term
  BY <1>1, <1>4, BecomeFollowerRoutine DEF HandleRequestVoteResponse, m
<1>5. CASE ~IsVoteVoid(s, m) /\ ~(t > s.term)
  <2>1. s.role = "candidate" /\ t = s.term
    BY <1>1, <1>2, <1>5 DEF IsVoteVoid
  <2>2. /\ Shape(counted) /\ counted.role = s.role /\ counted.term = s.term
        /\ counted.out = NoMessages
        /\ \A v \in counted.acks : v \in s.acks \/ (v = j /\ ack)
    BY <1>2 DEF Shape
  <2> HIDE DEF counted
  <2>3. LET w == BecomeLeader(counted, i) IN
          /\ w.term = s.term /\ w.role = "leader" /\ w.acks = counted.acks
          /\ \A k \in Server : \A v : VoteResponse(v, TRUE) \notin w.out[k]
    <3> DEFINE w == BecomeLeader(counted, i)
    <3>1. /\ Shape(elected) /\ elected.role = "leader" /\ elected.term = s.term
          /\ elected.out = NoMessages /\ elected.acks = counted.acks
      BY <2>2 DEF Shape
    <3>2. w = FlushPendingClientCommands(SendAppendEntries(elected, Peers(i)), i)
      BY DEF BecomeLeader
    <3> HIDE DEF elected, w
    <3>3. LET sent == SendAppendEntries(elected, Peers(i))
          IN Neutral(elected, sent) /\ Shape(sent)
      BY <3>1, SendNeutral DEF Neutral
    <3>4. Neutral(elected, w) /\ Routine(elected, w)
      BY <3>1, <3>2, <3>3, FlushNeutral, NeutralTrans, RoutineSelf, RoutineNeutral
    <3>5. /\ w.term = s.term /\ w.role = "leader" /\ w.acks = counted.acks
          /\ \A k \in Server : \A v : VoteResponse(v, TRUE) \notin w.out[k]
      BY <3>1, <3>4 DEF Neutral, SameElection, Routine
    <3> QED
      BY <3>5 DEF w
  <2>4. u = IF HasElectionMajority(counted) THEN BecomeLeader(counted, i) ELSE counted
    BY <1>1, <1>5 DEF HandleRequestVoteResponse, counted
  <2> QED
    BY <2>1, <2>2, <2>3, <2>4 DEF m, NoMessages, Counts
<1> QED
  BY <1>3, <1>4, <1>5

\* What a step of i does to votes.  One that it grants answers a request that it
\* found, and one that it counts is the message that it took off.
Ballots(i, u, before) ==
  LET s == node[i]
      granted(c, t) == \E m \in InTransit(c, i) :
                         m.type = "RequestVote" /\ m.term = t /\ IsLogOk(s, m)
      counted(v) == \E m \in Head(links[<<v, i>>]) :
                      /\ m = VoteResponse(s.term, TRUE)
                      /\ links[<<v, i>>] # <<>> /\ before = Taken(v, i, m)
  IN /\ \A c \in Server : \A t :
          VoteResponse(t, TRUE) \in u.out[c] => granted(c, t) /\ u.log = s.log
     /\ u.role # "follower" /\ u.acks # {} =>
          /\ s.role # "follower" /\ u.term = s.term
          /\ s.role = "leader" => u.acks = s.acks
          /\ \A v \in u.acks : v \in s.acks \/ counted(v)

LEMMA RoutineBallots ==
  ASSUME NEW i \in Server, NEW u, NEW before, Routine(node[i], u)
  PROVE  Ballots(i, u, before)
  BY Zenon DEF Routine, Ballots

LEMMA OnMessageBallots ==
  ASSUME ElectionInv, NEW i \in Server, NEW j \in Server, links[<<j, i>>] # <<>>,
         NEW m \in Head(links[<<j, i>>]), NEW r \in Resolutions(m, node[i].log),
         NEW u, u = OnMessage(node[i], i, j, r)
  PROVE  Ballots(i, u, Taken(j, i, m))
<1> DEFINE s == node[i]
<1>1. AtRest(i, s) /\ Shape(s) /\ Routine(s, s)
  BY NodesAtRest, RoutineSelf DEF AtRest
<1>2. m \in InTransit(j, i)
  <2>1. PICK S : links[<<j, i>>] \in Seq(S)
    BY DEF ElectionInv, LinksSound
  <2>2. 1 \in DOMAIN links[<<j, i>>] /\ Head(links[<<j, i>>]) = links[<<j, i>>][1]
    BY <2>1
  <2> QED
    BY <2>2 DEF InTransit
<1>3. Mail(j, i, m)
  BY <1>2 DEF ElectionInv, LinksSound
<1>4. CASE m.type = "AppendEntries"
  <2>1. m.term \in Nat /\ {"type", "term"} \subseteq DOMAIN m
    BY <1>3, <1>4 DEF Mail, Plain, VoteResponse
  <2>2. r.type = m.type /\ r.term = m.term
    BY <2>1 DEF Resolutions
  <2>3. Routine(s, u)
    BY <1>1, <1>4, <2>1, <2>2, AppendEntriesRoutine DEF OnMessage
  <2> QED
    BY <2>3, RoutineBallots
<1>5. CASE m.type # "AppendEntries"
  <2>1. r = m
    BY <1>5 DEF Resolutions
  <2>2. CASE m.type = "AppendEntriesResponse"
    <3>1. m.term \in Nat
      BY <1>3, <2>2 DEF Mail, Plain, VoteResponse
    <3>2. Routine(s, u)
      BY <1>1, <2>1, <2>2, <3>1, AppendResponseRoutine DEF OnMessage
    <3> QED
      BY <3>2, RoutineBallots
  <2>3. CASE m.type = "RequestVote"
    <3>1. m.term \in Nat
      BY <1>3, <2>3 DEF Mail, Plain, VoteResponse
    <3>2. u = HandleRequestVote(s, j, m)
      BY <2>1, <2>3 DEF OnMessage
    <3>3. Grants(s, u, j, m)
      BY <1>1, <3>1, <3>2, RequestVoteGrants
    <3> HIDE DEF s
    <3>4. \A c \in Server : \A t : VoteResponse(t, TRUE) \in u.out[c] =>
            \E n \in InTransit(c, i) :
              n.type = "RequestVote" /\ n.term = t /\ IsLogOk(s, n)
      BY <1>2, <2>3, <3>3, Zenon DEF Grants
    <3> QED
      BY <3>3, <3>4, Zenon DEF Ballots, Grants, s
  <2>4. CASE m.type = "RequestVoteResponse"
    <3>1. PICK t \in Nat, ack \in BOOLEAN : m = VoteResponse(t, ack)
      BY <1>3, <2>4 DEF Mail, Plain
    <3>2. u = HandleRequestVoteResponse(s, i, j, VoteResponse(t, ack))
      BY <2>1, <2>4, <3>1 DEF OnMessage
    <3>3. CASE Routine(s, u)
      BY <3>3, RoutineBallots
    <3>4. CASE ~Routine(s, u)
      <4>1. Counts(s, u, j, ack /\ t = s.term)
        BY <1>1, <3>2, <3>4, VoteResponseCounts
      <4>2. ack => ack = TRUE
        BY <3>1
      <4> HIDE DEF s
      <4>3. \A v \in u.acks : v \in s.acks \/ (v = j /\ m = VoteResponse(s.term, TRUE))
        BY <3>1, <4>1, <4>2 DEF Counts
      <4> QED
        BY <4>1, <4>3, Zenon DEF Ballots, Counts, s
    <3> QED
      BY <3>3, <3>4
  <2>5. CASE m.type \in {"client_command_redirected", "client_command_redirected_response"}
    <3>1. Neutral(s, u)
      BY <1>1, <2>1, <2>5, RedirectedNeutral, RedirectedResponseNeutral DEF OnMessage
    <3> QED
      BY <1>1, <3>1, RoutineNeutral, RoutineBallots
  <2> QED
    BY <1>3, <1>5, <2>2, <2>3, <2>4, <2>5 DEF Mail, Plain, VoteResponse
<1> QED
  BY <1>4, <1>5

LEMMA MailedBallots ==
  ASSUME ElectionInv, NEW i \in Server, NEW u, NEW before, Received(i, u, before)
  PROVE  Ballots(i, u, before)
<1> DEFINE s == node[i]
           sent == SendAppendEntries(s, Peers(i))
           idle == [s EXCEPT !.heartbeatArmed = FALSE]
<1>1. AtRest(i, s) /\ Shape(s) /\ Routine(s, s)
  BY NodesAtRest, RoutineSelf DEF AtRest
<1>2. CASE Unprompted(i, u)
  <2>1. Routine(s, StartElection(s, i))
    BY <1>1, StartElectionRoutine
  <2>2. Neutral(s, sent)
    BY <1>1, SendNeutral
  <2>3. Neutral(s, idle)
    BY <1>1 DEF Neutral, SameElection, Shape
  <2>4. \A cmd \in Commands : Neutral(s, SubmitCommand(s, i, cmd))
    BY <1>1, SubmitNeutral
  <2>5. u = StartElection(s, i) \/ Neutral(s, u)
    BY <1>2, <2>2, <2>3, <2>4 DEF Unprompted
  <2> HIDE DEF s
  <2>6. Routine(s, u)
    BY <1>1, <2>1, <2>5, RoutineNeutral
  <2> QED
    BY <2>6, RoutineBallots DEF s
<1>3. ASSUME NEW j \in Server, links[<<j, i>>] # <<>>,
             NEW m \in Head(links[<<j, i>>]), NEW r \in Resolutions(m, s.log),
             before = Taken(j, i, m), u = OnMessage(s, i, j, r)
      PROVE  Ballots(i, u, before)
  BY <1>3, OnMessageBallots
<1> QED
  BY <1>2, <1>3 DEF Received

=============================================================================
