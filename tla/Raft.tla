-------------------------------- MODULE Raft --------------------------------
(***************************************************************************)
(* The consensus nodes of raft/ and hybrid_raft/ on the simulated network. *)
(*                                                                         *)
(* A node handles one event at a time: the delivery of a message, a local  *)
(* client command or a timer.  A handler is an operator named after the    *)
(* C++ method; it maps the node's record s to the record the handler       *)
(* leaves, with the messages it sent collected in s.out.  An action picks  *)
(* the event, applies the handler, and puts s.out on the links.            *)
(*                                                                         *)
(* Log positions are 1-based: position p is index p-1 of the code, and 0   *)
(* is the code's -1 (no entry, nothing matched, nothing committed).        *)
(* The two variants share all of the code but the log back-off; Hybrid     *)
(* selects it.                                                             *)
(***************************************************************************)
EXTENDS Integers, Sequences, FiniteSets

CONSTANTS
  Server,      \* the nodes of the cluster
  Writes,      \* SET and DEL commands, each submitted once
  Reads,       \* GET commands, each submitted once
  Key,         \* Key[c]: the key of command c
  Value,       \* Value[w]: what write w leaves at its key, Absent for a DEL
  Nobody,      \* std::nullopt of voted_for_, leader_id_ and redirect_to
  Absent,      \* the value of a key that the store does not hold
  Hybrid,      \* TRUE: hybrid_raft/, FALSE: raft/
  MaxElections,   \* bound on the election timeouts of a behaviour
  MaxHeartbeats,  \* bound on the heartbeat timeouts
  MaxLosses,      \* bound on the messages the network drops
  MaxInTransit    \* bound: timers and clients wait while more is on the links

ASSUME ServerAssumption == IsFiniteSet(Server) /\ Cardinality(Server) >= 2
ASSUME NobodyAssumption == Nobody \notin Server
ASSUME CommandAssumption ==
  Writes \cap Reads = {} /\ DOMAIN Key = Writes \cup Reads /\ DOMAIN Value = Writes
ASSUME VariantAssumption == Hybrid \in BOOLEAN
ASSUME BoundAssumption == 
  {MaxElections, MaxHeartbeats, MaxLosses, MaxInTransit} \subseteq Nat

VARIABLES
  node,    \* node[i]: the members of node i, and the history field answered
  links,   \* links[<<i, j>>]: what i sent to j, one set per handler run of i
  fresh,   \* commands that no client has submitted yet
  left     \* what is left of the three bounds

vars == <<node, links, fresh, left>>

-----------------------------------------------------------------------------
(* Values *)

Commands == Writes \cup Reads
Keys == {Key[c] : c \in Commands}
Values == {Value[w] : w \in Writes} \cup {Absent}
Roles == {"follower", "candidate", "leader"}
Peers(i) == Server \ {i}

\* log_[n].term when n is past the end of log_: whatever memory holds there.
Garbage == -1

NoMessages == [j \in Server |-> {}]

\* What the client at a node is told; value is meaningful for a GET only.
Answers == [cmd : Commands, ok : BOOLEAN, value : Values]

VoteRequest(term, lastIndex, lastTerm) ==
  [type |-> "RequestVote", term |-> term,
   lastIndex |-> lastIndex, lastTerm |-> lastTerm]

VoteResponse(term, ack) ==
  [type |-> "RequestVoteResponse", term |-> term, ack |-> ack]

AppendRequest(term, prevIndex, prevTerm, entries, commit) ==
  [type |-> "AppendEntries", term |-> term, prevIndex |-> prevIndex,
   prevTerm |-> prevTerm, entries |-> entries, commit |-> commit]

\* hintIndex and hintTerm are 0 in raft/ and when hybrid_raft/ gives no hint.
AppendResponse(term, ok, match, hintIndex, hintTerm) ==
  [type |-> "AppendEntriesResponse", term |-> term, ok |-> ok, match |-> match,
   hintIndex |-> hintIndex, hintTerm |-> hintTerm]

Redirect(cmd) == [type |-> "client_command_redirected", cmd |-> cmd]

RedirectResponse(cmd, ok, value) ==
  [type |-> "client_command_redirected_response",
   cmd |-> cmd, ok |-> ok, value |-> value]

-----------------------------------------------------------------------------
(* State after set_peers and start have reached every node *)

InitNode ==
  [role |-> "follower", term |-> 0, votedFor |-> Nobody, votes |-> 0,
   acks |-> {}, leader |-> Nobody,
   log |-> <<>>, next |-> [j \in Server |-> 1], match |-> [j \in Server |-> 0],
   commit |-> 0, kv |-> [k \in Keys |-> Absent],
   pending |-> <<>>, inflight |-> <<>>, responses |-> <<>>,
   electionArmed |-> TRUE, heartbeatArmed |-> FALSE,
   out |-> NoMessages, answered |-> {}]

Init ==
  /\ node = [i \in Server |-> InitNode]
  /\ links = [l \in Server \X Server |-> <<>>]
  /\ fresh = Commands
  /\ left = [elections |-> MaxElections, heartbeats |-> MaxHeartbeats,
             losses |-> MaxLosses]

-----------------------------------------------------------------------------
(* Sending, the log, and what is applied of it *)

Post(s, j, m) == [s EXCEPT !.out[j] = @ \cup {m}]

GetLastLogIndex(s) == Len(s.log)
GetLastLogTerm(s) == IF s.log = <<>> THEN 0 ELSE s.log[Len(s.log)].term

\* commit_index_ moves and ApplyCommittedEntries runs: of the entries applied
\* for a key, each of them a write, the last one decides what the key holds.
Commit(s, upTo) ==
  LET applied(k) == {p \in (s.commit + 1)..upTo : Key[s.log[p].cmd] = k}
      last(k) == CHOOSE p \in applied(k) : \A q \in applied(k) : q <= p
  IN [s EXCEPT !.commit = upTo,
               !.kv = [k \in Keys |-> IF applied(k) = {} THEN s.kv[k]
                                      ELSE Value[s.log[last(k)].cmd]]]

ResetElectionTimer(s) == [s EXCEPT !.electionArmed = TRUE]

-----------------------------------------------------------------------------
(* Client bookkeeping *)

\* The elements of q that are in S, in their order.
Filter(q, S) ==
  LET upTo[n \in 0..Len(q)] ==
        IF n = 0 THEN <<>>
        ELSE IF q[n] \in S THEN Append(upTo[n - 1], q[n]) ELSE upTo[n - 1]
  IN upTo[Len(q)]

\* Two GETs or two DELs of a key, or SETs of a key to the same value, cannot be
\* told apart on the wire.
ClientCommandsMatch(c, d) ==
  /\ Key[c] = Key[d]
  /\ \/ {c, d} \subseteq Reads
     \/ {c, d} \subseteq Writes /\ Value[c] = Value[d]

Respond(s, redirectTo, cmd, ok, value) ==
  IF redirectTo = Nobody
  THEN [s EXCEPT !.answered = @ \cup {[cmd |-> cmd, ok |-> ok, value |-> value]}]
  ELSE Post(s, redirectTo, RedirectResponse(cmd, ok, value))

\* The first n of pending_client_responses_ are answered and dropped.  No two of
\* them are of one command from one node: a node redirects a command to a leader
\* again only after a change of leader, and a leader that steps down drains all.
DrainPendingClientResponses(s, ok, n) ==
  LET drained == {s.responses[k] : k \in 1..n}
  IN [s EXCEPT
        !.responses = SubSeq(@, n + 1, Len(@)),
        !.answered = @ \cup {[cmd |-> r.cmd, ok |-> ok, value |-> Absent] :
                               r \in {d \in drained : d.redirectTo = Nobody}},
        !.out = [j \in Server |-> s.out[j] \cup
                   {RedirectResponse(r.cmd, ok, Absent) :
                      r \in {d \in drained : d.redirectTo = j}}]]

\* Faulty: stops short of the entry at commit_index_.
CommittedResponsesShort(s) ==
  Cardinality({n \in DOMAIN s.responses :
                 \A k \in 1..n : s.responses[k].index < s.commit})

\* How many responses the drain up to commit_index_ takes from the front.
CommittedResponses(s) ==
  Cardinality({n \in DOMAIN s.responses :
                 \A k \in 1..n : s.responses[k].index <= s.commit})

CommandsOf(inflight) == [k \in DOMAIN inflight |-> inflight[k].cmd]

RequeueAllInflight(s) ==
  [s EXCEPT !.pending = CommandsOf(s.inflight) \o @, !.inflight = <<>>]

RequeueInflightNotTo(s, leader) ==
  LET toLeader == [cmd : Commands, to : {leader}]
      elsewhere == [cmd : Commands, to : Server \ {leader}]
  IN [s EXCEPT
        !.pending = CommandsOf(Filter(s.inflight, elsewhere)) \o @,
        !.inflight = Filter(@, toLeader)]

-----------------------------------------------------------------------------
(* Replication, leader side *)

\* Faulty: hybrid_raft/ without its clamp.
NextToSendUnclamped(s, j) == s.next[j]

\* hybrid_raft/ clamps next_index_ to the log before it reads; raft/ does not.
NextToSend(s, j) ==
  IF Hybrid /\ s.next[j] > Len(s.log) + 1 THEN Len(s.log) + 1 ELSE s.next[j]

\* The term of the entry at p; log_ is read whether there is one or not.
TermAt(s, p) == IF p = 0 THEN 0
                ELSE IF p <= Len(s.log) THEN s.log[p].term
                ELSE Garbage

AppendRequestFor(s, j) ==
  LET prev == NextToSend(s, j) - 1
  IN AppendRequest(s.term, prev, TermAt(s, prev),
                   SubSeq(s.log, prev + 1, Len(s.log)), s.commit)

SendAppendEntries(s, peers) ==
  [s EXCEPT
     !.next = [j \in Server |->
                 IF j \in peers THEN NextToSend(s, j) ELSE s.next[j]],
     !.out = [j \in Server |->
                IF j \in peers THEN s.out[j] \cup {AppendRequestFor(s, j)}
                               ELSE s.out[j]]]

\* Element (n-1)/2 of the sorted match indexes: the highest position that a
\* majority, the leader with its own last index included, is known to reach.
MajorityMatch(s, i) ==
  LET reach(j) == IF j = i THEN GetLastLogIndex(s) ELSE s.match[j]
      backed(p) == Cardinality({j \in Server : reach(j) >= p})
                     > Cardinality(Server) \div 2
      positions == {reach(j) : j \in Server}
  IN CHOOSE p \in positions :
       backed(p) /\ \A q \in positions : backed(q) => q <= p

\* CommitsWithinLog says that the entry at candidate is there to be read.
UpdateCommitIndex(s, i) ==
  LET candidate == MajorityMatch(s, i)
      committed == Commit(s, candidate)
  IN IF candidate > s.commit /\ TermAt(s, candidate) = s.term
     THEN DrainPendingClientResponses(committed, TRUE,
                                      CommittedResponses(committed))
     ELSE s

-----------------------------------------------------------------------------
(* Client commands *)

Entry(s, cmd) == [term |-> s.term, cmd |-> cmd]

ExecuteClientCommand(s, i, cmd, redirectTo) ==
  IF cmd \in Reads
  THEN Respond(s, redirectTo, cmd, TRUE, s.kv[Key[cmd]])
  ELSE LET appended ==
             [s EXCEPT !.log = Append(@, Entry(s, cmd)),
                       !.responses = Append(@, [index |-> Len(s.log) + 1,
                                                redirectTo |-> redirectTo,
                                                cmd |-> cmd])]
       IN UpdateCommitIndex(SendAppendEntries(appended, Peers(i)), i)

\* A new leader executes its pending commands one after the other: nothing is
\* matched yet, so nothing commits, and the k-th write sends the first k.
ExecutePending(s, i) ==
  LET writes == Filter(s.pending, Writes)
      base == Len(s.log)
      grown == s.log \o [k \in DOMAIN writes |-> Entry(s, writes[k])]
      reads == {c \in Reads : \E k \in DOMAIN s.pending : s.pending[k] = c}
      request(j, k) == [AppendRequestFor(s, j) EXCEPT
                          !.entries = SubSeq(grown, base + 1, base + k)]
  IN [s EXCEPT
        !.pending = <<>>,
        !.log = grown,
        !.responses = @ \o [k \in DOMAIN writes |->
                              [index |-> base + k, redirectTo |-> Nobody,
                               cmd |-> writes[k]]],
        !.answered = @ \cup
          {[cmd |-> c, ok |-> TRUE, value |-> s.kv[Key[c]]] : c \in reads},
        !.out = [j \in Server |->
                   IF j = i THEN s.out[j]
                   ELSE s.out[j] \cup {request(j, k) : k \in DOMAIN writes}]]

\* A follower's commands go to the leader it knows and are remembered in flight.
ForwardToLeader(s, cmds) ==
  [s EXCEPT
     !.inflight = @ \o [k \in DOMAIN cmds |-> [cmd |-> cmds[k], to |-> s.leader]],
     !.out[s.leader] = @ \cup {Redirect(cmds[k]) : k \in DOMAIN cmds}]

\* Faulty: only a leader looks after what is pending.
FlushPendingOfLeader(s, i) ==
  IF s.role = "leader" THEN ExecutePending(s, i) ELSE s

FlushPendingClientCommands(s, i) ==
  IF s.role = "leader" THEN ExecutePending(s, i)
  ELSE IF s.leader = Nobody THEN s
  ELSE ForwardToLeader([s EXCEPT !.pending = <<>>], s.pending)

\* Faulty: forwards without asking whether a leader is known.
SubmitCommandToAnyone(s, i, cmd) ==
  IF s.role = "leader" THEN ExecuteClientCommand(s, i, cmd, Nobody)
  ELSE ForwardToLeader(s, <<cmd>>)

SubmitCommand(s, i, cmd) ==
  IF s.role = "leader" THEN ExecuteClientCommand(s, i, cmd, Nobody)
  ELSE IF s.leader = Nobody THEN [s EXCEPT !.pending = Append(@, cmd)]
  ELSE ForwardToLeader(s, <<cmd>>)

HandleClientCommandRedirected(s, i, j, m) ==
  IF s.role = "leader" THEN ExecuteClientCommand(s, i, m.cmd, j) ELSE s

\* The redirects in flight to j that a response about cmd can belong to.
MatchingInflight(s, j, cmd) ==
  {k \in DOMAIN s.inflight : /\ s.inflight[k].to = j
                             /\ ClientCommandsMatch(s.inflight[k].cmd, cmd)}

FirstOf(positions) == CHOOSE k \in positions : \A l \in positions : k <= l

\* Faulty: the client is answered but the redirect stays in flight.
HandleClientCommandRedirectedResponseAndKeep(s, j, m) ==
  LET matching == MatchingInflight(s, j, m.cmd)
  IN IF matching = {} THEN s
     ELSE Respond(s, Nobody, s.inflight[FirstOf(matching)].cmd, m.ok, m.value)

\* The client of the first redirect that matches is told: it may be answered
\* with the response to a like command of another client.
HandleClientCommandRedirectedResponse(s, j, m) ==
  LET matching == MatchingInflight(s, j, m.cmd)
      first == FirstOf(matching)
  IN IF matching = {} THEN s
     ELSE Respond([s EXCEPT !.inflight = SubSeq(@, 1, first - 1)
                                         \o SubSeq(@, first + 1, Len(@))],
                  Nobody, s.inflight[first].cmd, m.ok, m.value)

-----------------------------------------------------------------------------
(* Roles and elections *)

\* Faulty: the responses still owed are kept.
BecomeFollowerInDebt(s, term) ==
  [RequeueAllInflight(s) EXCEPT
     !.role = "follower", !.term = term, !.votedFor = Nobody, !.votes = 0,
     !.acks = {}, !.leader = Nobody, !.electionArmed = TRUE]

\* Faulty: no election timer.
BecomeFollowerUntimed(s, term) ==
  [RequeueAllInflight(
     DrainPendingClientResponses(s, FALSE, Len(s.responses))) EXCEPT
     !.role = "follower", !.term = term, !.votedFor = Nobody, !.votes = 0,
     !.acks = {}, !.leader = Nobody]

BecomeFollower(s, term) ==
  [RequeueAllInflight(
     DrainPendingClientResponses(s, FALSE, Len(s.responses))) EXCEPT
     !.role = "follower", !.term = term, !.votedFor = Nobody, !.votes = 0,
     !.acks = {}, !.leader = Nobody, !.electionArmed = TRUE]

\* Faulty: leader_id_ survives the change of term.
BecomeCandidateLed(s, i) ==
  [RequeueAllInflight(s) EXCEPT
     !.role = "candidate", !.term = @ + 1, !.votedFor = i, !.votes = 1,
     !.acks = {}]

\* Faulty: redirects stay in flight to a leader that is given up.
BecomeCandidateInFlight(s, i) ==
  [s EXCEPT !.role = "candidate", !.term = @ + 1, !.votedFor = i, !.votes = 1,
            !.acks = {}, !.leader = Nobody]

BecomeCandidate(s, i) ==
  [RequeueAllInflight(s) EXCEPT
     !.role = "candidate", !.term = @ + 1, !.votedFor = i, !.votes = 1,
     !.acks = {}, !.leader = Nobody]

BecomeLeader(s, i) ==
  LET elected == [s EXCEPT
                    !.role = "leader",
                    !.next = [j \in Server |-> GetLastLogIndex(s) + 1],
                    !.match = [j \in Server |-> 0],
                    !.heartbeatArmed = TRUE, !.electionArmed = FALSE]
  IN FlushPendingClientCommands(SendAppendEntries(elected, Peers(i)), i)

HasElectionMajority(s) == s.votes > Cardinality(Server) \div 2

\* With two nodes or more the candidate's own vote is no majority.
StartElection(s, i) ==
  LET u == BecomeCandidate(s, i)
      request == VoteRequest(u.term, GetLastLogIndex(u), GetLastLogTerm(u))
  IN ResetElectionTimer(
       [u EXCEPT !.out = [j \in Server |->
                            IF j = i THEN u.out[j] ELSE u.out[j] \cup {request}]])

\* Faulty: a candidate whose log is shorter will do.
IsLogOkByTerm(s, m) == m.lastTerm >= GetLastLogTerm(s)

IsLogOk(s, m) ==
  \/ m.lastTerm > GetLastLogTerm(s)
  \/ m.lastTerm = GetLastLogTerm(s) /\ m.lastIndex >= GetLastLogIndex(s)

\* Faulty: votes for any candidate of the term.
CanGrantAgain(s, j, m) == m.term >= s.term /\ IsLogOk(s, m)

CanGrant(s, j, m) ==
  m.term >= s.term /\ s.votedFor \in {Nobody, j} /\ IsLogOk(s, m)

\* Faulty: the vote is not remembered.
GrantVoteUnrecorded(s, j) == ResetElectionTimer(s)

GrantVote(s, j) == [ResetElectionTimer(s) EXCEPT !.votedFor = j]

HandleRequestVote(s, j, m) ==
  LET u == IF m.term > s.term THEN BecomeFollower(s, m.term) ELSE s
      canGrant == CanGrant(u, j, m)
      v == IF canGrant THEN GrantVote(u, j) ELSE u
  IN Post(v, j, VoteResponse(u.term, canGrant))

\* Faulty: counts the votes of earlier terms too.
IsVoteVoidWhenIdle(s, m) == s.role # "candidate"

\* A vote response that is not for the election under way.
IsVoteVoid(s, m) == s.role # "candidate" \/ m.term < s.term

HandleRequestVoteResponse(s, i, j, m) ==
  LET counted == IF m.ack /\ j \notin s.acks
                 THEN [s EXCEPT !.acks = @ \cup {j}, !.votes = @ + 1] ELSE s
  IN IF IsVoteVoid(s, m) THEN s
     ELSE IF m.term > s.term THEN BecomeFollower(s, m.term)
     ELSE IF HasElectionMajority(counted) THEN BecomeLeader(counted, i)
     ELSE counted

-----------------------------------------------------------------------------
(* Replication, both sides of the log *)

\* Faulty: any entry will do at the position before the new ones.
IsLogLongEnough(s, m) == m.prevIndex <= Len(s.log)

IsLogMatching(s, m) ==
  \/ m.prevIndex = 0
  \/ m.prevIndex <= Len(s.log) /\ s.log[m.prevIndex].term = m.prevTerm

\* The append loop: the entries go in after prevIndex, and what is beyond them
\* stays unless one of them met an entry of another term, which cuts the log.
Merge(log, prev, entries) ==
  LET last == prev + Len(entries)
      conflict == \E k \in DOMAIN entries :
                    /\ prev + k <= Len(log)
                    /\ log[prev + k].term # entries[k].term
      tail == IF conflict THEN <<>> ELSE SubSeq(log, last + 1, Len(log))
  IN SubSeq(log, 1, prev) \o entries \o tail

\* Faulty: hints at the end of the log even when that is beyond prevIndex.
ConflictHintAtEnd(s, m) ==
  AppendResponse(s.term, FALSE, 0, Len(s.log) + 1, 0)

\* MakeConflictHintReject: the first position of the rejecting node's run of
\* the term it has at prevIndex, or the end of its log when that is too short.
ConflictHintReject(s, m) ==
  LET prev == m.prevIndex
      runStart == CHOOSE p \in 1..prev :
                    /\ \A q \in p..prev : s.log[q].term = s.log[prev].term
                    /\ p > 1 => s.log[p - 1].term # s.log[prev].term
  IN IF prev > Len(s.log)
     THEN AppendResponse(s.term, FALSE, 0, Len(s.log) + 1, 0)
     ELSE AppendResponse(s.term, FALSE, 0, runStart, s.log[prev].term)

Reject(s, m) ==
  IF Hybrid THEN ConflictHintReject(s, m)
            ELSE AppendResponse(s.term, FALSE, 0, 0, 0)

Accept(s, i, j, m) ==
  LET log == Merge(s.log, m.prevIndex, m.entries)
      upTo == IF m.commit <= Len(log) THEN m.commit ELSE Len(log)
      u == [RequeueInflightNotTo(ResetElectionTimer(s), j) EXCEPT
              !.leader = j, !.log = log]
      v == IF upTo > s.commit THEN Commit(u, upTo) ELSE u
  IN FlushPendingClientCommands(
       Post(v, j, AppendResponse(s.term, TRUE, Len(log), 0, 0)), i)

\* A candidate that hears the leader of its term forgets its own vote.
YieldToLeader(s) ==
  [s EXCEPT !.role = "follower", !.votes = 0, !.votedFor = Nobody,
            !.electionArmed = TRUE]

\* Faulty: a deposed leader's entries are taken.
IsNeverStale(s, m) == FALSE

IsStale(s, m) == m.term < s.term

HandleAppendEntries(s, i, j, m) ==
  LET u == IF m.term > s.term THEN BecomeFollower(s, m.term)
           ELSE IF s.role = "candidate" THEN YieldToLeader(s)
           ELSE s
  IN IF IsStale(s, m)
     THEN Post(s, j, AppendResponse(s.term, FALSE, 0, 0, 0))
     ELSE IF IsLogMatching(u, m) THEN Accept(u, i, j, m)
     ELSE Post(u, j, Reject(u, m))

\* Faulty: starts over from the end of the log.
BackOffToEnd(s, j, m) == Len(s.log) + 1

\* Where the leader tries next after a rejection.
BackOff(s, j, m) ==
  LET sameTerm == {p \in DOMAIN s.log : s.log[p].term = m.hintTerm}
      lastOfTerm == CHOOSE p \in sameTerm : \A q \in sameTerm : q <= p
  IN IF m.hintTerm # 0 /\ sameTerm # {} THEN lastOfTerm + 1
     ELSE IF m.hintIndex # 0 THEN m.hintIndex
     ELSE IF s.next[j] > 1 THEN s.next[j] - 1
     ELSE 1

\* Faulty: waits for the next heartbeat to try again.
HandleAppendEntriesResponseNoRetry(s, i, j, m) ==
  LET best == IF m.match > s.match[j] THEN m.match ELSE s.match[j]
  IN IF s.role # "leader" THEN s
     ELSE IF m.term > s.term THEN BecomeFollower(s, m.term)
     ELSE IF ~m.ok THEN [s EXCEPT !.next[j] = BackOff(s, j, m)]
     ELSE UpdateCommitIndex(
            [s EXCEPT !.match[j] = best, !.next[j] = best + 1], i)

HandleAppendEntriesResponse(s, i, j, m) ==
  LET best == IF m.match > s.match[j] THEN m.match ELSE s.match[j]
  IN IF s.role # "leader" THEN s
     ELSE IF m.term > s.term THEN BecomeFollower(s, m.term)
     ELSE IF ~m.ok
     THEN SendAppendEntries([s EXCEPT !.next[j] = BackOff(s, j, m)], {j})
     ELSE UpdateCommitIndex(
            [s EXCEPT !.match[j] = best, !.next[j] = best + 1], i)

-----------------------------------------------------------------------------
(* Events *)

OnMessage(s, i, j, m) ==
  CASE m.type = "RequestVote"           -> HandleRequestVote(s, j, m)
    [] m.type = "RequestVoteResponse"   -> HandleRequestVoteResponse(s, i, j, m)
    [] m.type = "AppendEntries"         -> HandleAppendEntries(s, i, j, m)
    [] m.type = "AppendEntriesResponse" -> HandleAppendEntriesResponse(s, i, j, m)
    [] m.type = "client_command_redirected" ->
         HandleClientCommandRedirected(s, i, j, m)
    [] m.type = "client_command_redirected_response" ->
         HandleClientCommandRedirectedResponse(s, j, m)

\* What node i sent in this step: the gateway drops what it drops as it is
\* sent, and queues the rest behind what i sent before.
Sent(out) == UNION {{<<j, m>> : m \in out[j]} : j \in Server}

Queue(l, i, out, lost, batches) ==
  LET kept == {m \in out[l[2]] : <<l[2], m>> \notin lost}
  IN IF l[1] = i /\ kept # {} THEN Append(batches, kept) ELSE batches

Step(i, s, before, budget) ==
  \E lost \in IF budget.losses > 0 THEN SUBSET Sent(s.out) ELSE {{}} :
    /\ Cardinality(lost) <= budget.losses
    /\ node' = [node EXCEPT ![i] = [s EXCEPT !.out = NoMessages]]
    /\ links' = [l \in Server \X Server |->
                   Queue(l, i, s.out, lost, before[l])]
    /\ left' = [budget EXCEPT !.losses = @ - Cardinality(lost)]

\* The links once message m of the first batch from j to i is taken off.
Taken(j, i, m) ==
  LET rest == Head(links[<<j, i>>]) \ {m}
  IN [links EXCEPT ![<<j, i>>] = IF rest = {} THEN Tail(@) ELSE <<rest>> \o Tail(@)]

\* An out-of-range read of the leader's log could have yielded any term: one
\* that the receiver holds, or another one.
Resolutions(m, log) ==
  IF m.type = "AppendEntries" /\ m.prevTerm = Garbage
  THEN {[m EXCEPT !.prevTerm = t] : t \in {0} \cup {log[p].term : p \in DOMAIN log}}
  ELSE {m}

Deliver(j, i) ==
  /\ links[<<j, i>>] # <<>>
  /\ \E m \in Head(links[<<j, i>>]) : \E r \in Resolutions(m, node[i].log) :
       Step(i, OnMessage(node[i], i, j, r), Taken(j, i, m), left)
  /\ UNCHANGED fresh

HasRoom ==
  Cardinality(UNION {{<<l, n>> : n \in DOMAIN links[l]} : l \in Server \X Server})
    <= MaxInTransit

ElectionTimeout(i) ==
  /\ node[i].electionArmed
  /\ left.elections > 0
  /\ HasRoom
  /\ Step(i, StartElection(node[i], i), links, [left EXCEPT !.elections = @ - 1])
  /\ UNCHANGED fresh

HeartbeatTimeout(i) ==
  /\ node[i].heartbeatArmed
  /\ left.heartbeats > 0
  /\ HasRoom
  /\ Step(i, IF node[i].role = "leader"
             THEN SendAppendEntries(node[i], Peers(i))
             ELSE [node[i] EXCEPT !.heartbeatArmed = FALSE],
          links, [left EXCEPT !.heartbeats = @ - 1])
  /\ UNCHANGED fresh

ClientCommand(i, cmd) ==
  /\ cmd \in fresh
  /\ HasRoom
  /\ fresh' = fresh \ {cmd}
  /\ Step(i, SubmitCommand(node[i], i, cmd), links, left)

Next ==
  \/ \E i, j \in Server : Deliver(j, i)
  \/ \E i \in Server : ElectionTimeout(i)
  \/ \E i \in Server : HeartbeatTimeout(i)
  \/ \E i \in Server, cmd \in Commands : ClientCommand(i, cmd)

Spec == Init /\ [][Next]_vars

\* The event loop runs until its queue is empty: what is on a link arrives.
Fairness == WF_vars(\E i, j \in Server : Deliver(j, i))

=============================================================================
