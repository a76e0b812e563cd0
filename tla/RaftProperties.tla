--------------------------- MODULE RaftProperties ---------------------------
(* What the nodes of Raft.tla are to guarantee. *)
EXTENDS Raft

-----------------------------------------------------------------------------
(* Types *)

Entries == [term : Nat, cmd : Writes]

Messages ==
  [type : {"RequestVote"}, term : Nat, lastIndex : Nat, lastTerm : Nat]
    \cup [type : {"RequestVoteResponse"}, term : Nat, ack : BOOLEAN]
    \cup [type : {"AppendEntries"}, term : Nat, prevIndex : Nat,
          prevTerm : Nat \cup {Garbage}, entries : Seq(Entries), commit : Nat]
    \cup [type : {"AppendEntriesResponse"}, term : Nat, ok : BOOLEAN,
          match : Nat, hintIndex : Nat, hintTerm : Nat]
    \cup [type : {"client_command_redirected"}, cmd : Commands]
    \cup [type : {"client_command_redirected_response"}, cmd : Commands,
          ok : BOOLEAN, value : Values]

NodeStates ==
  [role : Roles, term : Nat, votedFor : Server \cup {Nobody}, votes : Nat,
   acks : SUBSET Server, leader : Server \cup {Nobody},
   log : Seq(Entries), next : [Server -> Nat \ {0}], match : [Server -> Nat],
   commit : Nat, kv : [Keys -> Values],
   pending : Seq(Commands),
   inflight : Seq([cmd : Commands, to : Server]),
   responses : Seq([index : Nat, redirectTo : Server \cup {Nobody}, cmd : Writes]),
   electionArmed : BOOLEAN, heartbeatArmed : BOOLEAN,
   out : {NoMessages}, answered : SUBSET Answers]

TypeOK ==
  /\ node \in [Server -> NodeStates]
  /\ \A l \in Server \X Server : links[l] \in Seq((SUBSET Messages) \ {{}})
  /\ fresh \in SUBSET Commands
  /\ left \in [elections : Nat, heartbeats : Nat, losses : Nat]

-----------------------------------------------------------------------------
(* Elections *)

Leads(i, t) == node[i].role = "leader" /\ node[i].term = t

\* At most one leader per term: HandleRequestVote grants one vote per term,
\* although HandleAppendEntries makes a candidate forget the vote it cast.
ElectionSafety ==
  \A i, j \in Server :
    Leads(i, node[i].term) /\ Leads(j, node[i].term) => i = j

InTransit(j, i) == UNION {links[<<j, i>>][n] : n \in DOMAIN links[<<j, i>>]}

\* v's vote for c in term t is on its way to c, or c has counted it.
Supports(v, c, t) ==
  \/ VoteResponse(t, TRUE) \in InTransit(v, c)
  \/ /\ v \in node[c].acks
     /\ node[c].term = t
     /\ node[c].role \in {"candidate", "leader"}

\* No node backs two candidates of a term, not even one that yielded as a
\* candidate and had voted_for_ cleared, and a node that backs a candidate is a
\* follower that still remembers it, until it moves to a later term.
OneVotePerTerm ==
  \A v, c \in Server : \A t \in {node[d].term : d \in Server} :
    Supports(v, c, t) =>
      /\ v # c
      /\ t <= node[v].term
      /\ t = node[v].term => node[v].votedFor = c /\ node[v].role = "follower"
      /\ \A d \in Server : Supports(v, d, t) => d = c

VoteStands(i, s, u) ==
  /\ s.term <= u.term
  /\ s.term = u.term /\ s.votedFor \notin {Nobody, u.votedFor} =>
       s.votedFor = i /\ s.role = "candidate" /\ u.role = "follower"

\* Terms never fall, and within a term a vote is withdrawn only by a candidate
\* that had voted for itself.
VotesAreFinal == [][\A i \in Server : VoteStands(i, node[i], node'[i])]_vars

\* leader_id_ names a node that led this node's term: no vote, rejection or
\* redirect can set it to anyone else, and every change of term resets it.
KnownLeaderLed ==
  \A i \in Server :
    LET l == node[i].leader
    IN l # Nobody =>
         Leads(l, node[i].term) \/ node[l].term > node[i].term

\* Exactly the nodes that are not leaders have their election timer armed and
\* every leader its heartbeat timer: otherwise the cluster could fall silent.
TimersFollowRole ==
  \A i \in Server :
    /\ node[i].role = "leader" <=> ~node[i].electionArmed
    /\ node[i].role = "leader" => node[i].heartbeatArmed

-----------------------------------------------------------------------------
(* Logs *)

\* Two logs that hold an entry of the same term at a position agree up to it.
LogMatching ==
  \A i, j \in Server :
    LET a == node[i].log
        b == node[j].log
    IN \A p \in DOMAIN a \cap DOMAIN b :
         a[p].term = b[p].term => SubSeq(a, 1, p) = SubSeq(b, 1, p)

\* A leader only appends to its log while it leads.
LeaderAppendOnly ==
  [][\A i \in Server :
       Leads(i, node[i].term) /\ Leads(i, node[i].term)' =>
         SubSeq(node'[i].log, 1, Len(node[i].log)) = node[i].log]_vars

\* The index that a leader would commit is one of its own log, so that
\* UpdateCommitIndex never reads log_ out of range: followers may report matches
\* beyond the leader's log, but those that elected it do not.
CommitsWithinLog ==
  \A i \in Server : node[i].role = "leader" =>
    MajorityMatch(node[i], i) <= Len(node[i].log)

\* A rejection never moves next_index_ forward: only an OK does, to just after
\* what it matched.  With conflict hints this needs the run of the hint's term
\* in the leader's log to end before the entry that was refused.  The claim is
\* for one election: a leader does not look at the term of a response, and one
\* that leads again may take a rejection of its earlier reign, however old.
RejectionRetreats ==
  [][\A i, j \in Server :
       left.elections >= MaxElections - 1
         /\ Leads(i, node[i].term) /\ Leads(i, node[i].term)' =>
         \/ node'[i].next[j] <= node[i].next[j]
         \/ node'[i].next[j] = node'[i].match[j] + 1]_vars

\* The links fall silent once timers and clients do: no pair of nodes keeps
\* refusing and retrying the same entries, whatever the hints were.
Quiesces == <>[](\A l \in Server \X Server : links[l] = <<>>)

\* No AppendEntries carries a term read from beyond the end of log_.
NoWildRead ==
  \A i, j \in Server : \A m \in InTransit(i, j) :
    m.type = "AppendEntries" => m.prevTerm # Garbage

-----------------------------------------------------------------------------
(* Clients *)

\* Only a leader owes responses; it owes them in log order, for entries of its
\* term that hold the client's command.
ResponsesMatchLog ==
  \A i \in Server : \A k \in DOMAIN node[i].responses :
    LET r == node[i].responses[k]
    IN /\ node[i].role = "leader"
       /\ r.index \in 1..Len(node[i].log)
       /\ node[i].log[r.index] = [term |-> node[i].term, cmd |-> r.cmd]
       /\ k > 1 => node[i].responses[k - 1].index < r.index

\* A commit leaves no client waiting for an entry that it covers.
CommitAnswers ==
  [][\A i \in Server : node'[i].commit > node[i].commit =>
       \A k \in DOMAIN node'[i].responses :
         node'[i].responses[k].index > node'[i].commit]_vars

\* Redirects in flight went to the leader the node knows now, and commands
\* wait only where no leader is known.
RedirectsFollowLeader ==
  \A i \in Server :
    /\ \A k \in DOMAIN node[i].inflight : node[i].inflight[k].to = node[i].leader
    /\ node[i].pending # <<>> => node[i].leader = Nobody
    /\ node[i].role = "leader" =>
         node[i].leader = Nobody /\ node[i].pending = <<>> /\ node[i].inflight = <<>>

\* Where a command is held or was answered, at the nodes that took it from a
\* client.
Places(c) ==
  UNION {
    {<<i, "pending", k>> : k \in {n \in DOMAIN node[i].pending :
                                    node[i].pending[n] = c}}
    \cup {<<i, "inflight", k>> : k \in {n \in DOMAIN node[i].inflight :
                                          node[i].inflight[n].cmd = c}}
    \cup {<<i, "responses", k>> : k \in {n \in DOMAIN node[i].responses :
                                           /\ node[i].responses[n].cmd = c
                                           /\ node[i].responses[n].redirectTo = Nobody}}
    \cup {<<i, "answered", a>> : a \in {b \in node[i].answered : b.cmd = c}}
    : i \in Server}

\* A submitted command is waiting, redirected, logged or answered: exactly one
\* of them, through any number of elections, so none is lost or answered twice,
\* even where the response to one command answers another.
ClientConservation ==
  \A c \in Commands : Cardinality(Places(c)) = IF c \in fresh THEN 0 ELSE 1

-----------------------------------------------------------------------------
(* After the trouble *)

\* Nothing is on the way, nothing was ever dropped, and i leads a term in which
\* every other node knows it: only timers and clients can go on.
Settled(i) ==
  /\ \A l \in Server \X Server : links[l] = <<>>
  /\ left.losses = MaxLosses
  /\ node[i].role = "leader"
  /\ \A j \in Peers(i) : node[j].leader = i /\ node[j].term = node[i].term

\* Once a leader and its followers have settled, the followers' logs begin with
\* the leader's: the retries after a rejection do not stop half way, however far
\* the logs had grown apart.  What a follower holds beyond it no request has cut.
SettledLogsAgree ==
  \A i \in Server : Settled(i) =>
    \A j \in Server :
      /\ Len(node[i].log) <= Len(node[j].log)
      /\ SubSeq(node[j].log, 1, Len(node[i].log)) = node[i].log

\* And every client has its answer, be it an error: no command is left pending,
\* in flight to a node that was deposed, or owed by a leader for an entry that
\* it has yet to commit.  (What is below commit_index_ when it is appended no
\* commit answers; after many elections commit_index_ can be past the log.)
SettledClientsAnswered ==
  \A i \in Server : Settled(i) =>
    \A j \in Server : /\ node[j].pending = <<>>
                      /\ node[j].inflight = <<>>
                      /\ \A k \in DOMAIN node[j].responses :
                           node[j].responses[k].index <= node[j].commit

-----------------------------------------------------------------------------
(* What the repository's tests claim and the code does not keep *)

\* tests/test_raft.cpp, "Raft three nodes: minority partition no client
\* completion": a write completes with OK only when a majority stores it.
CompletedWritesOnMajority ==
  \A i \in Server : \A a \in node[i].answered :
    a.ok /\ a.cmd \in Writes =>
      Cardinality({j \in Server : \E p \in DOMAIN node[j].log :
                                    node[j].log[p].cmd = a.cmd})
        > Cardinality(Server) \div 2

=============================================================================
