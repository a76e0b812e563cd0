# Verification of DistSysEnv

DistSysEnv (C++) is a deterministic simulator of distributed systems with two
Raft implementations, `raft/` and `hybrid_raft/`, that run on it. This directory
holds TLA+ models of the parts that make it correct, TLC configurations that
check them on small instances, and TLAPS proofs of what holds for all instances.

## 1. Inventory

| component | code | state | operations | model |
|---|---|---|---|---|
| Event loop, queue | `src/core/event`, `src/core/context` | `now_`, a binary heap of events, the handlers | `PushEvent`, `Step`, `Process`, `ProcessUntil` | `EventManager`, `Agenda` |
| Node identifiers | `src/core/node_id` | free indices, generations | `Generate`, `Release`, `IsValid` | `NodeIds` |
| Event encoding | `src/simulation/event`, `src/core/message`, `src/utils` | none | encode, decode, classify | `Wire` |
| Timers | `src/simulation/context` | token of each timer name | `SetTimer`, `CancelTimer`, `IsTimerValid` | `TimerBook`, `AlarmClock` |
| Network | `src/simulation/network_node` | failed nodes, partitions, last arrival of each link | `HandleSend`, `SetNodeStatus`, `ApplyPartitionPair` | `Network`, `Channels` |
| Scenario | `src/simulation/scenario` | the event manager, the gateway, the timer books | add nodes, schedule messages, failures and partitions, run | `Simulation` |
| Key-value store | `kv/` | a map | `Get`, `Set`, `Delete`, the commands' encoding | in `Raft` and `Wire` |
| Raft messages | `raft/message_specs.*`, `hybrid_raft/hybrid_message_specs.*` | none | encode, decode | `Wire` |
| Raft | `raft/` | role, term, vote, log, indexes, store, client queues | message, timer and command handlers | `Raft` with `Hybrid = FALSE` |
| Hybrid Raft | `hybrid_raft/` | the same | the same, with conflict hints in rejections | `Raft` with `Hybrid = TRUE` |
| Chaos tests | `tests/mc`, `tests/metrics` | schedule, oracle, metrics | generate, apply, judge | the set-up, in `Raft`; cuts and heals, in `Simulation` |
| Examples, tools | `examples/`, `tools/` | none | drive and print | not modelled |

**How they interact.** A node is called by the event loop with one event at a
time and runs to the end: there are no threads. What it sends is an event for the
network node at the same timestamp; the network drops it (and returns it to the
sender as failed) or schedules its arrival after a random delay, strictly behind
the last arrival of the same link. A timer is an event for the node itself; it
can not be removed, so the node compares its token with the current one. A client
command is a local event of a node.

**What is hard.** The order of events of different nodes is decided by random
delays and timeouts; events of one timestamp have no defined order in the heap;
messages are lost by drops, failures and partitions; elections of several terms
overlap; responses arrive after the role they were meant for is gone; client
commands move between queues while leaders change. `PROJECT.json` lists each of
these hazards with its line and the properties that cover it.

**What makes each part correct.** Timers: `OnTimer` runs exactly at the last
deadline asked for. Network: each link delivers in order, drops are reported,
partitions cut both ways, a closed link carries nothing new. Scenario: all of that
still holds when every kind of event goes through one queue. Encoding: what was
written is read back, by its own decoder only, also after several hops. Raft: one leader per term, one vote per term, logs that
match, leaders that only append, back-off that ends, timers that follow the role,
client commands that are neither lost nor answered twice, and, once a leader has
settled without a loss, equal logs and no client left waiting.

## 2. Modules

| module | what it is |
|---|---|
| `Raft` | the nodes of both variants on lossy ordered links; one operator per C++ method, one action per kind of event |
| `RaftProperties` | the type invariant, the invariants and the action and liveness properties of `Raft` |
| `MCRaft`, `MCReads` | initial states and symmetry for TLC; `MCReads` adds a history variable for reads |
| `RaftElectionProofs` | proofs about elections |
| `RaftHandlerProofs` | lemmas: what each helper and handler does to a node besides the election |
| `RaftReplicationProofs` | proofs about logs, known leaders, timers and what clients are owed |
| `RaftClientProofs` | the proofs that client commands are neither lost nor answered twice, and of the type invariant |
| `RaftDeliveryProofs` | what was sent and not lost arrives, and whom voters vote for: the proofs that settled logs agree and that a leader commits within its log |
| `TimerBook` | the timers of a node: tokens over the event queue |
| `AlarmClock` | what timers promise; `TimerBook` implements it |
| `TimerBookProofs` | the proof of that |
| `Network` | the network node with the event queue |
| `Channels` | what links promise: ordered, lossy; `Network` implements it |
| `Simulation` | a scenario: `Network`, `TimerBook`, local messages, control events and handlers on one event queue |
| `MCSimulation`, `SimulationProofs` | its instance for TLC; the proofs about `Network` and `Simulation` |
| `Wire` | the byte encoding of commands, payloads, messages and events, and what the nodes do to them on their way |
| `MCWire` | a message or event of every type with chosen fields, for TLC |
| `EventManager` | the binary heap and the loop that takes events from it |
| `Agenda` | what an event manager promises; `EventManager` implements it |
| `NodeIds`, `NodeIdsProofs` | the allocator of node identifiers; the proofs |

### Correspondence of `Raft` and the code

A handler `H(s, ...)` maps the record `s` of a node, as the event finds it, to the
record the method leaves, with the messages it sends collected in `s.out`. The
action (`Deliver`, `ElectionTimeout`, `HeartbeatTimeout`, `ClientCommand`) applies
the handler of its event and puts the mail on the links (`Step`). The fields of
the record are the members of `RaftNode` under shorter names; `responses` is
`pending_client_responses_`, `pending` is `pending_client_commands_`, `inflight` is
`in_flight_redirected_commands_`; `electionArmed` and `heartbeatArmed` say whether
a timer of that name is set. `answered` is history: what clients were told.

Abstractions, and why they are sound:

* **Log positions are 1-based**; 0 stands for the code's -1.
* **Links.** A link is a sequence of sets of messages, one set for each handler
  run of the sender. That is `Channels`, which `Network` implements: messages sent
  at different times arrive in that order; those of one handler run have the same
  timestamp on their way to the network node and the heap may reorder them. Two
  handler runs of a node at the same instant are taken not to tie: their
  timestamps come from independent random delays and timeouts.
* **Loss.** Each message may be lost when it is sent, up to `MaxLosses`; this
  stands for drop probability, failed receivers and partitions. The notice to the
  sender is ignored by both Raft nodes.
* **Failures.** A failed node of the simulation keeps its state and its timers: it
  only stops receiving. There are no restarts, so none are modelled.
* **Timeouts** may fire whenever the timer is armed; real durations are left out.
  `HasRoom` makes timers and clients wait while much is on the links; this is a
  bound of the checks, and the theorems hold for every value of it.
* **Commands and keys.** Commands are model values; `Key` gives each its key and
  `Value` gives each write what it leaves there (`Absent` for a DEL). Commands that
  agree in all of that can not be told apart on the wire (`ClientCommandsMatch`),
  and a node may answer one client with the response to a like command of another;
  the messages of the model carry the command, so that properties can tell.
* **Reads out of range.** `SendAppendEntries` of `raft/` can read `log_` past its
  end. The model sends `Garbage`, and the receiver resolves it to any term it
  holds or another one (`Resolutions`).
* **Left out:** a cluster of one node (`ServerAssumption`), and metrics. Encodings
  are in `Wire`.

`Raft`'s two variants share all text but `NextToSend` (the clamp),
`ConflictHintReject` and `BackOff`, as the code's do.

### The smaller modules

In `EventManager` an event is a timestamp and a key; the key stands for the receiver,
dispatch order and sender that `EventEarlier` compares next. A handler may push any
events for the present or later, as nodes, timers and the network do. `Step` and
`Process` are `ProcessUntil` without a horizon. `push_range` and `emplace`, which
nothing calls on the queue, are left out; `push_range` as written starts its repairs
one position too low. `TimerBook` and `Network` use what `Agenda` promises as
a guard (the earliest event is next) and leave the order within a timestamp open.
In `NodeIds` owners release what they hold; `Release` itself does not check that.

### `Simulation`

`Simulation` EXTENDS `Network` and takes `TimerBook` as an instance; it adds what the
two leave out. `Takes(key)` is the guard of every event: the event is a least one
under `EventEarlier`, that is by time, receiver, dispatch order (a timer has 1,
anything else 0) and sender, and the loop runs and no handler does. Taking an event
for a node makes the node `running`; until it returns, the node may send, send
locally, set and cancel timers, in any order and number, which covers whatever a
handler of a program does. Between runs of the loop the scenario schedules events
for now or later and starts `RunUntil` or `Process`. Control events go to the
gateway and take effect when it handles them. `deadline`, `ringing`, `heard`,
`sent` and `closedSince` are history. Nodes, links and timers are constants: all
`AddNode` calls come before the first event. That a scenario can schedule for a time
before `now_` is left out; the code lets time go back then.

### `Wire`

A buffer is a sequence of scalars with their widths; reading a scalar of another width,
or past the end, is not sound. A structure is a list of the fields its serializer
writes and one of those its deserializer reads, kept apart as the code keeps them;
`append_item` and `read_field` follow the kind of a field as the templates of
`utils.h` do. A behaviour is an exchange: a packet is encoded into an event, decoded
and encoded anew by the gateway, decoded by its receiver; a command goes on in a
redirect to the leader, in the response, and to the client, and is encoded and
decoded at each hop.

## 3. What the runs check

| run | setup | properties |
|---|---|---|
| `elections` | 3 nodes from the start, 3 election timeouts, 1 heartbeat, 1 loss | `ElectionSafety`, `OneVotePerTerm`, `KnownLeaderLed`, `TimersFollowRole`, `VotesAreFinal` |
| `replication_classic` | 3 nodes after a partition, 3 writes, one more election, heartbeat and loss | `LogMatching`, `ResponsesMatchLog`, `CommitsWithinLog`, `LeaderAppendOnly`, `CommitAnswers` |
| `replication_hybrid` | the same for `hybrid_raft/` | `LogMatching`, `NoWildRead`, `SettledLogsAgree`, `CommitsWithinLog`, `RejectionRetreats` |
| `backoff_ends` | `hybrid_raft/` after a partition, 2 writes, fair delivery | `Quiesces` |
| `clients` | a write and 2 like GETs at any nodes from the start, 3 elections, 1 loss | `TypeOK`, `ClientConservation`, `RedirectsFollowLeader`, `SettledClientsAnswered` |
| `timers` | 2 timers, 3 tokens, times 0..4, non-positive durations too | `LiveEventAtDeadline`, `RingsOnTime`, `DeadlinesPass` |
| `simulation` | 2 nodes, 2 messages, a local message, a timer, times 0 and 1, 2 of 4 control events | `CutsAreMutual`, `MessagesBeforeTimers`, `ClosedLinksCarryNothingNew`, `KeepsOrder`, `EveryMessageSettles` |
| `wire` | every type of message and event with chosen fields | `ReadsWhatWasWritten`, `OneDecoderAccepts`, `AnswersAreRecognised` |
| `event_queue` | up to 6 events of 3 timestamps and 2 keys, handlers that push up to 2 | `HeapOrdered`, `KeepsAgenda`, `TimeMovesOn` |
| `node_ids` | 3 indexes, 3 generations of each | `ValidIffHeld`, `HandedOutOnce` |
| `commit_without_majority` | 3 nodes, 2 writes, 1 election | violates `CompletedWritesOnMajority` |
| `stale_read` | 3 nodes, a write and a GET, 1 election | violates `ReadsSeeCompletedWrites` |

**Bounds.** Three nodes are the least with a majority that is not everybody and a
minority that can be cut off. Three election timeouts give overlapping elections in
three terms, a candidate that yields, and a vote that arrives one election late.
The replication runs start where a partition has left logs that disagree
(`InitSplit`): all its shapes are states that `Spec` reaches with two elections and
at most nine losses (found by TLC from `Init`); starting there leaves the bounds
for truncation, back-off and a third leader. Two timers with three tokens allow a
stale, a live and a cancelled event of one name at once. Two messages, one of
them delayed, and times 0 and 1 allow overtaking on a link, and a message, a timer, a
cut and a local message at one instant in every order that the queue leaves open.
Six events make a heap of three levels in which an event can sink to either side and back up; three generations
of three indexes allow any order of release and reuse. The mutants in
`PROJECT.json` show that each property is violated within these bounds when the
code it is about is broken in a plausible way.

`CHECK_DEADLOCK FALSE` is set because the system may stop: the bounds run out, and
`Process` returns when the queue is empty.

**Symmetry** is used in the runs without liveness, on nodes that the initial state
does not single out, on writes and on reads; nothing orders them.

**Fairness.** `EventManager::Process` takes events until the queue is empty and
every queued event is handled in time order. So delivery of some message is weakly
fair (`Fairness` of `Raft`), as is handling the next event (`FairSpec` of
`TimerBook`, `SimFair` of `Simulation`, where a handler that runs also returns). Nothing is assumed fair about timers, clients, losses,
failures or partitions.

**Disagreements with the repository's tests.** Two claims of `tests/test_raft.cpp`
do not hold of the code; the runs marked *violates* show how.

1. *A write that no majority stores is not completed* (lines 280-310). A follower
   answers AppendEntries with its own last log index (`raft_replication.cpp:82`,
   `hybrid_raft_replication.cpp:121`), which can lie beyond the entries it was sent.
   A new leader takes that for replication and answers OK for a write of its own
   that it alone stores.
2. *A GET after a completed SET returns a value* (lines 233-278). A leader answers a
   GET from its own store (`raft_client.cpp:120`), even before it has committed the
   entries it was elected with.

Neither affects the log and election properties above, which hold.

**What the first of these does to a long history.** The proofs of section 4 are about
histories of any length, and looking for their invariants showed claims that the
runs confirm within their bounds and that longer histories refute. Each is now stated
as what does hold.

* *A leader owes no response for an entry that is committed.* After a few elections an
  over-long match index lets a leader commit what others do not hold; a later leader
  cuts that node's log below its own `commit_index_`, which never falls; and if the
  node leads once more, it appends writes below `commit_index_` and no commit will ever
  answer their clients (28 events with three nodes suffice). `ResponsesMatchLog`
  therefore does not mention `commit_index_`; what a commit does for clients is stated
  by `CommitAnswers`, and `SettledClientsAnswered` leaves out the writes at or below
  `commit_index_`. It also means that `commit_index_ <= log_.size()` is no invariant
  of this code.
* *A rejection never moves `next_index_` forward* holds for one reign only: a leader
  does not compare the term of a response with its own (`raft_replication.cpp:122`), and
  one that leads again can take a rejection of its earlier reign (41 events).
  `RejectionRetreats` is stated for behaviours with one election after the partition.

**What the same hazard leaves standing.** Match indexes may pass the end of a leader's
log, and `UpdateCommitIndex` reads `log_` at the index a majority has reached without a
check (`raft_replication.cpp:157`). `CommitsWithinLog` says that this read is never out
of range: a majority reports such matches only if a node with a longer log of the last
term voted for the leader, and `HandleRequestVote` refuses that vote.

**After the trouble.** `Settled(i)` says that nothing was dropped, nothing is on its
way, and i leads a term in which all others know it. Partitions are then a thing of
the past: the initial states of `SpecSplit` are what one left behind. In
`hybrid_raft/` the followers then hold all of the leader's log (`SettledLogsAgree`).
`raft/` does not keep this, although no message is lost: a follower reports a match
beyond the leader's log, `next_index_` passes its end, and the next request carries
a `prev_log_term` read out of range; when that happens to be the term the
follower has there, the follower accepts and keeps its diverging log for good. The
property is therefore a property of the hybrid run only. It says nothing about what
a follower holds beyond the leader's log, as no request has touched it yet.

## 4. What is proved

All proofs are checked by TLAPS for every value of the constants under the named
assumptions: a finite cluster of at least two nodes, `Nobody` not a node, and the
bounds natural numbers. (`Writes`, `Reads`, the variant and the bounds are arbitrary.)

**Elections** (`RaftElectionProofs`): `Spec => []ElectionSafety`,
`Spec => []OneVotePerTerm`, `Spec => VotesAreFinal`.
`ElectionSafety` is not inductive: that a leader is the only one depends on votes
counted in the past. `Supports(v, c, t)` says that v's vote for c in term t is on
its way or counted, and `ElectionInv` adds to types that

* a supporter is another node and, while its term is t, a follower that remembers
  the vote (`SupportRemembered`): this is why the candidate that clears
  `voted_for_` is harmless, as its vote was only ever for itself;
* nobody supports two candidates of a term (`SupportUnique`);
* a candidate or leader has voted for itself and counts each supporter once, and a
  leader counts a majority (`Ballot`).

The proof avoids going through every handler with the whole invariant.
`Neutral(s, u)` says that a helper left the election alone and sent only mail that
is no part of one; it is shown once for each of the helpers, and composes.
`Trans(i, s, u)` is what a handler run may do to an election; each handler is a
change of role that satisfies it, followed by neutral helpers. `StepInv` shows that
a step with `Trans` keeps `ElectionInv`, and two majorities share a voter
(`FS_MajoritiesIntersect`).

**What a handler run does** (`RaftHandlerProofs`). The same division for the rest of
the node. `Tame(i, s, u)` says of a helper that it keeps the types, the role and the
log except for new entries of a leader, and that every AppendEntries it posts is cut
from the log it leaves (`Vouched`); it is shown once for each helper and composes. Each
handler run is then either a `Turn`, which keeps the log or extends it as the leader, or
`Accepts` the entries of a leader. On the way stand lemmas about the operators:
`Filter` returns elements of its set only and no more than it was given, `MajorityMatch` picks a match index that a majority
reaches, `CommittedResponses` is the front of the queue that a commit covers, and
`MergeMerged` says what `Merge` returns. `Fit` is the part of the invariant that is about
one node: types, timers by role, and responses owed in log order.

**Known leaders, timers, clients** (`RaftReplicationProofs`). `Won(i, t)` says that i
leads term t or led it, and that no other node ever will: a majority backed i and is
sworn to it. It is stable (`WonStable`), and no two nodes win a term (`WonOnce`).
`ReignInv` adds to `ElectionInv` that the winner of the node's term is behind every
`leader_id_` and behind every AppendEntries in transit; without it a node could learn
of a leader that another node's handler then contradicts. From it follow
`KnownLeaderLed`, `TimersFollowRole`, `RedirectsFollowLeader`, `ResponsesMatchLog`,
`CommitAnswers`, `LeaderAppendOnly` (a leader gets no AppendEntries of its own term), and
`NoWildRead` for `hybrid_raft/`, which is where the clamp is needed.

**Logs match** (`RaftReplicationProofs`): `Spec => []LogMatching` for both variants, with
the over-long match indexes and the out-of-range reads that `raft/` makes. The
invariant `LogInv` says that there is a set of logs, pairwise matching, that has the log
of every node and, for every AppendEntries in transit, a log that it is cut from: the
sender has moved on since, so its own log would not do. Each entry of these logs is of a
term that some node won, and a leader has all of those of its own term. The last part
is why a new leader's first entry meets no entry of its term (`NewLeadersTerm`); and a
follower's log after `Merge` is a prefix of its old log or of the one the message
was cut from (`MergePrefix`). Being about a set of logs of any size, `LogInv` is not
something TLC can evaluate; `LogMatching` itself is checked by both replication runs.

**Client commands** (`RaftClientProofs`): `Spec => []ClientConservation`. The invariant
`ClientInv` says that a fresh command is nowhere and that any other is at one node, in
one of its four places (`pending`, `inflight`, `responses` that are for a client of the
node, `answered`) and there once. It is counted in positions and not in commands, so
that a queue may not hold a command twice. `Keeps(s, u)` says that what s held nowhere u
holds nowhere, and that what s held once u holds once, wherever that is by now. It is
transitive and is shown of every helper and every message and timer handler;
`SubmitCommand`, on the path to an answer, a response or a redirect, takes one command
more (`Takes`). Redirects that come back join `pending` (`BackKeeps`), a commit moves
responses from the queue to `answered` (`DrainKeeps`), and an answer from the leader
settles the first redirect that it matches (`RedirectedResponseKeeps`). Of `ReignInv` the
proof needs the types only. A leader may execute a redirected command twice when the
command is sent to the next leader too; that is how the code works, and the property
does not exclude it.

**Leaders never give up** (`RaftDeliveryProofs`): for `hybrid_raft/`,
`Spec => []SettledLogsAgree`. That the logs agree once a leader has settled is a question
of what was on the way before. `Handles` says that a handler run takes one message, the
one at the head of its link, and `Delivers` that unless it loses some, all others stay
and what it posted follows them (`Adds`: mail is finite and nothing is taken back). `Catching` says that until a loss every node j is pursued by
every leader i (`Pursues`): j is in a later term, or holds the leader's log, or a request
that ends at the end of that log (`Reaches`) is on its way to j, or a rejection
(`Unwilling`) is on its way to i. A step of the leader keeps this, as it answers
a rejection with a request that reaches the end of its log and announces what it appends
to all others (`Announces`); this is where the clamp is needed, and why the
theorem is about `hybrid_raft/`. A step of j keeps it, as j accepts the request and has the log, or
rejects it. That an accepted request leaves the *leader's* log in the follower's needs
that what a leader sent in its term it still stands by (`Sending`), and `LogMatching`.
Once the links are empty, only the first two cases are left.

**What a leader commits is in its log** (`RaftDeliveryProofs`):
`Spec => []CommitsWithinLog` for both variants. `UpdateCommitIndex` takes a position that
a majority reaches and reads the log there without looking at its length. In `raft/` a
follower may well hold, and acknowledge, more than the leader does: `match_index_` can be
past the end of the leader's log, and nothing in the code takes that back. But such a
follower has not voted for the leader, and a majority includes a voter. `VoteInv`
says this of the messages on the way:

* a request for votes names the last entry that the candidate was elected with (`Asking`,
  `Fresh`), and a vote answers a request that a node found to be not behind its own
  log (`Ballots`, `Timely`). As terms do not fall along a log (`Rising`), comparing
  the last entries decides for all: each entry of the voter is `Covered` by one of the
  candidate (`VoteCovers`);
* this stays so until the voter enters a later term (`Backing`): it accepts requests of
  its own term only, these are the leader's, and what they bring is the leader's
  (`MergeCovered`). If another node's request is accepted then that node has won the
  term and the candidate never will;
* links keep their order, so a vote is not overtaken by, nor does it overtake, an OK of
  the voter (`InOrder`, stated of the batches on a link): an OK that is still to come
  once the vote is counted is of that term or a later one (`Recent`), and only who has
  won a term gets an OK of it (`Oks`). So what a new leader hears of its voters it was
  told in its own reign;
* hence `Behind`: of the nodes whose votes were counted, `match_index_` is
  within the leader's log, so is what they are about to acknowledge
  (`MergeNoLonger`), and in `raft/` `next_index_` is too, so that no request to them
  has a term that was read out of range. This is one induction: an
  out-of-range term in a request is what would let a voter keep a longer log.

The theorem itself is then the intersection of two majorities, `MajorityMatchBacked` and
`LeadersMajority`.

**Types** (`RaftClientProofs`): `Spec => []TypeOK`. The invariants above have the types they
need; `StoreInv` adds the rest: the store, the answers, the count of votes, messages
about client commands (`Errand`), that no link has an empty batch (`Packed`), and
that nodes are records and not just something with their fields. That the store holds
values of the clients' commands is not about one assignment: a commit runs through positions up to
the commit index, which in `raft/` comes from a majority of match indexes that may be
too long. A read beyond the log is `Garbage` in the model, which is nobody's term, so that
nothing is applied; that a commit makes no such read at all is `CommitsWithinLog`.

**Timers** (`TimerBookProofs`): `Spec => []LiveEventAtDeadline` and the refinement
`Spec => RingsOnTime`. The invariant adds that every token in the queue is at most
the current one, that events of one timer have different tokens, and that queued
events are not in the past.

The actions are summed up in `Steps`, in which
any other event may come at any later instant, and the theorems are about that: so
they carry over to `Simulation`.

**Network** (`SimulationProofs`): `Spec => []CutsAreMutual` and the refinement
`Spec => KeepsOrder`. The invariant relates the time each message was sent to its
place in the queue: what is still before the network node was sent no earlier, and
arrivals on a link increase with the time of sending and end at `lastArrival`.

**Scenario** (`SimulationProofs`): every step of `Simulation` is a step of `Network` or
leaves it alone (`Simulation_IsNetwork`), and the same for the timers, so that
`Simulation_KeepsOrder` and `Simulation_CutsMutual` follow from the proofs of the
components, and so does `RingsOnTime` for the timers of all nodes
(`Simulation_TimersRing`), which therefore needs no run of its own. Two properties are
about the whole.
`MessagesGo_BeforeTimers`: while a node handles a timer, nothing of that instant waits
for it; the invariant is that what the node adds meanwhile goes to the gateway first, or
to another node, and the timer was a least event when it was taken.
`ClosedLinks_Closed`: the invariant is that what is forwarded over a link was sent
before `closedSince` if the link is closed now, as time only moves on and a closed
link is not forwarded over.

**Node identifiers** (`NodeIdsProofs`): `Spec => []ValidIffHeld` and
`Spec => HandedOutOnce`, of identifiers that were released and of those still held. The
invariant adds that no identifier is of a generation its
index has not reached, and that an index that is not free is held under its last one.

**Only model-checked:** liveness (`Quiesces`, `DeadlinesPass`, `EveryMessageSettles`)
because fairness and ENABLED are beyond the prover; the heap and `Wire`, whose
definitions are recursive over data; `SettledClientsAnswered`, whose proof would need an
account of every redirect and its answer on the links, and `RejectionRetreats`.

## 5. Not modelled

* **A cluster of one node.** It elects itself and commits in the handler that
  appends; nothing of what is hard here arises.
* **The generator of chaos schedules, the metrics and the oracle** of `tests/mc` and
  `tests/metrics`. They judge the program and are no part of it: what a schedule does,
  cuts and heals, are control events of `Simulation`. Two of their weaknesses are
  listed as hazards: the replay of a schedule breaks ties of time in its own way, and
  the oracle compares with the OK that arrived last.
* **Random numbers and time.** A random choice is a nondeterministic one, and time is
  an integer whose unit is the least step of the floats; rounding is left out.
* **A scenario without a gateway.** Messages then go straight to their receiver at the
  time they are sent, no delay, loss or partition applies, and two messages of one link
  and instant have no defined order. The clusters of the tests are all built with a
  network, which the constructor adds before any node.
* **Examples and tools** drive and print.
* **`push_range` and `emplace`** of the queue, `SpaceElapsed` of the store and `sizer.h`
  have no caller.

## 6. Plan

Done: the Raft core with elections, replication and clients, any number of keys and
like commands; timers; network; the event queue; node identifiers; the scenario as
their composition; encodings; refinements of timers, network and queue, also within a
scenario; proofs about elections, logs, known leaders, timers by role, what leaders
owe, commits within the log, settled logs, client commands and types, and about timers,
network, scenario and identifiers.

Next, in this order:

1. Proofs: `RejectionRetreats` and `SettledClientsAnswered`.
2. The cluster of one node.
