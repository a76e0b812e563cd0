------------------------------- MODULE MCRaft -------------------------------
(***************************************************************************)
(* Model-checking setups of the Raft cluster: from the start, from an      *)
(* election that is over, and from a partition that has just healed.  The  *)
(* last two start in states that Spec reaches, to spend the bounds on what *)
(* follows.                                                                *)
(***************************************************************************)
EXTENDS RaftProperties, TLC

CONSTANTS
  FirstLeader,   \* the leader of term 1 in the setups that have one, or Nobody
  NextLeader     \* the leader of term 2 in the split setup, or Nobody

\* The keys and values of the setups: all commands are about one key or each is
\* about its own, and every write sets a value of its own.
OneKey == [c \in Commands |-> "k"]
OwnKey == [c \in Commands |-> c]
OwnValue == [w \in Writes |-> w]

Symmetry ==
  Permutations(Server \ {FirstLeader, NextLeader})
    \cup Permutations(Writes) \cup Permutations(Reads)

Elected(i, t, voters) ==
  [InitNode EXCEPT !.role = "leader", !.term = t, !.votedFor = i,
                   !.votes = Cardinality(voters) + 1, !.acks = voters,
                   !.electionArmed = FALSE, !.heartbeatArmed = TRUE]

Following(i, t) == [InitNode EXCEPT !.term = t, !.votedFor = i, !.leader = i]

Majorities(i) ==
  {q \in SUBSET Peers(i) : Cardinality(q) = Cardinality(Server) \div 2}

Budget == [elections |-> MaxElections, heartbeats |-> MaxHeartbeats,
           losses |-> MaxLosses]

\* The first election is over, the others answered the leader's heartbeat.
InitLed ==
  /\ \E voters \in Majorities(FirstLeader) :
       node = [i \in Server |-> IF i = FirstLeader
                                THEN Elected(i, 1, voters)
                                ELSE Following(FirstLeader, 1)]
  /\ links = [l \in Server \X Server |-> <<>>]
  /\ fresh = Commands
  /\ left = Budget

SpecLed == InitLed /\ [][Next]_vars

\* A partition has cut the first leader off: of the one or two writes it took
\* the first may have reached the others, whose answers it never saw, and it
\* does not know that they elected another leader.
InitSplit ==
  /\ \E voters \in Majorities(FirstLeader), shared \in 0..1,
        cmds \in [1..1 -> Writes] \cup [1..2 -> Writes] :
       LET log == [k \in DOMAIN cmds |-> [term |-> 1, cmd |-> cmds[k]]]
           common == SubSeq(log, 1, shared)
           cutOff == [Elected(FirstLeader, 1, voters) EXCEPT
                        !.log = log,
                        !.responses = [k \in DOMAIN cmds |->
                                         [index |-> k, redirectTo |-> Nobody,
                                          cmd |-> cmds[k]]]]
       IN /\ \A k, l \in DOMAIN cmds : cmds[k] = cmds[l] => k = l
          /\ node = [i \in Server |->
                       CASE i = FirstLeader -> cutOff
                         [] i = NextLeader ->
                              [Elected(i, 2, Server \ {FirstLeader, NextLeader})
                                 EXCEPT !.log = common,
                                        !.next = [j \in Server |-> shared + 1]]
                         [] OTHER -> [Following(NextLeader, 2) EXCEPT !.log = common]]
          /\ fresh = Commands \ {cmds[k] : k \in DOMAIN cmds}
  /\ links = [l \in Server \X Server |-> <<>>]
  /\ left = Budget

SpecSplit == InitSplit /\ [][Next]_vars

FairSplit == SpecSplit /\ Fairness

=============================================================================
