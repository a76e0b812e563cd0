------------------------------- MODULE MCReads -------------------------------
(* What a GET returns, against the writes that were complete when it was sent. *)
EXTENDS MCRaft

VARIABLE seen   \* history: the writes answered OK before each GET was submitted

Completed == {c \in Writes : \E i \in Server : \E a \in node[i].answered :
                               a.ok /\ a.cmd = c}

InitReads == InitLed /\ seen = [r \in Reads |-> {}]

NextReads ==
  /\ Next
  /\ seen' = [r \in Reads |->
                IF r \in fresh \ fresh' THEN Completed ELSE seen[r]]

SpecReads == InitReads /\ [][NextReads]_<<vars, seen>>

\* tests/test_raft.cpp, "Raft three nodes: GET observes committed SET value":
\* a GET submitted after a SET completed returns a value that was set.
ReadsSeeCompletedWrites ==
  \A i \in Server : \A a \in node[i].answered :
    a.cmd \in Reads /\ a.ok /\ seen[a.cmd] # {} => a.value # Absent

=============================================================================
