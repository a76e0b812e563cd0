------------------------------- MODULE MCWire -------------------------------
(* Model-checking setup of the encodings. *)
EXTENDS Wire

MCNodeIDs == {[index |-> 1, generation |-> 0], [index |-> 2, generation |-> 3]}

MCNumbers == {-1, 2}

\* Strings of two characters, of one, and of none.
MCKeys == {<<7, 8>>}
MCValues == {<<>>, <<7>>}

=============================================================================
