------------------------------- MODULE NodeIds -------------------------------
(***************************************************************************)
(* NodeIDManager: node identifiers are an index and a generation.  The     *)
(* index of a released identifier is used again, under a new generation,   *)
(* so that the old identifier stays invalid.                               *)
(***************************************************************************)
EXTENDS Integers

CONSTANTS
  MaxIndex,       \* bound: indexes are below it
  MaxGeneration   \* bound on the generations of an index

ASSUME IdBoundAssumption == MaxIndex \in Nat /\ MaxGeneration \in Nat

VARIABLES
  nextIndex,    \* next_index_: the least index never used
  generation,   \* active_generations_: the last generation of each used index
  free,         \* free_indices_: the indexes that can be used again
  issued,       \* history: every identifier that Generate returned
  held          \* history: those of them whose owner has not released them

vars == <<nextIndex, generation, free, issued, held>>

NodeID(i, g) == [index |-> i, generation |-> g]

Init ==
  /\ nextIndex = 0
  /\ generation = [i \in {} |-> 0]
  /\ free = {}
  /\ issued = {}
  /\ held = {}

\* Faulty: an index that is used again starts over.
FirstGeneration(i) == 1

NextGeneration(i) == IF i \in DOMAIN generation THEN generation[i] + 1 ELSE 1

\* begin() of the unordered set is any of the free indexes.
TakeIndex(i) ==
  \/ /\ i \in free
     /\ free' = free \ {i}
     /\ UNCHANGED nextIndex
  \/ /\ free = {}
     /\ i = nextIndex
     /\ nextIndex < MaxIndex
     /\ nextIndex' = nextIndex + 1
     /\ UNCHANGED free

Generate(i) ==
  /\ NextGeneration(i) <= MaxGeneration
  /\ TakeIndex(i)
  /\ generation' = [k \in DOMAIN generation \cup {i} |->
                      IF k = i THEN NextGeneration(i) ELSE generation[k]]
  /\ issued' = issued \cup {NodeID(i, NextGeneration(i))}
  /\ held' = held \cup {NodeID(i, NextGeneration(i))}

\* Owners release what they hold, and may do so again while nobody has the
\* index: the code checks neither.
Release(id) ==
  /\ id \in held \/ id.index \in free
  /\ free' = free \cup {id.index}
  /\ held' = held \ {id}
  /\ UNCHANGED <<nextIndex, generation, issued>>

\* Faulty: a released identifier is valid again once its index is in use.
IsIndexUsed(id) == id.index \notin free

IsValid(id) ==
  /\ id.index \notin free
  /\ id.index \in DOMAIN generation
  /\ generation[id.index] = id.generation

Next ==
  \/ \E i \in free \cup {nextIndex} : Generate(i)
  \/ \E id \in issued : Release(id)

Spec == Init /\ [][Next]_vars

-----------------------------------------------------------------------------
(* Properties *)

\* IsValid tells the identifiers in use from all those that ever were, however
\* often their indexes have been released and used again since.
ValidIffHeld == \A id \in issued : IsValid(id) <=> id \in held

\* Generate never returns an identifier it returned before, released or not: no
\* two nodes share one, and events still queued for a node that is gone can not
\* reach the node that has its index now.
HandedOutOnce ==
  [][\A i \in free \cup {nextIndex} :
       Generate(i) => NodeID(i, NextGeneration(i)) \notin issued]_vars

=============================================================================
