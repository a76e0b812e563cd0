---------------------------- MODULE NodeIdsProofs ----------------------------
(***************************************************************************)
(* Proofs about NodeIds, for all bounds.                                   *)
(***************************************************************************)
EXTENDS NodeIds, TLAPS

Ids == [index : Nat, generation : Nat]

\* The indexes ever used are those below nextIndex; some of them are free.
Indexes ==
  /\ nextIndex \in Nat
  /\ generation \in [0..nextIndex - 1 -> Nat]
  /\ free \subseteq DOMAIN generation

\* No identifier has a generation that its index has not reached.
IssuedReached ==
  /\ issued \subseteq Ids
  /\ \A id \in issued :
       id.index \in DOMAIN generation /\ id.generation <= generation[id.index]

\* An index that is not free is held, under its last generation and no other.
HeldIsLast ==
  held = {id \in issued : id.index \notin free
                          /\ id.generation = generation[id.index]}

IdInv == Indexes /\ IssuedReached /\ HeldIsLast

LEMMA InitIdInv == Init => IdInv
BY DEF Init, IdInv, Indexes, IssuedReached, HeldIsLast, Ids

\* The identifier that Generate makes is beyond all that were issued.
LEMMA NextIsNew ==
  ASSUME IdInv, NEW i, TakeIndex(i)
  PROVE  /\ i \in Nat
         /\ NextGeneration(i) \in Nat
         /\ NodeID(i, NextGeneration(i)) \in Ids
         /\ \A id \in issued :
              id.index = i => id.generation < NextGeneration(i)
         /\ \A id \in held : id.index # i
<1>1. i \in Nat /\ (i \in DOMAIN generation <=> i \in free)
  <2>1. /\ nextIndex \in Nat
        /\ DOMAIN generation = 0..nextIndex - 1
        /\ free \subseteq 0..nextIndex - 1
    BY DEF IdInv, Indexes
  <2>2. CASE i \in free
    BY <2>1, <2>2
  <2>3. CASE free = {} /\ i = nextIndex
    BY <2>1, <2>3
  <2> QED
    BY <2>2, <2>3 DEF TakeIndex
<1>2. NextGeneration(i) \in Nat
  BY <1>1 DEF IdInv, Indexes, NextGeneration
<1>3. NodeID(i, NextGeneration(i)) \in Ids
  BY <1>1, <1>2 DEF NodeID, Ids
<1>4. ASSUME NEW id \in issued, id.index = i
      PROVE  id.generation < NextGeneration(i)
  <2>1. id \in Ids /\ i \in DOMAIN generation /\ id.generation <= generation[i]
    BY <1>4 DEF IdInv, IssuedReached
  <2>2. id.generation \in Nat /\ generation[i] \in Nat
    BY <2>1 DEF Ids, IdInv, Indexes
  <2> QED
    BY <2>1, <2>2 DEF NextGeneration
<1>5. ASSUME NEW id \in held
      PROVE  id.index # i
  <2>1. id \in issued /\ id.index \notin free
    BY DEF IdInv, HeldIsLast
  <2> QED
    BY <1>1, <2>1 DEF IdInv, IssuedReached
<1> QED
  BY <1>1, <1>2, <1>3, <1>4, <1>5

LEMMA GenerateIdInv ==
  ASSUME IdInv, NEW i, Generate(i)
  PROVE  IdInv'
<1> DEFINE g == NextGeneration(i)
           new == NodeID(i, g)
<1>1. TakeIndex(i)
  BY DEF Generate
<1>2. /\ i \in Nat /\ g \in Nat /\ new \in Ids
      /\ new.index = i /\ new.generation = g
      /\ \A id \in issued : id.index = i => id.generation < g
      /\ \A id \in held : id.index # i
  BY <1>1, NextIsNew DEF NodeID
<1>3. issued' = issued \cup {new} /\ held' = held \cup {new}
  BY DEF Generate
<1>4. /\ DOMAIN generation' = DOMAIN generation \cup {i}
      /\ generation'[i] = g
      /\ \A k \in DOMAIN generation \ {i} : generation'[k] = generation[k]
      /\ generation' \in [DOMAIN generation \cup {i} -> Nat]
  <2>1. generation' = [k \in DOMAIN generation \cup {i} |->
                         IF k = i THEN g ELSE generation[k]]
    BY DEF Generate
  <2>2. \A k \in DOMAIN generation : generation[k] \in Nat
    BY DEF IdInv, Indexes
  <2> HIDE DEF g
  <2> QED
    BY <1>2, <2>1, <2>2
<1> HIDE DEF g, new
<1>5. Indexes'
  <2>1. /\ nextIndex \in Nat
        /\ DOMAIN generation = 0..nextIndex - 1
        /\ free \subseteq 0..nextIndex - 1
    BY DEF IdInv, Indexes
  <2>2. /\ nextIndex' \in Nat
        /\ DOMAIN generation \cup {i} = 0..nextIndex' - 1
    <3>1. CASE i \in free /\ nextIndex' = nextIndex
      BY <2>1, <3>1
    <3>2. CASE i = nextIndex /\ nextIndex' = nextIndex + 1
      BY <2>1, <3>2
    <3> QED
      BY <1>1, <3>1, <3>2 DEF TakeIndex
  <2>3. free' \subseteq DOMAIN generation'
    BY <1>1, <1>4, <2>1 DEF TakeIndex
  <2> QED
    BY <1>4, <2>2, <2>3 DEF Indexes
<1>6. IssuedReached'
  <2>1. issued' \subseteq Ids
    BY <1>2, <1>3 DEF IdInv, IssuedReached
  <2>2. ASSUME NEW id \in issued
        PROVE  /\ id.index \in DOMAIN generation'
               /\ id.generation <= generation'[id.index]
    <3>1. /\ id \in Ids /\ id.index \in DOMAIN generation
          /\ id.generation <= generation[id.index]
      BY DEF IdInv, IssuedReached
    <3>2. CASE id.index = i
      BY <1>2, <1>4, <3>1, <3>2 DEF Ids
    <3>3. CASE id.index # i
      BY <1>4, <3>1, <3>3
    <3> QED
      BY <3>2, <3>3
  <2>3. new.index \in DOMAIN generation' /\ new.generation <= generation'[new.index]
    BY <1>2, <1>4
  <2> QED
    BY <1>3, <2>1, <2>2, <2>3 DEF IssuedReached
<1>7. HeldIsLast'
  <2>1. i \notin free' /\ \A k \in DOMAIN generation \ {i} : k \in free' <=> k \in free
    BY <1>1 DEF TakeIndex, IdInv, Indexes
  <2>2. ASSUME NEW id \in issued
        PROVE  id \in held' <=> /\ id.index \notin free'
                                /\ id.generation = generation'[id.index]
    <3>1. /\ id \in Ids /\ id.index \in DOMAIN generation
          /\ id \in held <=> /\ id.index \notin free
                             /\ id.generation = generation[id.index]
      BY DEF IdInv, IssuedReached, HeldIsLast
    <3>2. CASE id.index = i
      <4>1. id.generation < g /\ id.generation \in Nat
        BY <1>2, <3>1, <3>2 DEF Ids
      <4>2. id # new /\ id \notin held /\ id.generation # generation'[id.index]
        BY <1>2, <1>4, <3>2, <4>1
      <4> QED
        BY <1>3, <4>2
    <3>3. CASE id.index # i
      <4>1. id # new
        BY <1>2, <3>3
      <4> QED
        BY <1>3, <1>4, <2>1, <3>1, <3>3, <4>1
    <3> QED
      BY <3>2, <3>3
  <2>3. /\ new \in held' /\ new.index \notin free'
        /\ new.generation = generation'[new.index]
    BY <1>2, <1>3, <1>4, <2>1
  <2>4. held' \subseteq issued'
    BY <1>3 DEF IdInv, HeldIsLast
  <2> QED
    BY <1>3, <2>2, <2>3, <2>4 DEF HeldIsLast
<1> QED
  BY <1>5, <1>6, <1>7 DEF IdInv

LEMMA ReleaseIdInv ==
  ASSUME IdInv, NEW id \in issued, Release(id)
  PROVE  IdInv'
<1>1. /\ free' = free \cup {id.index} /\ held' = held \ {id}
      /\ issued' = issued /\ generation' = generation /\ nextIndex' = nextIndex
  BY DEF Release
<1>2. id \in Ids /\ id.index \in DOMAIN generation
  BY DEF IdInv, IssuedReached
<1>3. Indexes' /\ IssuedReached'
  BY <1>1, <1>2 DEF IdInv, Indexes, IssuedReached
<1>4. ASSUME NEW x \in issued
      PROVE  x \in held' <=> /\ x.index \notin free'
                             /\ x.generation = generation'[x.index]
  <2>1. x \in Ids /\ (x \in held <=> /\ x.index \notin free
                                     /\ x.generation = generation[x.index])
    BY DEF IdInv, IssuedReached, HeldIsLast
  <2>2. CASE x.index # id.index
    BY <1>1, <2>1, <2>2
  <2>3. CASE x.index = id.index
    <3>1. CASE id \in held
      <4>1. id.generation = generation[id.index]
        BY <3>1 DEF IdInv, HeldIsLast
      <4>2. x \in held => x = id
        BY <1>2, <2>1, <2>3, <4>1 DEF Ids
      <4> QED
        BY <1>1, <2>3, <4>2
    <3>2. CASE id.index \in free
      BY <1>1, <2>1, <2>3, <3>2
    <3> QED
      BY <3>1, <3>2 DEF Release
  <2> QED
    BY <2>2, <2>3
<1>5. held' \subseteq issued'
  BY <1>1 DEF IdInv, HeldIsLast
<1>6. HeldIsLast'
  BY <1>1, <1>4, <1>5 DEF HeldIsLast
<1> QED
  BY <1>3, <1>6 DEF IdInv

\* What is known of the identifiers in every state (see IdInv).
THEOREM IdInvHolds == Spec => []IdInv
<1>1. IdInv /\ [Next]_vars => IdInv'
  <2> SUFFICES ASSUME IdInv, [Next]_vars PROVE IdInv'
    OBVIOUS
  <2>1. CASE \E i \in free \cup {nextIndex} : Generate(i)
    BY <2>1, GenerateIdInv
  <2>2. CASE \E id \in issued : Release(id)
    BY <2>2, ReleaseIdInv
  <2>3. CASE UNCHANGED vars
    BY <2>3 DEF vars, IdInv, Indexes, IssuedReached, HeldIsLast
  <2> QED
    BY <2>1, <2>2, <2>3 DEF Next
<1> QED
  BY <1>1, InitIdInv, PTL DEF Spec

\* NodeIDManager::IsValid accepts an issued identifier exactly while it is held.
THEOREM Valid_IffHeld == Spec => []ValidIffHeld
<1>1. IdInv => ValidIffHeld
  BY DEF IdInv, Indexes, IssuedReached, HeldIsLast, ValidIffHeld, IsValid
<1> QED
  BY <1>1, IdInvHolds, PTL

\* NodeIDManager::Generate hands out every identifier once at most, whether its
\* owner has released it or not.
THEOREM HandedOut_Once == Spec => HandedOutOnce
<1>1. ASSUME IdInv, NEW i, Generate(i)
      PROVE  NodeID(i, NextGeneration(i)) \notin issued
  <2>1. /\ NextGeneration(i) \in Nat
        /\ \A id \in issued : id.index = i => id.generation < NextGeneration(i)
    BY <1>1, NextIsNew DEF Generate
  <2> QED
    BY <2>1 DEF NodeID
<1>2. IdInv => [\A i \in free \cup {nextIndex} :
                  Generate(i) => NodeID(i, NextGeneration(i)) \notin issued]_vars
  BY <1>1
<1> QED
  BY <1>2, IdInvHolds, PTL DEF HandedOutOnce

=============================================================================
