------------------------- MODULE RaftHandlerProofs -------------------------
(***************************************************************************)
(* What a handler run does to a node besides the election.                 *)
(*                                                                         *)
(* The first parts are about numbers, sequences and the helpers of         *)
(* Raft.tla: Tame says that a helper keeps the types, the reign and the    *)
(* log but for new entries of a leader, and what it posts.  From these     *)
(* follows that each handler is either a Turn, which keeps the log or      *)
(* extends it as the leader, or Accepts the entries of a leader.           *)
(***************************************************************************)
EXTENDS RaftElectionProofs, WellFoundedInduction

-----------------------------------------------------------------------------
(* Numbers and filtered sequences *)

\* A set of numbers that is not empty has a least element,
LEMMA LeastOf ==
  ASSUME NEW S, S \subseteq Nat, S # {}
  PROVE  \E m \in S : \A n \in S : m <= n
<1> DEFINE R == StrictSubsetOrdering(Nat)
           T == {0..n : n \in S}
<1>1. IsWellFoundedOn(R, FiniteSubsetsOf(Nat))
  BY FS_StrictSubsetOrderingWellFounded
<1>2. T \subseteq FiniteSubsetsOf(Nat) /\ T # {}
  <2>1. ASSUME NEW n \in S
        PROVE  0..n \in SUBSET Nat /\ IsFiniteSet(0..n)
    BY FS_Interval
  <2> QED
    BY <2>1 DEF FiniteSubsetsOf
<1>3. PICK t \in T : \A r \in T : <<r, t>> \notin R
  <2> HIDE DEF R, T
  <2> QED
    BY <1>1, <1>2, WFMin
<1>4. PICK m \in S : t = 0..m
  BY <1>3
<1>5. ASSUME NEW n \in S, n < m
      PROVE  FALSE
  <2>1. 0..n \subseteq 0..m /\ m \in 0..m /\ m \notin 0..n
    BY <1>5
  <2>2. <<0..n, t>> \in R
    BY <1>4, <2>1 DEF StrictSubsetOrdering
  <2> QED
    BY <1>3, <2>2
<1> QED
  BY <1>5

\* a greatest one if it is bounded,
LEMMA GreatestOf ==
  ASSUME NEW S, S \subseteq Nat, S # {}, NEW b \in Nat, \A n \in S : n <= b
  PROVE  \E m \in S : \A n \in S : n <= m
<1> DEFINE gaps == {b - n : n \in S}
<1>1. gaps \subseteq Nat /\ gaps # {}
  <2>1. \A n \in S : n \in Nat /\ n <= b
    OBVIOUS
  <2>2. PICK n \in S : TRUE
    OBVIOUS
  <2>3. b - n \in gaps
    OBVIOUS
  <2> QED
    BY <2>1, <2>3
<1>2. PICK g \in gaps : \A h \in gaps : g <= h
  BY <1>1, LeastOf
<1>3. PICK m \in S : g = b - m
  BY <1>2
<1>4. ASSUME NEW n \in S
      PROVE  b - m <= b - n
  <2>1. b - n \in gaps
    OBVIOUS
  <2> QED
    BY <1>2, <1>3, <2>1
<1>5. \A n \in S : n \in Nat /\ m \in Nat
  OBVIOUS
<1> QED
  BY <1>4, <1>5

\* and a greatest one if it is finite.
LEMMA GreatestOfFinite ==
  ASSUME NEW S, S \subseteq Nat, S # {}, IsFiniteSet(S)
  PROVE  \E m \in S : \A n \in S : n <= m
<1> DEFINE above(m) == {n \in S : n > m}
           sizes == {Cardinality(above(m)) : m \in S}
<1>1. \A m : IsFiniteSet(above(m)) /\ Cardinality(above(m)) \in Nat
  BY FS_Subset, FS_CardinalityType
<1>2. PICK m \in S : \A n \in S : Cardinality(above(m)) <= Cardinality(above(n))
  <2>1. sizes \subseteq Nat /\ sizes # {}
    BY <1>1
  <2>2. PICK c \in sizes : \A d \in sizes : c <= d
    BY <2>1, LeastOf
  <2> QED
    BY <2>2
<1>3. SUFFICES ASSUME NEW n \in S, n > m PROVE FALSE
  <2>1. \A n \in S : n \in Nat /\ m \in Nat
    OBVIOUS
  <2> QED
    BY <2>1
<1>4. above(n) \subseteq above(m) /\ above(n) # above(m)
  <2>1. n \in above(m) /\ n \notin above(n)
    BY <1>3
  <2>2. \A x \in S : x > n => x > m
    BY <1>3
  <2> QED
    BY <2>1, <2>2
<1>5. Cardinality(above(n)) < Cardinality(above(m))
  <2> HIDE DEF above
  <2>1. IsFiniteSet(above(m)) /\ IsFiniteSet(above(n))
    BY <1>1
  <2>2. /\ Cardinality(above(n)) <= Cardinality(above(m))
        /\ Cardinality(above(n)) = Cardinality(above(m)) => above(n) = above(m)
    BY <1>4, <2>1, FS_Subset
  <2> QED
    BY <1>1, <1>4, <2>2
<1>6. Cardinality(above(m)) <= Cardinality(above(n))
  BY <1>2
<1> HIDE DEF above
<1> QED
  BY <1>1, <1>5, <1>6

\* f is the table that Filter(q, S) fills, up to n.
Upto(q, S, n, f) ==
  f = [k \in 0..n |-> IF k = 0 THEN <<>>
                      ELSE IF q[k] \in S THEN Append(f[k - 1], q[k]) ELSE f[k - 1]]

\* There is such a table: no n is the least one without.
LEMMA FilterExists ==
  ASSUME NEW q, NEW S, NEW n \in Nat
  PROVE  \E f : Upto(q, S, n, f)
<1> DEFINE Bad == {m \in Nat : ~ \E f : Upto(q, S, m, f)}
<1> SUFFICES ASSUME Bad # {} PROVE FALSE
  OBVIOUS
<1>1. PICK m \in Bad : \A k \in Bad : m <= k
  BY LeastOf
<1>2. CASE m = 0
  <2> DEFINE f == [k \in 0..0 |-> <<>>]
  <2>1. Upto(q, S, 0, f)
    BY DEF Upto
  <2> QED
    BY <1>2, <2>1
<1>3. CASE m # 0
  <2>1. m - 1 \in Nat /\ m - 1 \notin Bad
    BY <1>1, <1>3
  <2>2. PICK f : Upto(q, S, m - 1, f)
    BY <2>1
  <2> DEFINE last == IF q[m] \in S THEN Append(f[m - 1], q[m]) ELSE f[m - 1]
             g == [k \in 0..m |-> IF k = m THEN last ELSE f[k]]
  <2>3. Upto(q, S, m, g)
    <3>1. \A k \in 0..m : g[k] = IF k = m THEN last ELSE f[k]
      OBVIOUS
    <3>2. \A k \in 0..(m - 1) :
            f[k] = IF k = 0 THEN <<>>
                   ELSE IF q[k] \in S THEN Append(f[k - 1], q[k]) ELSE f[k - 1]
      BY <2>2 DEF Upto
    <3>3. ASSUME NEW k \in 0..m
          PROVE  g[k] = IF k = 0 THEN <<>>
                        ELSE IF q[k] \in S THEN Append(g[k - 1], q[k]) ELSE g[k - 1]
      <4>1. CASE k = m
        <5>1. g[m] = last /\ g[m - 1] = f[m - 1]
          BY <1>3, <2>1, <3>1
        <5> QED
          BY <1>3, <4>1, <5>1
      <4>2. CASE k = 0
        BY <1>3, <2>1, <3>1, <3>2, <4>2
      <4>3. CASE k \in 1..(m - 1)
        <5>1. g[k] = f[k] /\ g[k - 1] = f[k - 1] /\ k # 0 /\ k \in 0..(m - 1)
          BY <2>1, <3>1, <4>3
        <5> HIDE DEF g
        <5> QED
          BY <3>2, <5>1
      <4> QED
        BY <2>1, <4>1, <4>2, <4>3
    <3>4. g = [k \in 0..m |-> g[k]]
      OBVIOUS
    <3> HIDE DEF g
    <3> QED
      BY <3>3, <3>4 DEF Upto
  <2> QED
    BY <2>3
<1> QED
  BY <1>2, <1>3

LEMMA FilterProperties ==
  ASSUME NEW X, NEW q \in Seq(X), NEW S
  PROVE  /\ Filter(q, S) \in Seq(X \cap S)
         /\ Len(Filter(q, S)) <= Len(q)
<1> DEFINE N == Len(q)
           f == CHOOSE g : Upto(q, S, N, g)
           Bad == {n \in 0..N : ~ (f[n] \in Seq(X \cap S) /\ Len(f[n]) <= n)}
<1>1. Filter(q, S) = f[N]
  BY DEF Filter, Upto
<1>2. N \in Nat /\ \A n \in 1..N : q[n] \in X
  OBVIOUS
<1>3. Upto(q, S, N, f)
  BY <1>2, FilterExists
<1> HIDE DEF f
<1>4. \A k \in 0..N :
        f[k] = IF k = 0 THEN <<>>
               ELSE IF q[k] \in S THEN Append(f[k - 1], q[k]) ELSE f[k - 1]
  BY <1>3 DEF Upto
<1>5. Bad = {}
  <2> SUFFICES ASSUME Bad # {} PROVE FALSE
    OBVIOUS
  <2>1. Bad \subseteq Nat
    BY <1>2
  <2>2. PICK m \in Bad : \A k \in Bad : m <= k
    <3> HIDE DEF Bad
    <3> QED
      BY <2>1, LeastOf
  <2>3. m # 0
    <3>1. <<>> \in Seq(X \cap S) /\ Len(<<>>) = 0 /\ 0 \in 0..N
      BY <1>2, EmptySeq
    <3> QED
      BY <1>4, <2>2, <3>1
  <2>4. m - 1 \in 0..N /\ m \in 1..N /\ m - 1 \notin Bad
    BY <1>2, <2>2, <2>3
  <2>5. f[m - 1] \in Seq(X \cap S) /\ Len(f[m - 1]) <= m - 1 /\ Len(f[m - 1]) \in Nat
    BY <2>4
  <2>6. f[m] = IF q[m] \in S THEN Append(f[m - 1], q[m]) ELSE f[m - 1]
    BY <1>4, <2>4
  <2>7. CASE q[m] \in S
    <3>1. q[m] \in X \cap S
      BY <1>2, <2>4, <2>7
    <3>2. f[m] \in Seq(X \cap S) /\ Len(f[m]) = Len(f[m - 1]) + 1
      BY <2>5, <2>6, <2>7, <3>1, AppendProperties
    <3> QED
      BY <1>2, <2>2, <2>4, <2>5, <3>2
  <2>8. CASE q[m] \notin S
    BY <1>2, <2>2, <2>4, <2>5, <2>6, <2>8
  <2> QED
    BY <2>7, <2>8
<1> HIDE DEF Bad
<1>6. N \in 0..N /\ N \notin Bad
  BY <1>2, <1>5
<1> QED
  BY <1>1, <1>6 DEF Bad

\* What is left of a sequence from a position on, and up to one.
LEMMA TailAfter ==
  ASSUME NEW X, NEW q \in Seq(X), NEW p \in Nat
  PROVE  LET rest == SubSeq(q, p + 1, Len(q))
         IN /\ rest \in Seq(X)
            /\ Len(rest) = IF p <= Len(q) THEN Len(q) - p ELSE 0
            /\ DOMAIN rest = 1..Len(rest)
            /\ \A k \in 1..Len(rest) : p + k \in 1..Len(q) /\ rest[k] = q[p + k]
<1> DEFINE N == Len(q)
           rest == SubSeq(q, p + 1, N)
<1>1. N \in Nat /\ \A n \in 1..N : q[n] \in X
  OBVIOUS
<1>2. \A n \in (p + 1)..N : q[n] \in X
  BY <1>1
<1>3. /\ rest \in Seq(X)
      /\ Len(rest) = IF p + 1 <= N THEN N - (p + 1) + 1 ELSE 0
      /\ \A k \in 1..(N - (p + 1) + 1) : rest[k] = q[(p + 1) + k - 1]
  <2> HIDE DEF N
  <2> QED
    BY <1>1, <1>2, SubSeqProperties
<1> HIDE DEF rest, N
<1>4. Len(rest) = IF p <= N THEN N - p ELSE 0
  BY <1>1, <1>3
<1>5. ASSUME NEW k \in 1..Len(rest)
      PROVE  p + k \in 1..N /\ rest[k] = q[p + k]
  <2>1. p <= N /\ k \in 1..(N - p)
    BY <1>1, <1>4
  <2>2. (p + 1) + k - 1 = p + k /\ k \in 1..(N - (p + 1) + 1) /\ p + k \in 1..N
    BY <1>1, <2>1
  <2> QED
    BY <1>3, <2>2
<1> QED
  BY <1>3, <1>4, <1>5, LenProperties DEF rest, N

LEMMA PrefixUpTo ==
  ASSUME NEW X, NEW q \in Seq(X), NEW p \in 0..Len(q)
  PROVE  LET front == SubSeq(q, 1, p)
         IN /\ front \in Seq(X)
            /\ Len(front) = p
            /\ DOMAIN front = 1..p
            /\ \A k \in 1..p : front[k] = q[k]
<1> DEFINE front == SubSeq(q, 1, p)
<1>1. Len(q) \in Nat /\ \A n \in 1..p : q[n] \in X
  OBVIOUS
<1>2. /\ front \in Seq(X)
      /\ Len(front) = IF 1 <= p THEN p - 1 + 1 ELSE 0
      /\ \A k \in 1..(p - 1 + 1) : front[k] = q[1 + k - 1]
  BY <1>1, SubSeqProperties
<1> HIDE DEF front
<1>3. Len(front) = p
  BY <1>1, <1>2
<1>4. \A k \in 1..p : k \in 1..(p - 1 + 1) /\ 1 + k - 1 = k
  BY <1>1
<1> QED
  BY <1>2, <1>3, <1>4, LenProperties DEF front

\* c is q with r after it.
Extension(c, q, r) ==
  /\ Len(q) \in Nat /\ Len(r) \in Nat
  /\ Len(c) = Len(q) + Len(r)
  /\ DOMAIN c = 1..(Len(q) + Len(r))
  /\ \A k \in 1..Len(q) : c[k] = q[k]
  /\ \A k \in 1..Len(r) : c[Len(q) + k] = r[k]

LEMMA Joined ==
  ASSUME NEW X, NEW q \in Seq(X), NEW r \in Seq(X)
  PROVE  q \o r \in Seq(X) /\ Extension(q \o r, q, r)
<1> DEFINE c == q \o r
           a == Len(q)
           b == Len(r)
<1>1. /\ c \in Seq(X) /\ Len(c) = a + b
      /\ \A k \in 1..(a + b) : c[k] = IF k <= a THEN q[k] ELSE r[k - a]
  BY ConcatProperties
<1>2. a \in Nat /\ b \in Nat
  OBVIOUS
<1> HIDE DEF c, a, b
<1>3. DOMAIN c = 1..(a + b)
  BY <1>1, LenProperties
<1>4. ASSUME NEW k \in 1..a
      PROVE  c[k] = q[k]
  <2>1. k \in 1..(a + b) /\ k <= a
    BY <1>2
  <2> QED
    BY <1>1, <2>1
<1>5. ASSUME NEW k \in 1..b
      PROVE  c[a + k] = r[k]
  <2>1. a + k \in 1..(a + b) /\ ~(a + k <= a) /\ (a + k) - a = k
    BY <1>2
  <2> QED
    BY <1>1, <2>1
<1> QED
  BY <1>1, <1>2, <1>3, <1>4, <1>5 DEF c, a, b, Extension

-----------------------------------------------------------------------------
(* Records, and what a step of a handler may do to one *)

Redirects == [cmd : Commands, to : Server]
Debts == [index : Nat, redirectTo : Server \cup {Nobody}, cmd : Writes]

\* The types of a record, but for what its store and its clients hold.
Sane(s) ==
  /\ Shape(s)
  /\ s.role \in Roles /\ s.term \in Nat /\ s.leader \in Server \cup {Nobody}
  /\ s.log \in Seq(Entries)
  /\ s.next \in [Server -> Nat \ {0}] /\ s.match \in [Server -> Nat]
  /\ s.commit \in Nat
  /\ s.pending \in Seq(Commands) /\ s.inflight \in Seq(Redirects)
  /\ s.responses \in Seq(Debts)
  /\ s.electionArmed \in BOOLEAN /\ s.heartbeatArmed \in BOOLEAN

AppendRequests ==
  [type : {"AppendEntries"}, term : Nat, prevIndex : Nat,
   prevTerm : Nat \cup {Garbage}, entries : Seq(Entries), commit : Nat]

\* raft/ gives no hints.
Hints == IF Hybrid THEN Nat ELSE {0}

AppendResponses ==
  [type : {"AppendEntriesResponse"}, term : Nat, ok : BOOLEAN,
   match : Nat, hintIndex : Hints, hintTerm : Hints]

VoteRequests ==
  [type : {"RequestVote"}, term : Nat, lastIndex : Nat, lastTerm : Nat]

\* The types of a message.
Letter(m) ==
  /\ m.type = "AppendEntries" => m \in AppendRequests
  /\ m.type = "AppendEntriesResponse" => m \in AppendResponses
  /\ m.type = "RequestVote" => m \in VoteRequests
  /\ m.type = "client_command_redirected" => m.cmd \in Commands

\* The entries of m stand in log where m says; only an out-of-range read of
\* raft/ makes an exception, and then m has none.
Excerpt(m, log) ==
  \/ /\ m.prevIndex + Len(m.entries) <= Len(log)
     /\ \A k \in DOMAIN m.entries : m.entries[k] = log[m.prevIndex + k]
     /\ m.prevTerm = IF m.prevIndex = 0 THEN 0 ELSE log[m.prevIndex].term
  \/ ~Hybrid /\ m.prevTerm = Garbage /\ m.entries = <<>>

\* Only entries of the term of s are beyond what m reaches.
Whole(m, s) ==
  \A p \in DOMAIN s.log : p > m.prevIndex + Len(m.entries) => s.log[p].term = s.term

\* An AppendEntries from i to k that i's record u vouches for.
Vouched(i, k, u, m) ==
  /\ m \in AppendRequests /\ k # i
  /\ u.role = "leader" /\ m.term = u.term
  /\ Excerpt(m, u.log) /\ Whole(m, u)

\* What the helpers of replication and of clients post.
Helps(i, k, u, m) ==
  \/ Vouched(i, k, u, m)
  \/ m.type = "client_command_redirected" /\ m.cmd \in Commands
  \/ m.type = "client_command_redirected_response"

\* A leader may have appended entries of its term.
Grown(s, u) ==
  \/ u.log = s.log
  \/ /\ s.role = "leader"
     /\ Len(s.log) <= Len(u.log)
     /\ \A p \in DOMAIN s.log : u.log[p] = s.log[p]
     /\ \A p \in DOMAIN u.log : p > Len(s.log) => u.log[p].term = s.term

SameReign(s, u) ==
  /\ u.role = s.role /\ u.term = s.term /\ u.leader = s.leader
  /\ u.match = s.match
  /\ u.electionArmed = s.electionArmed /\ u.heartbeatArmed = s.heartbeatArmed

SameBacklog(s, u) ==
  /\ u.role = s.role /\ u.leader = s.leader
  /\ u.pending = s.pending /\ u.inflight = s.inflight

\* Only a leader owes responses, in the order of the entries they are for.
Owed(s) ==
  \A k \in DOMAIN s.responses :
    LET r == s.responses[k]
    IN /\ s.role = "leader"
       /\ r.index \in DOMAIN s.log
       /\ s.log[r.index] = [term |-> s.term, cmd |-> r.cmd]
       /\ k > 1 => s.responses[k - 1].index < r.index

\* A step of a handler within a reign, from s to u.
Tame(i, s, u) ==
  /\ Sane(u) /\ SameReign(s, u) /\ Grown(s, u)
  /\ Owed(s) => Owed(u)
  /\ \A k \in Server : \A m \in u.out[k] : m \in s.out[k] \/ Helps(i, k, u, m)

LEMMA NothingOwed ==
  ASSUME NEW s, Sane(s), Owed(s), s.role # "leader"
  PROVE  s.responses = <<>>
<1>1. s.responses \in Seq(Debts) /\ DOMAIN s.responses = {}
  BY DEF Sane, Owed
<1>2. Len(s.responses) \in Nat /\ DOMAIN s.responses = 1..Len(s.responses)
  BY <1>1, LenProperties
<1>3. \A n \in Nat : 1..n = {} => n = 0
  <2> SUFFICES ASSUME NEW n \in Nat, n # 0 PROVE 1 \in 1..n
    OBVIOUS
  <2> QED
    OBVIOUS
<1>4. Len(s.responses) = 0
  BY <1>1, <1>2, <1>3
<1> QED
  BY <1>1, <1>4, EmptySeq

LEMMA SaneLog ==
  ASSUME NEW s, Sane(s)
  PROVE  /\ s.log \in Seq(Entries)
         /\ Len(s.log) \in Nat /\ DOMAIN s.log = 1..Len(s.log)
         /\ \A p \in DOMAIN s.log : s.log[p] \in Entries
<1>1. s.log \in Seq(Entries)
  BY DEF Sane
<1> QED
  BY <1>1, LenProperties

LEMMA TameSelf ==
  ASSUME NEW i, NEW s, Sane(s)
  PROVE  Tame(i, s, s)
  BY DEF Tame, SameReign, Grown

LEMMA VouchedGrown ==
  ASSUME NEW i, NEW k, NEW m, NEW s, NEW u, Sane(s), Sane(u), Grown(s, u),
         u.role = s.role, u.term = s.term, Vouched(i, k, s, m)
  PROVE  Vouched(i, k, u, m)
<1>1. CASE u.log = s.log
  BY <1>1 DEF Vouched, Whole
<1>2. CASE u.log # s.log
  <2>1. /\ Len(s.log) <= Len(u.log)
        /\ \A p \in DOMAIN s.log : u.log[p] = s.log[p]
        /\ \A p \in DOMAIN u.log : p > Len(s.log) => u.log[p].term = s.term
    BY <1>2 DEF Grown
  <2>2. /\ DOMAIN s.log = 1..Len(s.log) /\ DOMAIN u.log = 1..Len(u.log)
        /\ Len(s.log) \in Nat /\ Len(u.log) \in Nat
    BY SaneLog
  <2>3. Excerpt(m, u.log)
    <3>1. CASE ~Hybrid /\ m.prevTerm = Garbage /\ m.entries = <<>>
      BY <3>1 DEF Excerpt
    <3>2. CASE /\ m.prevIndex + Len(m.entries) <= Len(s.log)
               /\ \A n \in DOMAIN m.entries : m.entries[n] = s.log[m.prevIndex + n]
               /\ m.prevTerm = IF m.prevIndex = 0 THEN 0 ELSE s.log[m.prevIndex].term
      <4>1. m.prevIndex \in Nat /\ Len(m.entries) \in Nat
            /\ DOMAIN m.entries = 1..Len(m.entries)
        BY DEF Vouched, AppendRequests
      <4>2. \A n \in DOMAIN m.entries : m.prevIndex + n \in DOMAIN s.log
        BY <2>2, <3>2, <4>1
      <4>3. m.prevIndex # 0 => m.prevIndex \in DOMAIN s.log
        BY <2>2, <3>2, <4>1
      <4>4. m.prevTerm = IF m.prevIndex = 0 THEN 0 ELSE u.log[m.prevIndex].term
        BY <2>1, <3>2, <4>3
      <4>5. \A n \in DOMAIN m.entries : m.entries[n] = u.log[m.prevIndex + n]
        BY <2>1, <3>2, <4>2
      <4>6. m.prevIndex + Len(m.entries) <= Len(u.log)
        BY <2>1, <2>2, <3>2, <4>1
      <4> QED
        BY <4>4, <4>5, <4>6 DEF Excerpt
    <3> QED
      BY <3>1, <3>2 DEF Vouched, Excerpt
  <2>4. Whole(m, u)
    <3> SUFFICES ASSUME NEW p \in DOMAIN u.log, p > m.prevIndex + Len(m.entries)
                 PROVE  u.log[p].term = u.term
      BY DEF Whole
    <3>1. CASE p > Len(s.log)
      BY <2>1, <3>1
    <3>2. CASE ~(p > Len(s.log))
      BY <2>1, <2>2, <3>2 DEF Vouched, Whole
    <3> QED
      BY <3>1, <3>2
  <2> QED
    BY <2>3, <2>4 DEF Vouched
<1> QED
  BY <1>1, <1>2

LEMMA HelpsGrown ==
  ASSUME NEW i, NEW k, NEW m, NEW s, NEW u, Sane(s), Sane(u), SameReign(s, u),
         Grown(s, u), Helps(i, k, s, m)
  PROVE  Helps(i, k, u, m)
  BY VouchedGrown DEF Helps, SameReign

LEMMA TameTrans ==
  ASSUME NEW i, NEW s, NEW u, NEW v, Sane(s), Tame(i, s, u), Tame(i, u, v)
  PROVE  Tame(i, s, v)
<1>1. Sane(v) /\ SameReign(s, v) /\ (Owed(s) => Owed(v))
  BY DEF Tame, SameReign
<1>2. Grown(s, v)
  <2>1. /\ DOMAIN s.log = 1..Len(s.log) /\ DOMAIN u.log = 1..Len(u.log)
        /\ DOMAIN v.log = 1..Len(v.log)
        /\ Len(s.log) \in Nat /\ Len(u.log) \in Nat /\ Len(v.log) \in Nat
    BY SaneLog DEF Tame
  <2> QED
    BY <2>1 DEF Tame, Grown, SameReign
<1>3. ASSUME NEW k \in Server, NEW m \in v.out[k]
      PROVE  m \in s.out[k] \/ Helps(i, k, v, m)
  BY HelpsGrown DEF Tame
<1> QED
  BY <1>1, <1>2, <1>3 DEF Tame

-----------------------------------------------------------------------------
(* Helpers that neither lead nor follow *)

\* s and u differ in what a message or an answer may have changed.
LEMMA PostTame ==
  ASSUME NEW i, NEW s, Sane(s), NEW j, NEW m, Helps(i, j, s, m)
  PROVE  /\ Tame(i, s, Post(s, j, m)) /\ SameBacklog(s, Post(s, j, m))
         /\ Post(s, j, m).commit = s.commit
<1> DEFINE u == Post(s, j, m)
<1>1. /\ Sane(u) /\ SameReign(s, u) /\ u.log = s.log /\ SameBacklog(s, u)
      /\ u.responses = s.responses /\ u.commit = s.commit
      /\ \A k \in Server : \A n \in u.out[k] : n \in s.out[k] \/ (k = j /\ n = m)
  BY DEF Sane, Post, Shape, SameReign, SameBacklog
<1> HIDE DEF u
<1>2. Grown(s, u) /\ (Owed(s) => Owed(u))
  BY <1>1 DEF Grown, Owed, SameReign
<1>3. Helps(i, j, u, m)
  BY <1>1, <1>2, HelpsGrown
<1>4. Tame(i, s, u)
  BY <1>1, <1>2, <1>3 DEF Tame
<1> QED
  BY <1>1, <1>4 DEF u

LEMMA CommitTame ==
  ASSUME NEW i, NEW s, Sane(s), NEW upTo \in Nat
  PROVE  /\ Tame(i, s, Commit(s, upTo)) /\ SameBacklog(s, Commit(s, upTo))
         /\ Commit(s, upTo).log = s.log /\ Commit(s, upTo).responses = s.responses
         /\ Commit(s, upTo).commit = upTo
<1> DEFINE u == Commit(s, upTo)
<1>1. /\ Sane(u) /\ SameReign(s, u) /\ u.log = s.log /\ SameBacklog(s, u)
      /\ u.responses = s.responses /\ u.out = s.out /\ u.commit = upTo
  BY DEF Sane, Commit, Shape, SameReign, SameBacklog
<1> HIDE DEF u
<1>2. Tame(i, s, u)
  BY <1>1 DEF Tame, Grown, Owed, SameReign
<1> QED
  BY <1>1, <1>2 DEF u

LEMMA RespondTame ==
  ASSUME NEW i, NEW s, Sane(s), NEW to, NEW cmd, NEW ok, NEW value
  PROVE  LET u == Respond(s, to, cmd, ok, value)
         IN Tame(i, s, u) /\ SameBacklog(s, u) /\ u.commit = s.commit
<1> DEFINE u == [s EXCEPT !.answered = @ \cup {[cmd |-> cmd, ok |-> ok, value |-> value]}]
<1>1. CASE to = Nobody
  <2>1. /\ Sane(u) /\ SameReign(s, u) /\ u.log = s.log /\ SameBacklog(s, u)
        /\ u.responses = s.responses /\ u.out = s.out /\ u.commit = s.commit
    BY DEF Sane, Shape, SameReign, SameBacklog
  <2>2. Respond(s, to, cmd, ok, value) = u
    BY <1>1 DEF Respond
  <2> HIDE DEF u
  <2>3. Tame(i, s, u)
    BY <2>1 DEF Tame, Grown, Owed, SameReign
  <2> QED
    BY <2>1, <2>2, <2>3
<1>2. CASE to # Nobody
  <2>1. Helps(i, to, s, RedirectResponse(cmd, ok, value))
    BY DEF Helps, RedirectResponse
  <2> QED
    BY <1>2, <2>1, PostTame DEF Respond
<1> QED
  BY <1>1, <1>2

\* The tail of what is owed is owed in order too.
LEMMA DrainTame ==
  ASSUME NEW i, NEW s, Sane(s), NEW ok, NEW n \in Nat, n <= Len(s.responses)
  PROVE  LET u == DrainPendingClientResponses(s, ok, n)
         IN /\ Tame(i, s, u) /\ SameBacklog(s, u)
            /\ u.log = s.log /\ u.commit = s.commit
            /\ u.responses = SubSeq(s.responses, n + 1, Len(s.responses))
<1> DEFINE u == DrainPendingClientResponses(s, ok, n)
           rest == SubSeq(s.responses, n + 1, Len(s.responses))
<1>1. s.responses \in Seq(Debts) /\ Len(s.responses) \in Nat
  BY DEF Sane
<1>2. /\ rest \in Seq(Debts) /\ Len(rest) = Len(s.responses) - n
      /\ \A k \in 1..Len(rest) : rest[k] = s.responses[n + k]
  BY <1>1
<1>3. DOMAIN rest = 1..Len(rest) /\ DOMAIN s.responses = 1..Len(s.responses)
  BY <1>1, <1>2, LenProperties
<1> HIDE DEF rest
<1>4. /\ Sane(u) /\ SameReign(s, u) /\ u.log = s.log /\ SameBacklog(s, u)
      /\ u.responses = rest /\ u.commit = s.commit
  BY <1>2 DEF Sane, DrainPendingClientResponses, Shape, SameReign, SameBacklog, rest
<1>5. ASSUME NEW k \in Server, NEW m \in u.out[k]
      PROVE  m \in s.out[k] \/ m.type = "client_command_redirected_response"
  BY DEF Sane, DrainPendingClientResponses, Shape, RedirectResponse
<1> HIDE DEF u
<1>6. Owed(s) => Owed(u)
  <2> SUFFICES ASSUME Owed(s), NEW k \in DOMAIN rest
               PROVE  LET r == rest[k]
                      IN /\ s.role = "leader"
                         /\ r.index \in DOMAIN s.log
                         /\ s.log[r.index] = [term |-> s.term, cmd |-> r.cmd]
                         /\ k > 1 => rest[k - 1].index < r.index
    BY <1>4 DEF Owed, SameReign
  <2> DEFINE size == Len(s.responses)
  <2>1. k \in 1..(size - n) /\ rest[k] = s.responses[n + k]
    BY <1>2, <1>3
  <2>2. size \in Nat /\ n + k \in 1..size
    BY <1>1, <2>1
  <2>3. k > 1 => /\ k - 1 \in 1..(size - n) /\ n + (k - 1) = (n + k) - 1
                 /\ n + k > 1
    <3>1. \A a \in Nat : \A b \in 1..(a - n) :
            b > 1 => b - 1 \in 1..(a - n) /\ n + (b - 1) = (n + b) - 1 /\ n + b > 1
      OBVIOUS
    <3> QED
      BY <2>1, <2>2, <3>1
  <2>4. k > 1 => rest[k - 1] = s.responses[(n + k) - 1]
    BY <1>2, <2>3
  <2>5. n + k \in DOMAIN s.responses
    BY <1>3, <2>2
  <2> QED
    BY <2>1, <2>3, <2>4, <2>5 DEF Owed
<1>7. Tame(i, s, u)
  BY <1>4, <1>5, <1>6 DEF Tame, Grown, Helps
<1> QED
  BY <1>4, <1>7 DEF u, rest

LEMMA ResetTame ==
  ASSUME NEW s, Sane(s)
  PROVE  LET u == ResetElectionTimer(s)
         IN /\ Sane(u) /\ SameBacklog(s, u) /\ u.term = s.term /\ u.log = s.log
            /\ u.electionArmed /\ u.heartbeatArmed = s.heartbeatArmed
            /\ u.responses = s.responses /\ u.out = s.out /\ u.commit = s.commit
            /\ u.match = s.match
  BY DEF Sane, ResetElectionTimer, Shape, SameBacklog

-----------------------------------------------------------------------------
(* Helpers of the leader *)

LEMMA AppendRequestVouched ==
  ASSUME NEW i, NEW s, Sane(s), s.role = "leader", NEW j \in Server, j # i
  PROVE  Vouched(i, j, s, AppendRequestFor(s, j)) /\ NextToSend(s, j) \in Nat \ {0}
<1> DEFINE N == Len(s.log)
           next == NextToSend(s, j)
           prev == next - 1
           entries == SubSeq(s.log, prev + 1, N)
           prevTerm == IF prev = 0 THEN 0
                       ELSE IF prev <= N THEN s.log[prev].term ELSE Garbage
           m == AppendRequest(s.term, prev, prevTerm, entries, s.commit)
<1>1. /\ s.log \in Seq(Entries) /\ N \in Nat /\ DOMAIN s.log = 1..N
      /\ \A p \in DOMAIN s.log : s.log[p].term \in Nat
  BY SaneLog DEF Entries
<1>2. next \in Nat \ {0} /\ (Hybrid => next <= N + 1)
  <2>1. s.next[j] \in Nat \ {0}
    BY DEF Sane
  <2> QED
    BY <1>1, <2>1, VariantAssumption DEF NextToSend
<1> HIDE DEF next
<1>3. prev \in Nat
  BY <1>2
<1>4. /\ entries \in Seq(Entries) /\ Len(entries) = IF prev <= N THEN N - prev ELSE 0
      /\ \A k \in 1..Len(entries) : entries[k] = s.log[prev + k]
      /\ DOMAIN entries = 1..Len(entries)
  <2> HIDE DEF prev
  <2> QED
    BY <1>1, <1>3, TailAfter
<1>5. prevTerm \in Nat \cup {Garbage}
  <2> HIDE DEF prev
  <2>1. prev # 0 /\ prev <= N => prev \in DOMAIN s.log
    BY <1>1, <1>3
  <2> QED
    BY <1>1, <1>3, <2>1
<1>6. m \in AppendRequests
  BY <1>3, <1>4, <1>5 DEF Sane, AppendRequest, AppendRequests
<1>7. /\ m.prevIndex = prev /\ m.prevTerm = prevTerm /\ m.entries = entries
      /\ m.term = s.term
  BY DEF AppendRequest
<1>8. Excerpt(m, s.log)
  <2>1. CASE prev <= N
    <3>1. prevTerm = IF prev = 0 THEN 0 ELSE s.log[prev].term
      BY <2>1
    <3>2. prev + Len(entries) <= N
      BY <1>1, <1>3, <1>4, <2>1
    <3> HIDE DEF m, prev, prevTerm, entries
    <3> QED
      BY <1>4, <1>7, <3>1, <3>2 DEF Excerpt
  <2>2. CASE prev > N
    <3>1. prevTerm = Garbage /\ ~Hybrid
      BY <1>1, <1>2, <1>3, <2>2
    <3>2. entries = <<>>
      BY <1>1, <1>3, <2>2
    <3> HIDE DEF m, prevTerm, entries
    <3> QED
      BY <1>7, <3>1, <3>2 DEF Excerpt
  <2> QED
    BY <1>1, <1>3, <2>1, <2>2
<1>9. Whole(m, s)
  <2>1. prev + Len(entries) >= N
    BY <1>1, <1>3, <1>4
  <2>2. \A p \in 1..N : ~(p > prev + Len(entries))
    <3>1. prev + Len(entries) \in Nat
      BY <1>3, <1>4
    <3> HIDE DEF prev, entries
    <3> QED
      BY <1>1, <2>1, <3>1
  <2> HIDE DEF m, prev, entries
  <2> QED
    BY <1>1, <1>7, <2>2 DEF Whole
<1>10. AppendRequestFor(s, j) = m
  BY DEF AppendRequestFor, TermAt, next
<1> HIDE DEF m, prev
<1> QED
  BY <1>2, <1>6, <1>7, <1>8, <1>9, <1>10 DEF Vouched, next

LEMMA SendTame ==
  ASSUME NEW i, NEW s, Sane(s), s.role = "leader",
         NEW peers, peers \subseteq Server \ {i}
  PROVE  LET u == SendAppendEntries(s, peers)
         IN /\ Tame(i, s, u) /\ SameBacklog(s, u)
            /\ u.log = s.log /\ u.responses = s.responses /\ u.commit = s.commit
<1> DEFINE u == SendAppendEntries(s, peers)
<1>1. \A j \in peers : /\ Vouched(i, j, s, AppendRequestFor(s, j))
                       /\ NextToSend(s, j) \in Nat \ {0}
  BY AppendRequestVouched
<1>2. /\ Sane(u) /\ SameReign(s, u) /\ u.log = s.log /\ SameBacklog(s, u)
      /\ u.responses = s.responses /\ u.commit = s.commit
  BY <1>1 DEF Sane, SendAppendEntries, Shape, SameReign, SameBacklog
<1>3. ASSUME NEW k \in Server, NEW m \in u.out[k]
      PROVE  m \in s.out[k] \/ Helps(i, k, s, m)
  <2>1. u.out[k] = IF k \in peers THEN s.out[k] \cup {AppendRequestFor(s, k)} ELSE s.out[k]
    BY DEF SendAppendEntries, Sane, Shape
  <2> HIDE DEF u
  <2> QED
    BY <1>1, <1>3, <2>1 DEF Helps
<1> HIDE DEF u
<1>4. Grown(s, u) /\ (Owed(s) => Owed(u))
  BY <1>2 DEF Grown, Owed, SameReign
<1>5. Tame(i, s, u)
  BY <1>2, <1>3, <1>4, HelpsGrown DEF Tame
<1> QED
  BY <1>2, <1>5 DEF u

\* Where i knows j's log to reach.
Reach(s, i, j) == IF j = i THEN Len(s.log) ELSE s.match[j]

\* MajorityMatch is well defined: everyone reaches the least of the positions.
LEMMA MajorityMatchBacked ==
  ASSUME NEW i \in Server, NEW s, Sane(s)
  PROVE  LET M == MajorityMatch(s, i)
         IN /\ M \in Nat
            /\ Cardinality({j \in Server : Reach(s, i, j) >= M})
                 > Cardinality(Server) \div 2
<1> DEFINE reach(j) == IF j = i THEN GetLastLogIndex(s) ELSE s.match[j]
           N == Cardinality(Server)
           backed(p) == Cardinality({j \in Server : reach(j) >= p}) > N \div 2
           positions == {reach(j) : j \in Server}
           good == {p \in positions : backed(p)}
           M == MajorityMatch(s, i)
<1>1. \A j : reach(j) = Reach(s, i, j)
  BY DEF GetLastLogIndex, Reach
<1>2. \A j \in Server : reach(j) \in Nat
  BY SaneLog DEF Sane, GetLastLogIndex
<1>3. N \in Nat /\ N >= 2
  BY ServerAssumption, FS_CardinalityType
<1>4. M = CHOOSE p \in positions : backed(p) /\ \A q \in positions : backed(q) => q <= p
  BY DEF MajorityMatch
<1> HIDE DEF reach, M
<1>5. positions \subseteq Nat /\ positions # {} /\ IsFiniteSet(positions)
  <2> DEFINE f == [j \in Server |-> reach(j)]
  <2>1. f \in Surjection(Server, positions)
    BY DEF Surjection
  <2>2. IsFiniteSet(positions)
    <3> HIDE DEF f, positions
    <3> QED
      BY <2>1, ServerAssumption, FS_Surjection
  <2> QED
    BY <1>2, <2>2
<1>6. good # {}
  <2>1. PICK p \in positions : \A q \in positions : p <= q
    BY <1>5, LeastOf
  <2>2. \A j \in Server : reach(j) >= p
    BY <1>2, <2>1
  <2>3. {j \in Server : reach(j) >= p} = Server
    BY <2>2
  <2>4. backed(p)
    BY <1>3, <2>3
  <2> QED
    BY <2>4
<1>7. PICK g \in good : \A h \in good : h <= g
  <2>1. good \subseteq Nat /\ IsFiniteSet(good)
    BY <1>5, FS_Subset
  <2> HIDE DEF good
  <2> QED
    BY <1>6, <2>1, GreatestOfFinite
<1>8. M \in positions /\ backed(M)
  <2>1. \E p \in positions : backed(p) /\ \A q \in positions : backed(q) => q <= p
    BY <1>7
  <2> HIDE DEF backed, positions, good
  <2> QED
    BY <1>4, <2>1
<1>9. M \in Nat
  BY <1>5, <1>8
<1> QED
  BY <1>1, <1>8, <1>9 DEF M

\* CommittedResponses counts the responses in front that are for committed
\* entries: the drain takes these and no more.
LEMMA CommittedPrefix ==
  ASSUME NEW s, Sane(s)
  PROVE  LET n == CommittedResponses(s)
         IN /\ n \in 0..Len(s.responses)
            /\ \A k \in 1..n : s.responses[k].index <= s.commit
            /\ n < Len(s.responses) => s.responses[n + 1].index > s.commit
<1> DEFINE q == s.responses
           N == Len(q)
           due(n) == \A k \in 1..n : q[k].index <= s.commit
           taken == {n \in DOMAIN q : due(n)}
           late == {k \in 1..N : ~(q[k].index <= s.commit)}
<1>1. /\ N \in Nat /\ DOMAIN q = 1..N /\ s.commit \in Nat
      /\ \A k \in 1..N : q[k].index \in Nat
  <2>1. q \in Seq(Debts) /\ s.commit \in Nat
    BY DEF Sane
  <2> HIDE DEF q
  <2>2. N \in Nat /\ DOMAIN q = 1..N /\ \A k \in 1..N : q[k] \in Debts
    BY <2>1, LenProperties
  <2> QED
    BY <2>1, <2>2 DEF Debts
<1> HIDE DEF q, N
<1>2. ASSUME NEW m \in 0..N, taken = 1..m
      PROVE  CommittedResponses(s) = m
  <2>1. CommittedResponses(s) = Cardinality(taken)
    BY DEF CommittedResponses, q
  <2>2. Cardinality(1..m) = m
    BY <1>1, FS_Interval
  <2> QED
    BY <1>2, <2>1, <2>2
<1>3. CASE late = {}
  <2>1. \A k \in 1..N : q[k].index <= s.commit
    BY <1>3
  <2>2. taken = 1..N
    BY <1>1, <2>1
  <2>3. CommittedResponses(s) = N
    BY <1>1, <1>2, <2>2
  <2> QED
    BY <1>1, <2>1, <2>3 DEF q, N
<1>4. CASE late # {}
  <2>1. late \subseteq Nat
    BY <1>1
  <2>2. PICK f \in late : \A k \in late : f <= k
    <3> HIDE DEF late
    <3> QED
      BY <1>4, <2>1, LeastOf
  <2> DEFINE m == f - 1
  <2>3. m \in 0..N /\ m + 1 = f /\ m < N /\ f \in 1..N /\ ~(q[f].index <= s.commit)
    BY <1>1, <2>2
  <2>4. \A k \in 1..m : q[k].index <= s.commit
    <3>1. \A k \in 1..m : k \in 1..N /\ ~(f <= k)
      BY <1>1, <2>3
    <3> HIDE DEF m
    <3> QED
      BY <2>2, <3>1
  <2> HIDE DEF m
  <2>5. taken = 1..m
    <3>1. ASSUME NEW n \in 1..N, due(n)
          PROVE  n \in 1..m
      <4>1. ~(f \in 1..n)
        BY <2>3, <3>1
      <4> QED
        BY <1>1, <2>3, <4>1
    <3>2. ASSUME NEW n \in 1..m
          PROVE  n \in 1..N /\ \A k \in 1..n : k \in 1..m
      BY <1>1, <2>3
    <3> QED
      BY <1>1, <2>4, <3>1, <3>2
  <2>6. CommittedResponses(s) = m
    BY <1>2, <2>3, <2>5
  <2>7. q[m + 1].index > s.commit
    BY <1>1, <2>3
  <2> QED
    BY <2>3, <2>4, <2>6, <2>7 DEF q, N
<1> QED
  BY <1>3, <1>4

\* No response is left that the commit should have sent.
Drained(s) == \A k \in DOMAIN s.responses : s.responses[k].index > s.commit

Prompt(s, u) == Owed(s) /\ u.commit # s.commit => Drained(u)

LEMMA UpdateCommitIndexTame ==
  ASSUME NEW i \in Server, NEW s, Sane(s)
  PROVE  LET u == UpdateCommitIndex(s, i)
         IN Tame(i, s, u) /\ SameBacklog(s, u) /\ u.log = s.log /\ Prompt(s, u)
<1> DEFINE candidate == MajorityMatch(s, i)
           committed == Commit(s, candidate)
           n == CommittedResponses(committed)
           drained == DrainPendingClientResponses(committed, TRUE, n)
           u == UpdateCommitIndex(s, i)
<1>1. candidate \in Nat
  BY MajorityMatchBacked
<1>2. u \in {s, drained}
  BY DEF UpdateCommitIndex
<1> HIDE DEF candidate, u
<1>3. /\ Tame(i, s, committed) /\ SameBacklog(s, committed) /\ committed.log = s.log
      /\ committed.responses = s.responses /\ Sane(committed)
  BY <1>1, CommitTame DEF Tame
<1> HIDE DEF committed
<1>4. /\ n \in 0..Len(committed.responses)
      /\ \A k \in 1..n : committed.responses[k].index <= committed.commit
      /\ n < Len(committed.responses) => committed.responses[n + 1].index > committed.commit
  BY <1>3, CommittedPrefix
<1> HIDE DEF n
<1>5. n \in Nat /\ n <= Len(committed.responses)
  <2>1. committed.responses \in Seq(Debts)
    BY <1>3 DEF Sane
  <2> QED
    BY <1>4, <2>1
<1>6. /\ Tame(i, committed, drained) /\ SameBacklog(committed, drained)
      /\ drained.log = committed.log /\ drained.commit = committed.commit
      /\ drained.responses
           = SubSeq(committed.responses, n + 1, Len(committed.responses))
  BY <1>3, <1>5, DrainTame
<1> HIDE DEF drained
<1>7. Tame(i, s, drained) /\ SameBacklog(s, drained) /\ drained.log = s.log
  BY <1>3, <1>6, TameTrans DEF SameBacklog
<1>8. ASSUME Owed(s)
      PROVE  Drained(drained)
  <2> DEFINE q == committed.responses
             r == drained.responses
             N == Len(q)
             late == {k \in 1..N : k > n /\ ~(q[k].index > committed.commit)}
  <2>1. q \in Seq(Debts) /\ committed.commit \in Nat /\ Owed(committed)
    BY <1>3, <1>8 DEF Sane, Tame
  <2>2. /\ N \in Nat /\ DOMAIN q = 1..N
        /\ \A k \in 1..N : q[k].index \in Nat
        /\ \A k \in 1..N : k > 1 => q[k - 1].index < q[k].index
    <3> HIDE DEF q
    <3>1. N \in Nat /\ DOMAIN q = 1..N /\ \A k \in 1..N : q[k] \in Debts
      BY <2>1, LenProperties
    <3> QED
      BY <2>1, <3>1 DEF Owed, Debts, q
  <2>3. late = {}
    <3> SUFFICES ASSUME late # {} PROVE FALSE
      OBVIOUS
    <3>1. PICK f \in late : \A k \in late : f <= k
      <4>1. late \subseteq Nat
        BY <2>2
      <4> HIDE DEF late
      <4> QED
        BY <4>1, LeastOf
    <3>2. f \in 1..N /\ f > n /\ ~(q[f].index > committed.commit)
      BY <3>1
    <3>3. f # n + 1
      BY <1>4, <1>5, <2>2, <3>2
    <3>4. f - 1 \in 1..N /\ f - 1 > n /\ f > 1 /\ ~(f <= f - 1)
      BY <1>5, <2>2, <3>2, <3>3
    <3>5. ~(q[f - 1].index > committed.commit)
      <4>1. q[f - 1].index < q[f].index /\ q[f - 1].index \in Nat /\ q[f].index \in Nat
        BY <2>2, <3>2, <3>4
      <4>2. \A a, b, c \in Nat : a < b /\ ~(b > c) => ~(a > c)
        OBVIOUS
      <4> HIDE DEF q
      <4> QED
        BY <2>1, <3>2, <4>1, <4>2
    <3>6. f - 1 \in late
      BY <3>4, <3>5
    <3> HIDE DEF late
    <3> QED
      BY <3>1, <3>4, <3>6
  <2>4. /\ Len(r) = N - n /\ DOMAIN r = 1..(N - n)
        /\ \A k \in 1..(N - n) : n + k \in 1..N /\ r[k] = q[n + k]
    <3>1. LET rest == SubSeq(q, n + 1, Len(q))
          IN /\ Len(rest) = IF n <= Len(q) THEN Len(q) - n ELSE 0
             /\ DOMAIN rest = 1..Len(rest)
             /\ \A k \in 1..Len(rest) : n + k \in 1..Len(q) /\ rest[k] = q[n + k]
      <4> HIDE DEF q
      <4> QED
        BY <1>5, <2>1, TailAfter
    <3> QED
      BY <1>5, <1>6, <2>2, <3>1
  <2>5. ASSUME NEW k \in 1..(N - n)
        PROVE  r[k].index > committed.commit
    <3>1. n + k \in 1..N /\ n + k > n /\ r[k] = q[n + k]
      BY <1>5, <2>2, <2>4
    <3> HIDE DEF q, r, N
    <3> QED
      BY <2>3, <3>1
  <2> QED
    BY <1>6, <2>4, <2>5 DEF Drained
<1> QED
  BY <1>2, <1>7, <1>8, TameSelf DEF SameBacklog, Prompt, u

LEMMA ExecuteTame ==
  ASSUME NEW i \in Server, NEW s, Sane(s), s.role = "leader",
         NEW cmd \in Commands, NEW to \in Server \cup {Nobody}
  PROVE  LET u == ExecuteClientCommand(s, i, cmd, to)
         IN Tame(i, s, u) /\ SameBacklog(s, u) /\ Prompt(s, u)
<1>1. CASE cmd \in Reads
  <2> DEFINE u == Respond(s, to, cmd, TRUE, s.kv[Key[cmd]])
  <2>1. ExecuteClientCommand(s, i, cmd, to) = u
    BY <1>1 DEF ExecuteClientCommand
  <2>2. Tame(i, s, u) /\ SameBacklog(s, u) /\ u.commit = s.commit
    <3>1. \A ok \in BOOLEAN : \A value :
            LET v == Respond(s, to, cmd, ok, value)
            IN Tame(i, s, v) /\ SameBacklog(s, v) /\ v.commit = s.commit
      BY RespondTame
    <3> QED
      BY <3>1, Zenon
  <2> QED
    BY <2>1, <2>2 DEF Prompt
<1>2. CASE cmd \notin Reads
  <2> DEFINE entry == Entry(s, cmd)
             debt == [index |-> Len(s.log) + 1, redirectTo |-> to, cmd |-> cmd]
             appended == [s EXCEPT !.log = Append(@, entry),
                                   !.responses = Append(@, debt)]
             sent == SendAppendEntries(appended, Peers(i))
             u == UpdateCommitIndex(sent, i)
  <2>1. ExecuteClientCommand(s, i, cmd, to) = u
    BY <1>2 DEF ExecuteClientCommand
  <2>2. /\ s.log \in Seq(Entries) /\ Len(s.log) \in Nat /\ DOMAIN s.log = 1..Len(s.log)
        /\ s.responses \in Seq(Debts) /\ Len(s.responses) \in Nat
        /\ DOMAIN s.responses = 1..Len(s.responses) /\ s.term \in Nat
    BY SaneLog, LenProperties DEF Sane
  <2>3. entry \in Entries /\ debt \in Debts /\ entry = [term |-> s.term, cmd |-> cmd]
        /\ debt.index = Len(s.log) + 1 /\ debt.cmd = cmd
    BY <1>2, <2>2 DEF Entry, Entries, Debts, Commands
  <2> HIDE DEF entry, debt
  <2>4. /\ Append(s.log, entry) \in Seq(Entries)
        /\ Len(Append(s.log, entry)) = Len(s.log) + 1
        /\ \A p \in 1..Len(s.log) : Append(s.log, entry)[p] = s.log[p]
        /\ Append(s.log, entry)[Len(s.log) + 1] = entry
        /\ DOMAIN Append(s.log, entry) = 1..(Len(s.log) + 1)
    BY <2>2, <2>3, AppendProperties, LenProperties
  <2>5. /\ Append(s.responses, debt) \in Seq(Debts)
        /\ \A k \in 1..Len(s.responses) : Append(s.responses, debt)[k] = s.responses[k]
        /\ Append(s.responses, debt)[Len(s.responses) + 1] = debt
        /\ DOMAIN Append(s.responses, debt) = 1..(Len(s.responses) + 1)
    BY <2>2, <2>3, AppendProperties, LenProperties
  <2>6. /\ Sane(appended) /\ SameReign(s, appended) /\ SameBacklog(s, appended)
        /\ appended.out = s.out /\ appended.commit = s.commit
        /\ appended.log = Append(s.log, entry)
        /\ appended.responses = Append(s.responses, debt)
    BY <2>4, <2>5 DEF Sane, Shape, SameReign, SameBacklog
  <2> HIDE DEF appended
  <2>7. Owed(s) => Owed(appended)
    <3> SUFFICES ASSUME Owed(s), NEW k \in 1..(Len(s.responses) + 1)
                 PROVE  LET r == appended.responses[k]
                        IN /\ s.role = "leader"
                           /\ r.index \in DOMAIN appended.log
                           /\ appended.log[r.index] = [term |-> s.term, cmd |-> r.cmd]
                           /\ k > 1 => appended.responses[k - 1].index < r.index
      BY <2>5, <2>6 DEF Owed, SameReign
    <3>1. CASE k = Len(s.responses) + 1
      <4>1. /\ appended.responses[k] = debt
            /\ appended.log[debt.index] = entry /\ debt.index \in DOMAIN appended.log
        BY <2>2, <2>3, <2>4, <2>5, <2>6, <3>1
      <4>2. k > 1 => k - 1 \in DOMAIN s.responses
        BY <2>2, <3>1
      <4>3. k > 1 => /\ appended.responses[k - 1] = s.responses[k - 1]
                     /\ s.responses[k - 1].index \in DOMAIN s.log
        BY <2>2, <2>5, <2>6, <4>2 DEF Owed
      <4>4. k > 1 => appended.responses[k - 1].index < debt.index
        <5>1. \A p \in 1..Len(s.log) : p < Len(s.log) + 1
          BY <2>2
        <5> QED
          BY <2>2, <2>3, <4>3, <5>1
      <4> QED
        BY <2>3, <4>1, <4>4
    <3>2. CASE k \in 1..Len(s.responses)
      <4>1. /\ appended.responses[k] = s.responses[k]
            /\ k > 1 => appended.responses[k - 1] = s.responses[k - 1]
        BY <2>2, <2>5, <2>6, <3>2
      <4>2. LET r == s.responses[k]
            IN /\ r.index \in DOMAIN s.log
               /\ s.log[r.index] = [term |-> s.term, cmd |-> r.cmd]
               /\ k > 1 => s.responses[k - 1].index < r.index
        BY <2>2, <3>2 DEF Owed
      <4>3. s.responses[k].index \in DOMAIN appended.log
            /\ appended.log[s.responses[k].index] = s.log[s.responses[k].index]
        BY <2>2, <2>4, <2>6, <4>2
      <4> QED
        BY <4>1, <4>2, <4>3
    <3> QED
      BY <2>2, <3>1, <3>2
  <2>8. Grown(s, appended)
    <3>1. /\ Len(s.log) <= Len(appended.log)
          /\ \A p \in DOMAIN s.log : appended.log[p] = s.log[p]
      BY <2>2, <2>4, <2>6
    <3>2. ASSUME NEW p \in DOMAIN appended.log, p > Len(s.log)
          PROVE  appended.log[p].term = s.term
      <4>1. p = Len(s.log) + 1
        BY <2>2, <2>4, <2>6, <3>2
      <4> QED
        BY <2>3, <2>4, <2>6, <4>1
    <3> QED
      BY <3>1, <3>2 DEF Grown
  <2>9. Tame(i, s, appended)
    BY <2>6, <2>7, <2>8 DEF Tame
  <2>10. /\ Tame(i, appended, sent) /\ SameBacklog(appended, sent)
         /\ sent.commit = appended.commit /\ Sane(sent)
    <3>1. appended.role = "leader" /\ Peers(i) \subseteq Server \ {i}
      BY <2>6 DEF SameReign, Peers
    <3>2. /\ Tame(i, appended, sent) /\ SameBacklog(appended, sent)
          /\ sent.commit = appended.commit
      BY <2>6, <3>1, SendTame
    <3> QED
      BY <3>2 DEF Tame
  <2> HIDE DEF sent
  <2>11. Tame(i, sent, u) /\ SameBacklog(sent, u) /\ Prompt(sent, u)
    BY <2>10, UpdateCommitIndexTame
  <2> HIDE DEF u
  <2>12. Tame(i, s, sent) /\ Tame(i, s, u)
    BY <2>6, <2>9, <2>10, <2>11, TameTrans
  <2>13. SameBacklog(s, u)
    BY <2>6, <2>10, <2>11 DEF SameBacklog
  <2>14. Prompt(s, u)
    BY <2>6, <2>10, <2>11, <2>12 DEF Prompt, Tame
  <2> QED
    BY <2>1, <2>12, <2>13, <2>14
<1> QED
  BY <1>1, <1>2

\* u is s with writes appended to its log, each with a response owed for it.
Logged(s, u, writes) ==
  \E added, debts :
    /\ added \in Seq(Entries) /\ debts \in Seq(Debts)
    /\ Len(added) = Len(writes) /\ Len(debts) = Len(writes)
    /\ \A k \in 1..Len(writes) :
         /\ added[k].term = s.term /\ added[k].cmd = writes[k]
         /\ debts[k].index = Len(s.log) + k /\ debts[k].cmd = writes[k]
    /\ u.log = s.log \o added
    /\ u.responses = s.responses \o debts

LEMMA LoggedGrown ==
  ASSUME NEW s, Sane(s), s.role = "leader", NEW u, Sane(u), SameReign(s, u),
         NEW writes, Len(writes) \in Nat, Logged(s, u, writes)
  PROVE  /\ Grown(s, u)
         /\ Owed(s) => Owed(u)
         /\ Len(u.log) = Len(s.log) + Len(writes)
         /\ \A p \in DOMAIN s.log : u.log[p] = s.log[p]
<1> DEFINE base == Len(s.log)
           R == Len(s.responses)
           W == Len(writes)
<1>1. PICK added, debts :
        /\ added \in Seq(Entries) /\ debts \in Seq(Debts)
        /\ Len(added) = Len(writes) /\ Len(debts) = Len(writes)
        /\ \A k \in 1..Len(writes) :
             /\ added[k].term = s.term /\ added[k].cmd = writes[k]
             /\ debts[k].index = Len(s.log) + k /\ debts[k].cmd = writes[k]
        /\ u.log = s.log \o added
        /\ u.responses = s.responses \o debts
  BY Zenon DEF Logged
<1>2. /\ s.log \in Seq(Entries) /\ base \in Nat /\ DOMAIN s.log = 1..base
      /\ s.responses \in Seq(Debts) /\ R \in Nat /\ DOMAIN s.responses = 1..R
  BY SaneLog, LenProperties DEF Sane
<1>3. Extension(u.log, s.log, added)
  BY <1>1, <1>2, Joined
<1>4. Extension(u.responses, s.responses, debts)
  BY <1>1, <1>2, Joined
<1>5. W \in Nat
  OBVIOUS
<1> HIDE DEF base, R, W
<1>6. /\ Len(u.log) = base + W /\ DOMAIN u.log = 1..(base + W)
      /\ \A p \in 1..base : u.log[p] = s.log[p]
      /\ \A k \in 1..W : u.log[base + k] = added[k]
  BY <1>1, <1>3, Zenon DEF Extension, base, W
<1>7. /\ DOMAIN u.responses = 1..(R + W)
      /\ \A n \in 1..R : u.responses[n] = s.responses[n]
      /\ \A k \in 1..W : u.responses[R + k] = debts[k]
  BY <1>1, <1>4, Zenon DEF Extension, R, W
<1>8. /\ \A k \in 1..W : added[k].term = s.term /\ added[k].cmd = writes[k]
                         /\ debts[k].index = base + k /\ debts[k].cmd = writes[k]
      /\ \A k \in 1..W : added[k] \in Entries
  <2>1. DOMAIN added = 1..W /\ \A k \in 1..W : added[k] \in Entries
    BY <1>1, LenProperties DEF W
  <2> QED
    BY <1>1, <2>1, Zenon DEF base, W
<1>9. ASSUME NEW p \in 1..(base + W), p > base
      PROVE  u.log[p].term = s.term
  <2>1. p - base \in 1..W /\ p = base + (p - base)
    BY <1>2, <1>5, <1>9
  <2> QED
    BY <1>6, <1>8, <2>1
<1>10. Grown(s, u)
  <2>1. base <= base + W
    BY <1>2, <1>5
  <2> QED
    BY <1>2, <1>6, <1>9, <2>1 DEF Grown, base
<1>11. ASSUME Owed(s), NEW n \in 1..(R + W)
       PROVE  LET r == u.responses[n]
              IN /\ r.index \in 1..(base + W)
                 /\ u.log[r.index] = [term |-> s.term, cmd |-> r.cmd]
                 /\ n > 1 => u.responses[n - 1].index < r.index
  <2>1. ASSUME NEW k \in 1..R
        PROVE  /\ s.responses[k].index \in 1..base
               /\ s.log[s.responses[k].index] = [term |-> s.term, cmd |-> s.responses[k].cmd]
               /\ k > 1 => s.responses[k - 1].index < s.responses[k].index
    BY <1>2, <1>11 DEF Owed
  <2>2. \A p \in 1..base : p \in 1..(base + W)
    BY <1>2, <1>5
  <2>3. CASE n <= R
    <3>1. n \in 1..R /\ (n > 1 => n - 1 \in 1..R)
      BY <1>2, <1>5, <2>3
    <3>2. u.responses[n] = s.responses[n] /\ (n > 1 => u.responses[n - 1] = s.responses[n - 1])
      BY <1>7, <3>1
    <3>3. u.log[s.responses[n].index] = s.log[s.responses[n].index]
      BY <1>6, <2>1, <3>1
    <3> QED
      BY <2>1, <2>2, <3>1, <3>2, <3>3
  <2>4. CASE n > R
    <3> DEFINE k == n - R
    <3>1. k \in 1..W /\ n = R + k
      BY <1>2, <1>5, <2>4
    <3> HIDE DEF k
    <3>2. u.responses[n].index = base + k /\ u.responses[n].cmd = writes[k]
      BY <1>7, <1>8, <3>1
    <3>3. base + k \in 1..(base + W)
      BY <1>2, <1>5, <3>1
    <3>4. u.log[base + k] = [term |-> s.term, cmd |-> writes[k]]
      <4>1. u.log[base + k] \in Entries /\ u.log[base + k].term = s.term
            /\ u.log[base + k].cmd = writes[k]
        BY <1>6, <1>8, <3>1
      <4> QED
        BY <4>1 DEF Entries
    <3>5. ASSUME n > 1, k = 1
          PROVE  u.responses[n - 1].index < base + k
      <4>1. n - 1 \in 1..R
        BY <1>2, <3>1, <3>5
      <4>2. u.responses[n - 1].index \in 1..base
        BY <1>7, <2>1, <4>1
      <4>3. \A p \in 1..base : p < base + 1
        BY <1>2
      <4> QED
        BY <3>5, <4>2, <4>3
    <3>6. ASSUME k # 1
          PROVE  u.responses[n - 1].index < base + k
      <4>1. k - 1 \in 1..W /\ n - 1 = R + (k - 1) /\ base + (k - 1) < base + k
        BY <1>2, <1>5, <3>1, <3>6
      <4> QED
        BY <1>7, <1>8, <4>1
    <3> QED
      BY <3>2, <3>3, <3>4, <3>5, <3>6
  <2> QED
    BY <1>2, <1>5, <2>3, <2>4
<1>12. Owed(s) => Owed(u)
  <2> SUFFICES ASSUME Owed(s), NEW n \in DOMAIN u.responses
               PROVE  LET r == u.responses[n]
                      IN /\ u.role = "leader"
                         /\ r.index \in DOMAIN u.log
                         /\ u.log[r.index] = [term |-> u.term, cmd |-> r.cmd]
                         /\ n > 1 => u.responses[n - 1].index < r.index
    BY DEF Owed
  <2>1. u.role = "leader" /\ u.term = s.term
    BY DEF SameReign
  <2> QED
    BY <1>6, <1>7, <1>11, <2>1
<1> QED
  BY <1>2, <1>6, <1>10, <1>12 DEF base, W

\* A new leader's requests for its pending writes start at the end of the log
\* it was elected with.
LEMMA ExecutePendingTame ==
  ASSUME NEW i \in Server, NEW s, Sane(s), s.role = "leader",
         \A j \in Server : s.next[j] = Len(s.log) + 1
  PROVE  LET u == ExecutePending(s, i)
         IN /\ Tame(i, s, u) /\ u.commit = s.commit
            /\ u.pending = <<>> /\ u.inflight = s.inflight
<1> DEFINE writes == Filter(s.pending, Writes)
           base == Len(s.log)
           W == Len(writes)
           added == [k \in DOMAIN writes |-> Entry(s, writes[k])]
           grown == s.log \o added
           debts == [k \in DOMAIN writes |->
                       [index |-> base + k, redirectTo |-> Nobody, cmd |-> writes[k]]]
           request(j, k) == [AppendRequestFor(s, j) EXCEPT
                               !.entries = SubSeq(grown, base + 1, base + k)]
           requests(j) == {request(j, k) : k \in DOMAIN writes}
           mail == [j \in Server |-> IF j = i THEN s.out[j]
                                    ELSE s.out[j] \cup requests(j)]
           u == ExecutePending(s, i)
<1>1. /\ s.log \in Seq(Entries) /\ base \in Nat /\ DOMAIN s.log = 1..base
      /\ \A p \in 1..base : s.log[p] \in Entries
      /\ s.term \in Nat
  BY SaneLog DEF Sane
<1>2. /\ writes \in Seq(Writes) /\ W \in Nat /\ DOMAIN writes = 1..W
      /\ \A k \in 1..W : writes[k] \in Writes
  <2>1. s.pending \in Seq(Commands)
    BY DEF Sane
  <2>2. writes \in Seq(Commands \cap Writes)
    BY <2>1, FilterProperties
  <2>3. Commands \cap Writes = Writes
    BY DEF Commands
  <2> HIDE DEF writes
  <2>4. writes \in Seq(Writes)
    BY <2>2, <2>3
  <2> QED
    BY <2>4, LenProperties
<1>3. /\ Shape(u) /\ u.pending = <<>> /\ u.inflight = s.inflight /\ u.commit = s.commit
      /\ SameReign(s, u) /\ u.log = grown /\ u.responses = s.responses \o debts
      /\ u.out = mail /\ u.next = s.next
  BY DEF Sane, ExecutePending, Shape, SameReign
<1> HIDE DEF writes, u, base
<1>4. /\ added \in Seq(Entries) /\ Len(added) = W
      /\ \A k \in 1..W : added[k].term = s.term /\ added[k].cmd = writes[k]
  <2>1. \A k \in 1..W : /\ Entry(s, writes[k]) \in Entries
                        /\ Entry(s, writes[k]).term = s.term
                        /\ Entry(s, writes[k]).cmd = writes[k]
    BY <1>1, <1>2 DEF Entry, Entries
  <2>2. added \in [1..W -> Entries]
    BY <1>2, <2>1
  <2> HIDE DEF W
  <2>3. added \in Seq(Entries) /\ Len(added) = W
    BY <1>2, <2>2, SeqDef, LenProperties
  <2> QED
    BY <1>2, <2>1, <2>3
<1>5. /\ debts \in Seq(Debts) /\ Len(debts) = W
      /\ \A k \in 1..W : debts[k].index = base + k /\ debts[k].cmd = writes[k]
  <2>1. debts \in [1..W -> Debts]
    BY <1>1, <1>2 DEF Debts
  <2> HIDE DEF W
  <2>2. debts \in Seq(Debts) /\ Len(debts) = W
    BY <1>2, <2>1, SeqDef, LenProperties
  <2> QED
    BY <1>2, <2>2
<1> HIDE DEF added, debts
<1>6. Logged(s, u, writes)
  BY <1>3, <1>4, <1>5, Zenon DEF Logged, base
<1>7. Sane(u)
  <2>1. <<>> \in Seq(Commands)
    BY EmptySeq
  <2>2. grown \in Seq(Entries)
    BY <1>1, <1>4, ConcatProperties
  <2>3. s.responses \o debts \in Seq(Debts)
    BY <1>5, ConcatProperties DEF Sane
  <2> HIDE DEF grown
  <2> QED
    BY <1>3, <2>1, <2>2, <2>3 DEF Sane, SameReign
<1>8. /\ Grown(s, u)
      /\ Owed(s) => Owed(u)
      /\ Len(u.log) = base + W
      /\ \A p \in DOMAIN s.log : u.log[p] = s.log[p]
  <2>1. SameReign(s, u) /\ Len(writes) \in Nat
    BY <1>2, <1>3
  <2> QED
    BY <1>6, <1>7, <2>1, LoggedGrown DEF base
<1> HIDE DEF grown
<1>9. /\ grown \in Seq(Entries) /\ Len(grown) = base + W /\ DOMAIN grown = 1..(base + W)
      /\ \A p \in 1..base : grown[p] = s.log[p]
      /\ \A p \in 1..(base + W) : p > base => grown[p].term = s.term
      /\ \A p \in 1..(base + W) : grown[p] \in Entries
  <2>1. /\ u.log \in Seq(Entries) /\ DOMAIN u.log = 1..Len(u.log)
        /\ \A p \in DOMAIN u.log : u.log[p] \in Entries
    BY <1>7, SaneLog
  <2>2. ASSUME NEW p \in 1..(base + W), p > base
        PROVE  grown[p].term = s.term
    <3>1. CASE u.log = s.log
      BY <1>1, <1>8, <2>1, <2>2, <3>1 DEF base
    <3>2. CASE u.log # s.log
      BY <1>3, <1>8, <2>1, <2>2, <3>2 DEF Grown, base
    <3> QED
      BY <3>1, <3>2
  <2> QED
    BY <1>1, <1>3, <1>8, <2>1, <2>2
<1> HIDE DEF W
<1>10. ASSUME NEW j \in Server, j # i, NEW k \in 1..W
       PROVE  Vouched(i, j, u, request(j, k))
  <2> DEFINE m == request(j, k)
             entries == SubSeq(grown, base + 1, base + k)
             prevTerm == IF base = 0 THEN 0 ELSE s.log[base].term
  <2>1. NextToSend(s, j) = base + 1
    BY <1>1 DEF NextToSend, base
  <2>2. (base + 1) - 1 = base /\ base <= base
    BY <1>1
  <2>3. AppendRequestFor(s, j)
          = AppendRequest(s.term, base, prevTerm, SubSeq(s.log, base + 1, base), s.commit)
    BY <2>1, <2>2 DEF AppendRequestFor, TermAt, base
  <2> HIDE DEF prevTerm
  <2>4. m = [type |-> "AppendEntries", term |-> s.term, prevIndex |-> base,
             prevTerm |-> prevTerm, entries |-> entries, commit |-> s.commit]
    <3>1. ASSUME NEW r, NEW old, NEW new,
                 r = AppendRequest(s.term, base, prevTerm, old, s.commit)
          PROVE  [r EXCEPT !.entries = new]
                   = [type |-> "AppendEntries", term |-> s.term, prevIndex |-> base,
                      prevTerm |-> prevTerm, entries |-> new, commit |-> s.commit]
      BY <3>1 DEF AppendRequest
    <3> DEFINE r == AppendRequestFor(s, j)
    <3> HIDE DEF r, entries
    <3>2. r = AppendRequest(s.term, base, prevTerm, SubSeq(s.log, base + 1, base), s.commit)
      BY <2>3 DEF r
    <3> QED
      BY <3>1, <3>2 DEF r, entries
  <2>5. /\ entries \in Seq(Entries) /\ Len(entries) = k /\ DOMAIN entries = 1..k
        /\ \A n \in 1..k : entries[n] = grown[base + n]
    <3>1. \A n \in (base + 1)..(base + k) : n \in 1..(base + W)
      BY <1>1, <1>2
    <3>2. \A n \in (base + 1)..(base + k) : grown[n] \in Entries
      BY <1>9, <3>1
    <3>3. base + 1 \in Int /\ base + k \in Int /\ base + 1 <= base + k
          /\ (base + k) - (base + 1) + 1 = k
      BY <1>1
    <3>4. /\ entries \in Seq(Entries) /\ Len(entries) = k
          /\ \A n \in 1..k : entries[n] = grown[(base + 1) + n - 1]
      BY <3>2, <3>3, SubSeqProperties
    <3>5. \A n \in 1..k : (base + 1) + n - 1 = base + n
      BY <1>1
    <3> HIDE DEF entries
    <3> QED
      BY <3>4, <3>5, LenProperties
  <2>6. prevTerm \in Nat /\ prevTerm = IF base = 0 THEN 0 ELSE grown[base].term
    <3>1. base # 0 => base \in 1..base
      BY <1>1
    <3>2. base # 0 => s.log[base].term \in Nat /\ grown[base] = s.log[base]
      BY <1>1, <1>9, <3>1 DEF Entries
    <3> QED
      BY <3>2 DEF prevTerm
  <2> HIDE DEF m, entries
  <2>7. m \in AppendRequests
    BY <1>1, <2>4, <2>5, <2>6 DEF Sane, AppendRequests
  <2>8. Excerpt(m, grown)
    <3>1. base + k <= base + W
      BY <1>1, <1>2
    <3>2. m.prevIndex = base /\ m.entries = entries /\ m.prevTerm = prevTerm
      BY <2>4
    <3> QED
      BY <1>9, <2>5, <2>6, <3>1, <3>2 DEF Excerpt
  <2>9. Whole(m, u)
    <3>1. m.prevIndex + Len(m.entries) = base + k
      BY <2>4, <2>5
    <3>2. \A p \in 1..(base + W) : p > base + k => p > base
      BY <1>1
    <3> QED
      BY <1>3, <1>9, <3>1, <3>2 DEF Whole, SameReign
  <2>10. m.term = s.term
    BY <2>4
  <2> QED
    BY <1>3, <1>10, <2>7, <2>8, <2>9, <2>10 DEF Vouched, SameReign, m
<1> HIDE DEF request
<1>11. ASSUME NEW j \in Server, NEW m \in u.out[j]
       PROVE  m \in s.out[j] \/ Helps(i, j, u, m)
  <2>1. CASE j = i \/ m \in s.out[j]
    BY <1>3, <1>11, <2>1
  <2>2. CASE j # i /\ m \in requests(j)
    <3>1. PICK k \in 1..W : m = request(j, k)
      BY <1>2, <2>2
    <3> QED
      BY <1>10, <2>2, <3>1 DEF Helps
  <2> QED
    BY <1>3, <1>11, <2>1, <2>2
<1>12. Tame(i, s, u)
  BY <1>3, <1>7, <1>8, <1>11 DEF Tame
<1> QED
  BY <1>3, <1>12 DEF u

-----------------------------------------------------------------------------
(* The backlog of commands *)

\* What RedirectsFollowLeader says of a record, and what it needs of candidates.
Routed(s) ==
  /\ \A k \in DOMAIN s.inflight : s.inflight[k].to = s.leader
  /\ s.role # "follower" => s.leader = Nobody /\ s.inflight = <<>>
  /\ s.pending # <<>> => s.leader = Nobody /\ s.role # "leader"

\* The same before FlushPendingClientCommands.
Unflushed(s) ==
  /\ \A k \in DOMAIN s.inflight : s.inflight[k].to = s.leader
  /\ s.role # "follower" => s.leader = Nobody /\ s.inflight = <<>>

LEMMA RoutedSame ==
  ASSUME NEW s, NEW u, SameBacklog(s, u)
  PROVE  (Routed(s) => Routed(u)) /\ (Unflushed(s) => Unflushed(u))
  BY DEF SameBacklog, Routed, Unflushed

LEMMA CommandsOfType ==
  ASSUME NEW q \in Seq(Redirects)
  PROVE  CommandsOf(q) \in Seq(Commands) /\ Len(CommandsOf(q)) = Len(q)
<1>1. Len(q) \in Nat /\ DOMAIN q = 1..Len(q) /\ \A k \in 1..Len(q) : q[k] \in Redirects
  BY LenProperties
<1>2. CommandsOf(q) \in [1..Len(q) -> Commands]
  BY <1>1 DEF CommandsOf, Redirects
<1> QED
  BY <1>1, <1>2, SeqDef, LenProperties

LEMMA RequeueAllTame ==
  ASSUME NEW i, NEW s, Sane(s)
  PROVE  LET u == RequeueAllInflight(s)
         IN /\ Tame(i, s, u) /\ u.commit = s.commit /\ u.log = s.log
            /\ u.responses = s.responses /\ u.out = s.out /\ u.inflight = <<>>
<1> DEFINE back == CommandsOf(s.inflight) \o s.pending
           u == RequeueAllInflight(s)
<1>1. back \in Seq(Commands)
  <2>1. s.inflight \in Seq(Redirects) /\ s.pending \in Seq(Commands)
    BY DEF Sane
  <2> QED
    BY <2>1, CommandsOfType, ConcatProperties
<1>2. <<>> \in Seq(Redirects)
  BY EmptySeq
<1>3. /\ Sane(u) /\ SameReign(s, u) /\ u.log = s.log /\ u.responses = s.responses
      /\ u.out = s.out /\ u.commit = s.commit /\ u.inflight = <<>>
  BY <1>1, <1>2 DEF Sane, RequeueAllInflight, Shape, SameReign
<1> HIDE DEF u
<1>4. Tame(i, s, u)
  BY <1>3 DEF Tame, Grown, Owed, SameReign
<1> QED
  BY <1>3, <1>4 DEF u

\* Only the redirects to the leader stay in flight.
LEMMA RequeueNotToTame ==
  ASSUME NEW i, NEW s, Sane(s), NEW j \in Server
  PROVE  LET u == RequeueInflightNotTo(s, j)
         IN /\ Tame(i, s, u) /\ u.commit = s.commit /\ u.log = s.log
            /\ u.responses = s.responses /\ u.out = s.out
            /\ \A k \in DOMAIN u.inflight : u.inflight[k].to = j
<1> DEFINE toLeader == [cmd : Commands, to : {j}]
           elsewhere == [cmd : Commands, to : Server \ {j}]
           kept == Filter(s.inflight, toLeader)
           gone == Filter(s.inflight, elsewhere)
           back == CommandsOf(gone) \o s.pending
           u == RequeueInflightNotTo(s, j)
<1>1. s.inflight \in Seq(Redirects) /\ s.pending \in Seq(Commands)
  BY DEF Sane
<1>2. kept \in Seq(Redirects \cap toLeader) /\ gone \in Seq(Redirects \cap elsewhere)
  BY <1>1, FilterProperties
<1>3. /\ kept \in Seq(Redirects) /\ gone \in Seq(Redirects)
      /\ \A k \in DOMAIN kept : kept[k].to = j
  <2> HIDE DEF kept, gone, toLeader, elsewhere
  <2>1. kept \in Seq(Redirects) /\ gone \in Seq(Redirects)
    BY <1>2
  <2>2. \A k \in DOMAIN kept : kept[k] \in toLeader
    BY <1>2
  <2> QED
    BY <2>1, <2>2 DEF toLeader
<1>4. back \in Seq(Commands)
  <2> HIDE DEF gone
  <2> QED
    BY <1>1, <1>3, CommandsOfType, ConcatProperties
<1>5. u = [s EXCEPT !.pending = back, !.inflight = kept]
  BY DEF RequeueInflightNotTo
<1> HIDE DEF u, back, kept
<1>6. /\ Sane(u) /\ SameReign(s, u) /\ u.log = s.log /\ u.responses = s.responses
      /\ u.out = s.out /\ u.commit = s.commit /\ u.inflight = kept
  BY <1>3, <1>4, <1>5 DEF Sane, Shape, SameReign
<1>7. Tame(i, s, u)
  BY <1>6 DEF Tame, Grown, Owed, SameReign
<1> QED
  BY <1>3, <1>6, <1>7 DEF u

LEMMA ForwardTame ==
  ASSUME NEW i, NEW s, Sane(s), s.leader \in Server, NEW cmds \in Seq(Commands)
  PROVE  LET u == ForwardToLeader(s, cmds)
         IN /\ Tame(i, s, u) /\ u.commit = s.commit /\ u.pending = s.pending
            /\ Unflushed(s) => Unflushed(u)
<1> DEFINE sent == [k \in DOMAIN cmds |-> [cmd |-> cmds[k], to |-> s.leader]]
           flight == s.inflight \o sent
           redirects == {Redirect(cmds[k]) : k \in DOMAIN cmds}
           u == ForwardToLeader(s, cmds)
<1>1. /\ Len(cmds) \in Nat /\ DOMAIN cmds = 1..Len(cmds)
      /\ \A k \in DOMAIN cmds : cmds[k] \in Commands
  BY LenProperties
<1>2. /\ sent \in Seq(Redirects)
      /\ \A k \in 1..Len(sent) : sent[k].to = s.leader
  <2>1. sent \in [1..Len(cmds) -> Redirects] /\ \A k \in 1..Len(cmds) : sent[k].to = s.leader
    BY <1>1 DEF Redirects
  <2> HIDE DEF sent
  <2>2. sent \in Seq(Redirects) /\ Len(sent) = Len(cmds)
    BY <1>1, <2>1, SeqDef, LenProperties
  <2> QED
    BY <2>1, <2>2
<1>3. \A m \in redirects : m.type = "client_command_redirected" /\ m.cmd \in Commands
  BY <1>1 DEF Redirect
<1>4. u = [s EXCEPT !.inflight = flight, !.out[s.leader] = @ \cup redirects]
  BY DEF ForwardToLeader
<1> HIDE DEF sent, redirects, u
<1>5. flight \in Seq(Redirects) /\ Extension(flight, s.inflight, sent)
  BY <1>2, Joined DEF Sane
<1> HIDE DEF flight
<1>6. /\ Sane(u) /\ SameReign(s, u) /\ u.log = s.log /\ u.responses = s.responses
      /\ u.commit = s.commit /\ u.pending = s.pending /\ u.inflight = flight
      /\ \A k \in Server : \A m \in u.out[k] : m \in s.out[k] \/ m \in redirects
  BY <1>4, <1>5 DEF Sane, Shape, SameReign
<1>7. Tame(i, s, u)
  BY <1>3, <1>6 DEF Tame, Grown, Owed, SameReign, Helps
<1>8. ASSUME Unflushed(s)
      PROVE  Unflushed(u)
  <2>1. s.role = "follower"
    BY <1>8, NobodyAssumption DEF Unflushed
  <2>2. ASSUME NEW k \in DOMAIN flight
        PROVE  flight[k].to = s.leader
    <3> DEFINE a == Len(s.inflight)
    <3>1. a \in Nat /\ Len(sent) \in Nat /\ k \in 1..(a + Len(sent))
          /\ DOMAIN s.inflight = 1..a
      BY <1>5, <2>2 DEF Extension, Sane
    <3> HIDE DEF a
    <3>2. CASE k <= a
      <4>1. k \in 1..a
        BY <3>1, <3>2
      <4> QED
        BY <1>5, <1>8, <3>1, <4>1 DEF Extension, Unflushed, a
    <3>3. CASE k > a
      <4>1. k - a \in 1..Len(sent) /\ a + (k - a) = k
        BY <3>1, <3>3
      <4> QED
        BY <1>2, <1>5, <4>1 DEF Extension, a
    <3> QED
      BY <3>1, <3>2, <3>3
  <2> QED
    BY <1>6, <2>1, <2>2 DEF Unflushed, SameReign
<1> QED
  BY <1>6, <1>7, <1>8 DEF u

\* The flush leaves nothing to wait where a leader is known.
LEMMA FlushTame ==
  ASSUME NEW i \in Server, NEW s, Sane(s),
         s.role = "leader" => \A j \in Server : s.next[j] = Len(s.log) + 1
  PROVE  LET u == FlushPendingClientCommands(s, i)
         IN /\ Tame(i, s, u) /\ u.commit = s.commit
            /\ Unflushed(s) => Routed(u)
<1> DEFINE u == FlushPendingClientCommands(s, i)
           emptied == [s EXCEPT !.pending = <<>>]
<1>1. CASE s.role = "leader"
  <2>1. u = ExecutePending(s, i)
    BY <1>1 DEF FlushPendingClientCommands
  <2>2. /\ Tame(i, s, u) /\ u.commit = s.commit
        /\ u.pending = <<>> /\ u.inflight = s.inflight
    BY <1>1, <2>1, ExecutePendingTame
  <2> HIDE DEF u
  <2>3. Unflushed(s) => Routed(u)
    BY <1>1, <2>2 DEF Unflushed, Routed, Tame, SameReign
  <2> QED
    BY <2>2, <2>3 DEF u
<1>2. CASE s.role # "leader" /\ s.leader = Nobody
  BY <1>2, TameSelf DEF FlushPendingClientCommands, Unflushed, Routed
<1>3. CASE s.role # "leader" /\ s.leader # Nobody
  <2>1. <<>> \in Seq(Commands) /\ s.pending \in Seq(Commands) /\ s.leader \in Server
    BY <1>3, EmptySeq DEF Sane
  <2>2. /\ Sane(emptied) /\ SameReign(s, emptied) /\ emptied.log = s.log
        /\ emptied.responses = s.responses /\ emptied.out = s.out
        /\ emptied.commit = s.commit /\ emptied.pending = <<>>
        /\ emptied.inflight = s.inflight
    BY <2>1 DEF Sane, Shape, SameReign
  <2>3. u = ForwardToLeader(emptied, s.pending)
    BY <1>3 DEF FlushPendingClientCommands
  <2> HIDE DEF emptied, u
  <2>4. Tame(i, s, emptied) /\ (Unflushed(s) => Unflushed(emptied))
    BY <2>2 DEF Tame, Grown, Owed, SameReign, Unflushed
  <2>5. emptied.leader \in Server
    BY <2>1, <2>2 DEF SameReign
  <2>6. /\ Tame(i, emptied, u) /\ u.commit = emptied.commit /\ u.pending = <<>>
        /\ Unflushed(emptied) => Unflushed(u)
    BY <2>1, <2>2, <2>3, <2>5, ForwardTame
  <2>7. Tame(i, s, u)
    BY <2>4, <2>6, TameTrans
  <2>8. Unflushed(u) => Routed(u)
    BY <2>6 DEF Unflushed, Routed
  <2> QED
    BY <2>2, <2>4, <2>6, <2>7, <2>8 DEF u
<1> QED
  BY <1>1, <1>2, <1>3

LEMMA SubmitTame ==
  ASSUME NEW i \in Server, NEW s, Sane(s), NEW cmd \in Commands
  PROVE  LET u == SubmitCommand(s, i, cmd)
         IN Tame(i, s, u) /\ Prompt(s, u) /\ (Routed(s) => Routed(u))
<1> DEFINE u == SubmitCommand(s, i, cmd)
           waiting == [s EXCEPT !.pending = Append(@, cmd)]
<1>1. CASE s.role = "leader"
  <2>1. u = ExecuteClientCommand(s, i, cmd, Nobody)
    BY <1>1 DEF SubmitCommand
  <2>2. Tame(i, s, u) /\ SameBacklog(s, u) /\ Prompt(s, u)
    BY <1>1, <2>1, ExecuteTame
  <2> QED
    BY <2>2, RoutedSame
<1>2. CASE s.role # "leader" /\ s.leader = Nobody
  <2>1. u = waiting
    BY <1>2 DEF SubmitCommand
  <2>2. Append(s.pending, cmd) \in Seq(Commands)
    BY AppendProperties DEF Sane
  <2>3. /\ Sane(u) /\ SameReign(s, u) /\ u.log = s.log /\ u.responses = s.responses
        /\ u.out = s.out /\ u.commit = s.commit /\ u.inflight = s.inflight
    BY <2>1, <2>2 DEF Sane, Shape, SameReign
  <2> HIDE DEF u
  <2>4. Tame(i, s, u)
    BY <2>3 DEF Tame, Grown, Owed, SameReign
  <2>5. Routed(s) => Routed(u)
    BY <1>2, <2>3 DEF Routed, SameReign
  <2> QED
    BY <2>3, <2>4, <2>5 DEF Prompt, u
<1>3. CASE s.role # "leader" /\ s.leader # Nobody
  <2>1. s.leader \in Server /\ <<cmd>> \in Seq(Commands)
    BY <1>3 DEF Sane
  <2>2. u = ForwardToLeader(s, <<cmd>>)
    BY <1>3 DEF SubmitCommand
  <2> HIDE DEF u
  <2>3. /\ Tame(i, s, u) /\ u.commit = s.commit /\ u.pending = s.pending
        /\ Unflushed(s) => Unflushed(u)
    BY <2>1, <2>2, ForwardTame
  <2>4. Routed(s) => Routed(u)
    BY <1>3, <2>3 DEF Routed, Unflushed, Tame, SameReign
  <2> QED
    BY <2>3, <2>4 DEF Prompt, u
<1> QED
  BY <1>1, <1>2, <1>3

LEMMA RedirectedTame ==
  ASSUME NEW i \in Server, NEW j \in Server, NEW s, Sane(s), NEW m, m.cmd \in Commands
  PROVE  LET u == HandleClientCommandRedirected(s, i, j, m)
         IN Tame(i, s, u) /\ Prompt(s, u) /\ (Routed(s) => Routed(u))
<1> DEFINE u == ExecuteClientCommand(s, i, m.cmd, j)
<1>1. CASE s.role = "leader"
  <2>1. Tame(i, s, u) /\ SameBacklog(s, u) /\ Prompt(s, u)
    BY <1>1, ExecuteTame
  <2>2. HandleClientCommandRedirected(s, i, j, m) = u
    BY <1>1 DEF HandleClientCommandRedirected
  <2> QED
    BY <2>1, <2>2, RoutedSame
<1>2. CASE s.role # "leader"
  BY <1>2, TameSelf DEF HandleClientCommandRedirected, Prompt
<1> QED
  BY <1>1, <1>2

LEMMA RedirectedResponseTame ==
  ASSUME NEW i \in Server, NEW j \in Server, NEW s, Sane(s), NEW m
  PROVE  LET u == HandleClientCommandRedirectedResponse(s, j, m)
         IN Tame(i, s, u) /\ Prompt(s, u) /\ (Routed(s) => Routed(u))
<1> DEFINE matching == MatchingInflight(s, j, m.cmd)
           first == FirstOf(matching)
           front == SubSeq(s.inflight, 1, first - 1)
           back == SubSeq(s.inflight, first + 1, Len(s.inflight))
           others == front \o back
           told == [s EXCEPT !.inflight = others]
           u == HandleClientCommandRedirectedResponse(s, j, m)
<1>1. CASE matching = {}
  BY <1>1, TameSelf DEF HandleClientCommandRedirectedResponse, Prompt
<1>2. CASE matching # {}
  <2>1. /\ s.inflight \in Seq(Redirects) /\ Len(s.inflight) \in Nat
        /\ DOMAIN s.inflight = 1..Len(s.inflight)
    BY LenProperties DEF Sane
  <2>2. first \in DOMAIN s.inflight
    <3>1. matching \subseteq Nat /\ matching \subseteq DOMAIN s.inflight
      BY <2>1 DEF MatchingInflight
    <3>2. PICK k \in matching : \A l \in matching : k <= l
      <4> HIDE DEF matching
      <4> QED
        BY <1>2, <3>1, LeastOf
    <3>3. first \in matching
      <4> HIDE DEF matching
      <4> QED
        BY <3>2, Zenon DEF FirstOf
    <3> QED
      BY <3>1, <3>3
  <2> HIDE DEF first
  <2>3. /\ front \in Seq(Redirects) /\ DOMAIN front = 1..(first - 1)
        /\ Len(front) = first - 1
        /\ \A k \in 1..(first - 1) : front[k] = s.inflight[k]
    <3>1. first - 1 \in 0..Len(s.inflight)
      BY <2>1, <2>2
    <3> QED
      BY <2>1, <3>1, PrefixUpTo
  <2>4. /\ back \in Seq(Redirects) /\ Len(back) \in Nat
        /\ \A k \in 1..Len(back) : first + k \in 1..Len(s.inflight)
                                   /\ back[k] = s.inflight[first + k]
    <3>1. first \in Nat
      BY <2>1, <2>2
    <3>2. /\ back \in Seq(Redirects)
          /\ \A k \in 1..Len(back) : first + k \in 1..Len(s.inflight)
                                     /\ back[k] = s.inflight[first + k]
      BY <2>1, <3>1, TailAfter
    <3> HIDE DEF back
    <3> QED
      BY <3>2, LenProperties
  <2> HIDE DEF front, back
  <2>5. others \in Seq(Redirects) /\ Extension(others, front, back)
    BY <2>3, <2>4, Joined
  <2> HIDE DEF others
  <2>6. /\ Sane(told) /\ SameReign(s, told) /\ told.log = s.log
        /\ told.responses = s.responses /\ told.out = s.out
        /\ told.commit = s.commit /\ told.pending = s.pending /\ told.inflight = others
    BY <2>5 DEF Sane, Shape, SameReign
  <2>7. u = Respond(told, Nobody, s.inflight[first].cmd, m.ok, m.value)
    BY <1>2 DEF HandleClientCommandRedirectedResponse, first, others, front, back
  <2> HIDE DEF told, u, matching
  <2>8. Tame(i, s, told)
    BY <2>6 DEF Tame, Grown, Owed, SameReign
  <2>9. Tame(i, told, u) /\ SameBacklog(told, u) /\ u.commit = told.commit
    <3>1. \A ok, value : LET w == Respond(told, Nobody, s.inflight[first].cmd, ok, value)
                         IN Tame(i, told, w) /\ SameBacklog(told, w) /\ w.commit = told.commit
      BY <2>6, RespondTame
    <3> QED
      BY <2>7, <3>1, Zenon
  <2>10. Tame(i, s, u)
    BY <2>8, <2>9, TameTrans
  <2>11. ASSUME Routed(s)
         PROVE  Routed(told)
    <3>1. ASSUME NEW k \in DOMAIN others
          PROVE  others[k].to = s.leader
      <4>1. k \in 1..((first - 1) + Len(back)) /\ first \in 1..Len(s.inflight)
        BY <2>1, <2>2, <2>3, <2>5, <3>1 DEF Extension
      <4>2. CASE k <= first - 1
        <5>1. k \in 1..(first - 1) /\ k \in DOMAIN s.inflight
          BY <2>1, <4>1, <4>2
        <5> QED
          BY <2>3, <2>5, <2>11, <5>1 DEF Extension, Routed
      <4>3. CASE ~(k <= first - 1)
        <5> DEFINE n == k - (first - 1)
        <5>1. \A a, b, f \in Nat : f >= 1 /\ a \in 1..((f - 1) + b) /\ ~(a <= f - 1) =>
                a - (f - 1) \in 1..b /\ (f - 1) + (a - (f - 1)) = a
          OBVIOUS
        <5>2. n \in 1..Len(back) /\ (first - 1) + n = k
          <6>1. k \in Nat /\ first \in Nat /\ first >= 1 /\ Len(back) \in Nat
            BY <2>1, <2>4, <4>1
          <6> QED
            BY <4>1, <4>3, <5>1, <6>1
        <5> HIDE DEF n
        <5>3. others[k] = s.inflight[first + n] /\ first + n \in DOMAIN s.inflight
          BY <2>1, <2>3, <2>4, <2>5, <5>2 DEF Extension
        <5> QED
          BY <2>11, <5>3 DEF Routed
      <4> QED
        BY <4>2, <4>3
    <3>2. s.role = "follower"
      <4>1. s.inflight # <<>>
        BY <2>1, <2>2
      <4> QED
        BY <2>11, <4>1 DEF Routed
    <3> QED
      BY <2>6, <2>11, <3>1, <3>2 DEF Routed, SameReign
  <2> QED
    BY <2>6, <2>9, <2>10, <2>11, RoutedSame DEF Prompt, u
<1> QED
  BY <1>1, <1>2

-----------------------------------------------------------------------------
(* Handler runs that keep the log, or in which a leader extends it *)

\* What TimersFollowRole says of a record.
Timed(s) ==
  /\ s.role = "leader" <=> ~s.electionArmed
  /\ s.role = "leader" => s.heartbeatArmed

Fit(s) == Sane(s) /\ Timed(s) /\ Owed(s)

\* The log may only have grown by entries of the term that the node leads.
Kept(s, u) ==
  \/ u.log = s.log
  \/ /\ u.role = "leader"
     /\ Len(s.log) <= Len(u.log)
     /\ \A p \in DOMAIN s.log : u.log[p] = s.log[p]
     /\ \A p \in DOMAIN u.log : p > Len(s.log) => u.log[p].term = u.term

\* A message to k that i's record u accounts for.
Writ(i, k, u, m) ==
  /\ Letter(m)
  /\ m.type = "AppendEntries" => Vouched(i, k, u, m)
  /\ m.type = "AppendEntriesResponse" => k # i /\ m.term = u.term /\ ~m.ok
  /\ m.type = "RequestVote" =>
       /\ u.role = "candidate"
       /\ m = VoteRequest(u.term, GetLastLogIndex(u), GetLastLogTerm(u))

\* From record s, without mail, to u.
Turn(i, s, u) ==
  /\ Fit(u)
  /\ u.role = "leader" => s.role \in {"candidate", "leader"} /\ u.term = s.term
  /\ u.leader # Nobody => u.leader = s.leader /\ u.term = s.term
  /\ u.commit # s.commit => Drained(u)
  /\ Kept(s, u)
  /\ \A k \in Server : \A m \in u.out[k] : Writ(i, k, u, m)

LEMMA TurnSelf ==
  ASSUME NEW i, NEW s, Fit(s), s.out = NoMessages
  PROVE  Turn(i, s, s)
  BY DEF Turn, Kept, NoMessages, Fit, Sane, Roles

LEMMA HelpsWrit ==
  ASSUME NEW i, NEW k, NEW u, NEW m, Helps(i, k, u, m)
  PROVE  Writ(i, k, u, m)
  BY DEF Helps, Writ, Letter, Vouched, AppendRequests

\* Mail to be sent stays accounted for while a helper runs.
LEMMA WritGrown ==
  ASSUME NEW i, NEW k, NEW m, NEW u, NEW v, Sane(u), Sane(v), SameReign(u, v),
         Grown(u, v), Writ(i, k, u, m)
  PROVE  Writ(i, k, v, m)
<1>1. ASSUME Vouched(i, k, u, m)
      PROVE  Vouched(i, k, v, m)
  <2>1. m.type = "AppendEntries"
    BY <1>1 DEF Vouched, AppendRequests
  <2>2. Helps(i, k, v, m)
    BY <1>1, HelpsGrown DEF Helps
  <2> QED
    BY <2>1, <2>2 DEF Helps
<1>2. u.role = "candidate" => v.log = u.log
  BY DEF Grown
<1>3. v.role = u.role /\ v.term = u.term
  BY DEF SameReign
<1> QED
  BY <1>1, <1>2, <1>3 DEF Writ, GetLastLogIndex, GetLastLogTerm

LEMMA TurnTame ==
  ASSUME NEW i, NEW s, NEW u, NEW v, Sane(s), Turn(i, s, u), u.commit = s.commit,
         Tame(i, u, v), Prompt(u, v)
  PROVE  Turn(i, s, v)
<1>1. Fit(v)
  BY DEF Turn, Fit, Tame, Timed, SameReign
<1>2. /\ v.role = "leader" => s.role \in {"candidate", "leader"} /\ v.term = s.term
      /\ v.leader # Nobody => v.leader = s.leader /\ v.term = s.term
  BY DEF Turn, Tame, SameReign
<1>3. v.commit # s.commit => Drained(v)
  BY DEF Turn, Prompt, Fit
<1>4. Kept(s, v)
  <2>1. /\ DOMAIN s.log = 1..Len(s.log) /\ DOMAIN u.log = 1..Len(u.log)
        /\ DOMAIN v.log = 1..Len(v.log)
        /\ Len(s.log) \in Nat /\ Len(u.log) \in Nat /\ Len(v.log) \in Nat
    BY SaneLog DEF Tame, Turn, Fit
  <2>2. Grown(u, v) /\ Kept(s, u) /\ v.role = u.role /\ v.term = u.term
    BY DEF Tame, Turn, SameReign
  <2>3. u.log # s.log /\ v.log # u.log => Kept(s, v)
    BY <2>1, <2>2 DEF Grown, Kept
  <2>4. u.log # s.log /\ v.log = u.log => Kept(s, v)
    BY <2>2 DEF Kept
  <2>5. u.log = s.log /\ v.log = u.log => Kept(s, v)
    BY DEF Kept
  <2>6. u.log = s.log /\ v.log # u.log => Kept(s, v)
    BY <2>2 DEF Kept, Grown
  <2> QED
    BY <2>3, <2>4, <2>5, <2>6
<1>5. ASSUME NEW k \in Server, NEW m \in v.out[k]
      PROVE  Writ(i, k, v, m)
  <2>1. CASE m \in u.out[k]
    BY <2>1, WritGrown DEF Tame, Turn, Fit
  <2>2. CASE Helps(i, k, v, m)
    BY <2>2, HelpsWrit
  <2> QED
    BY <2>1, <2>2 DEF Tame
<1> QED
  BY <1>1, <1>2, <1>3, <1>4, <1>5 DEF Turn

LEMMA TurnPost ==
  ASSUME NEW i, NEW s, NEW u, NEW j, NEW m, Turn(i, s, u), Writ(i, j, u, m)
  PROVE  Turn(i, s, Post(u, j, m)) /\ (Routed(u) => Routed(Post(u, j, m)))
<1> DEFINE v == Post(u, j, m)
<1>1. /\ Sane(v) /\ SameReign(u, v) /\ v.log = u.log /\ SameBacklog(u, v)
      /\ v.responses = u.responses /\ v.commit = u.commit
      /\ \A k \in Server : \A n \in v.out[k] : n \in u.out[k] \/ (k = j /\ n = m)
  BY DEF Sane, Post, Shape, SameReign, SameBacklog, Turn, Fit
<1> HIDE DEF v
<1>2. \A k, n : Writ(i, k, u, n) => Writ(i, k, v, n)
  BY <1>1, WritGrown DEF Turn, Fit, Grown
<1>3. \A k \in Server : \A n \in v.out[k] : Writ(i, k, v, n)
  BY <1>1, <1>2 DEF Turn
<1>4. Turn(i, s, v)
  BY <1>1, <1>3 DEF Turn, Fit, Timed, Owed, Kept, Drained, SameReign
<1> QED
  BY <1>1, <1>4, RoutedSame DEF v

\* BecomeFollower answers what is owed and forgets the leader.
OnlyAnswers(u) ==
  \A k \in Server : \A m \in u.out[k] : m.type = "client_command_redirected_response"

LEMMA BecomeFollowerTurn ==
  ASSUME NEW i, NEW s, Fit(s), s.out = NoMessages, NEW t \in Nat
  PROVE  LET u == BecomeFollower(s, t)
         IN /\ Turn(i, s, u) /\ Routed(u)
            /\ u.role = "follower" /\ u.term = t /\ u.log = s.log /\ u.commit = s.commit
            /\ u.responses = <<>> /\ u.inflight = <<>> /\ u.leader = Nobody
            /\ OnlyAnswers(u)
<1> DEFINE N == Len(s.responses)
           drained == DrainPendingClientResponses(s, FALSE, N)
           requeued == RequeueAllInflight(drained)
           u == BecomeFollower(s, t)
<1>1. N \in Nat
  BY LenProperties DEF Fit, Sane
<1>2. ASSUME NEW ok
      PROVE  LET d == DrainPendingClientResponses(s, ok, N)
             IN /\ Tame(i, s, d) /\ d.log = s.log /\ d.commit = s.commit
                /\ d.responses = SubSeq(s.responses, N + 1, N)
  <2>1. N <= Len(s.responses) /\ Sane(s)
    BY <1>1 DEF Fit
  <2> HIDE DEF N
  <2>2. LET d == DrainPendingClientResponses(s, ok, N)
        IN /\ Tame(i, s, d) /\ d.log = s.log /\ d.commit = s.commit
           /\ d.responses = SubSeq(s.responses, N + 1, Len(s.responses))
    BY <1>1, <2>1, DrainTame
  <2> QED
    BY <2>2 DEF N
<1>3. /\ Sane(drained) /\ drained.log = s.log /\ drained.commit = s.commit
      /\ drained.responses = SubSeq(s.responses, N + 1, N)
  BY <1>2, Zenon DEF Tame
<1>4. SubSeq(s.responses, N + 1, N) = <<>>
  BY <1>1 DEF Fit, Sane
<1>5. \A k \in Server : \A m \in drained.out[k] :
        m.type = "client_command_redirected_response"
  <2>1. \A k \in Server : s.out[k] = {}
    BY DEF NoMessages
  <2>2. DOMAIN s = DOMAIN s /\ "out" \in DOMAIN s
    BY DEF Fit, Sane, Shape
  <2> QED
    BY <2>1, <2>2 DEF DrainPendingClientResponses, RedirectResponse
<1> HIDE DEF drained
<1>6. /\ Sane(requeued) /\ requeued.log = s.log /\ requeued.commit = s.commit
      /\ requeued.responses = <<>> /\ requeued.inflight = <<>>
      /\ requeued.out = drained.out
  BY <1>3, <1>4, RequeueAllTame DEF Tame
<1>7. u = [requeued EXCEPT
             !.role = "follower", !.term = t, !.votedFor = Nobody, !.votes = 0,
             !.acks = {}, !.leader = Nobody, !.electionArmed = TRUE]
  BY DEF BecomeFollower, drained
<1> HIDE DEF requeued, u
<1>8. /\ Sane(u) /\ u.role = "follower" /\ u.term = t /\ u.log = s.log
      /\ u.commit = s.commit /\ u.responses = <<>> /\ u.inflight = <<>>
      /\ u.leader = Nobody /\ u.electionArmed /\ u.out = drained.out
  BY <1>6, <1>7 DEF Sane, Shape, Roles
<1>9. Routed(u) /\ Fit(u)
  BY <1>8 DEF Routed, Fit, Timed, Owed
<1>10. \A k \in Server : \A m \in u.out[k] : Writ(i, k, u, m)
  BY <1>5, <1>8 DEF Writ, Letter
<1>11. Turn(i, s, u)
  BY <1>8, <1>9, <1>10 DEF Turn, Kept
<1> QED
  BY <1>5, <1>8, <1>9, <1>11 DEF u, OnlyAnswers

LEMMA StartElectionTurn ==
  ASSUME NEW i, NEW s, Fit(s), s.out = NoMessages, s.electionArmed
  PROVE  Turn(i, s, StartElection(s, i)) /\ Routed(StartElection(s, i))
<1> DEFINE requeued == RequeueAllInflight(s)
           c == BecomeCandidate(s, i)
           request == VoteRequest(c.term, GetLastLogIndex(c), GetLastLogTerm(c))
           mail == [j \in Server |-> IF j = i THEN c.out[j] ELSE c.out[j] \cup {request}]
           u == StartElection(s, i)
<1>1. s.responses = <<>>
  BY NothingOwed DEF Fit, Timed
<1>2. /\ Sane(requeued) /\ requeued.log = s.log /\ requeued.commit = s.commit
      /\ requeued.responses = <<>> /\ requeued.inflight = <<>>
      /\ requeued.out = NoMessages
  BY <1>1, RequeueAllTame DEF Tame, Fit
<1>3. c = [requeued EXCEPT !.role = "candidate", !.term = @ + 1, !.votedFor = i,
                           !.votes = 1, !.acks = {}, !.leader = Nobody]
  BY DEF BecomeCandidate
<1> HIDE DEF requeued, c
<1>4. /\ Sane(c) /\ c.role = "candidate" /\ c.leader = Nobody /\ c.log = s.log
      /\ c.commit = s.commit /\ c.responses = <<>> /\ c.inflight = <<>>
      /\ c.out = NoMessages
  <2>1. Shape(requeued) /\ requeued.term + 1 \in Nat
    BY <1>2 DEF Sane
  <2>2. /\ Shape(c) /\ c.role = "candidate" /\ c.term = requeued.term + 1
        /\ c.leader = Nobody
        /\ c.log = requeued.log /\ c.next = requeued.next /\ c.match = requeued.match
        /\ c.commit = requeued.commit /\ c.pending = requeued.pending
        /\ c.inflight = requeued.inflight /\ c.responses = requeued.responses
        /\ c.electionArmed = requeued.electionArmed
        /\ c.heartbeatArmed = requeued.heartbeatArmed /\ c.out = requeued.out
    BY <1>3, <2>1 DEF Shape
  <2> QED
    BY <1>2, <2>1, <2>2 DEF Sane, Roles
<1>5. request \in VoteRequests
  <2>1. GetLastLogIndex(c) \in Nat /\ GetLastLogTerm(c) \in Nat
    BY <1>4, SaneLog DEF GetLastLogIndex, GetLastLogTerm, Entries
  <2>2. c.term \in Nat
    BY <1>4 DEF Sane
  <2> QED
    BY <2>1, <2>2 DEF VoteRequest, VoteRequests
<1>6. request.type = "RequestVote"
  BY DEF VoteRequest
<1>7. u = [c EXCEPT !.out = mail, !.electionArmed = TRUE]
  BY DEF StartElection, c, ResetElectionTimer
<1> HIDE DEF mail, u
<1>8. /\ Sane(u) /\ u.role = "candidate" /\ u.leader = Nobody /\ u.log = s.log
      /\ u.commit = s.commit /\ u.responses = <<>> /\ u.inflight = <<>>
      /\ u.electionArmed /\ u.out = mail /\ u.term = c.term
  BY <1>4, <1>7 DEF Sane, Shape, mail
<1>9. Routed(u) /\ Fit(u)
  BY <1>8 DEF Routed, Fit, Timed, Owed
<1>10. ASSUME NEW k \in Server, NEW m \in u.out[k]
       PROVE  Writ(i, k, u, m)
  <2>1. m = request
    BY <1>4, <1>8, <1>10 DEF mail, NoMessages
  <2>2. request = VoteRequest(u.term, GetLastLogIndex(u), GetLastLogTerm(u))
    BY <1>4, <1>8 DEF GetLastLogIndex, GetLastLogTerm
  <2> HIDE DEF request
  <2> QED
    BY <1>5, <1>6, <1>8, <2>1, <2>2 DEF Writ, Letter
<1>11. Turn(i, s, u)
  BY <1>8, <1>9, <1>10 DEF Turn, Kept
<1> QED
  BY <1>9, <1>11 DEF u

\* A candidate that wins flushes what has waited.
LEMMA BecomeLeaderTurn ==
  ASSUME NEW i \in Server, NEW s, Fit(s), Routed(s), s.out = NoMessages,
         s.role = "candidate"
  PROVE  Turn(i, s, BecomeLeader(s, i)) /\ Routed(BecomeLeader(s, i))
<1> DEFINE base == GetLastLogIndex(s)
           elected == [s EXCEPT
                         !.role = "leader", !.next = [j \in Server |-> base + 1],
                         !.match = [j \in Server |-> 0],
                         !.heartbeatArmed = TRUE, !.electionArmed = FALSE]
           sent == SendAppendEntries(elected, Peers(i))
           u == FlushPendingClientCommands(sent, i)
<1>1. base \in Nat /\ base = Len(s.log)
  BY SaneLog DEF GetLastLogIndex, Fit
<1>2. s.responses = <<>>
  BY NothingOwed DEF Fit
<1> HIDE DEF base
<1>3. /\ Sane(elected) /\ elected.role = "leader" /\ elected.term = s.term
      /\ elected.leader = s.leader /\ elected.log = s.log /\ elected.commit = s.commit
      /\ elected.inflight = s.inflight /\ elected.responses = <<>>
      /\ elected.out = NoMessages /\ elected.next = [j \in Server |-> base + 1]
      /\ elected.heartbeatArmed /\ ~elected.electionArmed
  <2>1. /\ Shape(elected) /\ elected.role = "leader" /\ elected.term = s.term
        /\ elected.leader = s.leader /\ elected.log = s.log /\ elected.commit = s.commit
        /\ elected.pending = s.pending /\ elected.inflight = s.inflight
        /\ elected.responses = s.responses /\ elected.out = s.out
        /\ elected.next = [j \in Server |-> base + 1]
        /\ elected.match = [j \in Server |-> 0]
        /\ elected.heartbeatArmed = TRUE /\ elected.electionArmed = FALSE
    BY DEF Fit, Sane, Shape
  <2>2. /\ [j \in Server |-> base + 1] \in [Server -> Nat \ {0}]
        /\ [j \in Server |-> 0] \in [Server -> Nat]
    BY <1>1
  <2> HIDE DEF elected
  <2> QED
    BY <1>2, <2>1, <2>2 DEF Fit, Sane, Roles
<1> HIDE DEF elected
<1>4. Turn(i, s, elected) /\ Unflushed(elected)
  BY <1>3 DEF Turn, Fit, Timed, Owed, Kept, NoMessages, Routed, Unflushed
<1>5. /\ Tame(i, elected, sent) /\ SameBacklog(elected, sent)
      /\ sent.log = elected.log /\ sent.commit = elected.commit
  BY <1>3, SendTame DEF Peers
<1>6. \A j \in Server : sent.next[j] = Len(sent.log) + 1
  <2>1. \A j \in Server : NextToSend(elected, j) = base + 1 /\ elected.next[j] = base + 1
    BY <1>1, <1>3 DEF NextToSend
  <2>2. sent.next = [j \in Server |-> IF j \in Peers(i) THEN NextToSend(elected, j)
                                      ELSE elected.next[j]]
    BY <1>3 DEF SendAppendEntries, Sane, Shape
  <2>3. Len(sent.log) = base
    BY <1>1, <1>3, <1>5
  <2> HIDE DEF sent
  <2> QED
    BY <2>1, <2>2, <2>3
<1> HIDE DEF sent
<1>7. Tame(i, sent, u) /\ u.commit = sent.commit /\ (Unflushed(sent) => Routed(u))
  BY <1>5, <1>6, FlushTame DEF Tame
<1> HIDE DEF u
<1>8. Turn(i, s, sent)
  BY <1>3, <1>4, <1>5, TurnTame DEF Fit, Prompt
<1>9. Turn(i, s, u) /\ Routed(u)
  BY <1>3, <1>4, <1>5, <1>7, <1>8, TurnTame, RoutedSame DEF Fit, Prompt
<1> QED
  BY <1>9 DEF BecomeLeader, u, sent, elected, base

LEMMA RequestVoteTurn ==
  ASSUME NEW i \in Server, NEW j \in Server, j # i, NEW s, Fit(s), Routed(s), Ballot(i, s),
         s.out = NoMessages, NEW m, m.term \in Nat
  PROVE  LET u == HandleRequestVote(s, j, m)
         IN Turn(i, s, u) /\ Routed(u)
<1> DEFINE u == IF m.term > s.term THEN BecomeFollower(s, m.term) ELSE s
           canGrant == CanGrant(u, j, m)
           granted == GrantVote(u, j)
           v == IF canGrant THEN granted ELSE u
           w == Post(v, j, VoteResponse(u.term, canGrant))
<1>1. /\ Turn(i, s, u) /\ Routed(u) /\ u.commit = s.commit
      /\ u.role = "leader" => u.votedFor = i
  <2>1. CASE m.term > s.term
    <3>1. u = BecomeFollower(s, m.term)
      BY <2>1
    <3> HIDE DEF u
    <3> QED
      BY <3>1, BecomeFollowerTurn
  <2>2. CASE ~(m.term > s.term)
    <3>1. u = s
      BY <2>2
    <3> HIDE DEF u
    <3> QED
      BY <3>1, TurnSelf DEF Ballot
  <2> QED
    BY <2>1, <2>2
<1> HIDE DEF u
<1>2. ASSUME canGrant
      PROVE  Turn(i, s, granted) /\ Routed(granted)
  <2>1. u.role # "leader" /\ u.electionArmed
    BY <1>1, <1>2, NobodyAssumption DEF CanGrant, Turn, Fit, Timed
  <2>2. granted = [u EXCEPT !.electionArmed = TRUE, !.votedFor = j]
    BY DEF GrantVote, ResetElectionTimer
  <2> HIDE DEF granted
  <2>3. /\ Sane(granted) /\ SameReign(u, granted) /\ SameBacklog(u, granted)
        /\ granted.log = u.log /\ granted.commit = u.commit
        /\ granted.responses = u.responses /\ granted.out = u.out
    BY <1>1, <2>1, <2>2 DEF Turn, Fit, Sane, Shape, SameReign, SameBacklog
  <2>4. Tame(i, u, granted)
    BY <2>3 DEF Tame, Grown, Owed, SameReign
  <2> QED
    BY <1>1, <2>3, <2>4, TurnTame, RoutedSame DEF Fit, Prompt
<1>3. Turn(i, s, v) /\ Routed(v)
  BY <1>1, <1>2
<1>4. \A t, ack : Writ(i, j, v, VoteResponse(t, ack))
  BY DEF Writ, Letter, VoteResponse
<1> HIDE DEF v, canGrant
<1>5. Turn(i, s, w) /\ Routed(w)
  BY <1>3, <1>4, TurnPost
<1> QED
  BY <1>5 DEF HandleRequestVote, u, v, canGrant

LEMMA VoteResponseTurn ==
  ASSUME NEW i \in Server, NEW j \in Server, NEW s, Fit(s), Routed(s),
         s.out = NoMessages, NEW m, m.term \in Nat
  PROVE  LET u == HandleRequestVoteResponse(s, i, j, m)
         IN Turn(i, s, u) /\ Routed(u)
<1> DEFINE voted == [s EXCEPT !.acks = @ \cup {j}, !.votes = @ + 1]
           counted == IF m.ack /\ j \notin s.acks THEN voted ELSE s
           deposed == BecomeFollower(s, m.term)
           elected == BecomeLeader(counted, i)
           u == HandleRequestVoteResponse(s, i, j, m)
<1>1. /\ Sane(voted) /\ SameReign(s, voted) /\ SameBacklog(s, voted)
      /\ voted.log = s.log /\ voted.commit = s.commit
      /\ voted.responses = s.responses /\ voted.out = s.out
  BY DEF Fit, Sane, Shape, SameReign, SameBacklog
<1> HIDE DEF voted
<1>2. /\ Fit(counted) /\ SameReign(s, counted) /\ Routed(counted)
      /\ counted.log = s.log /\ counted.commit = s.commit /\ counted.out = s.out
  BY <1>1, RoutedSame DEF Fit, Timed, Owed, SameReign
<1> HIDE DEF counted
<1>3. Turn(i, s, s) /\ Turn(i, s, counted)
  BY <1>2, TurnSelf DEF Turn, Kept, SameReign, NoMessages, Fit, Sane, Roles
<1>4. Turn(i, s, deposed) /\ Routed(deposed)
  BY BecomeFollowerTurn
<1>5. ASSUME s.role = "candidate"
      PROVE  Turn(i, s, elected) /\ Routed(elected)
  <2>1. Turn(i, counted, elected) /\ Routed(elected)
    BY <1>2, <1>5, BecomeLeaderTurn DEF SameReign
  <2> HIDE DEF elected
  <2> QED
    BY <1>2, <2>1 DEF Turn, Kept, SameReign
<1>6. u \in {s, deposed, counted} \/ (s.role = "candidate" /\ u = elected)
  BY DEF HandleRequestVoteResponse, IsVoteVoid, counted, voted
<1> HIDE DEF u, deposed, elected
<1>7. Turn(i, s, u) /\ Routed(u)
  BY <1>2, <1>3, <1>4, <1>5, <1>6
<1> QED
  BY <1>7 DEF u

\* The next try is at a position of a log or just after one.
LEMMA BackOffType ==
  ASSUME NEW s, Sane(s), NEW j \in Server, NEW m \in AppendResponses
  PROVE  BackOff(s, j, m) \in Nat \ {0}
<1> DEFINE sameTerm == {p \in DOMAIN s.log : s.log[p].term = m.hintTerm}
           lastOfTerm == CHOOSE p \in sameTerm : \A q \in sameTerm : q <= p
           back == BackOff(s, j, m)
<1>1. m.hintIndex \in Nat /\ s.next[j] \in Nat \ {0}
  BY DEF AppendResponses, Hints, Sane
<1>2. sameTerm # {} => lastOfTerm \in Nat
  <2>1. /\ sameTerm \subseteq Nat /\ Len(s.log) \in Nat
        /\ \A p \in sameTerm : p <= Len(s.log)
    BY SaneLog
  <2> HIDE DEF sameTerm
  <2>2. ASSUME sameTerm # {}
        PROVE  \E p \in sameTerm : \A q \in sameTerm : q <= p
    BY <2>1, <2>2, GreatestOf
  <2>3. ASSUME sameTerm # {}
        PROVE  lastOfTerm \in sameTerm
    BY <2>2, <2>3, Zenon
  <2> QED
    BY <2>1, <2>3
<1>3. back = IF m.hintTerm # 0 /\ sameTerm # {} THEN lastOfTerm + 1
             ELSE IF m.hintIndex # 0 THEN m.hintIndex
             ELSE IF s.next[j] > 1 THEN s.next[j] - 1 ELSE 1
  BY Zenon DEF BackOff
<1> HIDE DEF sameTerm, lastOfTerm, back
<1>4. back \in Nat \ {0}
  BY <1>1, <1>2, <1>3
<1> QED
  BY <1>4 DEF back

LEMMA AppendResponseTurn ==
  ASSUME NEW i \in Server, NEW j \in Server, j # i, NEW s, Fit(s), Routed(s),
         s.out = NoMessages, NEW m \in AppendResponses
  PROVE  LET u == HandleAppendEntriesResponse(s, i, j, m)
         IN Turn(i, s, u) /\ Routed(u)
<1> DEFINE best == IF m.match > s.match[j] THEN m.match ELSE s.match[j]
           back == BackOff(s, j, m)
           deposed == BecomeFollower(s, m.term)
           retreated == [s EXCEPT !.next[j] = back]
           retried == SendAppendEntries(retreated, {j})
           matched == [s EXCEPT !.match[j] = best, !.next[j] = best + 1]
           advanced == UpdateCommitIndex(matched, i)
           u == HandleAppendEntriesResponse(s, i, j, m)
<1>1. m.term \in Nat /\ best \in Nat /\ back \in Nat \ {0}
  <2>1. m.term \in Nat /\ m.match \in Nat /\ s.match[j] \in Nat
    BY DEF AppendResponses, Hints, Fit, Sane
  <2> QED
    BY <2>1, BackOffType DEF Fit
<1>2. u \in {s, deposed} \/ (s.role = "leader" /\ u \in {retried, advanced})
  BY DEF HandleAppendEntriesResponse
<1> HIDE DEF best, back, u
<1>3. Turn(i, s, deposed) /\ Routed(deposed)
  BY <1>1, BecomeFollowerTurn
<1>4. /\ Sane(retreated) /\ SameReign(s, retreated) /\ SameBacklog(s, retreated)
      /\ retreated.log = s.log /\ retreated.commit = s.commit
      /\ retreated.responses = s.responses /\ retreated.out = s.out
  BY <1>1 DEF Fit, Sane, Shape, SameReign, SameBacklog
<1>5. /\ Sane(matched) /\ matched.role = s.role /\ matched.term = s.term
      /\ matched.leader = s.leader /\ matched.electionArmed = s.electionArmed
      /\ matched.heartbeatArmed = s.heartbeatArmed /\ SameBacklog(s, matched)
      /\ matched.log = s.log /\ matched.commit = s.commit
      /\ matched.responses = s.responses /\ matched.out = s.out
  <2> DEFINE next == [s.next EXCEPT ![j] = best + 1]
             match == [s.match EXCEPT ![j] = best]
  <2>1. next \in [Server -> Nat \ {0}] /\ match \in [Server -> Nat]
    <3>1. s.next \in [Server -> Nat \ {0}] /\ s.match \in [Server -> Nat]
      BY DEF Fit, Sane
    <3>2. best + 1 \in Nat \ {0}
      BY <1>1
    <3>3. next \in [Server -> Nat \ {0}]
      BY <3>1, <3>2
    <3>4. match \in [Server -> Nat]
      BY <1>1, <3>1
    <3> QED
      BY <3>3, <3>4
  <2>2. matched = [s EXCEPT !.match = match, !.next = next]
    BY DEF Fit, Sane, Shape
  <2> HIDE DEF next, match, matched
  <2> QED
    BY <2>1, <2>2 DEF Fit, Sane, Shape, SameBacklog
<1> HIDE DEF retreated, matched
<1>6. ASSUME s.role = "leader"
      PROVE  Turn(i, s, retried) /\ Routed(retried)
  <2>1. Turn(i, s, retreated) /\ Routed(retreated)
    BY <1>4, RoutedSame, TurnSelf
       DEF Turn, Fit, Timed, Owed, Kept, SameReign, Sane, Roles, NoMessages
  <2>2. /\ Tame(i, retreated, retried) /\ SameBacklog(retreated, retried)
        /\ retried.commit = retreated.commit
    BY <1>4, <1>6, SendTame DEF SameReign
  <2> HIDE DEF retried
  <2> QED
    BY <1>4, <2>1, <2>2, TurnTame, RoutedSame DEF Fit, Prompt
<1>7. ASSUME s.role = "leader"
      PROVE  Turn(i, s, advanced) /\ Routed(advanced)
  <2>1. Turn(i, s, matched) /\ Routed(matched)
    BY <1>5, RoutedSame DEF Turn, Fit, Timed, Owed, Kept, Sane, Roles, NoMessages
  <2>2. /\ Tame(i, matched, advanced) /\ SameBacklog(matched, advanced)
        /\ Prompt(matched, advanced)
    BY <1>5, UpdateCommitIndexTame
  <2> HIDE DEF advanced
  <2> QED
    BY <1>5, <2>1, <2>2, TurnTame, RoutedSame DEF Fit
<1> HIDE DEF retried, advanced, deposed
<1>8. Turn(i, s, u) /\ Routed(u)
  BY <1>2, <1>3, <1>6, <1>7, TurnSelf
<1> QED
  BY <1>8 DEF u

-----------------------------------------------------------------------------
(* Handler runs that take entries from a leader *)

\* What Merge makes of a log: the entries are in place, the part before them
\* is as it was, and so is what is left of the part beyond them, which is all
\* of it unless an entry conflicts.
Merged(log, prev, entries, merged) ==
  LET last == prev + Len(entries)
  IN /\ merged \in Seq(Entries)
     /\ last <= Len(merged)
     /\ \A p \in 1..prev : merged[p] = log[p]
     /\ \A k \in DOMAIN entries : merged[prev + k] = entries[k]
     /\ \A p \in DOMAIN merged : p > last => p \in DOMAIN log /\ merged[p] = log[p]
     /\ \/ /\ Len(merged) = last
           /\ \E k \in DOMAIN entries : /\ prev + k <= Len(log)
                                        /\ log[prev + k].term # entries[k].term
        \/ /\ Len(merged) >= Len(log)
           /\ \A k \in DOMAIN entries :
                prev + k <= Len(log) => log[prev + k].term = entries[k].term

LEMMA MergeMerged ==
  ASSUME NEW log \in Seq(Entries), NEW entries \in Seq(Entries),
         NEW prev \in 0..Len(log)
  PROVE  Merged(log, prev, entries, Merge(log, prev, entries))
<1> DEFINE N == Len(log)
           E == Len(entries)
           last == prev + E
           conflict == \E k \in DOMAIN entries :
                         /\ prev + k <= N
                         /\ log[prev + k].term # entries[k].term
           front == SubSeq(log, 1, prev)
           rest == SubSeq(log, last + 1, N)
           tail == IF conflict THEN <<>> ELSE rest
           head == front \o entries
           merged == head \o tail
<1>1. N \in Nat /\ E \in Nat /\ DOMAIN log = 1..N /\ DOMAIN entries = 1..E
  BY LenProperties
<1>2. /\ front \in Seq(Entries) /\ Len(front) = prev
      /\ \A p \in 1..prev : front[p] = log[p]
  BY PrefixUpTo
<1>3. /\ rest \in Seq(Entries) /\ Len(rest) = (IF last <= N THEN N - last ELSE 0)
      /\ \A k \in 1..Len(rest) : last + k \in 1..N /\ rest[k] = log[last + k]
  <2>1. last \in Nat
    BY <1>1
  <2> HIDE DEF last
  <2> QED
    BY <2>1, TailAfter
<1>4. tail \in Seq(Entries) /\ (conflict => Len(tail) = 0) /\ (~conflict => tail = rest)
  <2> HIDE DEF conflict, rest
  <2> QED
    BY <1>3, EmptySeq
<1> HIDE DEF front, rest, tail
<1>5. head \in Seq(Entries) /\ Extension(head, front, entries)
  BY <1>2, Joined
<1> HIDE DEF head
<1>6. merged \in Seq(Entries) /\ Extension(merged, head, tail)
  BY <1>4, <1>5, Joined
<1>7. Merge(log, prev, entries) = merged
  BY DEF Merge, merged, head, tail, front, rest
<1> HIDE DEF merged
<1>8. Len(head) = last /\ Len(tail) \in Nat /\ last \in Nat /\ Len(merged) = last + Len(tail)
      /\ DOMAIN merged = 1..(last + Len(tail))
  BY <1>1, <1>2, <1>5, <1>6 DEF Extension
<1>9. ASSUME NEW p \in 1..prev
      PROVE  merged[p] = log[p]
  <2>1. p \in 1..last /\ p \in 1..Len(front)
    BY <1>1, <1>2
  <2>2. merged[p] = head[p]
    BY <1>6, <1>8, <2>1 DEF Extension
  <2> QED
    BY <1>2, <1>5, <2>1, <2>2 DEF Extension
<1>10. ASSUME NEW k \in DOMAIN entries
       PROVE  merged[prev + k] = entries[k]
  <2>1. prev + k \in 1..last
    BY <1>1
  <2>2. merged[prev + k] = head[prev + k]
    BY <1>6, <1>8, <2>1 DEF Extension
  <2> QED
    BY <1>1, <1>2, <1>5, <2>2 DEF Extension
<1>11. ASSUME NEW p \in DOMAIN merged, p > last
       PROVE  ~conflict /\ p \in DOMAIN log /\ merged[p] = log[p]
  <2> DEFINE k == p - last
  <2>1. k \in 1..Len(tail) /\ last + k = p
    BY <1>8, <1>11
  <2> HIDE DEF k, last, conflict, N
  <2>2. ~conflict /\ tail = rest
    BY <1>4, <2>1
  <2>3. merged[last + k] = tail[k]
    BY <1>6, <1>8, <2>1 DEF Extension
  <2>4. last + k \in 1..N /\ tail[k] = log[last + k]
    BY <1>3, <2>1, <2>2
  <2> QED
    BY <1>1, <2>1, <2>2, <2>3, <2>4
<1>12. ~conflict => Len(merged) >= N
  <2> HIDE DEF conflict, N, last
  <2> QED
    BY <1>1, <1>3, <1>4, <1>8
<1>13. conflict => Len(merged) = last
  <2> HIDE DEF conflict
  <2> QED
    BY <1>4, <1>8
<1>14. last <= Len(merged)
  BY <1>8
<1>15. merged \in Seq(Entries)
  BY <1>6
<1> QED
  BY <1>7, <1>9, <1>10, <1>11, <1>12, <1>13, <1>14, <1>15 DEF Merged

\* From record s, without mail, to u, which follows the sender j of m.
Accepts(i, s, u, j, m) ==
  /\ Fit(u)
  /\ u.role = "follower" /\ u.leader = j /\ u.term = m.term
  /\ IsLogMatching(s, m) /\ u.log = Merge(s.log, m.prevIndex, m.entries)
  /\ \A k \in Server : \A n \in u.out[k] :
       /\ Letter(n) /\ n.type \notin {"AppendEntries", "RequestVote"}
       /\ n.type = "AppendEntriesResponse" =>
            k = j /\ n = AppendResponse(u.term, TRUE, Len(u.log), 0, 0)

\* In u a rejection is on its way to k.
Refused(k, u) == \E m \in u.out[k] : m.type = "AppendEntriesResponse" /\ ~m.ok

LEMMA RefusedPost ==
  ASSUME NEW u, Shape(u), NEW j \in Server, NEW m,
         m.type = "AppendEntriesResponse", ~m.ok
  PROVE  Refused(j, Post(u, j, m))
  BY DEF Refused, Post, Shape

\* A rejection is typed: MakeConflictHintReject finds where the run of the term
\* starts, since there is a least position from which on it holds.
LEMMA RejectType ==
  ASSUME NEW s, Sane(s), NEW m \in AppendRequests, ~IsLogMatching(s, m)
  PROVE  /\ Reject(s, m) \in AppendResponses
         /\ Reject(s, m).term = s.term /\ Reject(s, m).ok = FALSE
<1> DEFINE prev == m.prevIndex
           N == Len(s.log)
           runs == {p \in 1..prev : \A q \in p..prev : s.log[q].term = s.log[prev].term}
           starts(p) == /\ \A q \in p..prev : s.log[q].term = s.log[prev].term
                        /\ p > 1 => s.log[p - 1].term # s.log[prev].term
           runStart == CHOOSE p \in 1..prev : starts(p)
           no(h, t) == AppendResponse(s.term, FALSE, 0, h, t)
<1>1. /\ prev \in Nat /\ prev # 0 /\ N \in Nat /\ s.term \in Nat /\ DOMAIN s.log = 1..N
      /\ \A p \in 1..N : s.log[p].term \in Nat
  BY SaneLog DEF AppendRequests, IsLogMatching, Sane, Entries
<1> HIDE DEF prev, N
<1>2. runStart \in Nat
  <2>1. runs \subseteq Nat /\ prev \in runs
    BY <1>1
  <2>2. PICK p \in runs : \A q \in runs : p <= q
    <3> HIDE DEF runs
    <3> QED
      BY <2>1, LeastOf
  <2>3. ASSUME p > 1, s.log[p - 1].term = s.log[prev].term
        PROVE  FALSE
    <3>1. p - 1 \in 1..prev /\ \A q \in (p - 1)..prev : q = p - 1 \/ q \in p..prev
      BY <2>3, <1>1
    <3>2. p - 1 \in runs
      BY <2>3, <3>1
    <3> QED
      BY <2>2, <3>2
  <2>4. p \in 1..prev /\ starts(p)
    BY <2>3
  <2>5. runStart \in 1..prev
    <3> HIDE DEF starts
    <3> QED
      BY <2>4, Zenon
  <2> QED
    BY <2>5
<1>3. /\ prev > N => ConflictHintReject(s, m) = no(N + 1, 0)
      /\ ~(prev > N) => ConflictHintReject(s, m) = no(runStart, s.log[prev].term)
  BY Zenon DEF ConflictHintReject, prev, N
<1>4. \A h, t \in Hints : /\ no(h, t) \in AppendResponses
                          /\ no(h, t).term = s.term /\ no(h, t).ok = FALSE
  BY <1>1 DEF AppendResponse, AppendResponses
<1>5. Reject(s, m) = IF Hybrid THEN ConflictHintReject(s, m) ELSE no(0, 0)
  BY DEF Reject
<1>7. 0 \in Hints /\ (Hybrid => Hints = Nat)
  BY DEF Hints
<1>6. N + 1 \in Nat /\ (~(prev > N) => s.log[prev].term \in Nat)
  BY <1>1
<1> HIDE DEF no, runStart
<1> QED
  BY <1>2, <1>3, <1>4, <1>5, <1>6, <1>7

\* The handler's part from the role change on, in a record u of a follower.
LEMMA AcceptTakes ==
  ASSUME NEW i \in Server, NEW j \in Server, NEW s, Fit(s), s.role = "follower",
         NEW m \in AppendRequests, m.term = s.term, IsLogMatching(s, m),
         OnlyAnswers(s)
  PROVE  LET u == Accept(s, i, j, m)
         IN Accepts(i, s, u, j, m) /\ Routed(u)
<1> DEFINE log == Merge(s.log, m.prevIndex, m.entries)
           upTo == IF m.commit <= Len(log) THEN m.commit ELSE Len(log)
           reset == ResetElectionTimer(s)
           requeued == RequeueInflightNotTo(reset, j)
           known == [requeued EXCEPT !.leader = j, !.log = log]
           v == IF upTo > s.commit THEN Commit(known, upTo) ELSE known
           ack == AppendResponse(s.term, TRUE, Len(log), 0, 0)
           w == Post(v, j, ack)
           u == FlushPendingClientCommands(w, i)
<1>1. /\ s.log \in Seq(Entries) /\ m.entries \in Seq(Entries)
      /\ m.prevIndex \in 0..Len(s.log) /\ m.commit \in Nat
  BY SaneLog DEF Fit, AppendRequests, IsLogMatching
<1>2. log \in Seq(Entries)
  BY <1>1, MergeMerged DEF Merged
<1> HIDE DEF log
<1>3. Len(log) \in Nat /\ upTo \in Nat
  BY <1>1, <1>2, LenProperties
<1> HIDE DEF upTo
<1>4. s.responses = <<>> /\ s.electionArmed
  BY NothingOwed DEF Fit, Timed
<1>5. /\ Sane(reset) /\ reset.role = s.role /\ reset.term = s.term
      /\ reset.electionArmed /\ reset.responses = <<>> /\ reset.out = s.out
  BY <1>4, ResetTame DEF Fit, SameBacklog
<1> HIDE DEF reset
<1>6. /\ Tame(i, reset, requeued) /\ requeued.responses = <<>> /\ requeued.out = s.out
      /\ \A k \in DOMAIN requeued.inflight : requeued.inflight[k].to = j
  BY <1>5, RequeueNotToTame
<1> HIDE DEF requeued
<1>7. /\ Sane(known) /\ known.role = "follower" /\ known.term = s.term /\ known.leader = j
      /\ known.log = log /\ known.electionArmed /\ known.responses = <<>>
      /\ known.inflight = requeued.inflight /\ known.out = s.out
  <2>1. Sane(requeued) /\ SameReign(reset, requeued)
    BY <1>6 DEF Tame
  <2> QED
    BY <1>2, <1>5, <1>6, <2>1 DEF Sane, Shape, SameReign
<1> HIDE DEF known
<1>8. /\ Tame(i, known, v) /\ SameBacklog(known, v) /\ v.log = log /\ v.responses = <<>>
      /\ v.out = s.out
  <2> DEFINE committed == Commit(known, upTo)
  <2>1. /\ Tame(i, known, committed) /\ SameBacklog(known, committed)
        /\ committed.log = log /\ committed.responses = <<>>
    BY <1>3, <1>7, CommitTame
  <2>2. committed.out = s.out
    BY <1>7 DEF Commit, Sane, Shape
  <2>3. v = committed \/ v = known
    OBVIOUS
  <2> HIDE DEF committed, v
  <2> QED
    BY <1>7, <2>1, <2>2, <2>3, TameSelf DEF SameBacklog
<1> HIDE DEF v
<1>9. /\ Sane(v) /\ v.role = "follower" /\ v.term = s.term /\ v.leader = j
      /\ v.electionArmed /\ v.inflight = requeued.inflight
  BY <1>7, <1>8 DEF Tame, SameReign, SameBacklog
<1>10. /\ Sane(w) /\ w.role = "follower" /\ w.term = s.term /\ w.leader = j
       /\ w.log = log /\ w.responses = <<>> /\ w.electionArmed
       /\ w.inflight = requeued.inflight
       /\ \A k \in Server : \A n \in w.out[k] : n \in s.out[k] \/ (k = j /\ n = ack)
  BY <1>8, <1>9 DEF Post, Sane, Shape
<1>11. Unflushed(w)
  BY <1>6, <1>10 DEF Unflushed
<1> HIDE DEF w
<1>12. Tame(i, w, u) /\ Routed(u)
  BY <1>10, <1>11, FlushTame
<1> HIDE DEF u
<1>13. /\ Sane(u) /\ u.role = "follower" /\ u.term = s.term /\ u.leader = j
       /\ u.log = log /\ u.electionArmed
  BY <1>10, <1>12 DEF Tame, SameReign, Grown
<1>14. Fit(u)
  BY <1>10, <1>12, <1>13 DEF Tame, Owed, Fit, Timed
<1>15. /\ ack.type = "AppendEntriesResponse" /\ ack \in AppendResponses
       /\ ack = AppendResponse(u.term, TRUE, Len(u.log), 0, 0)
  <2>1. s.term \in Nat
    BY DEF Fit, Sane
  <2> QED
    BY <1>3, <1>13, <2>1 DEF AppendResponse, AppendResponses, Hints
<1> HIDE DEF ack
<1>16. ASSUME NEW k \in Server, NEW n \in u.out[k]
       PROVE  /\ Letter(n) /\ n.type \notin {"AppendEntries", "RequestVote"}
              /\ n.type = "AppendEntriesResponse" =>
                   k = j /\ n = AppendResponse(u.term, TRUE, Len(u.log), 0, 0)
  <2>1. CASE n \in s.out[k]
    BY <2>1 DEF Letter, OnlyAnswers
  <2>2. CASE k = j /\ n = ack
    BY <1>15, <2>2 DEF Letter
  <2>3. CASE Helps(i, k, u, n)
    BY <1>13, <2>3 DEF Helps, Vouched, Letter
  <2> QED
    BY <1>10, <1>12, <2>1, <2>2, <2>3 DEF Tame
<1>17. Accepts(i, s, u, j, m)
  BY <1>13, <1>14, <1>16 DEF Accepts, log
<1> QED
  BY <1>12, <1>17 DEF Accept, u, w, v, known, requeued, reset, upTo, log, ack

\* A leader that meets no AppendEntries of its own term is a follower by then;
\* what is not accepted is refused.
LEMMA AppendEntriesRuns ==
  ASSUME NEW i \in Server, NEW j \in Server, j # i, NEW s, Fit(s), Routed(s),
         s.out = NoMessages, NEW m \in AppendRequests,
         s.role = "leader" => m.term # s.term
  PROVE  LET u == HandleAppendEntries(s, i, j, m)
         IN Routed(u) /\ ((Turn(i, s, u) /\ Refused(j, u)) \/ Accepts(i, s, u, j, m))
<1> DEFINE u == IF m.term > s.term THEN BecomeFollower(s, m.term)
                ELSE IF s.role = "candidate" THEN YieldToLeader(s)
                ELSE s
           stale == AppendResponse(s.term, FALSE, 0, 0, 0)
           w == HandleAppendEntries(s, i, j, m)
<1>1. /\ m.term \in Nat /\ s.term \in Nat /\ s.role \in Roles
      /\ OnlyAnswers(s)
  BY DEF AppendRequests, Fit, Sane, NoMessages, OnlyAnswers
<1>2. CASE IsStale(s, m)
  <2>1. Writ(i, j, s, stale) /\ stale.type = "AppendEntriesResponse" /\ ~stale.ok
    BY <1>1 DEF stale, AppendResponse, Writ, Letter, AppendResponses, Hints
  <2> HIDE DEF stale
  <2>2. /\ Turn(i, s, Post(s, j, stale)) /\ Routed(Post(s, j, stale))
        /\ Refused(j, Post(s, j, stale))
    BY <2>1, TurnSelf, TurnPost, RefusedPost DEF Fit, Sane
  <2>3. w = Post(s, j, stale)
    BY <1>2 DEF HandleAppendEntries, stale
  <2> QED
    BY <2>2, <2>3
<1>3. CASE ~IsStale(s, m)
  <2>1. /\ Turn(i, s, u) /\ Routed(u) /\ u.role = "follower" /\ u.term = m.term
        /\ u.log = s.log /\ OnlyAnswers(u)
    <3>1. CASE m.term > s.term
      <4> DEFINE b == BecomeFollower(s, m.term)
      <4>1. u = b
        BY <3>1
      <4>2. /\ Turn(i, s, b) /\ Routed(b) /\ b.role = "follower" /\ b.term = m.term
            /\ b.log = s.log /\ OnlyAnswers(b)
        BY <1>1, BecomeFollowerTurn
      <4> HIDE DEF u, b
      <4> QED
        BY <4>1, <4>2
    <3>2. CASE m.term = s.term /\ s.role = "candidate"
      <4> DEFINE y == YieldToLeader(s)
      <4>1. u = y
        BY <1>1, <3>2
      <4>2. s.responses = <<>> /\ s.leader = Nobody /\ s.inflight = <<>>
        BY <3>2, NothingOwed DEF Fit, Routed
      <4>3. /\ Sane(y) /\ y.role = "follower" /\ y.term = s.term /\ y.leader = Nobody
            /\ y.log = s.log /\ y.commit = s.commit /\ y.electionArmed
            /\ y.responses = <<>> /\ y.inflight = <<>> /\ y.out = NoMessages
        BY <4>2 DEF YieldToLeader, Fit, Sane, Shape, Roles
      <4> HIDE DEF u, y
      <4>4. Turn(i, s, y) /\ Routed(y)
        BY <4>3 DEF Turn, Fit, Timed, Owed, Kept, NoMessages, Routed
      <4> QED
        BY <3>2, <4>1, <4>3, <4>4 DEF NoMessages, OnlyAnswers
    <3>3. CASE m.term = s.term /\ s.role = "follower"
      <4>1. u = s
        BY <1>1, <3>3
      <4> HIDE DEF u
      <4> QED
        BY <1>1, <3>3, <4>1, TurnSelf
    <3> QED
      BY <1>1, <1>3, <3>1, <3>2, <3>3 DEF IsStale, Roles
  <2>2. w = IF IsLogMatching(u, m) THEN Accept(u, i, j, m) ELSE Post(u, j, Reject(u, m))
    BY <1>3 DEF HandleAppendEntries
  <2> HIDE DEF u, w
  <2>3. CASE IsLogMatching(u, m)
    <3>1. Accepts(i, u, w, j, m) /\ Routed(w)
      BY <2>1, <2>2, <2>3, AcceptTakes DEF Turn
    <3>2. Accepts(i, s, w, j, m)
      BY <2>1, <3>1 DEF Accepts, IsLogMatching
    <3> QED
      BY <3>1, <3>2 DEF w
  <2>4. CASE ~IsLogMatching(u, m)
    <3>1. /\ Reject(u, m) \in AppendResponses
          /\ Reject(u, m).term = u.term /\ Reject(u, m).ok = FALSE
      BY <2>1, <2>4, RejectType DEF Turn, Fit
    <3>2. Writ(i, j, u, Reject(u, m)) /\ Reject(u, m).type = "AppendEntriesResponse"
      BY <3>1 DEF Writ, Letter, AppendResponses
    <3>3. Refused(j, Post(u, j, Reject(u, m)))
      BY <2>1, <3>1, <3>2, RefusedPost DEF Turn, Fit, Sane
    <3> QED
      BY <2>1, <2>2, <2>4, <3>2, <3>3, TurnPost DEF w
  <2> QED
    BY <2>3, <2>4
<1> QED
  BY <1>2, <1>3

=============================================================================
