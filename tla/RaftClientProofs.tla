-------------------------- MODULE RaftClientProofs --------------------------
(***************************************************************************)
(* No client command is lost and none is answered twice.                   *)
(*                                                                         *)
(* A command that a client gave to a node is pending there, in flight,     *)
(* owed or answered: HeldOnce.  Keeps says of a helper that what was held  *)
(* once is held once after it, in whatever form; it is transitive, so a    *)
(* handler keeps what each of its helpers keeps.                           *)
(*                                                                         *)
(* The last part is about the store and the answers: Stored has the types  *)
(* that the other invariants leave out, and together they make TypeOK.     *)
(***************************************************************************)
EXTENDS RaftDeliveryProofs

-----------------------------------------------------------------------------
(* Occurrences in sequences *)

One(S) == \E x \in S : \A y \in S : y = x

\* What was in S nowhere is in T nowhere, and once if it was in S once.
Yields(S, T) == (S = {} => T = {}) /\ (One(S) => One(T))

Occurs(q, A) == {n \in DOMAIN q : q[n] \in A}

LEMMA OccursJoined ==
  ASSUME NEW X, NEW q \in Seq(X), NEW r \in Seq(X), NEW A
  PROVE  LET Q == Occurs(q, A)
             R == Occurs(r, A)
             C == Occurs(q \o r, A)
         IN /\ Q = {} => Yields(R, C)
            /\ R = {} => Yields(Q, C)
<1> DEFINE c == q \o r
           a == Len(q)
           b == Len(r)
           Q == Occurs(q, A)
           R == Occurs(r, A)
           C == Occurs(c, A)
<1>1. /\ Extension(c, q, r)
      /\ DOMAIN q = 1..a /\ DOMAIN r = 1..b
  BY Joined, LenProperties
<1>2. /\ a \in Nat /\ b \in Nat /\ DOMAIN c = 1..(a + b)
      /\ \A k \in 1..a : c[k] = q[k]
      /\ \A k \in 1..b : c[a + k] = r[k]
  BY <1>1 DEF Extension
<1> HIDE DEF c, a, b
<1>3. ASSUME NEW k \in C
      PROVE  k \in Q \/ (k \in Nat /\ k - a \in R)
  <2>1. k \in 1..(a + b) /\ c[k] \in A
    BY <1>2 DEF Occurs
  <2>2. CASE k \in 1..a
    BY <1>1, <1>2, <2>1, <2>2 DEF Occurs
  <2>3. CASE k \notin 1..a
    <3>1. k - a \in 1..b /\ a + (k - a) = k /\ k \in Nat
      BY <1>2, <2>1, <2>3
    <3>2. r[k - a] \in A
      BY <1>2, <2>1, <3>1
    <3> QED
      BY <1>1, <3>1, <3>2 DEF Occurs
  <2> QED
    BY <2>2, <2>3
<1>4. \A k \in Q : k \in C
  <2>1. \A k \in 1..a : k \in 1..(a + b)
    BY <1>2
  <2> QED
    BY <1>1, <1>2, <2>1 DEF Occurs
<1>5. \A k \in R : a + k \in C /\ k \in Nat
  <2>1. \A k \in 1..b : a + k \in 1..(a + b) /\ k \in Nat
    BY <1>2
  <2> QED
    BY <1>1, <1>2, <2>1 DEF Occurs
<1> HIDE DEF Q, R, C
<1>6. ASSUME Q = {}
      PROVE  Yields(R, C)
  <2>1. R = {} => C = {}
    BY <1>3, <1>6
  <2>2. ASSUME NEW x \in R, \A y \in R : y = x
        PROVE  One(C)
    <3>1. a + x \in C /\ x \in Nat
      BY <1>5
    <3>2. ASSUME NEW y \in C
          PROVE  y = a + x
      <4>1. y \in Nat /\ y - a \in R
        BY <1>3, <1>6
      <4>2. y - a = x
        BY <2>2, <4>1
      <4> QED
        BY <1>2, <3>1, <4>1, <4>2
    <3> QED
      BY <3>1, <3>2 DEF One
  <2> QED
    BY <2>1, <2>2 DEF Yields, One
<1>7. ASSUME R = {}
      PROVE  Yields(Q, C)
  <2>1. \A k : k \in C <=> k \in Q
    BY <1>3, <1>4, <1>7
  <2>2. C = Q
    BY <2>1
  <2> QED
    BY <2>2 DEF Yields
<1> QED
  BY <1>6, <1>7 DEF Q, R, C, c

\* The filter keeps the elements of S, each as often as it was there.
LEMMA OccursFiltered ==
  ASSUME NEW X, NEW q \in Seq(X), NEW S, NEW A
  PROVE  Yields(Occurs(q, A \cap S), Occurs(Filter(q, S), A))
<1> DEFINE N == Len(q)
           f == CHOOSE g : Upto(q, S, N, g)
           before(n) == {k \in 1..n : q[k] \in A \cap S}
           good(n) == /\ f[n] \in Seq(X)
                      /\ Occurs(f[n], A) = {} <=> before(n) = {}
                      /\ One(before(n)) => One(Occurs(f[n], A))
           Bad == {n \in 0..N : ~good(n)}
<1>1. Filter(q, S) = f[N]
  BY DEF Filter, Upto
<1>2. N \in Nat /\ DOMAIN q = 1..N /\ \A n \in 1..N : q[n] \in X
  BY LenProperties
<1>3. Upto(q, S, N, f)
  BY <1>2, FilterExists
<1> HIDE DEF f
<1>4. \A k \in 0..N :
        f[k] = IF k = 0 THEN <<>>
               ELSE IF q[k] \in S THEN Append(f[k - 1], q[k]) ELSE f[k - 1]
  BY <1>3 DEF Upto
<1>5. ASSUME NEW m \in 1..N, good(m - 1)
      PROVE  good(m)
  <2> DEFINE g == f[m - 1]
             h == f[m]
             P == before(m - 1)
  <2>1. m \in 0..N /\ m # 0 /\ m \in Nat /\ m - 1 \in Nat
        /\ 1..m = 1..(m - 1) \cup {m} /\ m \notin 1..(m - 1)
    BY <1>2
  <2>2. h = IF q[m] \in S THEN Append(g, q[m]) ELSE g
    BY <1>4, <2>1
  <2>3. /\ g \in Seq(X) /\ (Occurs(g, A) = {} <=> P = {})
        /\ (One(P) => One(Occurs(g, A)))
        /\ Len(g) \in Nat /\ DOMAIN g = 1..Len(g)
    BY <1>5, LenProperties
  <2>4. before(m) = IF q[m] \in A \cap S THEN P \cup {m} ELSE P
    BY <2>1
  <2>5. m \notin P
    BY <2>1
  <2> DEFINE B == before(m)
  <2> HIDE DEF g, h, P, B
  <2>6. CASE q[m] \notin S
    BY <2>2, <2>3, <2>4, <2>6 DEF g, h, P, B
  <2>7. CASE q[m] \in S
    <3> DEFINE l == Len(g)
    <3>1. /\ h \in Seq(X) /\ DOMAIN h = 1..(l + 1)
          /\ h[l + 1] = q[m] /\ \A k \in 1..l : h[k] = g[k]
      <4>1. h = Append(g, q[m]) /\ q[m] \in X
        BY <1>2, <2>2, <2>7
      <4>2. /\ h \in Seq(X) /\ Len(h) = l + 1 /\ h[l + 1] = q[m]
            /\ \A k \in 1..l : h[k] = g[k]
        BY <2>3, <4>1, AppendProperties
      <4> QED
        <5>1. DOMAIN h = 1..Len(h)
          BY <4>2, LenProperties
        <5> QED
          BY <4>2, <5>1
    <3>2. 1..(l + 1) = 1..l \cup {l + 1} /\ l + 1 \notin 1..l
      BY <2>3
    <3> HIDE DEF l
    <3>3. DOMAIN g = 1..l
      BY <2>3 DEF l
    <3>4. CASE q[m] \notin A
      <4>1. Occurs(h, A) = Occurs(g, A)
        BY <3>1, <3>2, <3>3, <3>4 DEF Occurs
      <4> QED
        BY <2>3, <2>4, <3>1, <3>4, <4>1 DEF h, P, B
    <3>5. CASE q[m] \in A
      <4>1. Occurs(h, A) = Occurs(g, A) \cup {l + 1} /\ l + 1 \notin Occurs(g, A)
        BY <3>1, <3>2, <3>3, <3>5 DEF Occurs
      <4>2. B = P \cup {m}
        BY <2>4, <2>7, <3>5 DEF B
      <4>3. One(B) => P = {}
        BY <2>5, <4>2 DEF One
      <4>4. P = {} => One(Occurs(h, A))
        BY <2>3, <4>1 DEF One
      <4>5. B # {} /\ Occurs(h, A) # {}
        BY <4>1, <4>2
      <4> QED
        BY <3>1, <4>3, <4>4, <4>5 DEF h, B
    <3> QED
      BY <3>4, <3>5
  <2> QED
    BY <2>6, <2>7
<1>6. good(0)
  <2>1. f[0] = <<>>
    BY <1>2, <1>4
  <2>2. <<>> \in Seq(X) /\ DOMAIN <<>> = {}
    BY EmptySeq
  <2>3. before(0) = {}
    OBVIOUS
  <2>4. Occurs(<<>>, A) = {}
    BY <2>2 DEF Occurs
  <2> QED
    BY <2>1, <2>2, <2>3, <2>4 DEF One
<1> HIDE DEF good
<1>7. Bad = {}
  <2> SUFFICES ASSUME Bad # {} PROVE FALSE
    OBVIOUS
  <2>1. Bad \subseteq Nat
    BY <1>2
  <2>2. PICK m \in Bad : \A k \in Bad : m <= k
    <3> HIDE DEF Bad
    <3> QED
      BY <2>1, LeastOf
  <2>3. m # 0
    BY <1>6, <2>2
  <2>4. m \in 1..N /\ m - 1 \in 0..N /\ ~(m <= m - 1)
    BY <1>2, <2>2, <2>3
  <2>5. good(m - 1)
    BY <2>2, <2>4
  <2> QED
    BY <1>5, <2>2, <2>4, <2>5
<1>8. good(N)
  BY <1>2, <1>7
<1>9. Occurs(q, A \cap S) = before(N)
  BY <1>2 DEF Occurs
<1> HIDE DEF before
<1> QED
  BY <1>1, <1>8, <1>9 DEF good, Yields

-----------------------------------------------------------------------------
(* What a node holds of a command *)

Flights(c) == {r \in Redirects : r.cmd = c}
Claims(c) == {d \in Debts : d.cmd = c /\ d.redirectTo = Nobody}

Waiting(s, c) == Occurs(s.pending, {c})
Flying(s, c) == Occurs(s.inflight, Flights(c))
Owing(s, c) == Occurs(s.responses, Claims(c))
Told(s, c) == {a \in s.answered : a.cmd = c}

Unheld(s, c) ==
  Waiting(s, c) = {} /\ Flying(s, c) = {} /\ Owing(s, c) = {} /\ Told(s, c) = {}

\* Exactly one of the four has exactly one element.
HeldOnce(s, c) ==
  \/ One(Waiting(s, c)) /\ Flying(s, c) = {} /\ Owing(s, c) = {} /\ Told(s, c) = {}
  \/ Waiting(s, c) = {} /\ One(Flying(s, c)) /\ Owing(s, c) = {} /\ Told(s, c) = {}
  \/ Waiting(s, c) = {} /\ Flying(s, c) = {} /\ One(Owing(s, c)) /\ Told(s, c) = {}
  \/ Waiting(s, c) = {} /\ Flying(s, c) = {} /\ Owing(s, c) = {} /\ One(Told(s, c))

KeepsOne(s, u, c) ==
  (Unheld(s, c) => Unheld(u, c)) /\ (HeldOnce(s, c) => HeldOnce(u, c))

Keeps(s, u) == \A c \in Commands : KeepsOne(s, u, c)

SameClients(s, u) ==
  /\ u.pending = s.pending /\ u.inflight = s.inflight
  /\ u.responses = s.responses /\ u.answered = s.answered

LEMMA SameKeeps ==
  ASSUME NEW s, NEW u, SameClients(s, u)
  PROVE  Keeps(s, u)
  BY DEF SameClients, Keeps, KeepsOne, Unheld, HeldOnce, Waiting, Flying, Owing, Told

LEMMA KeepsTrans ==
  ASSUME NEW s, NEW u, NEW v, Keeps(s, u), Keeps(u, v)
  PROVE  Keeps(s, v)
  BY DEF Keeps, KeepsOne

LEMMA YieldsSame == \A S : Yields(S, S)
  BY DEF Yields

LEMMA OneNotEmpty == \A S : One(S) => S # {}
  BY DEF One

\* The commands of redirects are where the redirects are.
LEMMA CommandsOccur ==
  ASSUME NEW q \in Seq(Redirects), NEW c
  PROVE  Occurs(CommandsOf(q), {c}) = Occurs(q, Flights(c))
<1>1. \A k \in DOMAIN q : q[k] \in Redirects
  BY LenProperties
<1> QED
  BY <1>1 DEF Occurs, CommandsOf, Flights

\* Redirects that are no longer in flight wait before what waited already.
LEMMA BackKeeps ==
  ASSUME NEW s, Sane(s), NEW u, NEW gone \in Seq(Redirects),
         u.pending = CommandsOf(gone) \o s.pending,
         u.responses = s.responses, u.answered = s.answered,
         NEW c \in Commands,
         \/ Yields(Flying(s, c), Flying(u, c)) /\ Occurs(gone, Flights(c)) = {}
         \/ Yields(Flying(s, c), Occurs(gone, Flights(c))) /\ Flying(u, c) = {}
  PROVE  KeepsOne(s, u, c)
<1> DEFINE G == Occurs(gone, Flights(c))
<1>1. /\ Waiting(s, c) = {} => Yields(G, Waiting(u, c))
      /\ G = {} => Yields(Waiting(s, c), Waiting(u, c))
  <2>1. s.pending \in Seq(Commands) /\ CommandsOf(gone) \in Seq(Commands)
    BY CommandsOfType DEF Sane
  <2>2. LET Q == Occurs(CommandsOf(gone), {c})
            R == Occurs(s.pending, {c})
            C == Occurs(CommandsOf(gone) \o s.pending, {c})
        IN /\ Q = {} => Yields(R, C)
           /\ R = {} => Yields(Q, C)
    BY <2>1, OccursJoined
  <2> QED
    BY <2>2, CommandsOccur DEF Waiting
<1>2. Owing(u, c) = Owing(s, c) /\ Told(u, c) = Told(s, c)
  BY DEF Owing, Told
<1> HIDE DEF G
<1>3. \/ Yields(Flying(s, c), Flying(u, c)) /\ G = {}
      \/ Yields(Flying(s, c), G) /\ Flying(u, c) = {}
  BY DEF G
<1> QED
  BY <1>1, <1>2, <1>3, OneNotEmpty DEF KeepsOne, Unheld, HeldOnce, Yields

LEMMA RequeueAllKeeps ==
  ASSUME NEW s, Sane(s)
  PROVE  Keeps(s, RequeueAllInflight(s))
<1> DEFINE u == RequeueAllInflight(s)
<1>1. /\ u.pending = CommandsOf(s.inflight) \o s.pending /\ u.inflight = <<>>
      /\ u.responses = s.responses /\ u.answered = s.answered
  BY DEF RequeueAllInflight, Sane, Shape
<1> HIDE DEF u
<1>2. \A c : Flying(u, c) = {}
  <2>1. DOMAIN <<>> = {}
    BY EmptySeq
  <2> QED
    BY <1>1, <2>1 DEF Flying, Occurs
<1>3. ASSUME NEW c \in Commands
      PROVE  KeepsOne(s, u, c)
  <2>1. s.inflight \in Seq(Redirects)
    BY DEF Sane
  <2>2. Yields(Flying(s, c), Occurs(s.inflight, Flights(c)))
    BY YieldsSame DEF Flying
  <2> QED
    BY <1>1, <1>2, <2>1, <2>2, BackKeeps
<1> QED
  BY <1>3 DEF Keeps, u

LEMMA RequeueNotToKeeps ==
  ASSUME NEW s, Sane(s), NEW j \in Server
  PROVE  Keeps(s, RequeueInflightNotTo(s, j))
<1> DEFINE toLeader == [cmd : Commands, to : {j}]
           elsewhere == [cmd : Commands, to : Server \ {j}]
           kept == Filter(s.inflight, toLeader)
           gone == Filter(s.inflight, elsewhere)
           u == RequeueInflightNotTo(s, j)
<1>1. /\ u.pending = CommandsOf(gone) \o s.pending /\ u.inflight = kept
      /\ u.responses = s.responses /\ u.answered = s.answered
  BY DEF RequeueInflightNotTo, Sane, Shape
<1> HIDE DEF u
<1>2. s.inflight \in Seq(Redirects)
  BY DEF Sane
<1>3. gone \in Seq(Redirects)
  <2>1. gone \in Seq(Redirects \cap elsewhere)
    BY <1>2, FilterProperties
  <2> HIDE DEF gone, elsewhere
  <2> QED
    BY <2>1
<1>4. ASSUME NEW c \in Commands
      PROVE  KeepsOne(s, u, c)
  <2> DEFINE F == Flying(s, c)
             K == Occurs(s.inflight, Flights(c) \cap toLeader)
             G == Occurs(s.inflight, Flights(c) \cap elsewhere)
  <2>1. Yields(K, Flying(u, c)) /\ Yields(G, Occurs(gone, Flights(c)))
    BY <1>1, <1>2, OccursFiltered DEF Flying
  <2>2. F = K \cup G /\ K \cap G = {}
    <3>1. \A k \in DOMAIN s.inflight : s.inflight[k] \in Redirects
      BY <1>2, LenProperties
    <3>2. \A r \in Redirects : r \in toLeader <=> r \notin elsewhere
      BY DEF Redirects
    <3> HIDE DEF toLeader, elsewhere
    <3> QED
      BY <3>1, <3>2 DEF Flying, Occurs
  <2> HIDE DEF F, K, G, gone
  <2>3. CASE F = {}
    <3>1. K = {} /\ G = {}
      BY <2>2, <2>3
    <3> QED
      BY <1>1, <1>3, <2>1, <2>3, <3>1, BackKeeps, OneNotEmpty DEF Yields, F
  <2>4. CASE One(F)
    <3>1. (K = F /\ G = {}) \/ (G = F /\ K = {})
      BY <2>2, <2>4 DEF One
    <3>2. CASE K = F /\ G = {}
      BY <1>1, <1>3, <2>1, <3>2, BackKeeps DEF Yields, F
    <3>3. CASE G = F /\ K = {}
      BY <1>1, <1>3, <2>1, <3>3, BackKeeps DEF Yields, F
    <3> QED
      BY <3>1, <3>2, <3>3
  <2>5. CASE F # {} /\ ~One(F)
    BY <2>5 DEF KeepsOne, Unheld, HeldOnce, F
  <2> QED
    BY <2>3, <2>4, <2>5
<1> QED
  BY <1>4 DEF Keeps, u

-----------------------------------------------------------------------------
(* Answers *)

LEMMA TellOne ==
  ASSUME NEW s, NEW u, NEW a, u.answered = s.answered \cup {a}, NEW c
  PROVE  /\ a.cmd # c => Told(u, c) = Told(s, c)
         /\ a.cmd = c /\ Told(s, c) = {} => One(Told(u, c))
  BY DEF Told, One

\* The drain answers the first n claims; what is owed beyond them stays owed.
LEMMA DrainKeeps ==
  ASSUME NEW s, Sane(s), NEW ok, NEW n \in 0..Len(s.responses)
  PROVE  Keeps(s, DrainPendingClientResponses(s, ok, n))
<1> DEFINE N == Len(s.responses)
           rest == SubSeq(s.responses, n + 1, N)
           drained == {s.responses[k] : k \in 1..n}
           answers == {[cmd |-> d.cmd, ok |-> ok, value |-> Absent] :
                         d \in {e \in drained : e.redirectTo = Nobody}}
           u == DrainPendingClientResponses(s, ok, n)
<1>1. /\ s.responses \in Seq(Debts) /\ N \in Nat /\ DOMAIN s.responses = 1..N
      /\ n \in Nat /\ n <= N /\ \A k \in 1..N : s.responses[k] \in Debts
  BY LenProperties DEF Sane
<1>2. /\ DOMAIN rest = 1..(N - n)
      /\ \A k \in 1..(N - n) : n + k \in 1..N /\ rest[k] = s.responses[n + k]
  BY <1>1, TailAfter
<1>3. /\ u.pending = s.pending /\ u.inflight = s.inflight /\ u.responses = rest
      /\ u.answered = s.answered \cup answers
  BY DEF DrainPendingClientResponses, Sane, Shape
<1> HIDE DEF u, rest, N
<1>4. ASSUME NEW c \in Commands
      PROVE  KeepsOne(s, u, c)
  <2> DEFINE O == Owing(s, c)
             fromNow == {a \in answers : a.cmd = c}
             T == Told(s, c)
  <2>1. Waiting(u, c) = Waiting(s, c) /\ Flying(u, c) = Flying(s, c)
        /\ Told(u, c) = T \cup fromNow
    BY <1>3 DEF Waiting, Flying, Told
  <2>2. O \subseteq 1..N
    BY <1>1 DEF Owing, Occurs
  <2>3. \A k \in Owing(u, c) : k \in Nat /\ n + k \in O
    BY <1>1, <1>2, <1>3 DEF Owing, Occurs
  <2>4. ASSUME NEW a \in fromNow
        PROVE  a = [cmd |-> c, ok |-> ok, value |-> Absent] /\ \E k \in O : k <= n
    <3>1. PICK k \in 1..n : /\ s.responses[k].redirectTo = Nobody
                            /\ a = [cmd |-> s.responses[k].cmd, ok |-> ok, value |-> Absent]
      OBVIOUS
    <3>2. k \in 1..N /\ k <= n /\ s.responses[k].cmd = c
      BY <1>1, <2>4, <3>1
    <3>3. k \in O
      BY <1>1, <3>1, <3>2 DEF Owing, Occurs, Claims
    <3> QED
      BY <3>1, <3>2, <3>3
  <2>5. ASSUME NEW k \in O, k <= n
        PROVE  [cmd |-> c, ok |-> ok, value |-> Absent] \in fromNow
    <3>1. k \in 1..n /\ s.responses[k].cmd = c /\ s.responses[k].redirectTo = Nobody
      BY <1>1, <2>2, <2>5 DEF Owing, Occurs, Claims
    <3> QED
      BY <3>1
  <2>6. ASSUME NEW k \in O, k > n
        PROVE  k - n \in Owing(u, c)
    <3>1. k - n \in 1..(N - n) /\ n + (k - n) = k
      BY <1>1, <2>2, <2>6
    <3>2. rest[k - n] = s.responses[k]
      BY <1>2, <3>1
    <3> QED
      BY <1>2, <1>3, <3>1, <3>2 DEF Owing, Occurs
  <2> HIDE DEF O, fromNow, T
  <2>7. CASE O = {}
    <3>1. Owing(u, c) = {} /\ fromNow = {}
      BY <2>3, <2>4, <2>7
    <3>2. Told(u, c) = T
      BY <2>1, <3>1
    <3> QED
      BY <2>1, <2>7, <3>1, <3>2 DEF KeepsOne, Unheld, HeldOnce, O, T
  <2>8. ASSUME HeldOnce(s, c), O # {}
        PROVE  HeldOnce(u, c)
    <3>1. One(O) /\ Waiting(s, c) = {} /\ Flying(s, c) = {} /\ T = {}
      BY <2>8 DEF HeldOnce, O, T
    <3>2. PICK k \in O : \A l \in O : l = k
      BY <3>1 DEF One
    <3>3. CASE k <= n
      <4>1. Owing(u, c) = {}
        <5>1. \A l \in Owing(u, c) : n + l = k /\ l \in Nat
          BY <2>3, <3>2
        <5>2. \A l \in Owing(u, c) : l >= 1
          BY <1>2, <1>3 DEF Owing, Occurs
        <5> QED
          BY <1>1, <3>3, <5>1, <5>2
      <4>2. One(fromNow)
        BY <2>4, <2>5, <3>3 DEF One
      <4>3. Told(u, c) = fromNow
        BY <2>1, <3>1
      <4> QED
        BY <2>1, <3>1, <4>1, <4>2, <4>3 DEF HeldOnce
    <3>4. CASE ~(k <= n)
      <4>1. k \in Nat /\ k > n
        BY <1>1, <2>2, <3>4
      <4>2. fromNow = {}
        BY <2>4, <3>2, <3>4
      <4>3. k - n \in Owing(u, c)
        BY <2>6, <4>1
      <4>4. \A l \in Owing(u, c) : l = k - n
        <5>1. \A l \in Owing(u, c) : n + l = k /\ l \in Nat
          BY <2>3, <3>2
        <5> QED
          BY <1>1, <5>1
      <4>5. Told(u, c) = {}
        BY <2>1, <3>1, <4>2
      <4> QED
        BY <2>1, <3>1, <4>3, <4>4, <4>5 DEF HeldOnce, One
    <3> QED
      BY <3>3, <3>4
  <2>9. Unheld(s, c) => O = {}
    BY DEF Unheld, O
  <2> QED
    BY <2>7, <2>8, <2>9 DEF KeepsOne
<1> QED
  BY <1>4 DEF Keeps, u

LEMMA CommitClients ==
  ASSUME NEW s, Shape(s), NEW n
  PROVE  SameClients(s, Commit(s, n))
  BY DEF Commit, Shape, SameClients

\* UpdateCommitIndex answers what the commit covers.
LEMMA UpdateCommitIndexKeeps ==
  ASSUME NEW i \in Server, NEW s, Sane(s)
  PROVE  Keeps(s, UpdateCommitIndex(s, i))
<1> DEFINE candidate == MajorityMatch(s, i)
           committed == Commit(s, candidate)
           n == CommittedResponses(committed)
           drained == DrainPendingClientResponses(committed, TRUE, n)
           u == UpdateCommitIndex(s, i)
<1>1. candidate \in Nat
  BY MajorityMatchBacked
<1>2. u \in {s, drained}
  BY DEF UpdateCommitIndex
<1> HIDE DEF candidate, u
<1>3. Sane(committed)
  BY <1>1, CommitTame DEF Tame
<1>4. SameClients(s, committed)
  BY CommitClients DEF Sane
<1> HIDE DEF committed
<1>5. n \in 0..Len(committed.responses)
  BY <1>3, CommittedPrefix
<1> HIDE DEF n
<1>6. Keeps(committed, drained)
  <2>1. \A ok : Keeps(committed, DrainPendingClientResponses(committed, ok, n))
    BY <1>3, <1>5, DrainKeeps
  <2> QED
    BY <2>1, Zenon
<1> HIDE DEF drained
<1>7. Keeps(s, s) /\ Keeps(s, drained)
  BY <1>4, <1>6, SameKeeps, KeepsTrans DEF SameClients
<1> QED
  BY <1>2, <1>7 DEF u

-----------------------------------------------------------------------------
(* Taking, executing and forwarding commands *)

\* A command that was nowhere is held, the others are kept.
Takes(s, u, c) ==
  /\ Unheld(s, c) => HeldOnce(u, c)
  /\ \A d \in Commands \ {c} : KeepsOne(s, u, d)

LEMMA TakesKept ==
  ASSUME NEW s, NEW u, NEW v, NEW c \in Commands, Takes(s, u, c), Keeps(u, v)
  PROVE  Takes(s, v, c)
  BY DEF Takes, Keeps, KeepsOne

LEMMA OccursAppended ==
  ASSUME NEW X, NEW q \in Seq(X), NEW x \in X, NEW A
  PROVE  /\ x \notin A => Occurs(Append(q, x), A) = Occurs(q, A)
         /\ x \in A /\ Occurs(q, A) = {} => One(Occurs(Append(q, x), A))
<1> DEFINE l == Len(q)
           h == Append(q, x)
<1>1. l \in Nat /\ DOMAIN q = 1..l
  BY LenProperties
<1>2. /\ DOMAIN h = 1..(l + 1) /\ h[l + 1] = x
      /\ \A k \in 1..l : h[k] = q[k]
  <2>1. /\ h \in Seq(X) /\ Len(h) = l + 1 /\ h[l + 1] = x
        /\ \A k \in 1..l : h[k] = q[k]
    BY AppendProperties
  <2>2. DOMAIN h = 1..Len(h)
    BY <2>1, LenProperties
  <2> QED
    BY <2>1, <2>2
<1>3. 1..(l + 1) = 1..l \cup {l + 1} /\ l + 1 \notin 1..l
  BY <1>1
<1> HIDE DEF h, l
<1>4. CASE x \notin A
  <2>1. Occurs(h, A) = Occurs(q, A)
    BY <1>1, <1>2, <1>3, <1>4 DEF Occurs
  <2> QED
    BY <1>4, <2>1 DEF h
<1>5. CASE x \in A
  <2>1. Occurs(h, A) = Occurs(q, A) \cup {l + 1}
    BY <1>1, <1>2, <1>3, <1>5 DEF Occurs
  <2>2. Occurs(q, A) = {} => One(Occurs(h, A))
    BY <2>1 DEF One
  <2> QED
    BY <1>5, <2>2 DEF h
<1> QED
  BY <1>4, <1>5

\* A client at this node is answered, or another node is.
LEMMA RespondKeeps ==
  ASSUME NEW s, Shape(s), NEW to, NEW cmd \in Commands, NEW ok, NEW value
  PROVE  LET u == Respond(s, to, cmd, ok, value)
         IN /\ to = Nobody => Takes(s, u, cmd)
            /\ to # Nobody => Keeps(s, u)
<1> DEFINE a == [cmd |-> cmd, ok |-> ok, value |-> value]
           told == [s EXCEPT !.answered = @ \cup {a}]
           posted == Post(s, to, RedirectResponse(cmd, ok, value))
           u == Respond(s, to, cmd, ok, value)
<1>1. CASE to = Nobody
  <2>1. /\ told.pending = s.pending /\ told.inflight = s.inflight
        /\ told.responses = s.responses /\ told.answered = s.answered \cup {a}
        /\ a.cmd = cmd
    BY DEF Shape
  <2>2. u = told
    BY <1>1 DEF Respond
  <2> HIDE DEF told, a, u
  <2>3. \A c : /\ cmd # c => Told(told, c) = Told(s, c)
               /\ cmd = c /\ Told(s, c) = {} => One(Told(told, c))
    BY <2>1, TellOne
  <2>4. \A c : /\ Waiting(told, c) = Waiting(s, c) /\ Flying(told, c) = Flying(s, c)
               /\ Owing(told, c) = Owing(s, c)
    BY <2>1 DEF Waiting, Flying, Owing
  <2>5. \A d \in Commands \ {cmd} : KeepsOne(s, told, d)
    BY <2>3, <2>4 DEF KeepsOne, Unheld, HeldOnce
  <2>6. Unheld(s, cmd) => HeldOnce(told, cmd)
    BY <2>3, <2>4 DEF Unheld, HeldOnce
  <2> QED
    BY <1>1, <2>2, <2>5, <2>6 DEF Takes, u
<1>2. CASE to # Nobody
  <2>1. SameClients(s, posted)
    BY DEF Post, Shape, SameClients
  <2>2. u = posted
    BY <1>2 DEF Respond
  <2> HIDE DEF posted
  <2> QED
    BY <1>2, <2>1, <2>2, SameKeeps
<1> QED
  BY <1>1, <1>2

LEMMA SendKeeps ==
  ASSUME NEW s, Shape(s), NEW peers
  PROVE  SameClients(s, SendAppendEntries(s, peers))
  BY DEF SendAppendEntries, Shape, SameClients

LEMMA ExecuteKeeps ==
  ASSUME NEW i \in Server, NEW s, Sane(s), s.role = "leader",
         NEW cmd \in Commands, NEW to \in Server \cup {Nobody}
  PROVE  LET u == ExecuteClientCommand(s, i, cmd, to)
         IN /\ to = Nobody => Takes(s, u, cmd)
            /\ to # Nobody => Keeps(s, u)
<1> DEFINE w == ExecuteClientCommand(s, i, cmd, to)
<1>1. CASE cmd \in Reads
  <2>1. \A ok \in BOOLEAN : \A value :
          LET u == Respond(s, to, cmd, ok, value)
          IN /\ to = Nobody => Takes(s, u, cmd)
             /\ to # Nobody => Keeps(s, u)
    BY RespondKeeps DEF Sane
  <2>2. w = Respond(s, to, cmd, TRUE, s.kv[Key[cmd]])
    BY <1>1 DEF ExecuteClientCommand
  <2> HIDE DEF w
  <2>3. (to = Nobody => Takes(s, w, cmd)) /\ (to # Nobody => Keeps(s, w))
    BY <2>1, <2>2, Zenon
  <2> QED
    BY <2>3 DEF w
<1>2. CASE cmd \notin Reads
  <2> DEFINE entry == Entry(s, cmd)
             debt == [index |-> Len(s.log) + 1, redirectTo |-> to, cmd |-> cmd]
             appended == [s EXCEPT !.log = Append(@, entry),
                                   !.responses = Append(@, debt)]
             sent == SendAppendEntries(appended, Peers(i))
             u == UpdateCommitIndex(sent, i)
  <2>1. w = u
    BY <1>2 DEF ExecuteClientCommand
  <2>2. /\ s.log \in Seq(Entries) /\ Len(s.log) \in Nat
        /\ s.responses \in Seq(Debts) /\ s.term \in Nat
    BY SaneLog DEF Sane
  <2>3. entry \in Entries /\ debt \in Debts /\ debt.cmd = cmd /\ debt.redirectTo = to
    BY <1>2, <2>2 DEF Entry, Entries, Debts, Commands
  <2> HIDE DEF entry, debt
  <2>4. Append(s.log, entry) \in Seq(Entries) /\ Append(s.responses, debt) \in Seq(Debts)
    BY <2>2, <2>3, AppendProperties
  <2>5. /\ Sane(appended) /\ appended.role = "leader"
        /\ appended.pending = s.pending /\ appended.inflight = s.inflight
        /\ appended.responses = Append(s.responses, debt)
        /\ appended.answered = s.answered
    BY <2>4 DEF Sane, Shape
  <2> HIDE DEF appended
  <2>6. \A c : /\ debt \notin Claims(c) => Owing(appended, c) = Owing(s, c)
               /\ debt \in Claims(c) /\ Owing(s, c) = {} => One(Owing(appended, c))
    BY <2>2, <2>3, <2>5, OccursAppended DEF Owing
  <2>7. \A c : debt \in Claims(c) <=> c = cmd /\ to = Nobody
    BY <2>3 DEF Claims
  <2>8. \A c : /\ Waiting(appended, c) = Waiting(s, c) /\ Flying(appended, c) = Flying(s, c)
               /\ Told(appended, c) = Told(s, c)
    BY <2>5 DEF Waiting, Flying, Told
  <2>9. to = Nobody => Takes(s, appended, cmd)
    <3>1. to = Nobody => (Unheld(s, cmd) => HeldOnce(appended, cmd))
      BY <2>6, <2>7, <2>8 DEF Unheld, HeldOnce
    <3>2. \A d \in Commands \ {cmd} : KeepsOne(s, appended, d)
      BY <2>6, <2>7, <2>8 DEF KeepsOne, Unheld, HeldOnce
    <3> QED
      BY <3>1, <3>2 DEF Takes
  <2>10. to # Nobody => Keeps(s, appended)
    BY <2>6, <2>7, <2>8 DEF Keeps, KeepsOne, Unheld, HeldOnce
  <2>11. Sane(sent) /\ Keeps(appended, sent)
    <3>1. Sane(sent)
      BY <2>5, SendTame DEF Tame, Peers
    <3>2. SameClients(appended, sent)
      BY <2>5, SendKeeps DEF Sane
    <3> HIDE DEF sent
    <3> QED
      BY <3>1, <3>2, SameKeeps
  <2> HIDE DEF sent
  <2>12. Keeps(appended, u)
    BY <2>11, UpdateCommitIndexKeeps, KeepsTrans
  <2> HIDE DEF u, w
  <2>13. (to = Nobody => Takes(s, w, cmd)) /\ (to # Nobody => Keeps(s, w))
    BY <2>1, <2>9, <2>10, <2>12, KeepsTrans, TakesKept
  <2> QED
    BY <2>13 DEF w
<1> QED
  BY <1>1, <1>2

\* The commands are put in flight, each to the leader.
LEMMA ForwardHolds ==
  ASSUME NEW s, Sane(s), s.leader \in Server, NEW cmds \in Seq(Commands), NEW c \in Commands
  PROVE  LET u == ForwardToLeader(s, cmds)
             C == Occurs(cmds, {c})
         IN /\ Waiting(u, c) = Waiting(s, c) /\ Owing(u, c) = Owing(s, c)
            /\ Told(u, c) = Told(s, c)
            /\ Flying(s, c) = {} => Yields(C, Flying(u, c))
            /\ C = {} => Yields(Flying(s, c), Flying(u, c))
<1> DEFINE sent == [k \in DOMAIN cmds |-> [cmd |-> cmds[k], to |-> s.leader]]
           u == ForwardToLeader(s, cmds)
           C == Occurs(cmds, {c})
           R == Occurs(sent, Flights(c))
<1>1. /\ Len(cmds) \in Nat /\ DOMAIN cmds = 1..Len(cmds)
      /\ \A k \in DOMAIN cmds : cmds[k] \in Commands
  BY LenProperties
<1>2. sent \in Seq(Redirects)
  <2>1. sent \in [1..Len(cmds) -> Redirects]
    BY <1>1 DEF Redirects
  <2> HIDE DEF sent
  <2> QED
    BY <1>1, <2>1, SeqDef
<1>3. R = C
  <2>1. \A k \in DOMAIN cmds : sent[k] \in Flights(c) <=> cmds[k] = c
    BY <1>1 DEF Flights, Redirects
  <2>2. DOMAIN sent = DOMAIN cmds
    OBVIOUS
  <2> HIDE DEF sent
  <2> QED
    BY <2>1, <2>2 DEF Occurs
<1>4. /\ u.pending = s.pending /\ u.responses = s.responses
      /\ u.answered = s.answered /\ u.inflight = s.inflight \o sent
  BY DEF ForwardToLeader, Sane, Shape
<1> HIDE DEF u, sent
<1>5. LET Q == Occurs(s.inflight, Flights(c))
          F == Occurs(s.inflight \o sent, Flights(c))
      IN /\ Q = {} => Yields(R, F)
         /\ R = {} => Yields(Q, F)
  BY <1>2, OccursJoined DEF Sane
<1> HIDE DEF R, C
<1>6. /\ Flying(s, c) = {} => Yields(C, Flying(u, c))
      /\ C = {} => Yields(Flying(s, c), Flying(u, c))
  BY <1>3, <1>4, <1>5 DEF Flying
<1> QED
  BY <1>4, <1>6 DEF u, C, Waiting, Owing, Told

\* A new leader owes its pending writes and answers its pending reads.
LEMMA ExecutePendingKeeps ==
  ASSUME NEW i \in Server, NEW s, Sane(s)
  PROVE  Keeps(s, ExecutePending(s, i))
<1> DEFINE writes == Filter(s.pending, Writes)
           base == Len(s.log)
           debts == [k \in DOMAIN writes |->
                       [index |-> base + k, redirectTo |-> Nobody, cmd |-> writes[k]]]
           reads == {c \in Reads : \E k \in DOMAIN s.pending : s.pending[k] = c}
           answer(c) == [cmd |-> c, ok |-> TRUE, value |-> s.kv[Key[c]]]
           u == ExecutePending(s, i)
<1>1. /\ u.pending = <<>> /\ u.inflight = s.inflight
      /\ u.responses = s.responses \o debts
      /\ u.answered = s.answered \cup {answer(c) : c \in reads}
  BY DEF ExecutePending, Sane, Shape
<1>2. s.pending \in Seq(Commands) /\ s.responses \in Seq(Debts) /\ base \in Nat
  BY SaneLog DEF Sane
<1>3. /\ writes \in Seq(Writes) /\ Len(writes) \in Nat /\ DOMAIN writes = 1..Len(writes)
      /\ \A k \in DOMAIN writes : writes[k] \in Writes
  <2>1. writes \in Seq(Commands \cap Writes)
    BY <1>2, FilterProperties
  <2>2. Commands \cap Writes = Writes
    BY DEF Commands
  <2> HIDE DEF writes
  <2>3. writes \in Seq(Writes)
    BY <2>1, <2>2
  <2> QED
    BY <2>3, LenProperties
<1>4. \A c : Yields(Occurs(s.pending, {c} \cap Writes), Occurs(writes, {c}))
  BY <1>2, OccursFiltered
<1> HIDE DEF u, writes, base
<1>5. debts \in Seq(Debts)
  <2>1. debts \in [1..Len(writes) -> Debts]
    BY <1>2, <1>3 DEF Debts
  <2> HIDE DEF debts
  <2> QED
    BY <1>3, <2>1, SeqDef
<1>6. \A c : Occurs(debts, Claims(c)) = Occurs(writes, {c})
  <2>1. \A c : \A k \in DOMAIN writes : debts[k] \in Claims(c) <=> writes[k] = c
    BY <1>2, <1>3 DEF Claims, Debts
  <2>2. DOMAIN debts = DOMAIN writes
    OBVIOUS
  <2> HIDE DEF debts
  <2> QED
    BY <2>1, <2>2 DEF Occurs
<1> HIDE DEF debts
<1>7. \A c : /\ Owing(s, c) = {} => Yields(Occurs(writes, {c}), Owing(u, c))
             /\ Occurs(writes, {c}) = {} => Yields(Owing(s, c), Owing(u, c))
  <2>1. \A c : LET Q == Occurs(s.responses, Claims(c))
                   R == Occurs(debts, Claims(c))
                   F == Occurs(s.responses \o debts, Claims(c))
               IN /\ Q = {} => Yields(R, F)
                  /\ R = {} => Yields(Q, F)
    BY <1>2, <1>5, OccursJoined
  <2> QED
    BY <1>1, <1>6, <2>1 DEF Owing
<1>8. \A c : Waiting(u, c) = {} /\ Flying(u, c) = Flying(s, c)
  <2>1. DOMAIN <<>> = {}
    BY EmptySeq
  <2> QED
    BY <1>1, <2>1 DEF Waiting, Flying, Occurs
<1>9. ASSUME NEW c \in Commands
      PROVE  KeepsOne(s, u, c)
  <2> DEFINE W == Waiting(s, c)
  <2>1. CASE c \in Writes
    <3>1. \A a \in reads : a # c /\ answer(a).cmd = a
      BY <2>1, CommandAssumption
    <3>2. Told(u, c) = Told(s, c)
      BY <1>1, <3>1 DEF Told
    <3>3. Yields(W, Occurs(writes, {c}))
      <4>1. {c} \cap Writes = {c}
        BY <2>1
      <4> QED
        BY <1>4, <4>1 DEF Waiting
    <3> HIDE DEF W
    <3>4. Yields(W, Occurs(writes, {c})) /\ (W = {} <=> Waiting(s, c) = {})
          /\ (One(W) <=> One(Waiting(s, c)))
      BY <3>3 DEF W
    <3> QED
      BY <1>7, <1>8, <3>2, <3>4, OneNotEmpty DEF KeepsOne, Unheld, HeldOnce, Yields
  <2>2. CASE c \in Reads
    <3>1. Occurs(writes, {c}) = {}
      <4>1. c \notin Writes
        BY <2>2, CommandAssumption
      <4> QED
        BY <1>3, <4>1 DEF Occurs
    <3>2. Yields(Owing(s, c), Owing(u, c))
      BY <1>7, <3>1
    <3>3. c \in reads <=> W # {}
      BY <2>2 DEF Waiting, Occurs
    <3>4. Told(u, c) = IF W # {} THEN Told(s, c) \cup {answer(c)} ELSE Told(s, c)
      <4>1. \A a : answer(a).cmd = a
        OBVIOUS
      <4> HIDE DEF answer, W, reads
      <4> QED
        BY <1>1, <3>3, <4>1 DEF Told
    <3>5. Told(s, c) = {} /\ W # {} => One(Told(u, c))
      BY <3>4 DEF One
    <3>6. W = {} => Told(u, c) = Told(s, c)
      BY <3>4
    <3>7. W = Waiting(s, c)
      OBVIOUS
    <3> HIDE DEF W
    <3> QED
      BY <1>8, <3>2, <3>5, <3>6, <3>7, OneNotEmpty DEF KeepsOne, Unheld, HeldOnce, Yields
  <2> QED
    BY <2>1, <2>2 DEF Commands
<1> QED
  BY <1>9 DEF Keeps, u

LEMMA FlushKeeps ==
  ASSUME NEW i \in Server, NEW s, Sane(s)
  PROVE  Keeps(s, FlushPendingClientCommands(s, i))
<1> DEFINE emptied == [s EXCEPT !.pending = <<>>]
           u == ForwardToLeader(emptied, s.pending)
<1>1. CASE s.role # "leader" /\ s.leader # Nobody
  <2>1. <<>> \in Seq(Commands) /\ s.pending \in Seq(Commands) /\ DOMAIN <<>> = {}
    BY EmptySeq DEF Sane
  <2>2. /\ Sane(emptied) /\ emptied.leader \in Server /\ emptied.pending = <<>>
        /\ emptied.inflight = s.inflight /\ emptied.responses = s.responses
        /\ emptied.answered = s.answered
    BY <1>1, <2>1 DEF Sane, Shape
  <2> HIDE DEF emptied
  <2>3. ASSUME NEW c \in Commands
        PROVE  KeepsOne(s, u, c)
    <3> DEFINE C == Occurs(s.pending, {c})
    <3>1. /\ Waiting(u, c) = Waiting(emptied, c) /\ Owing(u, c) = Owing(emptied, c)
          /\ Told(u, c) = Told(emptied, c)
          /\ Flying(emptied, c) = {} => Yields(C, Flying(u, c))
          /\ C = {} => Yields(Flying(emptied, c), Flying(u, c))
      BY <2>1, <2>2, ForwardHolds
    <3>2. /\ Waiting(emptied, c) = {} /\ Flying(emptied, c) = Flying(s, c)
          /\ Owing(emptied, c) = Owing(s, c) /\ Told(emptied, c) = Told(s, c)
      BY <2>1, <2>2 DEF Waiting, Flying, Owing, Told, Occurs
    <3>3. Waiting(s, c) = C
      BY DEF Waiting
    <3> HIDE DEF C, u
    <3> QED
      BY <3>1, <3>2, <3>3, OneNotEmpty DEF KeepsOne, Unheld, HeldOnce, Yields
  <2>4. FlushPendingClientCommands(s, i) = u
    BY <1>1 DEF FlushPendingClientCommands, emptied
  <2> HIDE DEF u
  <2> QED
    BY <2>3, <2>4 DEF Keeps
<1>2. CASE s.role # "leader" /\ s.leader = Nobody
  BY <1>2, SameKeeps DEF FlushPendingClientCommands, SameClients
<1>3. CASE s.role = "leader"
  BY <1>3, ExecutePendingKeeps DEF FlushPendingClientCommands
<1> QED
  BY <1>1, <1>2, <1>3

LEMMA SubmitTakes ==
  ASSUME NEW i \in Server, NEW s, Sane(s), NEW cmd \in Commands
  PROVE  Takes(s, SubmitCommand(s, i, cmd), cmd)
<1> DEFINE u == SubmitCommand(s, i, cmd)
           waiting == [s EXCEPT !.pending = Append(@, cmd)]
           sent == ForwardToLeader(s, <<cmd>>)
<1>1. CASE s.role = "leader"
  <2>1. u = ExecuteClientCommand(s, i, cmd, Nobody)
    BY <1>1 DEF SubmitCommand
  <2>2. LET w == ExecuteClientCommand(s, i, cmd, Nobody)
        IN /\ Nobody = Nobody => Takes(s, w, cmd)
           /\ Nobody # Nobody => Keeps(s, w)
    BY <1>1, ExecuteKeeps
  <2> HIDE DEF u
  <2> QED
    BY <2>1, <2>2 DEF u
<1>2. CASE s.role # "leader" /\ s.leader = Nobody
  <2>1. u = waiting
    BY <1>2 DEF SubmitCommand
  <2>2. /\ waiting.pending = Append(s.pending, cmd) /\ waiting.inflight = s.inflight
        /\ waiting.responses = s.responses /\ waiting.answered = s.answered
    BY DEF Sane, Shape
  <2> HIDE DEF waiting, u
  <2>3. \A c : /\ cmd # c => Waiting(waiting, c) = Waiting(s, c)
               /\ cmd = c /\ Waiting(s, c) = {} => One(Waiting(waiting, c))
    <3>1. s.pending \in Seq(Commands)
      BY DEF Sane
    <3>2. \A c : /\ cmd \notin {c} =>
                      Occurs(Append(s.pending, cmd), {c}) = Occurs(s.pending, {c})
                 /\ cmd \in {c} /\ Occurs(s.pending, {c}) = {} =>
                      One(Occurs(Append(s.pending, cmd), {c}))
      BY <3>1, OccursAppended
    <3> QED
      BY <2>2, <3>2 DEF Waiting
  <2>4. \A c : /\ Flying(waiting, c) = Flying(s, c) /\ Owing(waiting, c) = Owing(s, c)
               /\ Told(waiting, c) = Told(s, c)
    BY <2>2 DEF Flying, Owing, Told
  <2>5. \A d \in Commands \ {cmd} : KeepsOne(s, waiting, d)
    BY <2>3, <2>4 DEF KeepsOne, Unheld, HeldOnce
  <2>6. Unheld(s, cmd) => HeldOnce(waiting, cmd)
    BY <2>3, <2>4 DEF Unheld, HeldOnce
  <2> QED
    BY <2>1, <2>5, <2>6 DEF Takes, u
<1>3. CASE s.role # "leader" /\ s.leader # Nobody
  <2>1. s.leader \in Server /\ <<cmd>> \in Seq(Commands)
    BY <1>3 DEF Sane
  <2>2. u = sent
    BY <1>3 DEF SubmitCommand
  <2>3. ASSUME NEW c \in Commands
        PROVE  LET C == Occurs(<<cmd>>, {c})
               IN /\ Waiting(sent, c) = Waiting(s, c) /\ Owing(sent, c) = Owing(s, c)
                  /\ Told(sent, c) = Told(s, c)
                  /\ Flying(s, c) = {} => Yields(C, Flying(sent, c))
                  /\ C = {} => Yields(Flying(s, c), Flying(sent, c))
    BY <2>1, ForwardHolds
  <2>4. \A c : /\ c = cmd => One(Occurs(<<cmd>>, {c}))
               /\ c # cmd => Occurs(<<cmd>>, {c}) = {}
    BY DEF Occurs, One
  <2> HIDE DEF sent, u
  <2>5. \A d \in Commands \ {cmd} : KeepsOne(s, sent, d)
    BY <2>3, <2>4 DEF KeepsOne, Unheld, HeldOnce, Yields
  <2>6. Unheld(s, cmd) => HeldOnce(sent, cmd)
    BY <2>3, <2>4 DEF Unheld, HeldOnce, Yields
  <2> QED
    BY <2>2, <2>5, <2>6 DEF Takes, u
<1> QED
  BY <1>1, <1>2, <1>3

\* A sequence without its element at n.
LEMMA OccursWithout ==
  ASSUME NEW X, NEW q \in Seq(X), NEW n \in DOMAIN q, NEW A
  PROVE  LET others == SubSeq(q, 1, n - 1) \o SubSeq(q, n + 1, Len(q))
             Q == Occurs(q, A)
             C == Occurs(others, A)
         IN /\ q[n] \notin A => Yields(Q, C)
            /\ q[n] \in A /\ One(Q) => C = {}
<1> DEFINE N == Len(q)
           front == SubSeq(q, 1, n - 1)
           back == SubSeq(q, n + 1, N)
           others == front \o back
           Q == Occurs(q, A)
           F == Occurs(front, A)
           B == Occurs(back, A)
           C == Occurs(others, A)
<1>1. N \in Nat /\ DOMAIN q = 1..N /\ n \in Nat /\ n - 1 \in 0..N
  <2>1. N \in Nat /\ DOMAIN q = 1..N
    BY LenProperties
  <2> QED
    BY <2>1
<1>2. /\ front \in Seq(X) /\ DOMAIN front = 1..(n - 1)
      /\ \A k \in 1..(n - 1) : front[k] = q[k]
  BY <1>1, PrefixUpTo
<1>3. /\ back \in Seq(X) /\ DOMAIN back = 1..Len(back)
      /\ Len(back) = IF n <= N THEN N - n ELSE 0
      /\ \A k \in 1..Len(back) : n + k \in 1..N /\ back[k] = q[n + k]
  BY <1>1, TailAfter
<1>4. /\ F = {} => Yields(B, C)
      /\ B = {} => Yields(F, C)
  BY <1>2, <1>3, OccursJoined
<1> HIDE DEF N, front, back, others, C
<1>5. DOMAIN back = 1..(N - n)
  BY <1>1, <1>3
<1>6. F = {k \in Q : k < n}
  <2>1. \A k \in 1..(n - 1) : k \in 1..N /\ k < n
    BY <1>1
  <2>2. \A k \in 1..N : k < n => k \in 1..(n - 1)
    BY <1>1
  <2> QED
    BY <1>1, <1>2, <2>1, <2>2 DEF Occurs
<1>7. \A k \in B : n + k \in Q /\ k \in Nat /\ n + k > n
  <2>1. \A k \in 1..(N - n) : k \in Nat /\ n + k > n
    BY <1>1
  <2> QED
    BY <1>1, <1>3, <1>5, <2>1 DEF Occurs
<1>8. \A k \in Q : k > n => k - n \in B
  <2>1. \A k \in 1..N : k > n => k - n \in 1..(N - n) /\ n + (k - n) = k
    BY <1>1
  <2> QED
    BY <1>1, <1>3, <1>5, <2>1 DEF Occurs
<1>9. /\ Q \subseteq Nat
      /\ n \in Q <=> q[n] \in A
  BY <1>1 DEF Occurs
<1> HIDE DEF Q, F, B
<1>10. ASSUME Q = {}
       PROVE  C = {}
  BY <1>4, <1>6, <1>7, <1>10 DEF Yields
<1>11. ASSUME NEW x \in Q, \A y \in Q : y = x
       PROVE  IF q[n] \in A THEN C = {} ELSE One(C)
  <2>1. CASE x = n
    <3>1. F = {} /\ B = {}
      BY <1>1, <1>6, <1>7, <1>11, <2>1
    <3> QED
      BY <1>4, <1>9, <2>1, <3>1 DEF Yields
  <2>2. CASE x < n
    <3>1. n \notin Q
      BY <1>1, <1>9, <1>11, <2>2
    <3>2. F = Q /\ B = {}
      <4>1. x \in Nat /\ ~(x > n)
        BY <1>1, <1>9, <2>2
      <4>2. \A k \in Q : k < n
        BY <1>11, <2>2
      <4>3. \A k \in B : n + k = x /\ n + k > n
        BY <1>7, <1>11
      <4>4. B = {}
        BY <4>1, <4>3
      <4> QED
        BY <1>6, <4>2, <4>4
    <3> QED
      BY <1>4, <1>9, <1>11, <3>1, <3>2 DEF Yields, One
  <2>3. CASE x > n
    <3>1. n \notin Q
      BY <1>1, <1>9, <1>11, <2>3
    <3>2. F = {}
      <4>1. x \in Nat /\ ~(x < n)
        BY <1>1, <1>9, <2>3
      <4>2. \A k \in Q : ~(k < n)
        BY <1>11, <4>1
      <4> QED
        BY <1>6, <4>2
    <3>3. x - n \in B /\ \A k \in B : k = x - n
      BY <1>1, <1>7, <1>8, <1>9, <1>11, <2>3
    <3> QED
      BY <1>4, <1>9, <3>1, <3>2, <3>3 DEF Yields, One
  <2> QED
    BY <1>1, <1>9, <2>1, <2>2, <2>3
<1>12. /\ q[n] \notin A => Yields(Q, C)
       /\ q[n] \in A /\ One(Q) => C = {}
  BY <1>10, <1>11 DEF Yields, One
<1> QED
  BY <1>12 DEF Q, C, others, front, back, N

\* The first redirect that matches is answered, the others stay in flight.
LEMMA RedirectedResponseKeeps ==
  ASSUME NEW s, Sane(s), NEW j, NEW m
  PROVE  Keeps(s, HandleClientCommandRedirectedResponse(s, j, m))
<1> DEFINE matching == MatchingInflight(s, j, m.cmd)
           first == FirstOf(matching)
           cmd == s.inflight[first].cmd
           others == SubSeq(s.inflight, 1, first - 1)
                     \o SubSeq(s.inflight, first + 1, Len(s.inflight))
           told == [s EXCEPT !.inflight = others]
           u == HandleClientCommandRedirectedResponse(s, j, m)
<1>1. CASE matching = {}
  BY <1>1, SameKeeps DEF HandleClientCommandRedirectedResponse, SameClients
<1>2. CASE matching # {}
  <2>1. /\ s.inflight \in Seq(Redirects) /\ DOMAIN s.inflight = 1..Len(s.inflight)
        /\ \A k \in DOMAIN s.inflight : s.inflight[k] \in Redirects
    BY LenProperties DEF Sane
  <2>2. first \in DOMAIN s.inflight
    <3>1. matching \subseteq Nat /\ matching \subseteq DOMAIN s.inflight
      BY <2>1 DEF MatchingInflight
    <3>2. PICK k \in matching : \A l \in matching : k <= l
      <4> HIDE DEF matching
      <4> QED
        BY <1>2, <3>1, LeastOf
    <3>3. first \in matching
      <4> HIDE DEF matching
      <4> QED
        BY <3>2, Zenon DEF FirstOf
    <3> QED
      BY <3>1, <3>3
  <2>3. u = Respond(told, Nobody, cmd, m.ok, m.value)
    BY <1>2 DEF HandleClientCommandRedirectedResponse
  <2>4. /\ Shape(told) /\ told.pending = s.pending /\ told.inflight = others
        /\ told.responses = s.responses /\ told.answered = s.answered
    BY DEF Sane, Shape
  <2> HIDE DEF matching, first, u
  <2>5. cmd \in Commands /\ \A c : s.inflight[first] \in Flights(c) <=> c = cmd
    BY <2>1, <2>2 DEF Redirects, Flights
  <2>6. \A c : /\ s.inflight[first] \notin Flights(c) => Yields(Flying(s, c), Flying(told, c))
               /\ s.inflight[first] \in Flights(c) /\ One(Flying(s, c)) =>
                    Flying(told, c) = {}
    <3>1. \A A : /\ s.inflight[first] \notin A =>
                      Yields(Occurs(s.inflight, A), Occurs(others, A))
                 /\ s.inflight[first] \in A /\ One(Occurs(s.inflight, A)) =>
                      Occurs(others, A) = {}
      BY <2>1, <2>2, OccursWithout
    <3> QED
      BY <2>4, <3>1 DEF Flying
  <2>7. Flying(s, cmd) # {}
    BY <2>2, <2>5 DEF Flying, Occurs
  <2> HIDE DEF told, cmd, others
  <2>8. Takes(told, u, cmd)
    <3>1. \A ok, value : LET w == Respond(told, Nobody, cmd, ok, value)
                         IN /\ Nobody = Nobody => Takes(told, w, cmd)
                            /\ Nobody # Nobody => Keeps(told, w)
      BY <2>4, <2>5, RespondKeeps
    <3>2. \A ok, value : Takes(told, Respond(told, Nobody, cmd, ok, value), cmd)
      BY <3>1
    <3> QED
      BY <2>3, <3>2, Zenon
  <2>9. \A c : /\ Waiting(told, c) = Waiting(s, c) /\ Owing(told, c) = Owing(s, c)
               /\ Told(told, c) = Told(s, c)
    BY <2>4 DEF Waiting, Owing, Told
  <2>10. ASSUME NEW c \in Commands, c # cmd
         PROVE  KeepsOne(s, u, c)
    <3>1. KeepsOne(s, told, c)
      BY <2>5, <2>6, <2>9, <2>10, OneNotEmpty DEF KeepsOne, Unheld, HeldOnce, Yields
    <3>2. KeepsOne(told, u, c)
      BY <2>8, <2>10 DEF Takes
    <3> QED
      BY <3>1, <3>2 DEF KeepsOne
  <2>11. KeepsOne(s, u, cmd)
    <3>1. ~Unheld(s, cmd)
      BY <2>7 DEF Unheld
    <3>2. HeldOnce(s, cmd) => Unheld(told, cmd)
      BY <2>5, <2>6, <2>7, <2>9 DEF HeldOnce, Unheld
    <3> QED
      BY <2>8, <3>1, <3>2 DEF KeepsOne, Takes
  <2> QED
    BY <2>10, <2>11 DEF Keeps, u
<1> QED
  BY <1>1, <1>2

-----------------------------------------------------------------------------
(* Handlers *)

LEMMA BecomeFollowerKeeps ==
  ASSUME NEW s, Sane(s), NEW t
  PROVE  Keeps(s, BecomeFollower(s, t))
<1> DEFINE N == Len(s.responses)
           drained == DrainPendingClientResponses(s, FALSE, N)
           requeued == RequeueAllInflight(drained)
           u == BecomeFollower(s, t)
<1>1. N \in Nat /\ N \in 0..N /\ N <= N
  BY LenProperties DEF Sane
<1> HIDE DEF N
<1>2. \A ok : /\ Keeps(s, DrainPendingClientResponses(s, ok, N))
              /\ Sane(DrainPendingClientResponses(s, ok, N))
  <2>1. \A ok : Keeps(s, DrainPendingClientResponses(s, ok, N))
    BY <1>1, DrainKeeps DEF N
  <2>2. \A ok : Tame(0, s, DrainPendingClientResponses(s, ok, N))
    BY <1>1, DrainTame DEF N
  <2> QED
    BY <2>1, <2>2 DEF Tame
<1>3. Keeps(s, drained) /\ Sane(drained)
  BY <1>2, Zenon
<1>4. u = [requeued EXCEPT
             !.role = "follower", !.term = t, !.votedFor = Nobody, !.votes = 0,
             !.acks = {}, !.leader = Nobody, !.electionArmed = TRUE]
  BY DEF BecomeFollower, N
<1> HIDE DEF drained
<1>5. Keeps(drained, requeued) /\ Shape(requeued)
  BY <1>3, RequeueAllKeeps, RequeueAllTame DEF Tame, Sane
<1> HIDE DEF requeued, u
<1>6. SameClients(requeued, u)
  BY <1>4, <1>5 DEF Shape, SameClients
<1> QED
  BY <1>3, <1>5, <1>6, SameKeeps, KeepsTrans DEF u

LEMMA StartElectionKeeps ==
  ASSUME NEW i, NEW s, Sane(s)
  PROVE  Keeps(s, StartElection(s, i))
<1> DEFINE requeued == RequeueAllInflight(s)
           u == StartElection(s, i)
<1>1. Keeps(s, requeued) /\ Shape(requeued)
  BY RequeueAllKeeps, RequeueAllTame DEF Tame, Sane
<1>2. SameClients(requeued, u)
  <2>1. BecomeCandidate(s, i) =
          [requeued EXCEPT !.role = "candidate", !.term = @ + 1, !.votedFor = i,
                           !.votes = 1, !.acks = {}, !.leader = Nobody]
    BY DEF BecomeCandidate
  <2> HIDE DEF requeued
  <2> QED
    BY <1>1, <2>1 DEF StartElection, ResetElectionTimer, Shape, SameClients
<1> HIDE DEF requeued, u
<1> QED
  BY <1>1, <1>2, SameKeeps, KeepsTrans DEF u

LEMMA BecomeLeaderKeeps ==
  ASSUME NEW i \in Server, NEW s, Sane(s)
  PROVE  Keeps(s, BecomeLeader(s, i))
<1> DEFINE base == GetLastLogIndex(s)
           elected == [s EXCEPT
                         !.role = "leader", !.next = [j \in Server |-> base + 1],
                         !.match = [j \in Server |-> 0],
                         !.heartbeatArmed = TRUE, !.electionArmed = FALSE]
           sent == SendAppendEntries(elected, Peers(i))
           u == FlushPendingClientCommands(sent, i)
<1>1. base \in Nat
  BY SaneLog DEF GetLastLogIndex
<1> HIDE DEF base
<1>2. Sane(elected) /\ elected.role = "leader" /\ SameClients(s, elected)
  <2>1. /\ Shape(elected) /\ elected.role = "leader" /\ elected.term = s.term
        /\ elected.leader = s.leader /\ elected.log = s.log /\ elected.commit = s.commit
        /\ elected.responses = s.responses /\ elected.out = s.out
        /\ elected.pending = s.pending /\ elected.inflight = s.inflight
        /\ elected.answered = s.answered
        /\ elected.next = [j \in Server |-> base + 1]
        /\ elected.match = [j \in Server |-> 0]
        /\ elected.heartbeatArmed = TRUE /\ elected.electionArmed = FALSE
    BY DEF Sane, Shape
  <2>2. /\ [j \in Server |-> base + 1] \in [Server -> Nat \ {0}]
        /\ [j \in Server |-> 0] \in [Server -> Nat]
    BY <1>1
  <2> HIDE DEF elected
  <2> QED
    BY <2>1, <2>2 DEF Sane, Roles, SameClients
<1> HIDE DEF elected
<1>3. Sane(sent) /\ SameClients(elected, sent)
  BY <1>2, SendTame, SendKeeps DEF Tame, Peers, Sane
<1> HIDE DEF sent
<1>4. Keeps(sent, u)
  BY <1>3, FlushKeeps
<1> HIDE DEF u
<1>5. Keeps(s, u)
  BY <1>2, <1>3, <1>4, SameKeeps, KeepsTrans
<1> QED
  BY <1>5 DEF BecomeLeader, u, sent, elected, base

LEMMA RequestVoteKeeps ==
  ASSUME NEW s, Fit(s), s.out = NoMessages, NEW j, NEW m, m.term \in Nat
  PROVE  Keeps(s, HandleRequestVote(s, j, m))
<1> DEFINE u == IF m.term > s.term THEN BecomeFollower(s, m.term) ELSE s
           canGrant == CanGrant(u, j, m)
           v == IF canGrant THEN GrantVote(u, j) ELSE u
           w == Post(v, j, VoteResponse(u.term, canGrant))
<1>1. Keeps(s, u) /\ Shape(u)
  <2>1. Keeps(s, s) /\ Shape(s)
    BY SameKeeps DEF SameClients, Fit, Sane
  <2>2. Keeps(s, BecomeFollower(s, m.term))
    BY BecomeFollowerKeeps DEF Fit
  <2>3. Shape(BecomeFollower(s, m.term))
    BY BecomeFollowerTurn DEF Turn, Fit, Sane
  <2> QED
    BY <2>1, <2>2, <2>3
<1> HIDE DEF u
<1>2. SameClients(u, w)
  BY <1>1 DEF GrantVote, ResetElectionTimer, Post, Shape, SameClients
<1> HIDE DEF w
<1> QED
  BY <1>1, <1>2, SameKeeps, KeepsTrans DEF HandleRequestVote, w, v, canGrant, u

LEMMA VoteResponseKeeps ==
  ASSUME NEW i \in Server, NEW j \in Server, NEW s, Sane(s), NEW m
  PROVE  Keeps(s, HandleRequestVoteResponse(s, i, j, m))
<1> DEFINE voted == [s EXCEPT !.acks = @ \cup {j}, !.votes = @ + 1]
           counted == IF m.ack /\ j \notin s.acks THEN voted ELSE s
           deposed == BecomeFollower(s, m.term)
           elected == BecomeLeader(counted, i)
           u == HandleRequestVoteResponse(s, i, j, m)
<1>1. Sane(voted) /\ SameClients(s, voted)
  BY DEF Sane, Shape, SameClients
<1> HIDE DEF voted
<1>2. Sane(counted) /\ SameClients(s, counted)
  BY <1>1 DEF SameClients
<1>3. u \in {s, deposed, counted, elected}
  BY DEF HandleRequestVoteResponse, voted
<1> HIDE DEF counted, u
<1>4. Keeps(counted, elected) /\ Keeps(s, deposed)
  BY <1>2, BecomeLeaderKeeps, BecomeFollowerKeeps
<1> HIDE DEF elected, deposed
<1>5. Keeps(s, s) /\ Keeps(s, counted) /\ Keeps(s, elected)
  BY <1>2, <1>4, SameKeeps, KeepsTrans DEF SameClients
<1> QED
  BY <1>3, <1>4, <1>5 DEF u

LEMMA AppendResponseKeeps ==
  ASSUME NEW i \in Server, NEW j \in Server, NEW s, Sane(s), NEW m \in AppendResponses
  PROVE  Keeps(s, HandleAppendEntriesResponse(s, i, j, m))
<1> DEFINE best == IF m.match > s.match[j] THEN m.match ELSE s.match[j]
           deposed == BecomeFollower(s, m.term)
           retreated == [s EXCEPT !.next[j] = BackOff(s, j, m)]
           retried == SendAppendEntries(retreated, {j})
           matched == [s EXCEPT !.match[j] = best, !.next[j] = best + 1]
           advanced == UpdateCommitIndex(matched, i)
           u == HandleAppendEntriesResponse(s, i, j, m)
<1>1. u \in {s, deposed, retried, advanced}
  BY DEF HandleAppendEntriesResponse
<1>2. best \in Nat
  BY DEF AppendResponses, Hints, Sane
<1> HIDE DEF best, u
<1>3. Keeps(s, deposed)
  BY BecomeFollowerKeeps
<1>4. Shape(retreated) /\ SameClients(s, retreated)
  BY DEF Sane, Shape, SameClients
<1> HIDE DEF retreated
<1>5. Keeps(s, retried)
  BY <1>4, SendKeeps, SameKeeps, KeepsTrans
<1>6. Sane(matched) /\ SameClients(s, matched)
  <2>1. /\ [s.next EXCEPT ![j] = best + 1] \in [Server -> Nat \ {0}]
        /\ [s.match EXCEPT ![j] = best] \in [Server -> Nat]
    <3>1. s.next \in [Server -> Nat \ {0}] /\ s.match \in [Server -> Nat]
      BY DEF Sane
    <3>2. best + 1 \in Nat \ {0}
      BY <1>2
    <3> QED
      BY <1>2, <3>1, <3>2
  <2>2. matched = [s EXCEPT !.match = [s.match EXCEPT ![j] = best],
                            !.next = [s.next EXCEPT ![j] = best + 1]]
    BY DEF Sane, Shape
  <2> HIDE DEF matched
  <2> QED
    BY <2>1, <2>2 DEF Sane, Shape, SameClients
<1> HIDE DEF matched
<1>7. Keeps(s, advanced)
  BY <1>6, UpdateCommitIndexKeeps, SameKeeps, KeepsTrans
<1> HIDE DEF deposed, retried, advanced
<1>8. Keeps(s, s)
  BY SameKeeps DEF SameClients
<1> QED
  BY <1>1, <1>3, <1>5, <1>7, <1>8 DEF u

LEMMA AcceptKeeps ==
  ASSUME NEW i \in Server, NEW j \in Server, NEW s, Sane(s), NEW m \in AppendRequests,
         IsLogMatching(s, m)
  PROVE  Keeps(s, Accept(s, i, j, m))
<1> DEFINE log == Merge(s.log, m.prevIndex, m.entries)
           upTo == IF m.commit <= Len(log) THEN m.commit ELSE Len(log)
           reset == ResetElectionTimer(s)
           requeued == RequeueInflightNotTo(reset, j)
           known == [requeued EXCEPT !.leader = j, !.log = log]
           v == IF upTo > s.commit THEN Commit(known, upTo) ELSE known
           w == Post(v, j, AppendResponse(s.term, TRUE, Len(log), 0, 0))
           u == FlushPendingClientCommands(w, i)
<1>1. /\ s.log \in Seq(Entries) /\ m.entries \in Seq(Entries)
      /\ m.prevIndex \in 0..Len(s.log) /\ m.commit \in Nat
  BY SaneLog DEF AppendRequests, IsLogMatching
<1>2. log \in Seq(Entries)
  BY <1>1, MergeMerged DEF Merged
<1> HIDE DEF log
<1>3. Len(log) \in Nat /\ upTo \in Nat
  BY <1>1, <1>2, LenProperties
<1> HIDE DEF upTo
<1>4. Sane(reset) /\ SameClients(s, reset)
  BY ResetTame DEF Sane, ResetElectionTimer, Shape, SameClients
<1> HIDE DEF reset
<1>5. Sane(requeued) /\ Keeps(reset, requeued)
  BY <1>4, RequeueNotToTame, RequeueNotToKeeps DEF Tame
<1> HIDE DEF requeued
<1>6. Sane(known) /\ SameClients(requeued, known)
  <2>1. Shape(known) /\ SameClients(requeued, known)
    BY <1>5 DEF Sane, Shape, SameClients
  <2>2. /\ known.role = requeued.role /\ known.term = requeued.term
        /\ known.leader = j /\ known.log = log /\ known.next = requeued.next
        /\ known.match = requeued.match /\ known.commit = requeued.commit
        /\ known.electionArmed = requeued.electionArmed
        /\ known.heartbeatArmed = requeued.heartbeatArmed
    BY <1>5 DEF Sane, Shape
  <2> HIDE DEF known
  <2> QED
    BY <1>2, <1>5, <2>1, <2>2 DEF Sane, SameClients
<1> HIDE DEF known
<1>7. Sane(v) /\ SameClients(known, v)
  <2>1. Sane(Commit(known, upTo))
    BY <1>3, <1>6, CommitTame DEF Tame
  <2>2. SameClients(known, Commit(known, upTo))
    BY <1>6, CommitClients DEF Sane
  <2> QED
    BY <1>6, <2>1, <2>2 DEF SameClients
<1> HIDE DEF v
<1>8. Sane(w) /\ SameClients(v, w)
  BY <1>7 DEF Post, Sane, Shape, SameClients
<1> HIDE DEF w
<1>9. Keeps(w, u)
  BY <1>8, FlushKeeps
<1> HIDE DEF u
<1>10. Keeps(s, known)
  BY <1>4, <1>5, <1>6, SameKeeps, KeepsTrans
<1>11. Keeps(known, w)
  BY <1>7, <1>8, SameKeeps, KeepsTrans
<1>12. Keeps(s, u)
  BY <1>9, <1>10, <1>11, KeepsTrans
<1> QED
  BY <1>12 DEF Accept, u, w, v, known, requeued, reset, upTo, log

LEMMA AppendEntriesKeeps ==
  ASSUME NEW i \in Server, NEW j \in Server, NEW s, Fit(s), s.out = NoMessages,
         NEW m \in AppendRequests
  PROVE  Keeps(s, HandleAppendEntries(s, i, j, m))
<1> DEFINE u == IF m.term > s.term THEN BecomeFollower(s, m.term)
                ELSE IF s.role = "candidate" THEN YieldToLeader(s)
                ELSE s
           w == HandleAppendEntries(s, i, j, m)
<1>1. Sane(s) /\ m.term \in Nat
  BY DEF Fit, AppendRequests
<1>2. Sane(u) /\ Keeps(s, u)
  <2>1. Keeps(s, s)
    BY SameKeeps DEF SameClients
  <2>2. Sane(BecomeFollower(s, m.term)) /\ Keeps(s, BecomeFollower(s, m.term))
    BY <1>1, BecomeFollowerTurn, BecomeFollowerKeeps DEF Turn, Fit
  <2>3. Sane(YieldToLeader(s)) /\ SameClients(s, YieldToLeader(s))
    BY <1>1 DEF YieldToLeader, Sane, Shape, Roles, SameClients
  <2> QED
    BY <1>1, <2>1, <2>2, <2>3, SameKeeps
<1> HIDE DEF u
<1>3. \A k, n, t : Shape(t) => SameClients(t, Post(t, k, n))
  BY DEF Post, Shape, SameClients
<1>4. \/ \E n : w = Post(s, j, n) \/ w = Post(u, j, n)
      \/ IsLogMatching(u, m) /\ w = Accept(u, i, j, m)
  BY DEF HandleAppendEntries, u
<1> HIDE DEF w
<1>5. CASE IsLogMatching(u, m) /\ w = Accept(u, i, j, m)
  BY <1>2, <1>5, AcceptKeeps, KeepsTrans DEF w
<1>6. ASSUME NEW n, w = Post(s, j, n) \/ w = Post(u, j, n)
      PROVE  Keeps(s, w)
  <2>1. Shape(s) /\ Shape(u)
    BY <1>1, <1>2 DEF Sane
  <2>2. SameClients(s, w) \/ SameClients(u, w)
    BY <1>3, <1>6, <2>1
  <2> QED
    BY <1>2, <2>2, SameKeeps, KeepsTrans
<1> QED
  BY <1>4, <1>5, <1>6 DEF w

LEMMA OnMessageKeeps ==
  ASSUME ElectionInv, ReignInv, NEW i \in Server, NEW j \in Server,
         NEW m \in InTransit(j, i), NEW r \in Resolutions(m, node[i].log)
  PROVE  Keeps(node[i], OnMessage(node[i], i, j, r))
<1> DEFINE s == node[i]
           u == OnMessage(s, i, j, r)
<1>1. /\ Fit(s) /\ Sane(s) /\ s.out = NoMessages
      /\ Known(j, i, m) /\ Mail(j, i, m)
  BY DEF ReignInv, ElectionInv, NodesSound, LinksSound, Fit
<1>2. CASE m.type = "AppendEntries"
  <2>1. m \in AppendRequests
    BY <1>1, <1>2 DEF Known, Letter
  <2>2. r \in AppendRequests /\ r.type = m.type
    <3>1. \A p \in DOMAIN s.log : s.log[p].term \in Nat
      BY <1>1, SaneLog DEF Entries
    <3> QED
      BY <2>1, <3>1 DEF Resolutions, AppendRequests
  <2>3. u = HandleAppendEntries(s, i, j, r)
    BY <1>2, <2>2 DEF OnMessage
  <2> HIDE DEF u, s
  <2> QED
    BY <1>1, <2>2, <2>3, AppendEntriesKeeps DEF u, s
<1>3. CASE m.type # "AppendEntries"
  <2>1. r = m
    BY <1>3 DEF Resolutions
  <2>2. CASE m.type = "RequestVote"
    <3>1. m.term \in Nat
      BY <1>1, <2>2 DEF Mail, Plain, VoteResponse
    <3> QED
      BY <1>1, <2>1, <2>2, <3>1, RequestVoteKeeps DEF OnMessage
  <2>3. CASE m.type = "RequestVoteResponse"
    BY <1>1, <2>1, <2>3, VoteResponseKeeps DEF OnMessage
  <2>4. CASE m.type = "AppendEntriesResponse"
    <3>1. m \in AppendResponses
      BY <1>1, <2>4 DEF Known, Letter
    <3> QED
      BY <1>1, <2>1, <2>4, <3>1, AppendResponseKeeps DEF OnMessage
  <2>5. CASE m.type = "client_command_redirected"
    <3>1. m.cmd \in Commands /\ j # Nobody
      BY <1>1, <2>5, NobodyAssumption DEF Known, Letter
    <3>2. u = HandleClientCommandRedirected(s, i, j, m)
      BY <2>1, <2>5 DEF OnMessage
    <3>3. CASE s.role = "leader"
      <4>1. u = ExecuteClientCommand(s, i, m.cmd, j)
        BY <3>2, <3>3 DEF HandleClientCommandRedirected
      <4>2. LET w == ExecuteClientCommand(s, i, m.cmd, j)
            IN /\ j = Nobody => Takes(s, w, m.cmd)
               /\ j # Nobody => Keeps(s, w)
        BY <1>1, <3>1, <3>3, ExecuteKeeps
      <4> HIDE DEF u
      <4> QED
        BY <3>1, <4>1, <4>2 DEF u
    <3>4. CASE s.role # "leader"
      BY <3>2, <3>4, SameKeeps DEF HandleClientCommandRedirected, SameClients
    <3> QED
      BY <3>3, <3>4
  <2>6. CASE m.type = "client_command_redirected_response"
    BY <1>1, <2>1, <2>6, RedirectedResponseKeeps DEF OnMessage
  <2> QED
    BY <1>1, <1>3, <2>2, <2>3, <2>4, <2>5, <2>6 DEF Mail, Plain, VoteResponse
<1> QED
  BY <1>2, <1>3

-----------------------------------------------------------------------------
(* Every command, at every node *)

HeldAt(c, i) ==
  HeldOnce(node[i], c) /\ \A j \in Server \ {i} : Unheld(node[j], c)

\* A fresh command is nowhere, any other is in one place at one node.
ClientInv ==
  \A c \in Commands :
    IF c \in fresh THEN \A i \in Server : Unheld(node[i], c)
                   ELSE \E i \in Server : HeldAt(c, i)

\* What a step does to what is held: node i keeps it, or takes a fresh command.
Serves(i) ==
  /\ \A k \in Server \ {i} : node'[k] = node[k]
  /\ \/ fresh' = fresh /\ Keeps(node[i], node'[i])
     \/ \E cmd \in fresh : fresh' = fresh \ {cmd} /\ Takes(node[i], node'[i], cmd)

LEMMA StepServes ==
  ASSUME ElectionInv, ReignInv, NEW i \in Server, NEW u, Run(i, u),
         NEW before, NEW budget, Step(i, u, before, budget)
  PROVE  /\ \A k \in Server \ {i} : node'[k] = node[k]
         /\ SameClients(u, node'[i])
<1>1. Fit(u)
  BY RunEffect DEF Turn, Accepted, Accepts
<1>2. node' = [node EXCEPT ![i] = [u EXCEPT !.out = NoMessages]]
  BY DEF Step
<1>3. DOMAIN node = Server
  BY DEF ElectionInv, NodesSound
<1>4. \A k \in Server \ {i} : node'[k] = node[k]
  BY <1>2
<1>5. node'[i] = [u EXCEPT !.out = NoMessages]
  BY <1>2, <1>3
<1> QED
  BY <1>1, <1>4, <1>5 DEF Fit, Sane, Shape, SameClients

LEMMA KeptServes ==
  ASSUME ElectionInv, ReignInv, NEW i \in Server, NEW u, Run(i, u), Keeps(node[i], u),
         NEW before, NEW budget, Step(i, u, before, budget), fresh' = fresh
  PROVE  Serves(i)
  BY StepServes, SameKeeps, KeepsTrans DEF Serves

LEMMA NextServes ==
  ASSUME ElectionInv, ReignInv, Next
  PROVE  \E i \in Server : Serves(i)
<1>1. ASSUME NEW i \in Server, NEW j \in Server, Deliver(j, i)
      PROVE  Serves(i)
  <2>1. links[<<j, i>>] # <<>>
    BY <1>1 DEF Deliver
  <2>2. PICK m \in Head(links[<<j, i>>]) : \E r \in Resolutions(m, node[i].log) :
          Step(i, OnMessage(node[i], i, j, r), Taken(j, i, m), left)
    BY <1>1 DEF Deliver
  <2>3. PICK r \in Resolutions(m, node[i].log) :
          Step(i, OnMessage(node[i], i, j, r), Taken(j, i, m), left)
    BY <2>2
  <2>4. m \in InTransit(j, i)
    <3>1. PICK S : links[<<j, i>>] \in Seq(S)
      BY DEF ElectionInv, LinksSound
    <3>2. 1 \in DOMAIN links[<<j, i>>] /\ Head(links[<<j, i>>]) = links[<<j, i>>][1]
      BY <2>1, <3>1
    <3> QED
      BY <2>2, <3>2 DEF InTransit
  <2>5. Run(i, OnMessage(node[i], i, j, r))
    BY <2>3, <2>4 DEF Run
  <2>6. Keeps(node[i], OnMessage(node[i], i, j, r))
    BY <2>4, OnMessageKeeps
  <2>7. fresh' = fresh
    BY <1>1 DEF Deliver
  <2> QED
    BY <2>3, <2>5, <2>6, <2>7, KeptServes
<1>2. ASSUME NEW i \in Server, ElectionTimeout(i)
      PROVE  Serves(i)
  <2>1. Run(i, StartElection(node[i], i))
    BY <1>2 DEF ElectionTimeout, Run, Unprompted
  <2>2. Keeps(node[i], StartElection(node[i], i))
    BY StartElectionKeeps DEF ReignInv, Fit
  <2> QED
    BY <1>2, <2>1, <2>2, KeptServes DEF ElectionTimeout
<1>3. ASSUME NEW i \in Server, HeartbeatTimeout(i)
      PROVE  Serves(i)
  <2> DEFINE s == node[i]
             u == IF s.role = "leader" THEN SendAppendEntries(s, Peers(i))
                  ELSE [s EXCEPT !.heartbeatArmed = FALSE]
  <2>1. Run(i, u)
    BY DEF Run, Unprompted
  <2>2. SameClients(s, u)
    <3>1. Shape(s)
      BY DEF ReignInv, Fit, Sane
    <3>2. SameClients(s, SendAppendEntries(s, Peers(i)))
      BY <3>1, SendKeeps
    <3>3. SameClients(s, [s EXCEPT !.heartbeatArmed = FALSE])
      BY <3>1 DEF Shape, SameClients
    <3> QED
      BY <3>2, <3>3
  <2>3. Keeps(s, u)
    <3> HIDE DEF u
    <3> QED
      BY <2>2, SameKeeps
  <2>4. /\ fresh' = fresh
        /\ Step(i, u, links, [left EXCEPT !.heartbeats = @ - 1])
    BY <1>3 DEF HeartbeatTimeout
  <2> HIDE DEF u
  <2> QED
    BY <2>1, <2>3, <2>4, KeptServes
<1>4. ASSUME NEW i \in Server, NEW cmd \in Commands, ClientCommand(i, cmd)
      PROVE  Serves(i)
  <2> DEFINE u == SubmitCommand(node[i], i, cmd)
  <2>1. Run(i, u)
    BY DEF Run, Unprompted
  <2>2. Takes(node[i], u, cmd)
    BY SubmitTakes DEF ReignInv, Fit
  <2>3. cmd \in fresh /\ fresh' = fresh \ {cmd} /\ Step(i, u, links, left)
    BY <1>4 DEF ClientCommand
  <2> HIDE DEF u
  <2>4. /\ \A k \in Server \ {i} : node'[k] = node[k]
        /\ SameClients(u, node'[i])
    BY <2>1, <2>3, StepServes
  <2>5. Takes(node[i], node'[i], cmd)
    BY <2>2, <2>4, SameKeeps, TakesKept
  <2> QED
    BY <2>3, <2>4, <2>5 DEF Serves
<1> QED
  BY <1>1, <1>2, <1>3, <1>4 DEF Next

LEMMA ServesInv ==
  ASSUME ClientInv, NEW i \in Server, Serves(i)
  PROVE  ClientInv'
<1> SUFFICES ASSUME NEW c \in Commands
             PROVE  IF c \in fresh' THEN \A k \in Server : Unheld(node'[k], c)
                    ELSE \E k \in Server :
                           /\ HeldOnce(node'[k], c)
                           /\ \A j \in Server \ {k} : Unheld(node'[j], c)
  BY DEF ClientInv, HeldAt, HeldOnce, Unheld, Waiting, Flying, Owing, Told, Occurs
<1>1. \A k \in Server \ {i} : node'[k] = node[k]
  BY DEF Serves
<1>2. CASE fresh' = fresh /\ Keeps(node[i], node'[i])
  <2>1. KeepsOne(node[i], node'[i], c)
    BY <1>2 DEF Keeps
  <2> QED
    BY <1>1, <1>2, <2>1 DEF ClientInv, HeldAt, KeepsOne
<1>3. ASSUME NEW cmd \in fresh, fresh' = fresh \ {cmd}, Takes(node[i], node'[i], cmd)
      PROVE  IF c \in fresh' THEN \A k \in Server : Unheld(node'[k], c)
             ELSE \E k \in Server :
                    /\ HeldOnce(node'[k], c)
                    /\ \A j \in Server \ {k} : Unheld(node'[j], c)
  <2>1. CASE c = cmd
    <3>1. \A k \in Server : Unheld(node[k], c)
      BY <2>1 DEF ClientInv
    <3>2. HeldOnce(node'[i], c)
      BY <1>3, <2>1, <3>1 DEF Takes
    <3> QED
      BY <1>1, <1>3, <2>1, <3>1, <3>2
  <2>2. CASE c # cmd
    <3>1. KeepsOne(node[i], node'[i], c)
      BY <1>3, <2>2 DEF Takes
    <3> QED
      BY <1>1, <1>3, <2>2, <3>1 DEF ClientInv, HeldAt, KeepsOne
  <2> QED
    BY <2>1, <2>2
<1> QED
  BY <1>2, <1>3 DEF Serves

LEMMA ClientInit == Init => ClientInv
<1> SUFFICES ASSUME Init PROVE ClientInv
  OBVIOUS
<1>1. DOMAIN <<>> = {}
  BY EmptySeq
<1>2. /\ \A i \in Server : node[i] = InitNode
      /\ \A c \in Commands : c \in fresh
  BY DEF Init
<1>3. \A c : Unheld(InitNode, c)
  BY <1>1 DEF InitNode, Unheld, Waiting, Flying, Owing, Told, Occurs
<1> QED
  BY <1>2, <1>3 DEF ClientInv

LEMMA SomeServer == Server # {}
  BY ServerAssumption, FS_EmptySet

LEMMA ClientInvInductive == ElectionInv /\ ReignInv /\ ClientInv /\ [Next]_vars => ClientInv'
<1> SUFFICES ASSUME ElectionInv, ReignInv, ClientInv, [Next]_vars PROVE ClientInv'
  OBVIOUS
<1>1. CASE Next
  BY <1>1, NextServes, ServesInv
<1>2. CASE UNCHANGED vars
  <2>1. node' = node /\ fresh' = fresh
    BY <1>2 DEF vars
  <2>2. \A k \in Server : node'[k] = node[k]
    BY <2>1
  <2>3. \A k \in Server : Keeps(node[k], node'[k])
    BY <2>2, SameKeeps DEF SameClients
  <2> QED
    BY <2>1, <2>2, <2>3, ServesInv, SomeServer DEF Serves
<1> QED
  BY <1>1, <1>2

THEOREM ClientInvHolds == Spec => []ClientInv
<1>1. Init => ClientInv
  BY ClientInit
<1>2. ElectionInv /\ ReignInv /\ ClientInv /\ [Next]_vars => ClientInv'
  BY ClientInvInductive
<1> QED
  BY <1>1, <1>2, ElectionInvHolds, ReignInvHolds, PTL DEF Spec

-----------------------------------------------------------------------------
(* Counting the places of a command *)

Tagged(i, tag, S) == {<<i, tag, k>> : k \in S}

PlacesAt(i, c) ==
  Tagged(i, "pending", Waiting(node[i], c))
    \cup Tagged(i, "inflight", Flying(node[i], c))
    \cup Tagged(i, "responses", Owing(node[i], c))
    \cup Tagged(i, "answered", Told(node[i], c))

LEMMA PlacesJoin ==
  ASSUME ReignInv, NEW c
  PROVE  Places(c) = UNION {PlacesAt(i, c) : i \in Server}
<1>1. ASSUME NEW i \in Server
      PROVE  /\ Waiting(node[i], c) = {n \in DOMAIN node[i].pending :
                                         node[i].pending[n] = c}
             /\ Flying(node[i], c) = {n \in DOMAIN node[i].inflight :
                                        node[i].inflight[n].cmd = c}
             /\ Owing(node[i], c) = {n \in DOMAIN node[i].responses :
                                       /\ node[i].responses[n].cmd = c
                                       /\ node[i].responses[n].redirectTo = Nobody}
             /\ Told(node[i], c) = {b \in node[i].answered : b.cmd = c}
  <2>1. /\ node[i].inflight \in Seq(Redirects)
        /\ node[i].responses \in Seq(Debts)
    BY DEF ReignInv, Fit, Sane
  <2>2. \A n \in DOMAIN node[i].inflight : node[i].inflight[n] \in Redirects
    BY <2>1, LenProperties
  <2>3. \A n \in DOMAIN node[i].responses : node[i].responses[n] \in Debts
    BY <2>1, LenProperties
  <2>4. Waiting(node[i], c) = {n \in DOMAIN node[i].pending : node[i].pending[n] = c}
    BY DEF Waiting, Occurs
  <2>5. Flying(node[i], c) = {n \in DOMAIN node[i].inflight :
                                node[i].inflight[n].cmd = c}
    BY <2>2 DEF Flying, Occurs, Flights
  <2>6. Owing(node[i], c) = {n \in DOMAIN node[i].responses :
                               /\ node[i].responses[n].cmd = c
                               /\ node[i].responses[n].redirectTo = Nobody}
    BY <2>3 DEF Owing, Occurs, Claims
  <2> QED
    BY <2>4, <2>5, <2>6 DEF Told
<1>2. \A i \in Server :
        PlacesAt(i, c) =
          {<<i, "pending", k>> : k \in {n \in DOMAIN node[i].pending :
                                          node[i].pending[n] = c}}
          \cup {<<i, "inflight", k>> : k \in {n \in DOMAIN node[i].inflight :
                                                node[i].inflight[n].cmd = c}}
          \cup {<<i, "responses", k>> : k \in {n \in DOMAIN node[i].responses :
                                                 /\ node[i].responses[n].cmd = c
                                                 /\ node[i].responses[n].redirectTo = Nobody}}
          \cup {<<i, "answered", a>> : a \in {b \in node[i].answered : b.cmd = c}}
  BY <1>1 DEF PlacesAt, Tagged
<1> QED
  BY <1>2 DEF Places

LEMMA PlacesOfUnheld ==
  ASSUME NEW i, NEW c, Unheld(node[i], c)
  PROVE  PlacesAt(i, c) = {}
  BY DEF PlacesAt, Tagged, Unheld

\* The image of a set of one element has one element.
LEMMA OneTagged ==
  ASSUME NEW S, One(S), NEW i, NEW tag
  PROVE  \E x : Tagged(i, tag, S) = {x}
<1>1. PICK k \in S : \A y \in S : y = k
  BY DEF One
<1>2. Tagged(i, tag, S) = {<<i, tag, k>>}
  BY <1>1 DEF Tagged
<1> QED
  BY <1>2

LEMMA PlacesOfHeld ==
  ASSUME NEW i, NEW c, HeldOnce(node[i], c)
  PROVE  \E x : PlacesAt(i, c) = {x}
<1> DEFINE s == node[i]
           W == Tagged(i, "pending", Waiting(s, c))
           F == Tagged(i, "inflight", Flying(s, c))
           O == Tagged(i, "responses", Owing(s, c))
           T == Tagged(i, "answered", Told(s, c))
<1>1. /\ Waiting(s, c) = {} => W = {}
      /\ Flying(s, c) = {} => F = {}
      /\ Owing(s, c) = {} => O = {}
      /\ Told(s, c) = {} => T = {}
  BY DEF Tagged
<1>2. PlacesAt(i, c) = W \cup F \cup O \cup T
  BY DEF PlacesAt
<1>3. ASSUME One(Waiting(s, c)) PROVE \E x : W = {x}
  BY <1>3, OneTagged
<1>4. ASSUME One(Flying(s, c)) PROVE \E x : F = {x}
  BY <1>4, OneTagged
<1>5. ASSUME One(Owing(s, c)) PROVE \E x : O = {x}
  BY <1>5, OneTagged
<1>6. ASSUME One(Told(s, c)) PROVE \E x : T = {x}
  BY <1>6, OneTagged
<1> HIDE DEF W, F, O, T
<1> QED
  BY <1>1, <1>2, <1>3, <1>4, <1>5, <1>6 DEF HeldOnce, s

\* Every command is in the one place where ClientInv has it.
LEMMA ClientInvCounts ==
  ASSUME ReignInv, ClientInv
  PROVE  ClientConservation
<1> SUFFICES ASSUME NEW c \in Commands
             PROVE  Cardinality(Places(c)) = IF c \in fresh THEN 0 ELSE 1
  BY DEF ClientConservation
<1>1. Places(c) = UNION {PlacesAt(i, c) : i \in Server}
  BY PlacesJoin
<1>2. CASE c \in fresh
  <2>1. \A i \in Server : PlacesAt(i, c) = {}
    BY <1>2, PlacesOfUnheld DEF ClientInv
  <2>2. Places(c) = {}
    BY <1>1, <2>1
  <2> QED
    BY <1>2, <2>2, FS_EmptySet
<1>3. CASE c \notin fresh
  <2>1. PICK i \in Server : HeldAt(c, i)
    BY <1>3 DEF ClientInv
  <2>2. \A j \in Server \ {i} : PlacesAt(j, c) = {}
    BY <2>1, PlacesOfUnheld DEF HeldAt
  <2>3. PICK x : PlacesAt(i, c) = {x}
    BY <2>1, PlacesOfHeld DEF HeldAt
  <2>4. Places(c) = {x}
    BY <1>1, <2>2, <2>3
  <2> QED
    BY <1>3, <2>4, FS_Singleton
<1> QED
  BY <1>2, <1>3

\* A command that a client gave to a node is pending, in flight, owed or
\* answered, at one node and once, through every election, redirect, retry and
\* lost message: the handlers of raft_client.cpp and hybrid_raft_client.cpp
\* neither lose a command nor answer one twice.
THEOREM Client_Conservation == Spec => []ClientConservation
<1>1. ReignInv /\ ClientInv => ClientConservation
  BY ClientInvCounts
<1> QED
  BY <1>1, ReignInvHolds, ClientInvHolds, PTL

-----------------------------------------------------------------------------
(* What the store holds, what clients are told, and what is on the links *)

\* A message about a client's command is typed.
Errand(m) ==
  m.type \in {"client_command_redirected", "client_command_redirected_response"}
    => m \in Messages

\* The types that Sane leaves out.
Stored(s) ==
  /\ s.kv \in [Keys -> Values]
  /\ s.answered \subseteq Answers
  /\ s.votes \in Nat
  /\ \A k \in Server : \A m \in s.out[k] : Errand(m)

LEMMA OtherErrands ==
  /\ \A t, l, x : Errand(VoteRequest(t, l, x))
  /\ \A t, ack : Errand(VoteResponse(t, ack))
  /\ \A t, p, x, e, c : Errand(AppendRequest(t, p, x, e, c))
  /\ \A t, ok, n, h, x : Errand(AppendResponse(t, ok, n, h, x))
  BY DEF Errand, VoteRequest, VoteResponse, AppendRequest, AppendResponse

LEMMA ClientErrands ==
  ASSUME NEW cmd \in Commands
  PROVE  /\ Errand(Redirect(cmd))
         /\ \A ok \in BOOLEAN : \A value \in Values : Errand(RedirectResponse(cmd, ok, value))
  BY DEF Errand, Redirect, RedirectResponse, Messages

LEMMA RequestErrand == \A s, j : Errand(AppendRequestFor(s, j))
  BY OtherErrands DEF AppendRequestFor

LEMMA StoreValues ==
  /\ \A c \in Commands : Key[c] \in Keys
  /\ \A w \in Writes : Value[w] \in Values
  /\ Absent \in Values
  BY DEF Keys, Values

LEMMA PostStored ==
  ASSUME NEW s, Shape(s), Stored(s), NEW j, NEW m, Errand(m)
  PROVE  Stored(Post(s, j, m))
  BY DEF Post, Shape, Stored

\* The last entry for a key is one of those applied, a write.
LEMMA CommitStored ==
  ASSUME NEW s, Sane(s), Stored(s), NEW upTo \in 0..Len(s.log)
  PROVE  Stored(Commit(s, upTo))
<1> DEFINE applied(k) == {p \in (s.commit + 1)..upTo : Key[s.log[p].cmd] = k}
           last(k) == CHOOSE p \in applied(k) : \A q \in applied(k) : q <= p
           kv == [k \in Keys |-> IF applied(k) = {} THEN s.kv[k]
                                 ELSE Value[s.log[last(k)].cmd]]
           u == Commit(s, upTo)
<1>1. /\ Len(s.log) \in Nat /\ upTo \in Nat /\ upTo <= Len(s.log) /\ s.commit \in Nat
      /\ \A p \in 1..Len(s.log) : s.log[p].cmd \in Writes
  <2>1. /\ Len(s.log) \in Nat /\ DOMAIN s.log = 1..Len(s.log)
        /\ \A p \in DOMAIN s.log : s.log[p] \in Entries
    BY SaneLog
  <2>2. s.commit \in Nat
    BY DEF Sane
  <2> QED
    BY <2>1, <2>2 DEF Entries
<1>2. ASSUME NEW k \in Keys, applied(k) # {}
      PROVE  Value[s.log[last(k)].cmd] \in Values
  <2>1. /\ applied(k) \subseteq Nat /\ applied(k) \subseteq 1..Len(s.log)
        /\ \A p \in applied(k) : p <= upTo
    BY <1>1
  <2> HIDE DEF applied
  <2>2. \E p \in applied(k) : \A q \in applied(k) : q <= p
    BY <1>1, <1>2, <2>1, GreatestOf
  <2>3. last(k) \in applied(k)
    BY <2>2, Zenon
  <2> HIDE DEF last
  <2> QED
    BY <1>1, <2>1, <2>3, StoreValues
<1>3. u.kv = kv /\ u.answered = s.answered /\ u.votes = s.votes /\ u.out = s.out
  BY DEF Commit, Sane, Shape
<1> HIDE DEF applied, last, u
<1>4. kv \in [Keys -> Values]
  <2>1. \A k \in Keys : s.kv[k] \in Values
    BY DEF Stored
  <2> QED
    BY <1>2, <2>1
<1> HIDE DEF kv
<1> QED
  BY <1>3, <1>4 DEF Stored, u

LEMMA RespondStored ==
  ASSUME NEW s, Shape(s), Stored(s), NEW to, NEW cmd \in Commands,
         NEW ok \in BOOLEAN, NEW value \in Values
  PROVE  Stored(Respond(s, to, cmd, ok, value))
<1>1. CASE to = Nobody
  BY <1>1 DEF Respond, Shape, Stored, Answers
<1>2. CASE to # Nobody
  BY <1>2, ClientErrands, PostStored DEF Respond
<1> QED
  BY <1>1, <1>2

LEMMA DrainStored ==
  ASSUME NEW s, Sane(s), Stored(s), NEW ok \in BOOLEAN, NEW n \in 0..Len(s.responses)
  PROVE  Stored(DrainPendingClientResponses(s, ok, n))
<1> DEFINE drained == {s.responses[k] : k \in 1..n}
           told == {[cmd |-> r.cmd, ok |-> ok, value |-> Absent] :
                      r \in {d \in drained : d.redirectTo = Nobody}}
           sent(j) == {RedirectResponse(r.cmd, ok, Absent) :
                         r \in {d \in drained : d.redirectTo = j}}
           u == DrainPendingClientResponses(s, ok, n)
<1>1. \A d \in drained : d.cmd \in Commands
  <2>1. s.responses \in Seq(Debts) /\ Len(s.responses) \in Nat
    BY LenProperties DEF Sane
  <2>2. \A k \in 1..n : s.responses[k] \in Debts
    BY <2>1
  <2> QED
    BY <2>2 DEF Debts, Commands
<1>2. /\ u.kv = s.kv /\ u.votes = s.votes /\ u.answered = s.answered \cup told
      /\ \A j \in Server : u.out[j] = s.out[j] \cup sent(j)
  BY DEF DrainPendingClientResponses, Sane, Shape
<1> HIDE DEF drained, u
<1>3. told \subseteq Answers
  BY <1>1, StoreValues DEF Answers
<1>4. \A j : \A m \in sent(j) : Errand(m)
  BY <1>1, StoreValues, ClientErrands
<1> HIDE DEF told, sent
<1> QED
  BY <1>2, <1>3, <1>4 DEF Stored, u

LEMMA SendStored ==
  ASSUME NEW s, Shape(s), Stored(s), NEW peers
  PROVE  Stored(SendAppendEntries(s, peers))
<1> DEFINE u == SendAppendEntries(s, peers)
<1>1. /\ u.kv = s.kv /\ u.answered = s.answered /\ u.votes = s.votes
      /\ \A k \in Server : \A m \in u.out[k] : m \in s.out[k] \/ m = AppendRequestFor(s, k)
  BY DEF SendAppendEntries, Shape
<1> HIDE DEF u
<1> QED
  BY <1>1, RequestErrand DEF Stored, u

\* Beyond its end the log has no term that a node can be in, so that what is
\* committed is in the log.
LEMMA UpdateCommitIndexStored ==
  ASSUME NEW i \in Server, NEW s, Sane(s), Stored(s)
  PROVE  Stored(UpdateCommitIndex(s, i))
<1> DEFINE candidate == MajorityMatch(s, i)
           committed == Commit(s, candidate)
           n == CommittedResponses(committed)
           u == UpdateCommitIndex(s, i)
<1>1. candidate \in Nat
  BY MajorityMatchBacked
<1>2. u = IF candidate > s.commit /\ TermAt(s, candidate) = s.term
          THEN DrainPendingClientResponses(committed, TRUE, n) ELSE s
  BY DEF UpdateCommitIndex
<1> HIDE DEF candidate, u
<1>3. ASSUME candidate > s.commit, TermAt(s, candidate) = s.term
      PROVE  Stored(DrainPendingClientResponses(committed, TRUE, n))
  <2>1. Len(s.log) \in Nat /\ s.commit \in Nat /\ s.term \in Nat
    BY SaneLog DEF Sane
  <2>2. candidate \in 0..Len(s.log)
    BY <1>1, <1>3, <2>1 DEF TermAt, Garbage
  <2>3. Sane(committed) /\ Stored(committed)
    BY <1>1, <2>2, CommitTame, CommitStored DEF Tame
  <2> HIDE DEF committed
  <2>4. n \in 0..Len(committed.responses)
    BY <2>3, CommittedPrefix
  <2> HIDE DEF n
  <2>5. \A ok \in BOOLEAN : Stored(DrainPendingClientResponses(committed, ok, n))
    BY <2>3, <2>4, DrainStored
  <2> QED
    BY <2>5
<1> QED
  BY <1>2, <1>3 DEF u

LEMMA ExecuteStored ==
  ASSUME NEW i \in Server, NEW s, Sane(s), Stored(s), s.role = "leader",
         NEW cmd \in Commands, NEW to \in Server \cup {Nobody}
  PROVE  Stored(ExecuteClientCommand(s, i, cmd, to))
<1> DEFINE w == ExecuteClientCommand(s, i, cmd, to)
<1>1. CASE cmd \in Reads
  <2>1. s.kv[Key[cmd]] \in Values
    BY StoreValues DEF Stored
  <2>2. \A ok \in BOOLEAN : \A value \in Values : Stored(Respond(s, to, cmd, ok, value))
    BY RespondStored DEF Sane
  <2>3. w = Respond(s, to, cmd, TRUE, s.kv[Key[cmd]])
    BY <1>1 DEF ExecuteClientCommand
  <2> HIDE DEF w
  <2>4. Stored(w)
    BY <2>1, <2>2, <2>3
  <2> QED
    BY <2>4 DEF w
<1>2. CASE cmd \notin Reads
  <2> DEFINE entry == Entry(s, cmd)
             debt == [index |-> Len(s.log) + 1, redirectTo |-> to, cmd |-> cmd]
             appended == [s EXCEPT !.log = Append(@, entry),
                                   !.responses = Append(@, debt)]
             sent == SendAppendEntries(appended, Peers(i))
             u == UpdateCommitIndex(sent, i)
  <2>1. w = u
    BY <1>2 DEF ExecuteClientCommand
  <2>2. /\ s.log \in Seq(Entries) /\ Len(s.log) \in Nat
        /\ s.responses \in Seq(Debts) /\ s.term \in Nat
    BY SaneLog DEF Sane
  <2>3. entry \in Entries /\ debt \in Debts
    BY <1>2, <2>2 DEF Entry, Entries, Debts, Commands
  <2> HIDE DEF entry, debt
  <2>4. Append(s.log, entry) \in Seq(Entries) /\ Append(s.responses, debt) \in Seq(Debts)
    BY <2>2, <2>3, AppendProperties
  <2>5. Sane(appended) /\ appended.role = "leader"
    BY <2>4 DEF Sane, Shape
  <2>6. Stored(appended)
    BY DEF Sane, Shape, Stored
  <2> HIDE DEF appended
  <2>7. Sane(sent)
    BY <2>5, SendTame DEF Tame, Peers
  <2>8. Stored(sent)
    BY <2>5, <2>6, SendStored DEF Sane
  <2> HIDE DEF sent
  <2>9. Stored(u)
    BY <2>7, <2>8, UpdateCommitIndexStored
  <2> QED
    BY <2>1, <2>9
<1> QED
  BY <1>1, <1>2

\* A new leader answers its pending reads; the rest is requests to its peers.
LEMMA ExecutePendingStored ==
  ASSUME NEW i \in Server, NEW s, Sane(s), Stored(s)
  PROVE  Stored(ExecutePending(s, i))
<1> DEFINE writes == Filter(s.pending, Writes)
           base == Len(s.log)
           grown == s.log \o [k \in DOMAIN writes |-> Entry(s, writes[k])]
           reads == {c \in Reads : \E k \in DOMAIN s.pending : s.pending[k] = c}
           answer(c) == [cmd |-> c, ok |-> TRUE, value |-> s.kv[Key[c]]]
           answers == {answer(c) : c \in reads}
           request(j, k) == [AppendRequestFor(s, j) EXCEPT
                               !.entries = SubSeq(grown, base + 1, base + k)]
           sent(j) == {request(j, k) : k \in DOMAIN writes}
           u == ExecutePending(s, i)
<1>1. \A j : \A m \in sent(j) : Errand(m)
  <2>1. \A j, k : Errand(request(j, k))
    BY DEF AppendRequestFor, AppendRequest, Errand
  <2> HIDE DEF request, writes
  <2> QED
    BY <2>1
<1>2. answers \subseteq Answers
  <2>1. \A c \in reads : c \in Commands /\ s.kv[Key[c]] \in Values
    BY StoreValues DEF Stored, Commands
  <2> HIDE DEF reads
  <2>2. \A c \in reads : answer(c) \in Answers
    BY <2>1 DEF Answers
  <2> HIDE DEF answer
  <2> QED
    BY <2>2
<1>3. /\ u.kv = s.kv /\ u.votes = s.votes /\ u.answered = s.answered \cup answers
      /\ \A j \in Server : u.out[j] = IF j = i THEN s.out[j] ELSE s.out[j] \cup sent(j)
  BY DEF ExecutePending, Sane, Shape
<1> HIDE DEF answers, sent, u
<1> QED
  BY <1>1, <1>2, <1>3 DEF Stored, u

LEMMA ForwardStored ==
  ASSUME NEW s, Shape(s), Stored(s), NEW cmds \in Seq(Commands)
  PROVE  Stored(ForwardToLeader(s, cmds))
<1> DEFINE u == ForwardToLeader(s, cmds)
<1>1. \A k \in DOMAIN cmds : cmds[k] \in Commands
  BY LenProperties
<1>2. /\ u.kv = s.kv /\ u.answered = s.answered /\ u.votes = s.votes
      /\ \A k \in Server : \A m \in u.out[k] :
           m \in s.out[k] \/ \E n \in DOMAIN cmds : m = Redirect(cmds[n])
  BY DEF ForwardToLeader, Shape
<1> HIDE DEF u
<1> QED
  BY <1>1, <1>2, ClientErrands DEF Stored, u

LEMMA FlushStored ==
  ASSUME NEW i \in Server, NEW s, Sane(s), Stored(s)
  PROVE  Stored(FlushPendingClientCommands(s, i))
<1> DEFINE emptied == [s EXCEPT !.pending = <<>>]
           u == ForwardToLeader(emptied, s.pending)
<1>1. Stored(ExecutePending(s, i))
  BY ExecutePendingStored
<1>2. Stored(u)
  <2>1. Shape(emptied) /\ Stored(emptied) /\ s.pending \in Seq(Commands)
    BY DEF Sane, Shape, Stored
  <2> HIDE DEF emptied
  <2> QED
    BY <2>1, ForwardStored
<1>3. FlushPendingClientCommands(s, i) \in {ExecutePending(s, i), s, u}
  BY DEF FlushPendingClientCommands
<1> HIDE DEF u
<1> QED
  BY <1>1, <1>2, <1>3

LEMMA SubmitStored ==
  ASSUME NEW i \in Server, NEW s, Sane(s), Stored(s), NEW cmd \in Commands
  PROVE  Stored(SubmitCommand(s, i, cmd))
<1> DEFINE waiting == [s EXCEPT !.pending = Append(@, cmd)]
           sent == ForwardToLeader(s, <<cmd>>)
           u == SubmitCommand(s, i, cmd)
<1>1. CASE s.role = "leader"
  BY <1>1, ExecuteStored DEF SubmitCommand
<1>2. Stored(waiting)
  BY DEF Sane, Shape, Stored
<1>3. Stored(sent)
  <2>1. Shape(s) /\ <<cmd>> \in Seq(Commands)
    BY DEF Sane
  <2> QED
    BY <2>1, ForwardStored
<1>4. s.role # "leader" => u \in {waiting, sent}
  BY DEF SubmitCommand
<1> HIDE DEF waiting, sent, u
<1> QED
  BY <1>1, <1>2, <1>3, <1>4 DEF u

LEMMA RedirectedStored ==
  ASSUME NEW i \in Server, NEW j \in Server, NEW s, Sane(s), Stored(s),
         NEW m, m.cmd \in Commands
  PROVE  Stored(HandleClientCommandRedirected(s, i, j, m))
  BY ExecuteStored DEF HandleClientCommandRedirected

\* The client of a redirect in flight is told what the leader answered.
LEMMA RedirectedResponseStored ==
  ASSUME NEW s, Sane(s), Stored(s), NEW j, NEW m, m.ok \in BOOLEAN, m.value \in Values
  PROVE  Stored(HandleClientCommandRedirectedResponse(s, j, m))
<1> DEFINE matching == MatchingInflight(s, j, m.cmd)
           first == FirstOf(matching)
           cmd == s.inflight[first].cmd
           others == SubSeq(s.inflight, 1, first - 1)
                     \o SubSeq(s.inflight, first + 1, Len(s.inflight))
           told == [s EXCEPT !.inflight = others]
           u == HandleClientCommandRedirectedResponse(s, j, m)
<1>1. CASE matching = {}
  BY <1>1 DEF HandleClientCommandRedirectedResponse
<1>2. CASE matching # {}
  <2>1. /\ s.inflight \in Seq(Redirects) /\ DOMAIN s.inflight = 1..Len(s.inflight)
        /\ \A k \in DOMAIN s.inflight : s.inflight[k] \in Redirects
    BY LenProperties DEF Sane
  <2>2. first \in DOMAIN s.inflight
    <3>1. matching \subseteq Nat /\ matching \subseteq DOMAIN s.inflight
      BY <2>1 DEF MatchingInflight
    <3>2. PICK k \in matching : \A l \in matching : k <= l
      <4> HIDE DEF matching
      <4> QED
        BY <1>2, <3>1, LeastOf
    <3>3. first \in matching
      <4> HIDE DEF matching
      <4> QED
        BY <3>2, Zenon DEF FirstOf
    <3> QED
      BY <3>1, <3>3
  <2>3. u = Respond(told, Nobody, cmd, m.ok, m.value)
    BY <1>2 DEF HandleClientCommandRedirectedResponse
  <2>4. Shape(told) /\ Stored(told)
    BY DEF Sane, Shape, Stored
  <2> HIDE DEF matching, first, u, others
  <2>5. cmd \in Commands
    BY <2>1, <2>2 DEF Redirects
  <2> HIDE DEF told, cmd
  <2>6. Stored(u)
    BY <2>3, <2>4, <2>5, RespondStored
  <2> QED
    BY <2>6 DEF u
<1> QED
  BY <1>1, <1>2

LEMMA RequeueStored ==
  ASSUME NEW s, Shape(s), Stored(s)
  PROVE  /\ Stored(RequeueAllInflight(s))
         /\ \A j : Stored(RequeueInflightNotTo(s, j))
  BY DEF RequeueAllInflight, RequeueInflightNotTo, Shape, Stored

LEMMA BecomeFollowerStored ==
  ASSUME NEW s, Sane(s), Stored(s), NEW t
  PROVE  Stored(BecomeFollower(s, t))
<1> DEFINE N == Len(s.responses)
           drained == DrainPendingClientResponses(s, FALSE, N)
           requeued == RequeueAllInflight(drained)
           u == BecomeFollower(s, t)
<1>1. N \in Nat /\ N \in 0..N /\ N <= N
  BY LenProperties DEF Sane
<1>2. u = [requeued EXCEPT
             !.role = "follower", !.term = t, !.votedFor = Nobody, !.votes = 0,
             !.acks = {}, !.leader = Nobody, !.electionArmed = TRUE]
  BY DEF BecomeFollower
<1> HIDE DEF N
<1>3. Stored(drained)
  <2>1. \A ok \in BOOLEAN : Stored(DrainPendingClientResponses(s, ok, N))
    BY <1>1, DrainStored DEF N
  <2> QED
    BY <2>1
<1>4. Sane(drained)
  <2>1. \A ok : Tame(0, s, DrainPendingClientResponses(s, ok, N))
    BY <1>1, DrainTame DEF N
  <2> QED
    BY <2>1 DEF Tame
<1> HIDE DEF drained
<1>5. Stored(requeued) /\ Shape(requeued)
  BY <1>3, <1>4, RequeueStored, RequeueAllTame DEF Tame, Sane
<1> HIDE DEF requeued, u
<1>6. Stored(u)
  BY <1>2, <1>5 DEF Shape, Stored
<1> QED
  BY <1>6 DEF u

LEMMA StartElectionStored ==
  ASSUME NEW i, NEW s, Sane(s), Stored(s)
  PROVE  Stored(StartElection(s, i))
<1> DEFINE requeued == RequeueAllInflight(s)
           v == BecomeCandidate(s, i)
           request == VoteRequest(v.term, GetLastLogIndex(v), GetLastLogTerm(v))
           u == StartElection(s, i)
<1>1. Stored(requeued) /\ Shape(requeued)
  BY RequeueStored, RequeueAllTame DEF Tame, Sane
<1>2. Stored(v) /\ Shape(v)
  <2>1. v = [requeued EXCEPT !.role = "candidate", !.term = @ + 1, !.votedFor = i,
                             !.votes = 1, !.acks = {}, !.leader = Nobody]
    BY DEF BecomeCandidate
  <2> HIDE DEF requeued, v
  <2> QED
    BY <1>1, <2>1 DEF Shape, Stored
<1>3. Errand(request)
  BY OtherErrands
<1>4. u = [[v EXCEPT !.out = [j \in Server |-> IF j = i THEN v.out[j]
                                               ELSE v.out[j] \cup {request}]]
             EXCEPT !.electionArmed = TRUE]
  BY DEF StartElection, ResetElectionTimer
<1> HIDE DEF v, request, u
<1>5. Stored(u)
  BY <1>2, <1>3, <1>4 DEF Shape, Stored
<1> QED
  BY <1>5 DEF u

LEMMA BecomeLeaderStored ==
  ASSUME NEW i \in Server, NEW s, Sane(s), Stored(s)
  PROVE  Stored(BecomeLeader(s, i))
<1> DEFINE base == GetLastLogIndex(s)
           elected == [s EXCEPT
                         !.role = "leader", !.next = [j \in Server |-> base + 1],
                         !.match = [j \in Server |-> 0],
                         !.heartbeatArmed = TRUE, !.electionArmed = FALSE]
           sent == SendAppendEntries(elected, Peers(i))
           u == FlushPendingClientCommands(sent, i)
<1>1. base \in Nat
  BY SaneLog DEF GetLastLogIndex
<1> HIDE DEF base
<1>2. Stored(elected)
  BY DEF Sane, Shape, Stored
<1>3. Sane(elected) /\ elected.role = "leader"
  <2>1. /\ Shape(elected) /\ elected.role = "leader" /\ elected.term = s.term
        /\ elected.leader = s.leader /\ elected.log = s.log /\ elected.commit = s.commit
        /\ elected.responses = s.responses /\ elected.out = s.out
        /\ elected.pending = s.pending /\ elected.inflight = s.inflight
        /\ elected.next = [j \in Server |-> base + 1]
        /\ elected.match = [j \in Server |-> 0]
        /\ elected.heartbeatArmed = TRUE /\ elected.electionArmed = FALSE
    BY DEF Sane, Shape
  <2>2. /\ [j \in Server |-> base + 1] \in [Server -> Nat \ {0}]
        /\ [j \in Server |-> 0] \in [Server -> Nat]
    BY <1>1
  <2> HIDE DEF elected
  <2> QED
    BY <2>1, <2>2 DEF Sane, Roles
<1> HIDE DEF elected
<1>4. Sane(sent) /\ Stored(sent)
  BY <1>2, <1>3, SendTame, SendStored DEF Tame, Peers, Sane
<1> HIDE DEF sent
<1>5. Stored(u)
  BY <1>4, FlushStored
<1> QED
  BY <1>5 DEF BecomeLeader, u, sent, elected, base

LEMMA RequestVoteStored ==
  ASSUME NEW s, Fit(s), Stored(s), s.out = NoMessages, NEW j, NEW m, m.term \in Nat
  PROVE  Stored(HandleRequestVote(s, j, m))
<1> DEFINE u == IF m.term > s.term THEN BecomeFollower(s, m.term) ELSE s
           canGrant == CanGrant(u, j, m)
           v == IF canGrant THEN GrantVote(u, j) ELSE u
           w == Post(v, j, VoteResponse(u.term, canGrant))
<1>1. Stored(u) /\ Shape(u)
  <2>1. Stored(BecomeFollower(s, m.term))
    BY BecomeFollowerStored DEF Fit
  <2>2. Shape(BecomeFollower(s, m.term)) /\ Shape(s)
    BY BecomeFollowerTurn DEF Turn, Fit, Sane
  <2> QED
    BY <2>1, <2>2
<1> HIDE DEF u
<1>2. Stored(v) /\ Shape(v)
  BY <1>1 DEF GrantVote, ResetElectionTimer, Shape, Stored
<1>3. \A t, ack : Errand(VoteResponse(t, ack))
  BY OtherErrands
<1> HIDE DEF v
<1>4. Stored(w)
  BY <1>2, <1>3, PostStored
<1> QED
  BY <1>4 DEF HandleRequestVote, w, v, canGrant, u

LEMMA VoteResponseStored ==
  ASSUME NEW i \in Server, NEW j \in Server, NEW s, Sane(s), Stored(s), NEW m
  PROVE  Stored(HandleRequestVoteResponse(s, i, j, m))
<1> DEFINE voted == [s EXCEPT !.acks = @ \cup {j}, !.votes = @ + 1]
           counted == IF m.ack /\ j \notin s.acks THEN voted ELSE s
           deposed == BecomeFollower(s, m.term)
           elected == BecomeLeader(counted, i)
           u == HandleRequestVoteResponse(s, i, j, m)
<1>1. Sane(voted)
  BY DEF Sane, Shape
<1>2. Stored(voted)
  BY DEF Sane, Shape, Stored
<1> HIDE DEF voted
<1>3. Sane(counted) /\ Stored(counted)
  BY <1>1, <1>2
<1>4. u \in {s, deposed, counted, elected}
  BY DEF HandleRequestVoteResponse, voted
<1> HIDE DEF counted, u
<1>5. Stored(elected) /\ Stored(deposed)
  BY <1>3, BecomeLeaderStored, BecomeFollowerStored
<1> HIDE DEF elected, deposed
<1> QED
  BY <1>3, <1>4, <1>5 DEF u

LEMMA AppendResponseStored ==
  ASSUME NEW i \in Server, NEW j \in Server, NEW s, Sane(s), Stored(s),
         NEW m \in AppendResponses
  PROVE  Stored(HandleAppendEntriesResponse(s, i, j, m))
<1> DEFINE best == IF m.match > s.match[j] THEN m.match ELSE s.match[j]
           deposed == BecomeFollower(s, m.term)
           retreated == [s EXCEPT !.next[j] = BackOff(s, j, m)]
           retried == SendAppendEntries(retreated, {j})
           matched == [s EXCEPT !.match[j] = best, !.next[j] = best + 1]
           advanced == UpdateCommitIndex(matched, i)
           u == HandleAppendEntriesResponse(s, i, j, m)
<1>1. u \in {s, deposed, retried, advanced}
  BY DEF HandleAppendEntriesResponse
<1>2. best \in Nat
  BY DEF AppendResponses, Hints, Sane
<1> HIDE DEF best, u
<1>3. Stored(deposed)
  BY BecomeFollowerStored
<1>4. Shape(retreated) /\ Stored(retreated)
  BY DEF Sane, Shape, Stored
<1> HIDE DEF retreated
<1>5. Stored(retried)
  BY <1>4, SendStored
<1>6. Stored(matched)
  BY DEF Sane, Shape, Stored
<1>7. Sane(matched)
  <2>1. /\ [s.next EXCEPT ![j] = best + 1] \in [Server -> Nat \ {0}]
        /\ [s.match EXCEPT ![j] = best] \in [Server -> Nat]
    <3>1. s.next \in [Server -> Nat \ {0}] /\ s.match \in [Server -> Nat]
      BY DEF Sane
    <3>2. best + 1 \in Nat \ {0}
      BY <1>2
    <3> QED
      BY <1>2, <3>1, <3>2
  <2>2. matched = [s EXCEPT !.match = [s.match EXCEPT ![j] = best],
                            !.next = [s.next EXCEPT ![j] = best + 1]]
    BY DEF Sane, Shape
  <2> HIDE DEF matched
  <2> QED
    BY <2>1, <2>2 DEF Sane, Shape
<1> HIDE DEF matched
<1>8. Stored(advanced)
  BY <1>6, <1>7, UpdateCommitIndexStored
<1> HIDE DEF deposed, retried, advanced
<1> QED
  BY <1>1, <1>3, <1>5, <1>8 DEF u

LEMMA AcceptStored ==
  ASSUME NEW i \in Server, NEW j \in Server, NEW s, Sane(s), Stored(s),
         NEW m \in AppendRequests, IsLogMatching(s, m)
  PROVE  Stored(Accept(s, i, j, m))
<1> DEFINE log == Merge(s.log, m.prevIndex, m.entries)
           upTo == IF m.commit <= Len(log) THEN m.commit ELSE Len(log)
           reset == ResetElectionTimer(s)
           requeued == RequeueInflightNotTo(reset, j)
           known == [requeued EXCEPT !.leader = j, !.log = log]
           v == IF upTo > s.commit THEN Commit(known, upTo) ELSE known
           w == Post(v, j, AppendResponse(s.term, TRUE, Len(log), 0, 0))
           u == FlushPendingClientCommands(w, i)
<1>1. /\ s.log \in Seq(Entries) /\ m.entries \in Seq(Entries)
      /\ m.prevIndex \in 0..Len(s.log) /\ m.commit \in Nat
  BY SaneLog DEF AppendRequests, IsLogMatching
<1>2. log \in Seq(Entries)
  BY <1>1, MergeMerged DEF Merged
<1> HIDE DEF log
<1>3. Len(log) \in Nat /\ upTo \in Nat /\ upTo \in 0..Len(log)
  BY <1>1, <1>2, LenProperties
<1> HIDE DEF upTo
<1>4. Sane(reset) /\ Stored(reset)
  BY ResetTame DEF Sane, ResetElectionTimer, Shape, Stored
<1> HIDE DEF reset
<1>5. Sane(requeued) /\ Stored(requeued)
  BY <1>4, RequeueNotToTame, RequeueStored DEF Tame, Sane
<1> HIDE DEF requeued
<1>6. Stored(known) /\ known.log = log
  BY <1>5 DEF Sane, Shape, Stored
<1>7. Sane(known)
  <2>1. /\ Shape(known)
        /\ known.role = requeued.role /\ known.term = requeued.term
        /\ known.leader = j /\ known.log = log /\ known.next = requeued.next
        /\ known.match = requeued.match /\ known.commit = requeued.commit
        /\ known.electionArmed = requeued.electionArmed
        /\ known.heartbeatArmed = requeued.heartbeatArmed
        /\ known.pending = requeued.pending /\ known.inflight = requeued.inflight
        /\ known.responses = requeued.responses
    BY <1>5 DEF Sane, Shape
  <2> HIDE DEF known
  <2> QED
    BY <1>2, <1>5, <2>1 DEF Sane
<1> HIDE DEF known
<1>8. Sane(v) /\ Stored(v)
  <2>1. Sane(Commit(known, upTo))
    BY <1>3, <1>7, CommitTame DEF Tame
  <2>2. Stored(Commit(known, upTo))
    BY <1>3, <1>6, <1>7, CommitStored
  <2> QED
    BY <1>6, <1>7, <2>1, <2>2
<1> HIDE DEF v
<1>9. Stored(w)
  <2>1. \A t, n : Errand(AppendResponse(t, TRUE, n, 0, 0))
    BY OtherErrands
  <2> QED
    BY <1>8, <2>1, PostStored DEF Sane
<1>10. Sane(w)
  BY <1>8 DEF Post, Sane, Shape
<1> HIDE DEF w
<1>11. Stored(u)
  BY <1>9, <1>10, FlushStored
<1> QED
  BY <1>11 DEF Accept, u, w, v, known, requeued, reset, upTo, log

LEMMA AppendEntriesStored ==
  ASSUME NEW i \in Server, NEW j \in Server, NEW s, Fit(s), Stored(s),
         s.out = NoMessages, NEW m \in AppendRequests
  PROVE  Stored(HandleAppendEntries(s, i, j, m))
<1> DEFINE u == IF m.term > s.term THEN BecomeFollower(s, m.term)
                ELSE IF s.role = "candidate" THEN YieldToLeader(s)
                ELSE s
           w == HandleAppendEntries(s, i, j, m)
           stale == AppendResponse(s.term, FALSE, 0, 0, 0)
<1>1. Sane(s) /\ m.term \in Nat
  BY DEF Fit, AppendRequests
<1>2. Sane(u) /\ Stored(u)
  <2>1. Sane(BecomeFollower(s, m.term)) /\ Stored(BecomeFollower(s, m.term))
    BY <1>1, BecomeFollowerTurn, BecomeFollowerStored DEF Turn, Fit
  <2>2. Sane(YieldToLeader(s))
    BY <1>1 DEF YieldToLeader, Sane, Shape, Roles
  <2>3. Stored(YieldToLeader(s))
    BY <1>1 DEF YieldToLeader, Sane, Shape, Stored
  <2> QED
    BY <1>1, <2>1, <2>2, <2>3
<1>3. w \in {Post(s, j, stale), Accept(u, i, j, m), Post(u, j, Reject(u, m))}
  BY DEF HandleAppendEntries
<1>4. IsLogMatching(u, m) \/ w \in {Post(s, j, stale), Post(u, j, Reject(u, m))}
  BY DEF HandleAppendEntries
<1> HIDE DEF u, w
<1>5. Errand(stale) /\ Errand(Reject(u, m))
  BY OtherErrands DEF Reject, ConflictHintReject
<1> HIDE DEF stale
<1>6. Stored(Post(s, j, stale)) /\ Stored(Post(u, j, Reject(u, m)))
  BY <1>1, <1>2, <1>5, PostStored DEF Sane
<1>7. IsLogMatching(u, m) => Stored(Accept(u, i, j, m))
  BY <1>2, AcceptStored
<1> QED
  BY <1>3, <1>4, <1>6, <1>7 DEF w

LEMMA OnMessageStored ==
  ASSUME ElectionInv, ReignInv, NEW i \in Server, NEW j \in Server, Stored(node[i]),
         NEW m \in InTransit(j, i), Errand(m), NEW r \in Resolutions(m, node[i].log)
  PROVE  Stored(OnMessage(node[i], i, j, r))
<1> DEFINE s == node[i]
           u == OnMessage(s, i, j, r)
<1>1. /\ Fit(s) /\ Sane(s) /\ s.out = NoMessages
      /\ Known(j, i, m) /\ Mail(j, i, m)
  BY DEF ReignInv, ElectionInv, NodesSound, LinksSound, Fit
<1>2. CASE m.type = "AppendEntries"
  <2>1. m \in AppendRequests
    BY <1>1, <1>2 DEF Known, Letter
  <2>2. r \in AppendRequests /\ r.type = m.type
    <3>1. \A p \in DOMAIN s.log : s.log[p].term \in Nat
      BY <1>1, SaneLog DEF Entries
    <3> QED
      BY <2>1, <3>1 DEF Resolutions, AppendRequests
  <2>3. u = HandleAppendEntries(s, i, j, r)
    BY <1>2, <2>2 DEF OnMessage
  <2>4. Stored(s)
    OBVIOUS
  <2> HIDE DEF u, s
  <2> QED
    BY <1>1, <2>2, <2>3, <2>4, AppendEntriesStored DEF u, s
<1>3. CASE m.type # "AppendEntries"
  <2>1. r = m
    BY <1>3 DEF Resolutions
  <2>2. CASE m.type = "RequestVote"
    <3>1. m.term \in Nat
      BY <1>1, <2>2 DEF Mail, Plain, VoteResponse
    <3> QED
      BY <1>1, <2>1, <2>2, <3>1, RequestVoteStored DEF OnMessage
  <2>3. CASE m.type = "RequestVoteResponse"
    BY <1>1, <2>1, <2>3, VoteResponseStored DEF OnMessage
  <2>4. CASE m.type = "AppendEntriesResponse"
    <3>1. m \in AppendResponses
      BY <1>1, <2>4 DEF Known, Letter
    <3> QED
      BY <1>1, <2>1, <2>4, <3>1, AppendResponseStored DEF OnMessage
  <2>5. CASE m.type = "client_command_redirected"
    <3>1. m.cmd \in Commands
      BY <1>1, <2>5 DEF Known, Letter
    <3> QED
      BY <1>1, <2>1, <2>5, <3>1, RedirectedStored DEF OnMessage
  <2>6. CASE m.type = "client_command_redirected_response"
    <3>1. m.ok \in BOOLEAN /\ m.value \in Values
      BY <2>6 DEF Errand, Messages
    <3> QED
      BY <1>1, <2>1, <2>6, <3>1, RedirectedResponseStored DEF OnMessage
  <2> QED
    BY <1>1, <1>3, <2>2, <2>3, <2>4, <2>5, <2>6 DEF Mail, Plain, VoteResponse
<1> QED
  BY <1>2, <1>3

\* A batch on a link is never empty: Queue drops it, Taken takes it off.
Packed(q) == \A n \in DOMAIN q : q[n] # {}

\* A domain alone does not make a function, or a record, of a value.
Function(f) == f = [x \in DOMAIN f |-> f[x]]

StoreInv ==
  /\ Function(node)
  /\ \A i \in Server : Function(node[i]) /\ Stored(node[i])
  /\ \A a, b \in Server : \A m \in InTransit(a, b) : Errand(m)
  /\ \A a, b \in Server : Packed(links[<<a, b>>])
  /\ fresh \subseteq Commands

LEMMA RunStored ==
  ASSUME ElectionInv, ReignInv, StoreInv, NEW i \in Server, NEW u, Run(i, u)
  PROVE  Stored(u)
<1> DEFINE s == node[i]
           idle == [s EXCEPT !.heartbeatArmed = FALSE]
<1>1. Stored(s) /\ Sane(s) /\ Shape(s)
  BY DEF StoreInv, ReignInv, Fit, Sane
<1>2. ASSUME NEW j \in Server, NEW m \in InTransit(j, i),
             NEW r \in Resolutions(m, s.log), u = OnMessage(s, i, j, r)
      PROVE  Stored(u)
  BY <1>1, <1>2, OnMessageStored DEF StoreInv
<1>3. CASE u = StartElection(s, i)
  BY <1>1, <1>3, StartElectionStored
<1>4. CASE u = SendAppendEntries(s, Peers(i))
  BY <1>1, <1>4, SendStored
<1>5. CASE u = idle
  BY <1>1, <1>5 DEF Shape, Stored
<1>6. ASSUME NEW cmd \in Commands, u = SubmitCommand(s, i, cmd)
      PROVE  Stored(u)
  BY <1>1, <1>6, SubmitStored
<1> QED
  BY <1>2, <1>3, <1>4, <1>5, <1>6 DEF Run, Unprompted

LEMMA QueuePacked ==
  ASSUME NEW q, Queued(q), Packed(q), NEW l, NEW i, NEW out, NEW lost
  PROVE  Packed(Queue(l, i, out, lost, q))
<1> DEFINE kept == {m \in out[l[2]] : <<l[2], m>> \notin lost}
           r == Append(q, kept)
           v == Queue(l, i, out, lost, q)
<1>1. PICK S : q \in Seq(S)
  BY DEF Queued
<1>2. q \in Seq(S \cup {kept}) /\ Len(q) \in Nat /\ DOMAIN q = 1..Len(q)
  BY <1>1
<1>3. v = IF l[1] = i /\ kept # {} THEN r ELSE q
  BY DEF Queue
<1> HIDE DEF kept
<1>4. /\ r \in Seq(S \cup {kept}) /\ Len(r) = Len(q) + 1 /\ r[Len(q) + 1] = kept
      /\ \A n \in 1..Len(q) : r[n] = q[n]
  BY <1>2, AppendProperties
<1>5. DOMAIN r = 1..(Len(q) + 1)
  BY <1>4, LenProperties
<1> HIDE DEF r, v
<1>6. kept # {} => Packed(r)
  BY <1>2, <1>4, <1>5 DEF Packed
<1> QED
  BY <1>3, <1>6 DEF v

LEMMA TakenPacked ==
  ASSUME ElectionInv, StoreInv, NEW i \in Server, NEW j \in Server, NEW m,
         links[<<j, i>>] # <<>>
  PROVE  \A a, b \in Server : Packed(Taken(j, i, m)[<<a, b>>])
<1> DEFINE q == links[<<j, i>>]
           rest == Head(q) \ {m}
           first == <<rest>>
           others == Tail(q)
           r == IF rest = {} THEN others ELSE first \o others
<1>1. PICK S : q \in Seq(S)
  BY DEF ElectionInv, LinksSound
<1>2. /\ others \in Seq(S) /\ Len(others) = Len(q) - 1 /\ Len(q) \in Nat /\ Len(q) > 0
      /\ DOMAIN q = 1..Len(q)
      /\ \A n \in 1..(Len(q) - 1) : others[n] = q[n + 1]
  BY <1>1
<1>3. first \in Seq({rest}) /\ Len(first) = 1 /\ first[1] = rest
  OBVIOUS
<1>4. /\ Taken(j, i, m)[<<j, i>>] = r
      /\ \A a, b \in Server : <<a, b>> # <<j, i>> =>
           Taken(j, i, m)[<<a, b>>] = links[<<a, b>>]
  BY DEF Taken, ElectionInv
<1>5. Packed(q)
  BY DEF StoreInv
<1> HIDE DEF q, rest, first, others
<1>6. Packed(others)
  <2>1. DOMAIN others = 1..(Len(q) - 1)
    BY <1>2, LenProperties
  <2>2. \A n \in DOMAIN others : n + 1 \in DOMAIN q /\ others[n] = q[n + 1]
    BY <1>2, <2>1
  <2> QED
    BY <1>5, <2>2 DEF Packed
<1>7. rest # {} => Packed(first \o others)
  <2>1. first \in Seq(S \cup {rest}) /\ others \in Seq(S \cup {rest})
    BY <1>2, <1>3
  <2>2. Extension(first \o others, first, others)
    BY <2>1, Joined
  <2> DEFINE w == first \o others
  <2>3. /\ DOMAIN w = 1..Len(q) /\ w[1] = rest
        /\ \A n \in 1..(Len(q) - 1) : w[1 + n] = others[n]
    BY <1>2, <1>3, <2>2 DEF Extension
  <2>4. DOMAIN others = 1..(Len(q) - 1)
    BY <1>2, LenProperties
  <2> HIDE DEF w
  <2>5. ASSUME NEW n \in DOMAIN w, rest # {}
        PROVE  w[n] # {}
    <3>1. CASE n = 1
      BY <2>3, <2>5, <3>1
    <3>2. CASE n # 1
      <4>1. n - 1 \in 1..(Len(q) - 1) /\ 1 + (n - 1) = n
        BY <1>2, <2>3, <3>2
      <4>2. w[n] = others[n - 1]
        BY <2>3, <4>1
      <4> QED
        BY <1>6, <2>4, <4>1, <4>2 DEF Packed
    <3> QED
      BY <3>1, <3>2
  <2> QED
    BY <2>5 DEF Packed, w
<1>8. Packed(r)
  BY <1>6, <1>7
<1> HIDE DEF r
<1> QED
  BY <1>4, <1>8 DEF StoreInv

LEMMA StoreStep ==
  ASSUME ElectionInv, ReignInv, StoreInv, NEW i \in Server, NEW u, NEW before,
         NEW budget, Moved(i, u), Mailed(i, u, before, budget), fresh' \subseteq fresh
  PROVE  StoreInv'
<1>1. Stored(u) /\ Shape(u)
  <2>1. Stored(u)
    BY RunStored DEF Moved
  <2> QED
    BY <2>1, MovedFields
<1>2. ASSUME NEW k \in Server
      PROVE  Function(node'[k]) /\ Stored(node'[k])
  <2>1. CASE k = i
    <3> DEFINE w == [u EXCEPT !.out = NoMessages]
    <3>1. Function(w) /\ Stored(w)
      BY <1>1 DEF Shape, Function, Stored, NoMessages
    <3>2. node'[k] = [u EXCEPT !.out = NoMessages]
      BY <2>1 DEF Moved
    <3> QED
      BY <3>1, <3>2
  <2>2. CASE k # i
    BY <2>2 DEF Moved, StoreInv
  <2> QED
    BY <2>1, <2>2
<1>3. ASSUME NEW a \in Server, NEW b \in Server, NEW m \in InTransit(a, b)'
      PROVE  Errand(m)
  BY <1>1 DEF Moved, StoreInv, Stored
<1>4. PICK lost : links' = [l \in Server \X Server |-> Queue(l, i, u.out, lost, before[l])]
  BY DEF Mailed, Step
<1>5. ASSUME NEW a \in Server, NEW b \in Server
      PROVE  Packed(links'[<<a, b>>])
  <2>1. Queued(before[<<a, b>>])
    BY ReceivedKeeps DEF Mailed
  <2>2. Packed(before[<<a, b>>])
    <3>1. CASE before = links
      BY <3>1 DEF StoreInv
    <3>2. ASSUME NEW j \in Server, links[<<j, i>>] # <<>>, NEW m, before = Taken(j, i, m)
          PROVE  Packed(before[<<a, b>>])
      BY <3>2, TakenPacked
    <3>3. \/ before = links
          \/ \E j \in Server : links[<<j, i>>] # <<>> /\ \E m : before = Taken(j, i, m)
      BY DEF Mailed, Received
    <3> QED
      BY <3>1, <3>2, <3>3
  <2>3. links'[<<a, b>>] = Queue(<<a, b>>, i, u.out, lost, before[<<a, b>>])
    BY <1>4
  <2>4. Packed(Queue(<<a, b>>, i, u.out, lost, before[<<a, b>>]))
    BY <2>1, <2>2, QueuePacked
  <2> QED
    BY <2>3, <2>4
<1>6. fresh' \subseteq Commands
  BY DEF StoreInv
<1>7. Function(node')
  BY DEF Mailed, Step, Function
<1>8. /\ (\A k \in Server : Function(node[k]) /\ Stored(node[k]))'
      /\ (\A a, b \in Server : Packed(links[<<a, b>>]))'
  BY <1>2, <1>5 DEF Function, Stored, Packed
<1>9. Function(node)'
  BY <1>7 DEF Function
<1> QED
  BY <1>3, <1>6, <1>8, <1>9 DEF StoreInv

LEMMA StoreInit == Init => StoreInv
<1> SUFFICES ASSUME Init PROVE StoreInv
  OBVIOUS
<1>1. \A i \in Server : node[i] = InitNode
  BY DEF Init
<1>2. Stored(InitNode) /\ Function(InitNode) /\ Function(node)
  <2>1. [k \in Keys |-> Absent] \in [Keys -> Values]
    BY StoreValues
  <2>2. Stored(InitNode)
    BY <2>1 DEF Stored, InitNode, NoMessages
  <2>3. Function(InitNode) /\ Function(node)
    BY DEF Init, InitNode, Function
  <2> QED
    BY <2>2, <2>3
<1>3. \A a, b \in Server : links[<<a, b>>] = <<>>
  BY DEF Init
<1>4. DOMAIN <<>> = {}
  BY EmptySeq
<1>5. \A a, b \in Server : InTransit(a, b) = {} /\ Packed(links[<<a, b>>])
  BY <1>3, <1>4 DEF InTransit, Packed
<1>6. fresh \subseteq Commands
  BY DEF Init
<1> QED
  BY <1>1, <1>2, <1>5, <1>6 DEF StoreInv

LEMMA StoreInvInductive == ElectionInv /\ ReignInv /\ StoreInv /\ [Next]_vars => StoreInv'
<1> SUFFICES ASSUME ElectionInv, ReignInv, StoreInv, [Next]_vars
             PROVE  StoreInv'
  OBVIOUS
<1>1. CASE Next
  <2>1. PICK i \in Server : \E u, before, budget :
          Moved(i, u) /\ Mailed(i, u, before, budget)
    BY <1>1, NextMailed
  <2>2. PICK u, before, budget : Moved(i, u) /\ Mailed(i, u, before, budget)
    BY <2>1
  <2>3. fresh' \subseteq fresh
    BY <1>1 DEF Next, Deliver, ElectionTimeout, HeartbeatTimeout, ClientCommand
  <2> QED
    BY <2>2, <2>3, StoreStep
<1>2. CASE UNCHANGED vars
  BY <1>2 DEF vars, StoreInv, Function, Stored, Packed, InTransit
<1> QED
  BY <1>1, <1>2

\* Stores and answers are typed in every state: a commit applies only writes that
\* are in the log, though UpdateCommitIndex may look beyond its end.
THEOREM StoreInvHolds == Spec => []StoreInv
<1>1. Init => StoreInv
  BY StoreInit
<1>2. ElectionInv /\ ReignInv /\ StoreInv /\ [Next]_vars => StoreInv'
  BY StoreInvInductive
<1> QED
  BY <1>1, <1>2, ElectionInvHolds, ReignInvHolds, PTL DEF Spec

LEMMA MessagesTyped ==
  ASSUME ElectionInv, ReignInv, StoreInv, NEW a \in Server, NEW b \in Server,
         NEW m \in InTransit(a, b)
  PROVE  m \in Messages
<1>1. Mail(a, b, m) /\ Letter(m) /\ Errand(m)
  BY DEF ElectionInv, LinksSound, ReignInv, Known, StoreInv
<1>2. CASE m.type = "AppendEntries"
  BY <1>1, <1>2 DEF Letter, AppendRequests, Messages
<1>3. CASE m.type = "AppendEntriesResponse"
  <2>1. Hints \subseteq Nat
    BY DEF Hints
  <2> QED
    BY <1>1, <1>3, <2>1 DEF Letter, AppendResponses, Messages
<1>4. CASE m.type = "RequestVote"
  BY <1>1, <1>4 DEF Letter, VoteRequests, Messages
<1>5. CASE \E t \in Nat, ack \in BOOLEAN : m = VoteResponse(t, ack)
  BY <1>5 DEF VoteResponse, Messages
<1>6. CASE m.type \in {"client_command_redirected", "client_command_redirected_response"}
  BY <1>1, <1>6 DEF Errand
<1> QED
  BY <1>1, <1>2, <1>3, <1>4, <1>5, <1>6 DEF Mail, Plain

\* A record with the fields of a node is one of NodeStates.
LEMMA NodeTyped ==
  ASSUME ElectionInv, ReignInv, StoreInv, NEW i \in Server
  PROVE  node[i] \in NodeStates
<1> DEFINE s == node[i]
<1>1. Sane(s) /\ Function(s) /\ Stored(s) /\ Ballot(i, s) /\ s.out = NoMessages
  BY DEF ReignInv, Fit, StoreInv, ElectionInv, NodesSound
<1>2. s = [role |-> s.role, term |-> s.term, votedFor |-> s.votedFor,
           votes |-> s.votes, acks |-> s.acks, leader |-> s.leader, log |-> s.log,
           next |-> s.next, match |-> s.match, commit |-> s.commit, kv |-> s.kv,
           pending |-> s.pending, inflight |-> s.inflight, responses |-> s.responses,
           electionArmed |-> s.electionArmed, heartbeatArmed |-> s.heartbeatArmed,
           out |-> s.out, answered |-> s.answered]
  <2>1. Shape(s) /\ Function(s)
    BY <1>1 DEF Sane
  <2> HIDE DEF s
  <2> QED
    BY <2>1 DEF Shape, Function
<1> HIDE DEF s
<1>3. /\ s.votedFor \in Server \cup {Nobody} /\ s.acks \in SUBSET Server
      /\ s.votes \in Nat /\ s.kv \in [Keys -> Values] /\ s.answered \in SUBSET Answers
  BY <1>1 DEF Ballot, Stored
<1> QED
  BY <1>1, <1>2, <1>3 DEF NodeStates, Sane, Redirects, Debts, s

\* Every member of a node, every message on a link and every bound has its type in
\* every state, in raft/ as in hybrid_raft/.
THEOREM Types_OK == Spec => []TypeOK
<1>1. ElectionInv /\ ReignInv /\ FollowInv /\ StoreInv => TypeOK
  <2> SUFFICES ASSUME ElectionInv, ReignInv, FollowInv, StoreInv
               PROVE  TypeOK
    OBVIOUS
  <2>1. node \in [Server -> NodeStates]
    <3>1. DOMAIN node = Server /\ Function(node)
      BY DEF ElectionInv, NodesSound, StoreInv
    <3>2. \A i \in Server : node[i] \in NodeStates
      BY NodeTyped
    <3> QED
      BY <3>1, <3>2 DEF Function
  <2>2. ASSUME NEW l \in Server \X Server
        PROVE  links[l] \in Seq((SUBSET Messages) \ {{}})
    <3>1. PICK a \in Server, b \in Server : l = <<a, b>>
      OBVIOUS
    <3> DEFINE q == links[<<a, b>>]
               B == (SUBSET Messages) \ {{}}
    <3>2. PICK S : q \in Seq(S)
      BY DEF ElectionInv, LinksSound
    <3>3. \A n \in DOMAIN q : q[n] \in B
      <4>1. \A n \in DOMAIN q : q[n] \subseteq InTransit(a, b)
        BY DEF InTransit
      <4>2. \A n \in DOMAIN q : q[n] # {}
        BY DEF StoreInv, Packed
      <4> QED
        BY <4>1, <4>2, MessagesTyped
    <3>4. q \in [1..Len(q) -> B] /\ Len(q) \in Nat
      BY <3>2, <3>3, LenProperties
    <3> HIDE DEF B
    <3>5. q \in Seq(B)
      BY <3>4, SeqDef
    <3> QED
      BY <3>1, <3>5 DEF B
  <2>3. left \in [elections : Nat, heartbeats : Nat, losses : Nat]
    BY BoundAssumption DEF FollowInv, BudgetInv
  <2> QED
    BY <2>1, <2>2, <2>3 DEF TypeOK, StoreInv
<1> QED
  BY <1>1, ElectionInvHolds, ReignInvHolds, FollowInvHolds, StoreInvHolds, PTL

=============================================================================
