--------------------------- MODULE ContinuityProofs ---------------------------
(***************************************************************************)
(* Proofs about SessionStore and Continuity, for any clients, tools and    *)
(* caps, and every bound on calls and deletions.                           *)
(*                                                                         *)
(* The first half is about SessionStore alone: what the grouping of        *)
(* messages into turns and the appending of a batch to the stored turns    *)
(* do, for every history and batch.  The second is about the two together. *)
(*                                                                         *)
(* The invariant has four parts beside the types.  Who holds the row lock  *)
(* and what a deletion has swept (RowInv), what the advisory lock and the  *)
(* versions of a task have to do with each other (TaskInv), how many       *)
(* surrogate ids the calls under way can still take (IdsInv), and that an  *)
(* append which walked the turns under the lock knows the last of them     *)
(* (WriteInv).                                                             *)
(***************************************************************************)
EXTENDS Continuity, FiniteSetTheorems, SequenceTheorems, TLAPS

Messages == Seq(Message)
-----------------------------------------------------------------------------
(* Counting *)

LEMMA DisjointUnion ==
    ASSUME NEW S, NEW T, IsFiniteSet(S), IsFiniteSet(T), S \cap T = {}
    PROVE  IsFiniteSet(S \cup T) /\ Cardinality(S \cup T) = Cardinality(S) + Cardinality(T)
<1>1. Cardinality(S \cap T) = 0  BY FS_EmptySet
<1>2. Cardinality(S) \in Nat /\ Cardinality(T) \in Nat  BY FS_CardinalityType
<1>3. IsFiniteSet(S \cup T)
        /\ Cardinality(S \cup T) = Cardinality(S) + Cardinality(T) - Cardinality(S \cap T)
  BY FS_Union
<1>4. QED  BY <1>1, <1>2, <1>3

LEMMA Shifted ==
    ASSUME NEW S \in SUBSET Nat, IsFiniteSet(S), NEW k \in Nat
    PROVE  LET T == {k + x : x \in S} IN
           IsFiniteSet(T) /\ Cardinality(T) = Cardinality(S)
<1> DEFINE T == {k + x : x \in S}
           f == [x \in S |-> k + x]
<1>1. f \in [S -> T] /\ \A t \in T : \E x \in S : f[x] = t  OBVIOUS
<1>2. \A x, y \in S : f[x] = f[y] => x = y
  <2>1. TAKE x \in S, y \in S
  <2>2. x \in Nat /\ y \in Nat  OBVIOUS
  <2>3. k + x = k + y => x = y  BY <2>2
  <2>4. QED  BY <2>3
<1>3. f \in Injection(S, T)  BY <1>1, <1>2 DEF Injection, IsInjective
<1>4. f \in Surjection(S, T)  BY <1>1 DEF Surjection
<1>5. ExistsBijection(S, T)  BY <1>3, <1>4 DEF ExistsBijection, Bijection
<1>6. QED  BY <1>5, FS_Bijection

LEMMA UpTo ==
    ASSUME NEW n \in Nat
    PROVE  IsFiniteSet(1..n) /\ Cardinality(1..n) = n
<1>1. 1 \in Int /\ n \in Int  OBVIOUS
<1>2. IsFiniteSet(1..n) /\ Cardinality(1..n) = IF 1 > n THEN 0 ELSE n - 1 + 1
  BY <1>1, FS_Interval
<1>3. QED  BY <1>2

LEMMA Counted ==
    ASSUME NEW n \in Nat, NEW S \in SUBSET (1..n)
    PROVE  IsFiniteSet(S) /\ Cardinality(S) \in 0..n
<1>1. IsFiniteSet(1..n) /\ Cardinality(1..n) = n  BY UpTo
<1>2. IsFiniteSet(S) /\ Cardinality(S) <= n  BY <1>1, FS_Subset
<1>3. Cardinality(S) \in Nat  BY <1>2, FS_CardinalityType
<1>4. QED  BY <1>2, <1>3

LEMMA Smallest ==
    ASSUME NEW S \in SUBSET Nat, S # {}
    PROVE  Min(S) \in S /\ \A y \in S : Min(S) <= y
<1>1. PICK x \in S : \A y \in S : ~ (<<y, x>> \in OpToRel(<, Nat))
  BY NatLessThanWellFounded, WFMin
<1>2. \A y \in S : y < x => <<y, x>> \in OpToRel(<, Nat)
  BY DEF OpToRel
<1>3. \A y \in S : ~ (y < x)  BY <1>1, <1>2, Zenon
<1>4. \A y \in S : x <= y  BY <1>3
<1>5. QED  BY <1>4 DEF Min
-----------------------------------------------------------------------------
(* Pieces of sequences *)

LEMMA Cut ==
    ASSUME NEW s \in Messages, NEW a \in 0..Len(s), NEW b \in 0..Len(s)
    PROVE  LET p == SubSeq(s, a + 1, b) IN
           /\ p \in Messages /\ Len(p) = IF a <= b THEN b - a ELSE 0
           /\ \A i \in 1..(b - a) : p[i] = s[a + i]
<1> DEFINE m == a + 1
           p == SubSeq(s, m, b)
<1>1. Len(s) \in Nat /\ a \in Nat /\ b \in Nat /\ m \in Int /\ b \in Int  BY DEF Messages
<1>2. \A i \in m..b : s[i] \in Message
  <2>1. \A i \in m..b : i \in 1..Len(s)  BY <1>1
  <2>2. QED  BY <2>1, ElementOfSeq DEF Messages
<1> HIDE DEF m
<1>3. p \in Seq(Message) /\ Len(p) = (IF m <= b THEN b - m + 1 ELSE 0)
        /\ \A i \in 1..(b - m + 1) : p[i] = s[m + i - 1]
  BY <1>1, <1>2, SubSeqProperties
<1> HIDE DEF p
<1>4. b - m + 1 = b - a /\ (m <= b <=> a + 1 <= b) /\ \A i \in Int : m + i - 1 = a + i
  BY <1>1 DEF m
<1>5. Len(p) = (IF a <= b THEN b - a ELSE 0)  BY <1>1, <1>3, <1>4
<1>6. \A i \in 1..(b - a) : p[i] = s[a + i]
  BY <1>1, <1>3, <1>4
<1>7. QED  BY <1>3, <1>5, <1>6 DEF p, m, Messages

\* The same piece, of another sequence and `k` places further on.
LEMMA CutSame ==
    ASSUME NEW s \in Messages, NEW t \in Messages, NEW k \in Nat,
           NEW a \in 0..Len(s), NEW b \in 0..Len(s), k + Len(s) <= Len(t),
           \A i \in 1..Len(s) : t[k + i] = s[i]
    PROVE  SubSeq(t, (k + a) + 1, k + b) = SubSeq(s, a + 1, b)
<1> DEFINE p == SubSeq(s, a + 1, b)
           q == SubSeq(t, (k + a) + 1, k + b)
<1>1. Len(s) \in Nat /\ Len(t) \in Nat /\ a \in Nat /\ b \in Nat  BY DEF Messages
<1>2. k + a \in 0..Len(t) /\ k + b \in 0..Len(t)  BY <1>1
<1>3. p \in Messages /\ Len(p) = (IF a <= b THEN b - a ELSE 0)
        /\ \A i \in 1..(b - a) : p[i] = s[a + i]
  BY Cut
<1>4. q \in Messages /\ Len(q) = (IF k + a <= k + b THEN (k + b) - (k + a) ELSE 0)
        /\ \A i \in 1..((k + b) - (k + a)) : q[i] = t[(k + a) + i]
  BY <1>2, Cut
<1> HIDE DEF p, q
<1>5. Len(p) = Len(q)  BY <1>1, <1>3, <1>4
<1>6. ASSUME NEW i \in 1..Len(p)  PROVE p[i] = q[i]
  <2>1. i \in 1..(b - a) /\ i \in 1..((k + b) - (k + a)) /\ a + i \in 1..Len(s)
          /\ (k + a) + i = k + (a + i)
    BY <1>1, <1>3
  <2>2. QED  BY <1>3, <1>4, <2>1
<1>7. p = q  BY <1>3, <1>4, <1>5, <1>6, SeqEqual DEF Messages
<1>8. QED  BY <1>7 DEF p, q

\* A piece that crosses from one sequence into the next.
LEMMA CutAcross ==
    ASSUME NEW s \in Messages, NEW t \in Messages, NEW a \in 0..Len(s), NEW j \in 0..Len(t)
    PROVE  SubSeq(s \o t, a + 1, Len(s) + j) = SubSeq(s, a + 1, Len(s)) \o SubSeq(t, 1, j)
<1> DEFINE all == s \o t
           p == SubSeq(s, a + 1, Len(s))
           q == SubSeq(t, 1, j)
           r == SubSeq(all, a + 1, Len(s) + j)
<1>1. Len(s) \in Nat /\ Len(t) \in Nat /\ a \in Nat /\ j \in Nat /\ a <= Len(s)
        /\ Len(s) \in 0..Len(s) /\ 0 \in 0..Len(t)
  BY DEF Messages
<1>2. all \in Messages /\ Len(all) = Len(s) + Len(t)
        /\ (\A i \in 1..Len(s) : all[i] = s[i])
        /\ (\A i \in 1..Len(t) : all[Len(s) + i] = t[i])
  BY <1>1 DEF Messages
<1>3. p \in Messages /\ Len(p) = Len(s) - a /\ \A i \in 1..(Len(s) - a) : p[i] = s[a + i]
  BY <1>1, Cut
<1>4. q \in Messages /\ Len(q) = j /\ \A i \in 1..j : q[i] = t[i]
  <2> DEFINE z == SubSeq(t, 0 + 1, j)
  <2>1. /\ z \in Messages /\ Len(z) = IF 0 <= j THEN j - 0 ELSE 0
        /\ \A i \in 1..(j - 0) : z[i] = t[0 + i]
    BY <1>1, Cut
  <2>2. 0 + 1 = 1 /\ j - 0 = j /\ \A i \in 1..j : 0 + i = i  BY <1>1
  <2>3. q = z  BY <2>2
  <2> HIDE DEF q, z
  <2>4. QED  BY <1>1, <2>1, <2>2, <2>3
<1> HIDE DEF all
<1>5. a \in 0..Len(all) /\ Len(s) + j \in 0..Len(all)  BY <1>1, <1>2
<1>6. r \in Messages /\ Len(r) = (IF a <= Len(s) + j THEN (Len(s) + j) - a ELSE 0)
        /\ \A i \in 1..((Len(s) + j) - a) : r[i] = all[a + i]
  BY <1>2, <1>5, Cut
<1> HIDE DEF p, q, r
<1>7. p \o q \in Messages /\ Len(p \o q) = Len(p) + Len(q)
        /\ (\A i \in 1..Len(p) : (p \o q)[i] = p[i])
        /\ (\A i \in 1..Len(q) : (p \o q)[Len(p) + i] = q[i])
  <2>1. p \in Seq(Message) /\ q \in Seq(Message) /\ Len(p) \in Nat /\ Len(q) \in Nat
    BY <1>1, <1>3, <1>4 DEF Messages
  <2>2. /\ p \o q \in Seq(Message) /\ Len(p \o q) = Len(p) + Len(q)
        /\ \A i \in 1..(Len(p) + Len(q)) :
             (p \o q)[i] = IF i <= Len(p) THEN p[i] ELSE q[i - Len(p)]
    BY <2>1, ConcatProperties
  <2>3. \A i \in 1..Len(p) : i \in 1..(Len(p) + Len(q)) /\ i <= Len(p)  BY <2>1
  <2>4. \A i \in 1..Len(q) : /\ Len(p) + i \in 1..(Len(p) + Len(q))
                             /\ ~(Len(p) + i <= Len(p)) /\ (Len(p) + i) - Len(p) = i
    BY <2>1
  <2>5. QED  BY <2>2, <2>3, <2>4 DEF Messages
<1> DEFINE pq == p \o q
<1> HIDE DEF pq
<1>8. Len(r) = Len(pq)  BY <1>1, <1>3, <1>4, <1>6, <1>7 DEF pq
<1>9. ASSUME NEW i \in 1..Len(r)  PROVE r[i] = pq[i]
  <2>1. r[i] = all[a + i] /\ i \in 1..((Len(s) + j) - a)  BY <1>1, <1>6
  <2>2. CASE i <= Len(s) - a
    <3>1. i \in 1..(Len(s) - a) /\ a + i \in 1..Len(s) /\ i \in 1..Len(p)  BY <1>1, <1>3, <2>1, <2>2
    <3>2. QED  BY <1>2, <1>3, <1>7, <2>1, <3>1 DEF pq
  <2>3. CASE i > Len(s) - a
    <3> DEFINE x == i - (Len(s) - a)
    <3>1. x \in 1..j /\ x \in 1..Len(t) /\ x \in 1..Len(q) /\ a + i = Len(s) + x /\ i = Len(p) + x
      BY <1>1, <1>3, <1>4, <2>1, <2>3
    <3> HIDE DEF x
    <3>2. QED  BY <1>2, <1>4, <1>7, <2>1, <3>1 DEF pq
  <2>4. QED  BY <1>1, <2>1, <2>2, <2>3
<1>10. r = pq  BY <1>6, <1>7, <1>8, <1>9, SeqEqual DEF Messages, pq
<1>11. QED  BY <1>10 DEF r, pq, p, q, all
-----------------------------------------------------------------------------
(* The turns of one history *)

LEMMA Turning ==
    ASSUME NEW msgs \in Messages
    PROVE  /\ Opens(msgs) \in SUBSET (1..Len(msgs)) /\ Len(msgs) \in Nat
           /\ IsFiniteSet(Opens(msgs)) /\ Cardinality(Opens(msgs)) \in 0..Len(msgs)
           /\ msgs # <<>> => 1 \in Opens(msgs) /\ Cardinality(Opens(msgs)) # 0
           /\ \A i \in Nat : TurnOf(msgs, i) \in 0..Cardinality(Opens(msgs))
           /\ \A i \in 1..Len(msgs) : TurnOf(msgs, i) # 0
           /\ \A t \in Nat : Before(msgs, t) \in 0..Len(msgs)
<1>1. DOMAIN msgs = 1..Len(msgs) /\ Len(msgs) \in Nat  BY DEF Messages
<1>2. Opens(msgs) \in SUBSET (1..Len(msgs))  BY <1>1 DEF Opens
<1>3. IsFiniteSet(Opens(msgs)) /\ Cardinality(Opens(msgs)) \in 0..Len(msgs)
  BY <1>1, <1>2, Counted
<1>4. msgs # <<>> => 1 \in Opens(msgs)  BY <1>1 DEF Opens, Messages
<1>5. msgs # <<>> => Cardinality(Opens(msgs)) # 0  BY <1>3, <1>4, FS_EmptySet
<1>6. ASSUME NEW i \in Nat
      PROVE  /\ TurnOf(msgs, i) \in 0..Cardinality(Opens(msgs))
             /\ i \in 1..Len(msgs) => TurnOf(msgs, i) # 0
  <2> DEFINE S == {j \in Opens(msgs) : j <= i}
  <2>1. IsFiniteSet(S) /\ Cardinality(S) <= Cardinality(Opens(msgs)) /\ Cardinality(S) \in Nat
    BY <1>3, FS_Subset, FS_CardinalityType
  <2>2. TurnOf(msgs, i) = Cardinality(S)  BY DEF TurnOf
  <2>3. i \in 1..Len(msgs) => 1 \in S
    <3>1. i \in 1..Len(msgs) => msgs # <<>> /\ 1 <= i  BY <1>1 DEF Messages
    <3>2. QED  BY <1>4, <3>1
  <2>4. i \in 1..Len(msgs) => Cardinality(S) # 0  BY <2>1, <2>3, FS_EmptySet
  <2>5. Cardinality(S) \in 0..Cardinality(Opens(msgs))  BY <1>3, <2>1
  <2>6. QED  BY <2>2, <2>4, <2>5
<1>7. ASSUME NEW t \in Nat  PROVE Before(msgs, t) \in 0..Len(msgs)
  <2>1. {i \in DOMAIN msgs : TurnOf(msgs, i) < t} \in SUBSET (1..Len(msgs))  BY <1>1
  <2>2. QED  BY <1>1, <2>1, Counted DEF Before
<1>8. \A i \in 1..Len(msgs) : i \in Nat  BY <1>1
<1>9. \A i \in 1..Len(msgs) : TurnOf(msgs, i) # 0  BY <1>6, <1>8
<1>10. QED  BY <1>1, <1>2, <1>3, <1>4, <1>5, <1>6, <1>7, <1>9

\* The first turn begins at the beginning and the last one ends at the end.
LEMMA Ends ==
    ASSUME NEW msgs \in Messages
    PROVE  /\ Before(msgs, 1) = 0
           /\ Before(msgs, Cardinality(Opens(msgs)) + 1) = Len(msgs)
<1> DEFINE N == Cardinality(Opens(msgs))
<1>1. DOMAIN msgs = 1..Len(msgs) /\ Len(msgs) \in Nat /\ N \in Nat
  BY Turning DEF Messages
<1>2. \A i \in 1..Len(msgs) : TurnOf(msgs, i) \in 1..N
  BY Turning
<1> HIDE DEF N
<1>3. {i \in DOMAIN msgs : TurnOf(msgs, i) < 1} = {}  BY <1>1, <1>2
<1>4. {i \in DOMAIN msgs : TurnOf(msgs, i) < N + 1} = 1..Len(msgs)  BY <1>1, <1>2
<1>5. Before(msgs, 1) = 0  BY <1>3, FS_EmptySet DEF Before
<1>6. Before(msgs, N + 1) = Len(msgs)  BY <1>1, <1>4, UpTo DEF Before
<1>7. QED  BY <1>5, <1>6 DEF N

LEMMA BeforeGrows ==
    ASSUME NEW msgs \in Messages, NEW s \in Nat, NEW t \in Nat, s <= t
    PROVE  Before(msgs, s) <= Before(msgs, t)
<1> DEFINE S(u) == {i \in DOMAIN msgs : TurnOf(msgs, i) < u}
<1>1. DOMAIN msgs = 1..Len(msgs) /\ Len(msgs) \in Nat  BY DEF Messages
<1>2. \A i \in DOMAIN msgs : TurnOf(msgs, i) \in Nat  BY <1>1, Turning
<1>3. S(s) \subseteq S(t)  BY <1>2
<1>4. S(t) \in SUBSET (1..Len(msgs))  BY <1>1
<1>5. IsFiniteSet(S(t))  BY <1>1, <1>4, Counted
<1>6. Cardinality(S(s)) <= Cardinality(S(t))  BY <1>3, <1>5, FS_Subset
<1>7. QED  BY <1>6 DEF Before

\* Grouping gives sequences of the messages it is given.
LEMMA GroupsOK ==
    ASSUME NEW msgs \in Messages
    PROVE  LET groups == GroupIntoTurns(msgs)
               N == Cardinality(Opens(msgs)) IN
           /\ N \in Nat /\ Len(groups) = N /\ DOMAIN groups = 1..N
           /\ \A t \in 1..N : /\ groups[t] = SubSeq(msgs, Before(msgs, t) + 1, Before(msgs, t + 1))
                              /\ groups[t] \in Messages
<1> DEFINE groups == GroupIntoTurns(msgs)
           N == Cardinality(Opens(msgs))
<1>1. N \in Nat  BY Turning
<1>2. groups = [t \in 1..N |-> SubSeq(msgs, Before(msgs, t) + 1, Before(msgs, t + 1))]
  BY DEF GroupIntoTurns
<1>3. ASSUME NEW t \in 1..N
      PROVE  SubSeq(msgs, Before(msgs, t) + 1, Before(msgs, t + 1)) \in Messages
  <2>1. t \in Nat /\ t + 1 \in Nat  BY <1>1
  <2>2. Before(msgs, t) \in 0..Len(msgs) /\ Before(msgs, t + 1) \in 0..Len(msgs)
    BY <2>1, Turning
  <2> DEFINE a == Before(msgs, t)
             b == Before(msgs, t + 1)
  <2> HIDE DEF a, b
  <2>3. SubSeq(msgs, a + 1, b) \in Seq(Message)  BY <2>2 DEF Messages, a, b
  <2>4. QED  BY <2>3 DEF Messages, a, b
<1> HIDE DEF N
<1>4. Len(groups) = N /\ DOMAIN groups = 1..N  BY <1>1, <1>2
<1>5. QED  BY <1>1, <1>2, <1>3, <1>4 DEF N
-----------------------------------------------------------------------------
(* The turns of a history that a batch extends: `joins` messages of the    *)
(* batch belong to the turn that is open, the others open turns.           *)

Extends(old, batch, joins) ==
    /\ joins \in 0..Len(batch)
    /\ old = <<>> => joins = 0
    /\ \A i \in 1..joins : batch[i].role # "user"
    /\ joins < Len(batch) /\ old # <<>> => batch[joins + 1].role = "user"

RestOf(batch, joins) == SubSeq(batch, joins + 1, Len(batch))

LEMMA Pieces ==
    ASSUME NEW old \in Messages, NEW batch \in Messages, NEW joins,
           Extends(old, batch, joins)
    PROVE  LET all == old \o batch  rest == RestOf(batch, joins)  L == Len(old) + joins IN
           /\ all \in Messages /\ rest \in Messages /\ L \in Nat /\ Len(old) \in Nat
           /\ joins \in Nat /\ Len(old) <= L
           /\ Len(rest) \in Nat /\ Len(rest) = Len(batch) - joins
           /\ Len(all) = L + Len(rest) /\ Len(all) = Len(old) + Len(batch)
           /\ \A i \in 1..Len(old) : all[i] = old[i]
           /\ \A i \in 1..Len(batch) : all[Len(old) + i] = batch[i]
           /\ \A i \in 1..Len(rest) : rest[i] = batch[joins + i] /\ all[L + i] = rest[i]
<1> DEFINE all == old \o batch
           rest == RestOf(batch, joins)
           L == Len(old) + joins
<1>1. Len(old) \in Nat /\ Len(batch) \in Nat /\ joins \in Nat /\ joins <= Len(batch)
  BY DEF Extends, Messages
<1>2. all \in Messages /\ Len(all) = Len(old) + Len(batch)  BY DEF Messages
<1>3. rest \in Messages /\ Len(rest) = Len(batch) - joins
  BY <1>1 DEF Messages, RestOf
<1>4. \A i \in 1..Len(old) : all[i] = old[i]  BY <1>1 DEF Messages
<1>5. \A i \in 1..Len(batch) : all[Len(old) + i] = batch[i]  BY <1>1 DEF Messages
<1>6. ASSUME NEW i \in 1..Len(rest)  PROVE rest[i] = batch[joins + i] /\ all[L + i] = rest[i]
  <2>1. rest[i] = batch[joins + i]  BY <1>1, <1>3 DEF Messages, RestOf
  <2>2. joins + i \in 1..Len(batch) /\ Len(old) + (joins + i) = L + i  BY <1>1, <1>3
  <2>3. all[Len(old) + (joins + i)] = batch[joins + i]  BY <1>5, <2>2
  <2>4. QED  BY <2>1, <2>2, <2>3
<1>7. L \in Nat /\ Len(old) <= L /\ Len(rest) \in Nat /\ Len(all) = L + Len(rest)
  BY <1>1, <1>2, <1>3
<1>8. QED  BY <1>1, <1>2, <1>3, <1>4, <1>5, <1>6, <1>7

LEMMA OpensJoined ==
    ASSUME NEW old \in Messages, NEW batch \in Messages, NEW joins,
           Extends(old, batch, joins)
    PROVE  Opens(old \o batch) =
             Opens(old) \cup {(Len(old) + joins) + x : x \in Opens(RestOf(batch, joins))}
<1> DEFINE all == old \o batch
           rest == RestOf(batch, joins)
           L == Len(old) + joins
<1>1. /\ all \in Messages /\ rest \in Messages /\ L \in Nat /\ Len(old) \in Nat
      /\ joins \in Nat /\ Len(old) <= L
      /\ Len(rest) \in Nat /\ Len(rest) = Len(batch) - joins
      /\ Len(all) = L + Len(rest) /\ Len(all) = Len(old) + Len(batch)
      /\ \A i \in 1..Len(old) : all[i] = old[i]
      /\ \A i \in 1..Len(batch) : all[Len(old) + i] = batch[i]
      /\ \A i \in 1..Len(rest) : rest[i] = batch[joins + i] /\ all[L + i] = rest[i]
  BY Pieces
<1>2. /\ DOMAIN all = 1..Len(all) /\ DOMAIN rest = 1..Len(rest) /\ DOMAIN old = 1..Len(old)
      /\ old # <<>> <=> Len(old) # 0
  BY <1>1 DEF Messages
<1> HIDE DEF all, rest
<1>3. ASSUME NEW i \in 1..Len(old)
      PROVE  i \in Opens(all) <=> i \in Opens(old)
  BY <1>1, <1>2 DEF Opens
<1>4. ASSUME NEW i \in (Len(old) + 1)..L
      PROVE  i \notin Opens(all)
  <2>1. PICK j \in 1..joins : i = Len(old) + j
    <3>1. i - Len(old) \in 1..joins /\ i = Len(old) + (i - Len(old))  BY <1>1
    <3>2. QED  BY <3>1
  <2>2. j \in 1..Len(batch) /\ Len(old) # 0  BY <1>1, <1>2, <2>1 DEF Extends
  <2>3. all[i].role # "user" /\ i # 1  BY <1>1, <2>1, <2>2 DEF Extends
  <2>4. QED  BY <2>3 DEF Opens
<1>5. ASSUME NEW x \in 1..Len(rest)
      PROVE  L + x \in Opens(all) <=> x \in Opens(rest)
  <2>1. L + x \in DOMAIN all /\ all[L + x] = rest[x]  BY <1>1, <1>2
  <2>2. CASE x # 1  BY <1>1, <1>2, <2>1, <2>2 DEF Opens
  <2>3. CASE x = 1
    <3>1. x \in Opens(rest)  BY <1>2, <2>3 DEF Opens
    <3>2. CASE Len(old) = 0
      <4>1. L = 0  BY <1>1, <1>2, <3>2 DEF Extends
      <4>2. QED  BY <2>1, <2>3, <3>1, <4>1 DEF Opens
    <3>3. CASE Len(old) # 0
      <4>1. joins < Len(batch)  BY <1>1
      <4>2. rest[1] = batch[joins + 1]  BY <1>1, <2>3
      <4>3. rest[1].role = "user"  BY <1>2, <3>3, <4>1, <4>2 DEF Extends
      <4>4. QED  BY <2>1, <2>3, <3>1, <4>3 DEF Opens
    <3>4. QED  BY <3>2, <3>3
  <2>4. QED  BY <2>2, <2>3
<1>6. \A i \in 1..Len(all) : \/ i \in 1..Len(old) \/ i \in (Len(old) + 1)..L
                             \/ \E x \in 1..Len(rest) : i = L + x
  <2>1. TAKE i \in 1..Len(all)
  <2>2. CASE i > L
    <3>1. i - L \in 1..Len(rest) /\ i = L + (i - L)  BY <1>1, <2>2
    <3>2. QED  BY <3>1
  <2>3. QED  BY <1>1, <2>2
<1>7. Opens(all) \subseteq 1..Len(all) /\ Opens(old) \subseteq 1..Len(old)
        /\ Opens(rest) \subseteq 1..Len(rest)
  BY <1>2 DEF Opens
<1> HIDE DEF L
<1>8. Opens(all) = Opens(old) \cup {L + x : x \in Opens(rest)}
  <2>1. ASSUME NEW i \in Opens(all)
        PROVE  i \in Opens(old) \cup {L + x : x \in Opens(rest)}
    <3>1. i \in 1..Len(all)  BY <1>7
    <3>2. CASE i \in 1..Len(old)  BY <1>3, <3>2
    <3>3. CASE i \in (Len(old) + 1)..L  BY <1>4, <3>3
    <3>4. CASE \E x \in 1..Len(rest) : i = L + x  BY <1>5, <3>4
    <3>5. QED  BY <1>6, <3>1, <3>2, <3>3, <3>4
  <2>2. ASSUME NEW i \in Opens(old) \cup {L + x : x \in Opens(rest)}
        PROVE  i \in Opens(all)
    <3>1. CASE i \in Opens(old)  BY <1>3, <1>7, <3>1
    <3>2. CASE \E x \in Opens(rest) : i = L + x  BY <1>5, <1>7, <3>2
    <3>3. QED  BY <3>1, <3>2
  <2>3. QED  BY <2>1, <2>2
<1>9. QED  BY <1>8 DEF all, rest, L

LEMMA TurnsJoined ==
    ASSUME NEW old \in Messages, NEW batch \in Messages, NEW joins,
           Extends(old, batch, joins)
    PROVE  LET all == old \o batch  rest == RestOf(batch, joins)  L == Len(old) + joins
               N == Cardinality(Opens(old)) IN
           /\ \A i \in 1..Len(old) : TurnOf(all, i) = TurnOf(old, i)
           /\ \A i \in (Len(old) + 1)..L : TurnOf(all, i) = N
           /\ \A x \in 1..Len(rest) : TurnOf(all, L + x) = N + TurnOf(rest, x)
<1> DEFINE all == old \o batch
           rest == RestOf(batch, joins)
           L == Len(old) + joins
           N == Cardinality(Opens(old))
<1>1. /\ all \in Messages /\ rest \in Messages /\ L \in Nat /\ Len(old) \in Nat
      /\ Len(old) <= L /\ Len(rest) \in Nat
  BY Pieces
<1>2. Opens(all) = Opens(old) \cup {L + x : x \in Opens(rest)}  BY OpensJoined
<1>3. Opens(old) \in SUBSET (1..Len(old)) /\ Opens(rest) \in SUBSET (1..Len(rest))
        /\ IsFiniteSet(Opens(old)) /\ IsFiniteSet(Opens(rest)) /\ N \in Nat
  <2>1. Opens(old) \in SUBSET (1..Len(old)) /\ IsFiniteSet(Opens(old)) /\ N \in Nat
    BY Turning
  <2> HIDE DEF rest
  <2>2. Opens(rest) \in SUBSET (1..Len(rest)) /\ IsFiniteSet(Opens(rest))
    BY <1>1, Turning
  <2>3. QED  BY <2>1, <2>2
<1> HIDE DEF all, rest, L, N
<1>4. ASSUME NEW i \in 1..Len(old)  PROVE TurnOf(all, i) = TurnOf(old, i)
  <2>1. {j \in Opens(all) : j <= i} = {j \in Opens(old) : j <= i}
    <3>1. \A x \in Opens(rest) : L + x > i  BY <1>1, <1>3
    <3>2. QED  BY <1>1, <1>2, <1>3, <3>1
  <2>2. QED  BY <2>1 DEF TurnOf
<1>5. ASSUME NEW i \in (Len(old) + 1)..L  PROVE TurnOf(all, i) = N
  <2>1. {j \in Opens(all) : j <= i} = Opens(old)
    <3>1. \A x \in Opens(rest) : ~(L + x <= i)  BY <1>1, <1>3
    <3>2. \A j \in Opens(old) : j <= i  BY <1>1, <1>3
    <3>3. QED  BY <1>2, <3>1, <3>2
  <2>2. QED  BY <2>1 DEF TurnOf, N
<1>6. ASSUME NEW x \in 1..Len(rest)  PROVE TurnOf(all, L + x) = N + TurnOf(rest, x)
  <2> DEFINE S == {y \in Opens(rest) : y <= x}
             T == {L + y : y \in S}
  <2>1. {j \in Opens(all) : j <= L + x} = Opens(old) \cup T
    <3>1. \A y \in Opens(rest) : L + y <= L + x <=> y <= x  BY <1>1, <1>3
    <3>2. \A j \in Opens(old) : j <= L + x  BY <1>1, <1>3
    <3>3. QED  BY <1>2, <3>1, <3>2
  <2>2. S \in SUBSET Nat /\ IsFiniteSet(S)  BY <1>3, FS_Subset
  <2>3. IsFiniteSet(T) /\ Cardinality(T) = Cardinality(S)
    <3> HIDE DEF S
    <3>1. QED  BY <1>1, <2>2, Shifted
  <2>4. Opens(old) \cap T = {}
    <3>1. \A y \in S : L + y \notin Opens(old)  BY <1>1, <1>3
    <3>2. QED  BY <3>1
  <2>5. Cardinality(Opens(old) \cup T) = N + Cardinality(S)
    <3> HIDE DEF T, S
    <3>1. QED  BY <1>3, <2>3, <2>4, DisjointUnion DEF N
  <2>6. QED  BY <2>1, <2>5 DEF TurnOf
<1>7. QED  BY <1>4, <1>5, <1>6 DEF all, rest, L, N

LEMMA BeforeJoined ==
    ASSUME NEW old \in Messages, NEW batch \in Messages, NEW joins,
           Extends(old, batch, joins)
    PROVE  LET all == old \o batch  rest == RestOf(batch, joins)  L == Len(old) + joins
               N == Cardinality(Opens(old)) IN
           /\ \A t \in 0..N : Before(all, t) = Before(old, t)
           /\ \A s \in Nat \ {0} : Before(all, N + s) = L + Before(rest, s)
<1> DEFINE all == old \o batch
           rest == RestOf(batch, joins)
           L == Len(old) + joins
           N == Cardinality(Opens(old))
<1>1. /\ all \in Messages /\ rest \in Messages /\ L \in Nat /\ Len(old) \in Nat
      /\ Len(old) <= L /\ Len(rest) \in Nat /\ Len(all) = L + Len(rest) /\ N \in Nat
  BY Pieces, Turning
<1>2. DOMAIN all = 1..Len(all) /\ DOMAIN rest = 1..Len(rest) /\ DOMAIN old = 1..Len(old)
  BY <1>1 DEF Messages
<1>3. /\ \A i \in 1..Len(old) : TurnOf(all, i) = TurnOf(old, i) /\ TurnOf(old, i) \in 0..N
      /\ \A i \in (Len(old) + 1)..L : TurnOf(all, i) = N
      /\ \A x \in 1..Len(rest) : TurnOf(all, L + x) = N + TurnOf(rest, x)
  <2>1. \A i \in 1..Len(old) : TurnOf(old, i) \in 0..N  BY <1>1, Turning
  <2>2. QED  BY <2>1, TurnsJoined
<1>4. \A x \in 1..Len(rest) : TurnOf(rest, x) \in Nat
  <2> HIDE DEF rest
  <2>1. Cardinality(Opens(rest)) \in 0..Len(rest)  BY <1>1, Turning
  <2>2. \A x \in Nat : TurnOf(rest, x) \in 0..Cardinality(Opens(rest))  BY <1>1, Turning
  <2>3. QED  BY <1>1, <2>1, <2>2
<1> HIDE DEF all, rest, L, N
<1>5. \A i \in 1..Len(all) : \/ i \in 1..Len(old) \/ i \in (Len(old) + 1)..L
                             \/ \E x \in 1..Len(rest) : i = L + x
  <2>1. TAKE i \in 1..Len(all)
  <2>2. CASE i > L
    <3>1. i - L \in 1..Len(rest) /\ i = L + (i - L)  BY <1>1, <2>2
    <3>2. QED  BY <3>1
  <2>3. QED  BY <1>1, <2>2
<1>6. ASSUME NEW t \in 0..N  PROVE Before(all, t) = Before(old, t)
  <2>1. ASSUME NEW i \in DOMAIN all, TurnOf(all, i) < t
        PROVE  i \in DOMAIN old /\ TurnOf(old, i) < t
    <3>1. ~(i \in (Len(old) + 1)..L)  BY <1>1, <1>3, <2>1
    <3>2. ~(\E x \in 1..Len(rest) : i = L + x)  BY <1>1, <1>3, <1>4, <2>1
    <3>3. i \in 1..Len(old)  BY <1>2, <1>5, <3>1, <3>2
    <3>4. QED  BY <1>2, <1>3, <2>1, <3>3
  <2>2. ASSUME NEW i \in DOMAIN old, TurnOf(old, i) < t
        PROVE  i \in DOMAIN all /\ TurnOf(all, i) < t
    BY <1>1, <1>2, <1>3, <2>2
  <2>3. {i \in DOMAIN all : TurnOf(all, i) < t} = {i \in DOMAIN old : TurnOf(old, i) < t}
    BY <2>1, <2>2
  <2>4. QED  BY <2>3 DEF Before
<1>7. ASSUME NEW s \in Nat \ {0}  PROVE Before(all, N + s) = L + Before(rest, s)
  <2> DEFINE S == {x \in DOMAIN rest : TurnOf(rest, x) < s}
             T == {L + x : x \in S}
  <2>1. ASSUME NEW i \in DOMAIN all, TurnOf(all, i) < N + s
        PROVE  i \in 1..L \cup T
    <3>1. CASE i \in 1..L  BY <3>1
    <3>2. CASE \E x \in 1..Len(rest) : i = L + x
      <4>1. PICK x \in 1..Len(rest) : i = L + x  BY <3>2
      <4>2. TurnOf(rest, x) < s  BY <1>1, <1>3, <1>4, <2>1, <4>1
      <4>3. QED  BY <1>2, <4>1, <4>2
    <3>3. QED  BY <1>1, <1>2, <1>5, <3>1, <3>2
  <2>2. ASSUME NEW i \in 1..L  PROVE i \in DOMAIN all /\ TurnOf(all, i) < N + s
    BY <1>1, <1>2, <1>3
  <2>3. ASSUME NEW x \in S  PROVE L + x \in DOMAIN all /\ TurnOf(all, L + x) < N + s
    BY <1>1, <1>2, <1>3, <1>4
  <2>4. {i \in DOMAIN all : TurnOf(all, i) < N + s} = 1..L \cup T
    BY <2>1, <2>2, <2>3
  <2>5. S \in SUBSET (1..Len(rest))  BY <1>2
  <2>6. IsFiniteSet(S) /\ Cardinality(S) \in Nat /\ S \in SUBSET Nat
    BY <1>1, <2>5, Counted
  <2>7. IsFiniteSet(T) /\ Cardinality(T) = Cardinality(S)
    <3> HIDE DEF S
    <3>1. QED  BY <1>1, <2>6, Shifted
  <2>8. (1..L) \cap T = {}
    <3>1. \A x \in S : L + x \notin 1..L  BY <1>1, <2>5
    <3>2. QED  BY <3>1
  <2>9. IsFiniteSet(1..L) /\ Cardinality(1..L) = L  BY <1>1, UpTo
  <2>10. Cardinality(1..L \cup T) = L + Cardinality(S)
    <3> HIDE DEF T, S
    <3>1. Cardinality(1..L \cup T) = Cardinality(1..L) + Cardinality(T)
      BY <2>7, <2>8, <2>9, <2>6, DisjointUnion
    <3>2. QED  BY <2>7, <2>9, <3>1
  <2>11. QED  BY <2>4, <2>10 DEF Before
<1>8. QED  BY <1>6, <1>7 DEF all, rest, L, N

\* The open turn takes the messages that join it; the rest of the batch is
\* grouped as if it stood alone.
LEMMA GroupsJoined ==
    ASSUME NEW old \in Messages, NEW batch \in Messages, NEW joins,
           Extends(old, batch, joins)
    PROVE  LET was  == GroupIntoTurns(old)
               rest == GroupIntoTurns(RestOf(batch, joins))
               now  == GroupIntoTurns(old \o batch)
               N == Len(was)  M == Len(rest) IN
           /\ N \in Nat /\ M \in Nat /\ Len(now) = N + M
           /\ \A t \in 1..(N - 1) : now[t] = was[t]
           /\ N # 0 => now[N] = was[N] \o SubSeq(batch, 1, joins)
           /\ N = 0 => joins = 0
           /\ \A t \in 1..M : now[N + t] = rest[t]
<1> DEFINE all == old \o batch
           rest == RestOf(batch, joins)
           L == Len(old) + joins
           N == Cardinality(Opens(old))
           M == Cardinality(Opens(rest))
           K == Cardinality(Opens(all))
<1>1. /\ all \in Messages /\ rest \in Messages /\ L \in Nat /\ Len(old) \in Nat
      /\ joins \in Nat /\ Len(old) <= L
      /\ Len(rest) \in Nat /\ Len(rest) = Len(batch) - joins
      /\ Len(all) = L + Len(rest) /\ Len(all) = Len(old) + Len(batch)
      /\ \A i \in 1..Len(old) : all[i] = old[i]
      /\ \A i \in 1..Len(batch) : all[Len(old) + i] = batch[i]
      /\ \A i \in 1..Len(rest) : rest[i] = batch[joins + i] /\ all[L + i] = rest[i]
  BY Pieces
<1>2. /\ \A t \in 0..N : Before(all, t) = Before(old, t)
      /\ \A s \in Nat \ {0} : Before(all, N + s) = L + Before(rest, s)
  BY BeforeJoined
<1>3. N \in Nat /\ (old # <<>> => N # 0) /\ IsFiniteSet(Opens(old))
        /\ Opens(old) \in SUBSET (1..Len(old))
        /\ \A t \in Nat : Before(old, t) \in 0..Len(old)
  <2>1. \A t \in Nat : Before(old, t) \in 0..Len(old)  BY Turning
  <2>2. IsFiniteSet(Opens(old)) /\ Opens(old) \in SUBSET (1..Len(old))  BY Turning
  <2>3. N \in Nat /\ (old # <<>> => N # 0)  BY <2>2, Turning, FS_CardinalityType
  <2>4. QED  BY <2>1, <2>2, <2>3
<1> HIDE DEF all, rest, L, N, M, K
<1>4. M \in Nat /\ IsFiniteSet(Opens(rest)) /\ Opens(rest) \in SUBSET (1..Len(rest))
        /\ \A t \in Nat : Before(rest, t) \in 0..Len(rest)
  <2>1. IsFiniteSet(Opens(rest)) /\ Opens(rest) \in SUBSET (1..Len(rest))  BY <1>1, Turning
  <2>2. M \in Nat  BY <2>1, FS_CardinalityType DEF M
  <2>3. \A t \in Nat : Before(rest, t) \in 0..Len(rest)  BY <1>1, Turning
  <2>4. QED  BY <2>1, <2>2, <2>3
<1>5. K = N + M
  <2> DEFINE T == {L + x : x \in Opens(rest)}
  <2>1. Opens(all) = Opens(old) \cup T  BY OpensJoined DEF all, rest, L
  <2>2. IsFiniteSet(T) /\ Cardinality(T) = M
    <3>1. Opens(rest) \in SUBSET Nat  BY <1>1, <1>4
    <3>2. QED  BY <1>1, <1>4, <3>1, Shifted DEF M
  <2>3. Opens(old) \cap T = {}
    <3>1. \A x \in 1..Len(rest) : L + x \notin 1..Len(old)  BY <1>1
    <3>2. \A x \in Opens(rest) : L + x \notin Opens(old)  BY <1>3, <1>4, <3>1
    <3>3. QED  BY <3>2
  <2> HIDE DEF T
  <2>4. Cardinality(Opens(old) \cup T) = Cardinality(Opens(old)) + Cardinality(T)
    BY <1>3, <2>2, <2>3, DisjointUnion
  <2>5. QED  BY <2>1, <2>2, <2>4 DEF K, N
<1>6. N = 0 => joins = 0
  BY <1>3 DEF Extends
<1>7. Before(old, N + 1) = Len(old)  BY Ends DEF N
<1>8. Before(rest, 1) = 0  BY <1>1, Ends
<1> DEFINE was == GroupIntoTurns(old)
           fresh == GroupIntoTurns(rest)
           now == GroupIntoTurns(all)
<1>9. /\ Len(was) = N /\ Len(fresh) = M /\ Len(now) = N + M
      /\ \A t \in 1..N : was[t] = SubSeq(old, Before(old, t) + 1, Before(old, t + 1))
      /\ \A t \in 1..M : fresh[t] = SubSeq(rest, Before(rest, t) + 1, Before(rest, t + 1))
      /\ \A t \in 1..(N + M) : now[t] = SubSeq(all, Before(all, t) + 1, Before(all, t + 1))
  <2>1. Len(was) = N /\ \A t \in 1..N : was[t] = SubSeq(old, Before(old, t) + 1, Before(old, t + 1))
    BY GroupsOK DEF N
  <2>2. Len(fresh) = M /\ \A t \in 1..M : fresh[t] = SubSeq(rest, Before(rest, t) + 1, Before(rest, t + 1))
    BY <1>1, GroupsOK DEF M
  <2>3. Len(now) = K /\ \A t \in 1..K : now[t] = SubSeq(all, Before(all, t) + 1, Before(all, t + 1))
    BY <1>1, GroupsOK DEF K
  <2>4. QED  BY <1>5, <2>1, <2>2, <2>3
<1> HIDE DEF was, fresh, now
<1>10. ASSUME NEW t \in 1..(N - 1)  PROVE now[t] = was[t]
  <2>1. t \in 1..N /\ t \in 0..N /\ t + 1 \in 0..N /\ t \in 1..(N + M) /\ t \in Nat /\ t + 1 \in Nat
    BY <1>3, <1>4
  <2>2. Before(all, t) = Before(old, t) /\ Before(all, t + 1) = Before(old, t + 1)
    BY <1>2, <2>1
  <2> DEFINE a == Before(old, t)
             b == Before(old, t + 1)
  <2>3. a \in 0..Len(old) /\ b \in 0..Len(old)  BY <1>3, <2>1
  <2>4. now[t] = SubSeq(all, a + 1, b) /\ was[t] = SubSeq(old, a + 1, b)  BY <1>9, <2>1, <2>2
  <2> HIDE DEF a, b
  <2>5. SubSeq(all, (0 + a) + 1, 0 + b) = SubSeq(old, a + 1, b)
    <3>1. 0 \in Nat /\ 0 + Len(old) <= Len(all) /\ \A i \in 1..Len(old) : all[0 + i] = old[i]
      BY <1>1
    <3>2. QED  BY <1>1, <2>3, <3>1, CutSame
  <2>6. 0 + a = a /\ 0 + b = b  BY <1>1, <2>3
  <2>7. QED  BY <2>4, <2>5, <2>6
<1>11. ASSUME N # 0  PROVE now[N] = was[N] \o SubSeq(batch, 1, joins)
  <2>1. N \in 1..N /\ N \in 0..N /\ N \in 1..(N + M) /\ 1 \in Nat \ {0} /\ N + 1 \in Nat
    BY <1>3, <1>4, <1>11
  <2>2. Before(all, N) = Before(old, N) /\ Before(all, N + 1) = L + 0
    BY <1>2, <1>8, <2>1
  <2> DEFINE a == Before(old, N)
  <2>3. a \in 0..Len(old)  BY <1>3
  <2> HIDE DEF a
  <2>4. now[N] = SubSeq(all, a + 1, L) /\ was[N] = SubSeq(old, a + 1, Len(old))
    <3>1. L + 0 = L  BY <1>1
    <3>2. now[N] = SubSeq(all, Before(all, N) + 1, Before(all, N + 1))
            /\ was[N] = SubSeq(old, Before(old, N) + 1, Before(old, N + 1))
      BY <1>9, <2>1
    <3>3. QED  BY <1>7, <2>2, <3>1, <3>2 DEF a
  <2>5. SubSeq(all, a + 1, L) = SubSeq(old, a + 1, Len(old)) \o SubSeq(batch, 1, joins)
    <3>1. joins \in 0..Len(batch)  BY DEF Extends
    <3>2. QED  BY <2>3, <3>1, CutAcross DEF all, L
  <2>6. QED  BY <2>4, <2>5
<1>12. ASSUME NEW t \in 1..M  PROVE now[N + t] = fresh[t]
  <2>1. t \in Nat \ {0} /\ t + 1 \in Nat \ {0} /\ N + t \in 1..(N + M) /\ N + (t + 1) = (N + t) + 1
    BY <1>3, <1>4
  <2> DEFINE a == Before(rest, t)
             b == Before(rest, t + 1)
  <2>2. Before(all, N + t) = L + a /\ Before(all, (N + t) + 1) = L + b
    BY <1>2, <2>1
  <2>3. a \in 0..Len(rest) /\ b \in 0..Len(rest)  BY <1>4, <2>1
  <2>4. now[N + t] = SubSeq(all, (L + a) + 1, L + b) /\ fresh[t] = SubSeq(rest, a + 1, b)
    BY <1>9, <2>1, <2>2
  <2> HIDE DEF a, b
  <2>5. SubSeq(all, (L + a) + 1, L + b) = SubSeq(rest, a + 1, b)
    <3>1. /\ rest \in Messages /\ all \in Messages /\ L \in Nat /\ L + Len(rest) <= Len(all)
          /\ \A i \in 1..Len(rest) : all[L + i] = rest[i]
      BY <1>1
    <3>2. QED  BY <2>3, <3>1, CutSame, SMTT(60)
  <2>6. QED  BY <2>4, <2>5
<1>13. QED
  BY <1>3, <1>4, <1>6, <1>9, <1>10, <1>11, <1>12 DEF was, fresh, now, all, rest
-----------------------------------------------------------------------------
(* Appending a batch to the stored turns                                   *)

Turn == [seq : Nat, msgs : Messages]

\* What is stored of a history: its newest TurnCap turns, numbered from 0.
Past(msgs) ==
    LET n == Len(GroupIntoTurns(msgs)) IN IF n <= TurnCap THEN 0 ELSE n - TurnCap
StoredTurns(msgs) ==
    [i \in 1..(Len(GroupIntoTurns(msgs)) - Past(msgs)) |->
        [seq |-> i - 1, msgs |-> GroupIntoTurns(msgs)[Past(msgs) + i]]]

\* What `_last_turn` finds of them.
LastOf(stored) == IF stored = <<>> THEN 0 ELSE Last(stored).seq + 1

LEMMA LeadingOK ==
    ASSUME NEW batch \in Messages
    PROVE  LET j == Leading(batch) IN
           /\ j \in 0..Len(batch)
           /\ \A i \in 1..j : batch[i].role # "user"
           /\ j < Len(batch) => batch[j + 1].role = "user"
<1> DEFINE users == {i \in DOMAIN batch : batch[i].role = "user"}
<1>1. DOMAIN batch = 1..Len(batch) /\ Len(batch) \in Nat  BY DEF Messages
<1>2. Leading(batch) = IF users = {} THEN Len(batch) ELSE Min(users) - 1  BY DEF Leading
<1>3. CASE users = {}
  <2>1. \A i \in 1..Len(batch) : batch[i].role # "user"  BY <1>1, <1>3
  <2> HIDE DEF users
  <2>2. QED  BY <1>1, <1>2, <1>3, <2>1
<1>4. CASE users # {}
  <2>1. users \in SUBSET Nat /\ users \subseteq 1..Len(batch)  BY <1>1
  <2>2. \A i \in 1..Len(batch) : i \in users <=> batch[i].role = "user"  BY <1>1
  <2> HIDE DEF users
  <2>3. Min(users) \in users /\ \A y \in users : Min(users) <= y  BY <1>4, <2>1, Smallest
  <2> DEFINE m == Min(users)
  <2> HIDE DEF m
  <2>4. m \in 1..Len(batch) /\ batch[m].role = "user" /\ Leading(batch) = m - 1
    BY <1>2, <1>4, <2>1, <2>2, <2>3 DEF m
  <2>5. \A i \in 1..(m - 1) : i \in 1..Len(batch) /\ ~(m <= i)  BY <1>1, <2>4
  <2>6. \A i \in 1..(m - 1) : batch[i].role # "user"  BY <2>2, <2>3, <2>5 DEF m
  <2>7. m - 1 \in 0..Len(batch) /\ (m - 1) + 1 = m  BY <1>1, <2>4
  <2>8. QED  BY <2>4, <2>6, <2>7
<1>5. QED  BY <1>3, <1>4

\* The stored turns, one by one, and the number the next one gets.
LEMMA StoredOK ==
    ASSUME NEW msgs \in Messages
    PROVE  LET groups == GroupIntoTurns(msgs)
               stored == StoredTurns(msgs)
               n == Len(groups) - Past(msgs) IN
           /\ Past(msgs) \in Nat /\ Len(groups) \in Nat /\ n \in 0..TurnCap /\ TurnCap \in Nat
           /\ Past(msgs) # 0 => n = TurnCap
           /\ n = 0 <=> Len(groups) = 0
           /\ n = 0 <=> msgs = <<>>
           /\ stored \in Seq(Turn) /\ Len(stored) = n /\ DOMAIN stored = 1..n
           /\ \A i \in 1..n : /\ stored[i] = [seq |-> i - 1, msgs |-> groups[Past(msgs) + i]]
                              /\ groups[Past(msgs) + i] \in Messages
           /\ LastOf(stored) = n
<1> DEFINE groups == GroupIntoTurns(msgs)
           stored == StoredTurns(msgs)
           N == Len(groups)
           p == Past(msgs)
           n == N - p
<1>1. N \in Nat /\ \A t \in 1..N : groups[t] \in Messages
  <2>1. N = Cardinality(Opens(msgs)) /\ N \in Nat  BY GroupsOK
  <2>2. \A t \in 1..Cardinality(Opens(msgs)) : groups[t] \in Messages  BY GroupsOK
  <2>3. QED  BY <2>1, <2>2
<1>2. TurnCap \in Nat /\ TurnCap # 0  BY CapsPositive
<1>3. p = IF N <= TurnCap THEN 0 ELSE N - TurnCap  BY DEF Past
<1>4. stored = [i \in 1..n |-> [seq |-> i - 1, msgs |-> groups[p + i]]]  BY DEF StoredTurns
<1>5. N = 0 <=> msgs = <<>>
  <2>1. N = Cardinality(Opens(msgs))  BY GroupsOK
  <2>2. msgs # <<>> => Cardinality(Opens(msgs)) # 0  BY Turning
  <2>3. msgs = <<>> => Opens(msgs) = {}  BY DEF Opens
  <2>4. QED  BY <2>1, <2>2, <2>3, FS_EmptySet
<1> HIDE DEF groups, stored, N, p
<1>6. p \in Nat /\ n \in 0..TurnCap /\ (p # 0 => n = TurnCap) /\ (n = 0 <=> N = 0)
        /\ \A i \in 1..n : p + i \in 1..N /\ i - 1 \in Nat
  BY <1>1, <1>2, <1>3
<1>7. \A i \in 1..n : /\ stored[i] = [seq |-> i - 1, msgs |-> groups[p + i]]
                      /\ groups[p + i] \in Messages
  BY <1>1, <1>4, <1>6
<1>8. n \in Nat  BY <1>2, <1>6
<1> HIDE DEF n
<1>9. stored \in Seq(Turn) /\ Len(stored) = n /\ DOMAIN stored = 1..n
  <2>1. \A i \in 1..n : [seq |-> i - 1, msgs |-> groups[p + i]] \in Turn
    BY <1>6, <1>7 DEF Turn
  <2>2. stored \in [1..n -> Turn]  BY <1>4, <2>1
  <2>3. QED  BY <1>8, <2>2
<1>10. LastOf(stored) = n
  <2>1. CASE n = 0
    <3>1. stored = <<>>  BY <1>9, <2>1
    <3>2. QED  BY <2>1, <3>1 DEF LastOf
  <2>2. CASE n # 0
    <3>1. stored # <<>> /\ n \in 1..n  BY <1>8, <1>9, <2>2
    <3>2. Last(stored) = stored[n]  BY <1>9 DEF Last
    <3>3. stored[n] = [seq |-> n - 1, msgs |-> groups[p + n]]  BY <1>7, <3>1
    <3>4. Last(stored).seq = n - 1  BY <3>2, <3>3
    <3>5. QED  BY <1>8, <3>1, <3>4 DEF LastOf
  <2>3. QED  BY <2>1, <2>2
<1>11. QED  BY <1>1, <1>2, <1>5, <1>6, <1>7, <1>9, <1>10 DEF groups, stored, N, p, n

LEMMA GrownRecord ==
    \A s, m, to : [[seq |-> s, msgs |-> m] EXCEPT !.msgs = to] = [seq |-> s, msgs |-> to]
<1>1. TAKE s, m, to
<1> DEFINE x == [[seq |-> s, msgs |-> m] EXCEPT !.msgs = to]
           y == [seq |-> s, msgs |-> to]
<1>2. x = [f \in {"seq", "msgs"} |-> x[f]] /\ y = [f \in {"seq", "msgs"} |-> y[f]]  OBVIOUS
<1>3. x["seq"] = y["seq"] /\ x["msgs"] = y["msgs"]  OBVIOUS
<1>4. QED  BY <1>2, <1>3

\* The stored turns after the insert and before retention: the turns there
\* were, the last of them grown by what joins it, and the turns it opens.
LEMMA Inserted ==
    ASSUME NEW old \in Messages, NEW batch \in Messages
    PROVE  LET stored == StoredTurns(old)
               now == GroupIntoTurns(old \o batch)
               full == InsertGrouped(stored, LastOf(stored), batch)
               K == Len(now) - Past(old) IN
           /\ K \in Nat /\ Len(now) \in Nat /\ Len(now) >= Len(GroupIntoTurns(old))
           /\ full \in Seq(Turn) /\ Len(full) = K
           /\ \A i \in 1..K : full[i] = [seq |-> i - 1, msgs |-> now[Past(old) + i]]
<1> DEFINE stored == StoredTurns(old)
           was == GroupIntoTurns(old)
           now == GroupIntoTurns(old \o batch)
           p == Past(old)
           n == Len(was) - p
           last == LastOf(stored)
           joins == IF last = 0 THEN 0 ELSE Leading(batch)
           rest == RestOf(batch, joins)
           opened == GroupIntoTurns(rest)
           M == Len(opened)
           front == SubSeq(batch, 1, joins)
<1>1. /\ p \in Nat /\ Len(was) \in Nat /\ n \in Nat /\ (n = 0 <=> old = <<>>)
      /\ (n = 0 <=> Len(was) = 0)
      /\ stored \in Seq(Turn) /\ Len(stored) = n /\ DOMAIN stored = 1..n
      /\ \A i \in 1..n : /\ stored[i] = [seq |-> i - 1, msgs |-> was[p + i]]
                         /\ was[p + i] \in Messages
      /\ last = n
  BY StoredOK
<1>2. /\ joins \in 0..Len(batch) /\ (n = 0 => joins = 0)
      /\ \A i \in 1..joins : batch[i].role # "user"
      /\ joins < Len(batch) /\ n # 0 => batch[joins + 1].role = "user"
  <2>1. Len(batch) \in Nat  BY DEF Messages
  <2>2. CASE last = 0  BY <1>1, <2>1, <2>2
  <2>3. CASE last # 0
    <3>1. joins = Leading(batch)  BY <2>3
    <3> HIDE DEF joins
    <3>2. QED  BY <1>1, <2>3, <3>1, LeadingOK
  <2>4. QED  BY <2>2, <2>3
<1> HIDE DEF joins, last
<1>3. Extends(old, batch, joins)  BY <1>1, <1>2 DEF Extends
<1>4. rest \in Messages  BY <1>3, Pieces
<1>5. /\ M \in Nat /\ Len(now) = Len(was) + M
      /\ \A t \in 1..(Len(was) - 1) : now[t] = was[t]
      /\ Len(was) # 0 => now[Len(was)] = was[Len(was)] \o front
      /\ \A t \in 1..M : now[Len(was) + t] = opened[t]
  <2>1. M \in Nat /\ Len(now) = Len(was) + M  BY <1>3, GroupsJoined
  <2>2. \A t \in 1..(Len(was) - 1) : now[t] = was[t]  BY <1>3, GroupsJoined
  <2>3. Len(was) # 0 => now[Len(was)] = was[Len(was)] \o front  BY <1>3, GroupsJoined
  <2>4. \A t \in 1..M : now[Len(was) + t] = opened[t]  BY <1>3, GroupsJoined
  <2>5. QED  BY <2>1, <2>2, <2>3, <2>4
<1>6. DOMAIN opened = 1..M /\ \A t \in 1..M : opened[t] \in Messages
  <2> HIDE DEF rest
  <2>1. DOMAIN opened = 1..Cardinality(Opens(rest)) /\ M = Cardinality(Opens(rest))
    BY <1>4, GroupsOK
  <2>2. \A t \in 1..Cardinality(Opens(rest)) : opened[t] \in Messages  BY <1>4, GroupsOK
  <2>3. QED  BY <2>1, <2>2
<1>7. front \in Messages
  <2>1. Len(batch) \in Nat /\ 0 \in 0..Len(batch) /\ 0 + 1 = 1  BY DEF Messages
  <2>2. SubSeq(batch, 0 + 1, joins) \in Messages  BY <1>2, <2>1, Cut
  <2>3. QED  BY <2>1, <2>2
<1> DEFINE grown(r) == IF r.seq = n - 1 THEN [r EXCEPT !.msgs = @ \o front] ELSE r
           held == [i \in 1..n |-> grown(stored[i])]
           new == [i \in 1..M |-> [seq |-> n + i - 1, msgs |-> opened[i]]]
           full == InsertGrouped(stored, last, batch)
<1>8. full = held \o new
  BY <1>1, <1>6 DEF InsertGrouped, joins, RestOf
<1> HIDE DEF stored, was, now, p, rest, opened, front, full
<1>9. ASSUME NEW i \in 1..n
      PROVE  held[i] = [seq |-> i - 1, msgs |-> now[p + i]] /\ held[i] \in Turn
  <2>1. stored[i] = [seq |-> i - 1, msgs |-> was[p + i]] /\ was[p + i] \in Messages
    BY <1>1
  <2>2. p + i \in 1..Len(was) /\ i - 1 \in Nat  BY <1>1
  <2>3. CASE i = n
    <3>1. held[i] = [seq |-> i - 1, msgs |-> was[p + i] \o front]
      <4>1. stored[i].seq = n - 1  BY <2>1, <2>3
      <4>2. held[i] = [stored[i] EXCEPT !.msgs = @ \o front]  BY <4>1
      <4>3. [stored[i] EXCEPT !.msgs = @ \o front]
              = [seq |-> i - 1, msgs |-> was[p + i] \o front]
        <5> DEFINE to == was[p + i] \o front
        <5> HIDE DEF to
        <5>1. [[seq |-> i - 1, msgs |-> was[p + i]] EXCEPT !.msgs = to]
                = [seq |-> i - 1, msgs |-> to]
          BY GrownRecord
        <5>2. stored[i].msgs = was[p + i]  BY <2>1
        <5>3. QED  BY <2>1, <5>1, <5>2 DEF to
      <4>4. QED  BY <4>2, <4>3
    <3>2. p + i = Len(was) /\ Len(was) # 0  BY <1>1, <2>3
    <3>3. was[p + i] \o front \in Messages  BY <1>7, <2>1 DEF Messages
    <3>4. now[p + i] = was[p + i] \o front  BY <1>5, <3>2
    <3>5. held[i] = [seq |-> i - 1, msgs |-> now[p + i]]  BY <3>1, <3>4
    <3>6. now[p + i] \in Messages  BY <3>3, <3>4
    <3> HIDE DEF held
    <3>7. QED  BY <2>2, <3>5, <3>6 DEF Turn
  <2>4. CASE i # n
    <3>1. i - 1 # n - 1  BY <1>1, <2>4
    <3>2. held[i] = stored[i]  BY <2>1, <3>1
    <3>3. p + i \in 1..(Len(was) - 1)
      <4> DEFINE w == Len(was)
      <4>1. w \in Nat /\ p \in Nat /\ i \in 1..(w - p) /\ i # w - p  BY <1>1, <2>4
      <4> HIDE DEF w
      <4>2. p + i \in 1..(w - 1)  BY <4>1
      <4>3. QED  BY <4>2 DEF w
    <3>4. QED  BY <1>5, <2>1, <2>2, <3>2, <3>3 DEF Turn
  <2>5. QED  BY <2>3, <2>4
<1>10. ASSUME NEW i \in 1..M
       PROVE  /\ new[i] = [seq |-> (n + i) - 1, msgs |-> now[p + (n + i)]]
              /\ new[i] \in Turn
  <2>1. n + i - 1 \in Nat /\ (n + i) - 1 = n + i - 1 /\ p + (n + i) = Len(was) + i
    BY <1>1, <1>5
  <2>2. QED  BY <1>5, <1>6, <2>1 DEF Turn
<1>11. held \in Seq(Turn) /\ Len(held) = n
  <2>1. held \in [1..n -> Turn]  BY <1>9
  <2> HIDE DEF held
  <2>2. QED  BY <1>1, <2>1
<1>12. new \in Seq(Turn) /\ Len(new) = M
  <2>1. new \in [1..M -> Turn]  BY <1>10
  <2> HIDE DEF new
  <2>2. QED  BY <1>5, <2>1
<1> HIDE DEF held, new
<1>13. /\ full \in Seq(Turn) /\ Len(full) = n + M
       /\ \A i \in 1..(n + M) : full[i] = IF i <= n THEN held[i] ELSE new[i - n]
  <2>1. /\ held \o new \in Seq(Turn) /\ Len(held \o new) = Len(held) + Len(new)
        /\ \A i \in 1..(Len(held) + Len(new)) :
             (held \o new)[i] = IF i <= Len(held) THEN held[i] ELSE new[i - Len(held)]
    BY <1>11, <1>12, ConcatProperties
  <2> HIDE DEF n, M
  <2>2. QED  BY <1>8, <1>11, <1>12, <2>1
<1>14. ASSUME NEW i \in 1..(n + M)
       PROVE  full[i] = [seq |-> i - 1, msgs |-> now[p + i]]
  <2>1. CASE i <= n
    <3>1. i \in 1..n  BY <1>1, <2>1
    <3>2. QED  BY <1>9, <1>13, <2>1, <3>1
  <2>2. CASE ~(i <= n)
    <3>1. i - n \in 1..M /\ n + (i - n) = i  BY <1>1, <1>5, <2>2
    <3>2. new[i - n] = [seq |-> i - 1, msgs |-> now[p + i]]  BY <1>10, <3>1
    <3>3. QED  BY <1>13, <2>2, <3>2
  <2>3. QED  BY <2>1, <2>2
<1>15. Len(now) - p = n + M /\ n + M \in Nat /\ Len(now) \in Nat /\ Len(now) >= Len(was)
  BY <1>1, <1>5
<1>16. QED  BY <1>13, <1>14, <1>15 DEF full, now, p, stored, last, was

LEMMA RenumberedRecord ==
    \A s, m, to : [[seq |-> s, msgs |-> m] EXCEPT !.seq = to] = [seq |-> to, msgs |-> m]
<1>1. TAKE s, m, to
<1> DEFINE x == [[seq |-> s, msgs |-> m] EXCEPT !.seq = to]
           y == [seq |-> to, msgs |-> m]
<1>2. x = [f \in {"seq", "msgs"} |-> x[f]] /\ y = [f \in {"seq", "msgs"} |-> y[f]]  OBVIOUS
<1>3. x["seq"] = y["seq"] /\ x["msgs"] = y["msgs"]  OBVIOUS
<1>4. QED  BY <1>2, <1>3

\* Retention keeps the newest TurnCap of the turns there are, renumbered.
LEMMA Retained ==
    ASSUME NEW full \in Seq(Turn), NEW groups, NEW p \in Nat,
           \A i \in 1..Len(full) : full[i] = [seq |-> i - 1, msgs |-> groups[p + i]]
    PROVE  LET cut == IF Len(full) <= TurnCap THEN 0 ELSE Len(full) - TurnCap IN
           EnforceRetention(full) =
             [i \in 1..(Len(full) - cut) |-> [seq |-> i - 1, msgs |-> groups[p + (cut + i)]]]
<1> DEFINE K == Len(full)
           kept == IF K <= TurnCap THEN full ELSE SubSeq(full, K - TurnCap + 1, K)
<1>1. K \in Nat /\ TurnCap \in Nat /\ TurnCap # 0 /\ full = [i \in 1..K |-> full[i]]
  BY CapsPositive
<1>2. EnforceRetention(full) = IF kept = full THEN full
                               ELSE [i \in DOMAIN kept |-> [kept[i] EXCEPT !.seq = i - 1]]
  BY DEF EnforceRetention
<1>3. CASE K <= TurnCap
  <2>1. EnforceRetention(full) = full  BY <1>2, <1>3
  <2>2. \A i \in 1..K : p + (0 + i) = p + i  BY <1>1
  <2>3. K - 0 = K  BY <1>1
  <2> HIDE DEF K
  <2>4. full = [i \in 1..K |-> [seq |-> i - 1, msgs |-> groups[p + (0 + i)]]]
    BY <1>1, <2>2 DEF K
  <2>5. QED  BY <1>3, <2>1, <2>3, <2>4 DEF K
<1>4. CASE ~(K <= TurnCap)
  <2> DEFINE cut == K - TurnCap
  <2>1. cut \in Nat /\ cut # 0 /\ K - cut = TurnCap  BY <1>1, <1>4
  <2>2. /\ Len(kept) = TurnCap /\ DOMAIN kept = 1..TurnCap
        /\ \A i \in 1..TurnCap : kept[i] = full[cut + i]
    <3> DEFINE m == cut + 1
    <3>1. \A i \in m..K : full[i] \in Turn
      <4>1. \A i \in m..K : i \in 1..K  BY <1>1, <2>1
      <4>2. QED  BY <4>1, ElementOfSeq
    <3>2. m \in Int /\ K \in Int /\ (IF m <= K THEN K - m + 1 ELSE 0) = TurnCap
            /\ K - m + 1 = TurnCap
      BY <1>1, <1>4, <2>1
    <3>3. kept = SubSeq(full, m, K)  BY <1>4
    <3> HIDE DEF m, K, cut, kept
    <3>4. /\ SubSeq(full, m, K) \in Seq(Turn)
          /\ Len(SubSeq(full, m, K)) = IF m <= K THEN K - m + 1 ELSE 0
          /\ \A i \in 1..(K - m + 1) : SubSeq(full, m, K)[i] = full[m + i - 1]
      BY <3>1, <3>2, SubSeqProperties
    <3>5. \A i \in 1..TurnCap : m + i - 1 = cut + i  BY <1>1, <2>1 DEF m
    <3>6. kept \in Seq(Turn) /\ Len(kept) = TurnCap  BY <3>2, <3>3, <3>4
    <3>7. QED  BY <3>2, <3>3, <3>4, <3>5, <3>6
  <2>3. kept # full  BY <1>1, <1>4, <2>2
  <2>4. EnforceRetention(full) = [i \in 1..TurnCap |-> [kept[i] EXCEPT !.seq = i - 1]]
    BY <1>2, <2>2, <2>3
  <2>5. ASSUME NEW i \in 1..TurnCap
        PROVE  [kept[i] EXCEPT !.seq = i - 1] = [seq |-> i - 1, msgs |-> groups[p + (cut + i)]]
    <3>1. cut + i \in 1..K  BY <1>1, <1>4, <2>1
    <3>2. kept[i] = [seq |-> (cut + i) - 1, msgs |-> groups[p + (cut + i)]]
      BY <2>2, <3>1
    <3> DEFINE g == groups[p + (cut + i)]
    <3>3. kept[i] = [seq |-> (cut + i) - 1, msgs |-> g]  BY <3>2
    <3> HIDE DEF g, kept
    <3>4. QED  BY <3>3, RenumberedRecord DEF g
  <2> HIDE DEF kept, cut
  <2>6. EnforceRetention(full)
          = [i \in 1..TurnCap |-> [seq |-> i - 1, msgs |-> groups[p + (cut + i)]]]
    BY <2>4, <2>5
  <2>7. QED  BY <1>4, <2>1, <2>6 DEF cut
<1>5. QED  BY <1>3, <1>4

\* Appending to the stored turns stores the turns of what was appended to:
\* no batch splits, loses, repeats, reorders or renumbers a turn, and a turn
\* leaves only as a whole (_insert_grouped, _enforce_retention).
THEOREM AppendKeepsTurns ==
    ASSUME NEW old \in Seq(Message), NEW batch \in Seq(Message)
    PROVE  LET stored == StoredTurns(old) IN
           EnforceRetention(InsertGrouped(stored, LastOf(stored), batch))
             = StoredTurns(old \o batch)
<1> DEFINE stored == StoredTurns(old)
           all == old \o batch
           was == GroupIntoTurns(old)
           now == GroupIntoTurns(all)
           p == Past(old)
           full == InsertGrouped(stored, LastOf(stored), batch)
           K == Len(now) - p
           cut == IF K <= TurnCap THEN 0 ELSE K - TurnCap
<1>1. old \in Messages /\ batch \in Messages /\ all \in Messages  BY DEF Messages
<1>2. /\ K \in Nat /\ Len(now) \in Nat /\ Len(now) >= Len(was)
      /\ full \in Seq(Turn) /\ Len(full) = K
      /\ \A i \in 1..K : full[i] = [seq |-> i - 1, msgs |-> now[p + i]]
  BY <1>1, Inserted
<1>3. p \in Nat /\ Len(was) \in Nat /\ p = IF Len(was) <= TurnCap THEN 0 ELSE Len(was) - TurnCap
  <2>1. p \in Nat /\ Len(was) \in Nat  BY <1>1, StoredOK
  <2>2. QED  BY <2>1 DEF Past
<1>4. Past(all) = IF Len(now) <= TurnCap THEN 0 ELSE Len(now) - TurnCap  BY DEF Past
<1>5. StoredTurns(all) =
        [i \in 1..(Len(now) - Past(all)) |-> [seq |-> i - 1, msgs |-> now[Past(all) + i]]]
  BY DEF StoredTurns
<1> HIDE DEF stored, all, was, now, p, full
<1>6. EnforceRetention(full) =
        [i \in 1..(K - cut) |-> [seq |-> i - 1, msgs |-> now[p + (cut + i)]]]
  <2> HIDE DEF K
  <2>1. \A i \in 1..Len(full) : full[i] = [seq |-> i - 1, msgs |-> now[p + i]]  BY <1>2
  <2> DEFINE c == IF Len(full) <= TurnCap THEN 0 ELSE Len(full) - TurnCap
  <2>2. EnforceRetention(full) =
          [i \in 1..(Len(full) - c) |-> [seq |-> i - 1, msgs |-> now[p + (c + i)]]]
    <3>1. p \in Nat /\ full \in Seq(Turn)  BY <1>2, <1>3
    <3> HIDE DEF cut
    <3>2. QED  BY ONLY <2>1, <3>1, Retained
  <2>3. Len(full) = K /\ c = cut  BY <1>2
  <2> HIDE DEF c, cut
  <2>4. QED  BY <2>2, <2>3
<1>7. Past(all) = p + cut /\ K - cut = Len(now) - Past(all) /\ cut \in Nat
  <2> DEFINE n == Len(now)
             w == Len(was)
             q == Past(all)
  <2>1. /\ TurnCap \in Nat \ {0} /\ n \in Nat /\ w \in Nat /\ n >= w
        /\ p = (IF w <= TurnCap THEN 0 ELSE w - TurnCap)
        /\ q = (IF n <= TurnCap THEN 0 ELSE n - TurnCap)
    BY <1>2, <1>3, <1>4, CapsPositive
  <2> DEFINE k == n - p
             u == IF k <= TurnCap THEN 0 ELSE k - TurnCap
  <2> HIDE DEF n, w, q
  <2>2. q = p + u /\ k - u = n - q /\ u \in Nat  BY <2>1
  <2>3. QED  BY <2>2 DEF n, q
<1>8. \A i \in Nat : p + (cut + i) = Past(all) + i  BY <1>3, <1>7
<1> HIDE DEF K, cut
<1>9. EnforceRetention(full) = StoredTurns(all)
  <2> DEFINE n == Len(now) - Past(all)
  <2> HIDE DEF n
  <2>1. EnforceRetention(full) =
          [i \in 1..n |-> [seq |-> i - 1, msgs |-> now[p + (cut + i)]]]
    BY <1>6, <1>7 DEF n
  <2>2. StoredTurns(all) =
          [i \in 1..n |-> [seq |-> i - 1, msgs |-> now[Past(all) + i]]]
    BY <1>5 DEF n
  <2>3. \A i \in 1..n : p + (cut + i) = Past(all) + i  BY <1>8
  <2>4. QED  BY <2>1, <2>2, <2>3
<1>10. QED  BY <1>9 DEF full, all, stored
-----------------------------------------------------------------------------
(* The property over the stored turns *)

LEMMA StoredIsGrouped == StoredAsGrouped <=> turns = StoredTurns(log)
BY DEF StoredAsGrouped, StoredTurns, Past

\* What is stored is well formed.
LEMMA StoredTurnsOK ==
    ASSUME NEW msgs \in Seq(Message)
    PROVE  \A i \in DOMAIN StoredTurns(msgs) :
             /\ StoredTurns(msgs)[i].seq \in Nat
             /\ StoredTurns(msgs)[i].msgs \in Seq(Message)
<1> DEFINE s == StoredTurns(msgs)
<1>1. s \in Seq(Turn) /\ DOMAIN s = 1..Len(s)
  BY StoredOK DEF Messages
<1> HIDE DEF s
<1>2. \A i \in 1..Len(s) : s[i] \in Turn  BY <1>1, ElementOfSeq
<1>3. QED  BY <1>1, <1>2 DEF Turn, Messages, s

LEMMA StoredNothing == StoredTurns(<<>>) = <<>>
<1>1. <<>> \in Messages  BY DEF Messages
<1>2. StoredTurns(<<>>) \in Seq(Turn) /\ Len(StoredTurns(<<>>)) = 0  BY <1>1, StoredOK
<1>3. QED  BY <1>2
-----------------------------------------------------------------------------
(* The stored sessions and their tasks *)

Phases == {"idle", "insert", "select", "load", "route", "hook", "pin", "pinput", "walk",
           "write", "usage", "own", "sweep", "drop", "advise", "head", "put"}

\* The values of the variables.
Fields == {"op", "pc", "pk", "n", "seen", "arg", "batch", "plan"}
IsCall(k) == k = [f \in Fields |-> k[f]]
CallOK(k, lastId, lastCall) ==
    /\ IsCall(k) /\ k.pc \in Phases /\ k.pk \in 0..lastId /\ k.batch \in Seq(Message)
    /\ k.pc = "idle" => k = Idle
    /\ k.pc # "idle" => k.n \in 1..lastCall
    /\ k.pc \notin {"idle", "insert", "select"} => k.pk # 0
    /\ k.pc = "put" => k.seen \in Nat
    /\ k.pc = "pinput" => k.arg = <<k.arg[1], k.arg[2]>> /\ k.arg[2] \in Nat
Calls == call = [c \in Clients |-> call[c]] /\ \A c \in Clients : CallOK(call[c], ids, begun)

RowOK(r) ==
    /\ r.table \in {"run", "state", "check"}
    /\ r.table = "run" => r = [table |-> "run", pk |-> r.pk, n |-> r.n, outcome |-> r.outcome]
    /\ r.table # "run" => r.version \in Nat
Types ==
    /\ ids \in Nat /\ session \in 0..ids /\ begun \in 0..MaxCalls
    /\ lock \in Clients \cup {None}
    /\ log \in Seq(Message)
    /\ owes \in [Clients -> 0..MaxCalls]
    /\ advisory \in [Clients -> {None} \cup ((1..ids) \X Keys)]
    /\ Calls
    /\ \A r \in rows : RowOK(r) /\ r.pk \in 1..ids

\* A transaction past its FOR UPDATE holds the row; a deletion about to drop
\* the row has swept everything that refers to it.
HoldsRow(c) ==
    /\ call[c].pc \in {"sweep", "drop"} => lock = c /\ session = call[c].pk
    /\ call[c].pc \in {"walk", "write"} => lock = c /\ session # 0
    /\ call[c].pc = "drop" => Owned(call[c].pk) \subseteq call[c].plan
RowInv ==
    /\ \A c \in Clients : HoldsRow(c)
    /\ \A r \in rows : r.pk = session

\* Every task has a newest version.
TopOf(S) == \E h \in {0} \cup {r.version : r \in S} : \A r \in S : r.version <= h
HoldsTask(c) ==
    /\ call[c].pc \in {"head", "put"} => advisory[c] = <<call[c].pk, KeyOf(c)>>
    /\ call[c].pc = "put" /\ session = call[c].pk =>
         HeadVersion(call[c].pk, KeyOf(c)) = call[c].seen
    /\ call[c].pc = "pin" \/ (call[c].pc = "pinput" /\ call[c].op # "pin") =>
         call[c].plan \subseteq Keys
    /\ call[c].pc = "pinput" /\ session = call[c].pk /\ call[c].arg[2] # 0 =>
         \E r \in States(call[c].pk, call[c].arg[1]) : r.version = call[c].arg[2]
Writing(c) == call[c].pc \in {"head", "put"}
TaskInv ==
    /\ \A c \in Clients : HoldsTask(c)
    /\ \A c, d \in Clients : c # d /\ Writing(c) /\ Writing(d) => advisory[c] # advisory[d]
    /\ \A pk \in Nat, key \in Keys : TopOf(States(pk, key))
    /\ PinsExist

\* A call creates the session at most twice: when it opens and when it appends.
Remaining(k) ==
    CASE k.pc = "insert" -> IF k.pk = 0 THEN {1, 2} ELSE {1}
      [] k.pc = "select" -> IF k.pk = 0 THEN {1} ELSE {}
      [] k.pc \in {"idle", "walk", "write", "usage", "own", "sweep", "drop"} -> {}
      [] OTHER -> {1}
Creations == UNION {{c} \X Remaining(call[c]) : c \in Clients}
IdsInv == ids + Cardinality(Creations) <= 2 * begun

WriteInv ==
    /\ StoredAsGrouped
    /\ \A c \in Clients : call[c].pc = "write" => call[c].seen = LastOf(turns)

IInv == Types /\ RowInv /\ TaskInv /\ IdsInv /\ WriteInv

Others(c) == \A d \in Clients \ {c} : call'[d] = call[d]
-----------------------------------------------------------------------------
(* Types *)

LEMMA BoundsNat == MaxCalls \in Nat /\ MaxDeletes \in Nat /\ IsFiniteSet(Clients) /\ None \notin Clients
BY BoundsAreNat, NoneIsNoClient

LEMMA IdleOK == IsCall(Idle) /\ \A i, b \in Nat : CallOK(Idle, i, b)
<1>1. IsCall(Idle) /\ Idle.pc = "idle" /\ Idle.pk = 0 /\ Idle.batch = <<>>
  BY DEF Idle, IsCall, Fields
<1>2. <<>> \in Seq(Message) /\ \A i \in Nat : 0 \in 0..i  OBVIOUS
<1>3. QED  BY <1>1, <1>2 DEF CallOK, Phases

LEMMA CallHas ==
    ASSUME Types, NEW c \in Clients
    PROVE  /\ call = [d \in Clients |-> call[d]]
           /\ CallOK(call[c], ids, begun) /\ IsCall(call[c])
           /\ ids \in Nat /\ begun \in Nat /\ call[c].pk \in Nat
BY BoundsNat DEF Types, Calls, CallOK

\* What one client's call becomes; the other clients' stay as they are.
Moves(c) == call' = [d \in Clients |-> call'[d]] /\ Others(c)

LEMMA CallMoves ==
    ASSUME Types, NEW c \in Clients, Moves(c), CallOK(call'[c], ids', begun'),
           ids' \in Nat, begun' \in Nat, ids <= ids', begun <= begun'
    PROVE  Calls'
<1>1. \A d \in Clients : CallOK(call[d], ids', begun')
  <2>1. 0..ids \subseteq 0..ids' /\ 1..begun \subseteq 1..begun'
    BY BoundsNat DEF Types
  <2>2. QED  BY <2>1 DEF CallOK, Types, Calls
<1>2. \A d \in Clients : CallOK(call'[d], ids', begun')  BY <1>1 DEF Moves, Others
<1>3. QED  BY <1>2 DEF Calls, Moves

\* When neither the ids nor the calls begun change.
LEMMA TypesMove ==
    ASSUME Types, NEW c \in Clients, Moves(c), CallOK(call'[c], ids, begun),
           UNCHANGED <<ids, begun>>,
           session' \in {0, session}, lock' \in Clients \cup {None}, log' \in Seq(Message),
           owes' \in [Clients -> 0..MaxCalls],
           advisory' \in [Clients -> {None} \cup ((1..ids) \X Keys)],
           \A r \in rows' : RowOK(r) /\ r.pk \in 1..ids
    PROVE  Types'
<1>1. ids \in Nat /\ begun \in Nat  BY BoundsNat DEF Types
<1>2. Calls'  BY <1>1, CallMoves
<1>3. session' \in 0..ids  BY <1>1 DEF Types
<1>4. QED  BY <1>2, <1>3 DEF Types

\* When the call is all that changes.
LEMMA TypesKept ==
    ASSUME Types, NEW c \in Clients, Moves(c), CallOK(call'[c], ids, begun),
           UNCHANGED <<session, ids, lock, log, rows, owes, begun, advisory>>
    PROVE  Types'
<1>1. session' \in {0, session} /\ lock' \in Clients \cup {None} /\ log' \in Seq(Message)
        /\ owes' \in [Clients -> 0..MaxCalls]
        /\ advisory' \in [Clients -> {None} \cup ((1..ids) \X Keys)]
        /\ \A r \in rows' : RowOK(r) /\ r.pk \in 1..ids
  BY DEF Types
<1>2. QED  BY <1>1, TypesMove

\* Moving on, and ending, one's call.
Keeps(c, fields) == \A f \in fields : call'[c][f] = call[c][f]

LEMMA GotoMoves ==
    ASSUME Types, NEW c \in Clients, NEW p \in Phases \ {"idle", "put", "pinput"}, Goto(c, p),
           p \in {"insert", "select"} \/ call[c].pk # 0, ~At(c, "idle"),
           NEW i \in Nat, NEW b \in Nat, ids <= i, begun <= b
    PROVE  Moves(c) /\ CallOK(call'[c], i, b) /\ call'[c].pc = p /\ Keeps(c, Fields \ {"pc"})
<1>1. Moves(c) /\ call'[c].pc = p /\ Keeps(c, Fields \ {"pc"}) /\ IsCall(call'[c])
  BY CallHas DEF Goto, IsCall, Fields, Moves, Others, Keeps
<1>2. 0..ids \subseteq 0..i /\ 1..begun \subseteq 1..b  BY CallHas
<1>3. CallOK(call[c], ids, begun) /\ call[c].pc # "idle"  BY CallHas DEF At
<1>4. call'[c].pk = call[c].pk /\ call'[c].n = call[c].n /\ call'[c].batch = call[c].batch
  BY <1>1 DEF Keeps, Fields
<1>5. CallOK(call'[c], i, b)  BY <1>1, <1>2, <1>3, <1>4 DEF CallOK
<1>6. QED  BY <1>1, <1>5

LEMMA GotoStays ==
    ASSUME Types, NEW c \in Clients, NEW p \in Phases \ {"idle", "put", "pinput"}, Goto(c, p),
           call[c].pk # 0, ~At(c, "idle")
    PROVE  /\ Moves(c) /\ CallOK(call'[c], ids, begun) /\ call'[c].pc = p
           /\ Keeps(c, Fields \ {"pc"})
<1>1. ids \in Nat /\ begun \in Nat /\ ids <= ids /\ begun <= begun  BY CallHas
<1>2. QED  BY <1>1, GotoMoves

LEMMA EndMoves ==
    ASSUME Types, NEW c \in Clients, End(c)
    PROVE  Moves(c) /\ CallOK(call'[c], ids, begun) /\ call'[c] = Idle /\ call'[c].pc = "idle"
<1>1. Moves(c) /\ call'[c] = Idle  BY CallHas DEF End, Moves, Others
<1>2. CallOK(Idle, ids, begun) /\ Idle.pc = "idle"  BY IdleOK, CallHas DEF Idle
<1>3. QED  BY <1>1, <1>2

\* Setting several fields, the phase among them.
LEMMA PutMoves ==
    ASSUME Types, NEW c \in Clients, Moves(c), ~At(c, "idle"), IsCall(call'[c]),
           call'[c].pc \in Phases \ {"idle", "put", "pinput"}, call'[c].n = call[c].n,
           call'[c].batch \in Seq(Message),
           \/ call'[c].pk \in 1..ids
           \/ call'[c].pk = call[c].pk /\ (call[c].pk = 0 => call'[c].pc \in {"insert", "select"})
    PROVE  CallOK(call'[c], ids, begun)
<1>1. CallOK(call[c], ids, begun) /\ call[c].pc # "idle" /\ ids \in Nat  BY CallHas DEF At
<1>2. 0..ids = {0} \cup 1..ids /\ 0 \notin 1..ids  BY <1>1
<1>3. QED  BY <1>1, <1>2 DEF CallOK
-----------------------------------------------------------------------------
(* What each action does to the caller's call, and that it keeps the types. *)

\* The beginning of a call.
LEMMA BeginMoves ==
    ASSUME Types, NEW c \in Clients, Moves(c), begun < MaxCalls, begun' = begun + 1,
           UNCHANGED <<session, ids, lock, log, rows, owes, advisory>>,
           IsCall(call'[c]), call'[c].batch \in Seq(Message), call'[c].n = begun + 1,
           call'[c].pk \in 0..ids,
           call'[c].pc = "insert" \/ (call'[c].pc = "own" /\ call'[c].pk # 0)
    PROVE  Types'
<1>1. begun \in Nat /\ begun' \in 0..MaxCalls /\ begun' \in Nat /\ begun <= begun'
        /\ ids \in Nat /\ ids' \in Nat /\ ids <= ids'
  BY BoundsNat DEF Types
<1>2. CallOK(call'[c], ids', begun')  BY <1>1 DEF CallOK, Phases
<1>3. Calls'  BY <1>1, <1>2, CallMoves
<1>4. QED  BY <1>1, <1>3 DEF Types

LEMMA MessagesOK ==
    ASSUME NEW n \in 1..MaxCalls, NEW role \in {"user", "tool", "text", "call"}
    PROVE  [role |-> role, n |-> n] \in Message
BY DEF Message

LEMMA BatchesOK ==
    \A a, b \in Message :
        <<>> \in Seq(Message) /\ <<a>> \in Seq(Message) /\ <<a, b>> \in Seq(Message)
OBVIOUS

LEMMA BeginChatMoves ==
    ASSUME Types, NEW c \in Clients, BeginChat(c), UNCHANGED contVars
    PROVE  /\ Types' /\ Moves(c)
           /\ call'[c].pc = "insert" /\ call'[c].pk = 0
<1>1. ASSUME NEW b, Begin(c, "chat", "insert", 0, b), b \in Seq(Message)
      PROVE  Types' /\ Moves(c) /\ call'[c].pc = "insert" /\ call'[c].pk = 0
  <2>1. call' = [call EXCEPT ![c] = [Idle EXCEPT !.op = "chat", !.pc = "insert", !.pk = 0,
                                                 !.n = begun + 1, !.batch = b]]
        /\ begun < MaxCalls /\ begun' = begun + 1
    BY <1>1 DEF Begin
  <2>2. Moves(c)  BY <2>1, CallHas DEF Moves, Others
  <2>3. IsCall(call'[c]) /\ call'[c].batch = b /\ call'[c].n = begun + 1 /\ call'[c].pk = 0
          /\ call'[c].pc = "insert"
    BY <2>1, CallHas, IdleOK DEF IsCall, Fields
  <2>4. Types'
    BY <1>1, <2>1, <2>2, <2>3, CallHas, BeginMoves DEF BeginChat, contVars
  <2>5. QED  BY <2>2, <2>3, <2>4
<1>2. CASE owes[c] # 0
  <2>1. owes[c] \in 1..MaxCalls  BY <1>2 DEF Types
  <2>2. <<[role |-> "tool", n |-> owes[c]]>> \in Seq(Message)
    BY <2>1, MessagesOK, BatchesOK
  <2>3. QED  BY <1>1, <1>2, <2>2 DEF BeginChat
<1>3. CASE owes[c] = 0
  <2>1. PICK resent \in {<<>>, <<[role |-> "user", n |-> begun + 1],
                                 [role |-> "text", n |-> begun + 1]>>} :
          Begin(c, "chat", "insert", 0, Append(resent, [role |-> "user", n |-> begun + 1]))
    BY <1>3 DEF BeginChat
  <2>2. begun + 1 \in 1..MaxCalls  BY <2>1, BoundsNat DEF Begin, Types
  <2>3. [role |-> "user", n |-> begun + 1] \in Message
          /\ [role |-> "text", n |-> begun + 1] \in Message
    BY <2>2, MessagesOK
  <2>4. resent \in Seq(Message)  BY <2>1, <2>3, BatchesOK
  <2>5. Append(resent, [role |-> "user", n |-> begun + 1]) \in Seq(Message)  BY <2>3, <2>4
  <2>6. QED  BY <1>1, <2>1, <2>5
<1>4. QED  BY <1>2, <1>3

LEMMA BeginDeleteMoves ==
    ASSUME Types, NEW c \in Clients, BeginDelete(c), UNCHANGED contVars
    PROVE  Types' /\ Moves(c) /\ call'[c].pc = "own"
<1>1. PICK pk \in 1..ids : Begin(c, "delete", "own", pk, <<>>)  BY DEF BeginDelete
<1>2. call' = [call EXCEPT ![c] = [Idle EXCEPT !.op = "delete", !.pc = "own", !.pk = pk,
                                               !.n = begun + 1, !.batch = <<>>]]
      /\ begun < MaxCalls /\ begun' = begun + 1
  BY <1>1 DEF Begin
<1>3. Moves(c)  BY <1>2, CallHas DEF Moves, Others
<1>4. IsCall(call'[c]) /\ call'[c].batch = <<>> /\ call'[c].n = begun + 1 /\ call'[c].pk = pk
        /\ call'[c].pc = "own"
  BY <1>2, CallHas, IdleOK DEF IsCall, Fields
<1>5. pk \in 0..ids /\ pk # 0 /\ <<>> \in Seq(Message)  BY CallHas
<1>6. Types'  BY <1>2, <1>3, <1>4, <1>5, BeginMoves DEF BeginDelete, contVars
<1>7. QED  BY <1>3, <1>4, <1>6

LEMMA BeginTaskMoves ==
    ASSUME Types, NEW c \in Clients, BeginTask(c)
    PROVE  Types' /\ Moves(c) /\ call'[c].pc = "insert" /\ call'[c].pk = 0
<1>1. PICK op \in Tools, e \in {None} \cup 0..MaxCalls :
        /\ begun < MaxCalls /\ begun' = begun + 1
        /\ call' = [call EXCEPT ![c] = [Idle EXCEPT
                !.op = op, !.pc = "insert", !.n = begun + 1, !.arg = e]]
  BY DEF BeginTask
<1>2. Moves(c)  BY <1>1, CallHas DEF Moves, Others
<1>3. IsCall(call'[c]) /\ call'[c].batch = Idle.batch /\ call'[c].n = begun + 1
        /\ call'[c].pk = Idle.pk /\ call'[c].pc = "insert"
  BY <1>1, CallHas, IdleOK DEF IsCall, Fields
<1>4. Idle.batch = <<>> /\ Idle.pk = 0 /\ <<>> \in Seq(Message) /\ 0 \in 0..ids
  BY CallHas DEF Idle
<1>5. Types'  BY <1>1, <1>2, <1>3, <1>4, BeginMoves DEF BeginTask, contVars
<1>6. QED  BY <1>2, <1>3, <1>4, <1>5

LEMMA InsertMoves ==
    ASSUME Types, NEW c \in Clients, Insert(c), UNCHANGED contVars
    PROVE  /\ Types' /\ Moves(c)
           /\ call'[c].pc = "select" /\ Keeps(c, Fields \ {"pc"})
<1>1. ids' \in Nat /\ begun' \in Nat /\ ids <= ids' /\ begun <= begun' /\ session' \in 0..ids'
  BY CallHas DEF Insert, Types
<1>2. Moves(c) /\ CallOK(call'[c], ids', begun') /\ call'[c].pc = "select"
        /\ Keeps(c, Fields \ {"pc"})
  BY <1>1, GotoMoves DEF Insert, At, Phases
<1>3. Calls'  BY <1>1, <1>2, CallMoves
<1>4. 1..ids \subseteq 1..ids'  BY <1>1, CallHas
<1>5. advisory' \in [Clients -> {None} \cup ((1..ids') \X Keys)]
  BY <1>4 DEF Types, contVars
<1>6. \A r \in rows' : RowOK(r) /\ r.pk \in 1..ids'  BY <1>4 DEF Types, Insert
<1>7. lock' \in Clients \cup {None} /\ log' \in Seq(Message) /\ owes' \in [Clients -> 0..MaxCalls]
        /\ begun' \in 0..MaxCalls
  BY DEF Types, Insert
<1>8. Types'  BY <1>1, <1>3, <1>5, <1>6, <1>7 DEF Types
<1>9. QED  BY <1>2, <1>8
LEMMA SelectMoves ==
    ASSUME Types, NEW c \in Clients, Select(c), UNCHANGED contVars
    PROVE  /\ Types' /\ Moves(c)
           /\ IF call[c].pk # 0
              THEN call'[c].pc = "walk" /\ lock' = c /\ Keeps(c, Fields \ {"pc"})
              ELSE call'[c].pc = "load" /\ call'[c].pk = session /\ lock' = None
<1>1. CASE call[c].pk # 0
  <2>0. Goto(c, "walk") /\ ~At(c, "idle")  BY <1>1 DEF Select, At
  <2>1. Moves(c) /\ CallOK(call'[c], ids, begun) /\ call'[c].pc = "walk"
          /\ Keeps(c, Fields \ {"pc"})
    BY <1>1, <2>0, GotoStays DEF Phases
  <2>2. lock' = c  BY <1>1 DEF Select
  <2>3. Types'  BY <2>1, <2>2, TypesMove DEF Types, Select, contVars
  <2>4. QED  BY <1>1, <2>1, <2>2, <2>3
<1>2. CASE call[c].pk = 0
  <2>1. call' = [call EXCEPT ![c].pk = session, ![c].pc = "load"] /\ lock' = None
          /\ call[c].pc = "select" /\ session # 0
    BY <1>2 DEF Select, At
  <2>2. Moves(c)  BY <2>1, CallHas DEF Moves, Others
  <2>3. IsCall(call'[c]) /\ call'[c].pk = session /\ call'[c].pc = "load"
          /\ Keeps(c, Fields \ {"pc", "pk"})
    BY <2>1, CallHas DEF IsCall, Fields, Keeps
  <2>4. call'[c].n = call[c].n /\ call'[c].batch = call[c].batch  BY <2>3 DEF Keeps, Fields
  <2>5. session \in 1..ids /\ call[c].batch \in Seq(Message)
    BY <2>1, CallHas DEF Types, CallOK
  <2>6. CallOK(call'[c], ids, begun)
    BY <2>1, <2>2, <2>3, <2>4, <2>5, PutMoves DEF At, Phases
  <2>7. Types'  BY <2>1, <2>2, <2>6, TypesMove DEF Types, Select, contVars
  <2>8. QED  BY <1>2, <2>1, <2>2, <2>3, <2>7
<1>3. QED  BY <1>1, <1>2

\* What a client owes is none, or the number of one of its calls.
LEMMA AnsweredOK ==
    ASSUME Types, NEW c \in Clients
    PROVE  [owes EXCEPT ![c] = Answered(call[c].batch, @)] \in [Clients -> 0..MaxCalls]
<1> DEFINE b == call[c].batch
<1>1. b \in Seq(Message)  BY CallHas DEF CallOK
<1> HIDE DEF b
<1>2. b # <<>> => Last(b) \in Message  BY <1>1 DEF Last
<1>3. owes[c] \in 0..MaxCalls /\ MaxCalls \in Nat  BY BoundsNat DEF Types
<1>4. b # <<>> => Last(b).n \in 0..MaxCalls  BY <1>2, <1>3 DEF Message
<1>5. Answered(b, owes[c]) \in 0..MaxCalls  BY <1>3, <1>4 DEF Answered
<1>6. QED  BY <1>5 DEF Types, b

LEMMA SelectNothingMoves ==
    ASSUME Types, NEW c \in Clients, SelectNothing(c), UNCHANGED contVars
    PROVE  Types' /\ Moves(c) /\ call'[c].pc = "idle"
<1>1. Moves(c) /\ CallOK(call'[c], ids, begun) /\ call'[c].pc = "idle"
  BY EndMoves DEF SelectNothing
<1>2. owes' \in [Clients -> 0..MaxCalls]  BY AnsweredOK DEF SelectNothing, Types
<1>3. Types'  BY <1>1, <1>2, TypesMove DEF Types, SelectNothing, contVars
<1>4. QED  BY <1>1, <1>3

LEMMA LoadMoves ==
    ASSUME Types, NEW c \in Clients, Load(c), UNCHANGED contVars
    PROVE  /\ Types' /\ Moves(c)
           /\ \/ call'[c].pc = "route" /\ Keeps(c, Fields \ {"pc"})
              \/ call'[c].pc = "idle"
<1>1. call[c].pk # 0 /\ call[c].pc = "load"  BY CallHas DEF Load, CallOK, At
<1>2. CASE Goto(c, "route")
  <2>1. Moves(c) /\ CallOK(call'[c], ids, begun) /\ call'[c].pc = "route"
          /\ Keeps(c, Fields \ {"pc"})
    BY <1>1, <1>2, GotoStays DEF At, Phases
  <2>2. Types'  BY <2>1, TypesKept DEF Load, contVars
  <2>3. QED  BY <2>1, <2>2
<1>3. CASE End(c)
  <2>1. Moves(c) /\ CallOK(call'[c], ids, begun) /\ call'[c].pc = "idle"  BY <1>3, EndMoves
  <2>2. Types'  BY <2>1, TypesKept DEF Load, contVars
  <2>3. QED  BY <2>1, <2>2
<1>4. QED  BY <1>2, <1>3 DEF Load

\* The run row of an attempt.
LEMMA RecordOK ==
    ASSUME Types, NEW c \in Clients, NEW outcome, Record(c, outcome), call[c].pk # 0
    PROVE  \A r \in rows' : RowOK(r) /\ r.pk \in 1..ids
<1>1. session = call[c].pk => session \in 1..ids  BY DEF Types
<1>2. QED  BY <1>1 DEF Record, Types, RowOK

LEMMA AttemptFailsMoves ==
    ASSUME Types, NEW c \in Clients, AttemptFails(c), UNCHANGED contVars
    PROVE  Types' /\ Moves(c) /\ call'[c].pc = "hook" /\ Keeps(c, Fields \ {"pc", "seen"})
<1>1. call' = [call EXCEPT ![c].seen = 1, ![c].pc = "hook"]
        /\ call[c].pk # 0 /\ call[c].pc = "route"
  BY CallHas DEF AttemptFails, CallOK, At
<1>2. Moves(c)  BY <1>1, CallHas DEF Moves, Others
<1>3. IsCall(call'[c]) /\ call'[c].pc = "hook" /\ Keeps(c, Fields \ {"pc", "seen"})
  BY <1>1, CallHas DEF IsCall, Fields, Keeps
<1>4. call'[c].n = call[c].n /\ call'[c].batch = call[c].batch /\ call'[c].pk = call[c].pk
  BY <1>3 DEF Keeps, Fields
<1>5. call[c].batch \in Seq(Message)  BY CallHas DEF CallOK
<1>6. CallOK(call'[c], ids, begun)  BY <1>1, <1>2, <1>3, <1>4, <1>5, PutMoves DEF At, Phases
<1>7. \A r \in rows' : RowOK(r) /\ r.pk \in 1..ids  BY <1>1, RecordOK DEF AttemptFails
<1>8. Types'  BY <1>2, <1>6, <1>7, TypesMove DEF Types, AttemptFails, contVars
<1>9. QED  BY <1>2, <1>3, <1>8

LEMMA AttemptsExhaustedMoves ==
    ASSUME Types, NEW c \in Clients, AttemptsExhausted(c), UNCHANGED contVars
    PROVE  Types' /\ Moves(c) /\ call'[c].pc = "idle"
<1>1. Moves(c) /\ CallOK(call'[c], ids, begun) /\ call'[c].pc = "idle"
  BY EndMoves DEF AttemptsExhausted
<1>2. call[c].pk # 0  BY CallHas DEF AttemptsExhausted, CallOK, At
<1>3. \A r \in rows' : RowOK(r) /\ r.pk \in 1..ids  BY <1>2, RecordOK DEF AttemptsExhausted
<1>4. Types'  BY <1>1, <1>3, TypesMove DEF Types, AttemptsExhausted, contVars
<1>5. QED  BY <1>1, <1>4

LEMMA AttemptAnswersMoves ==
    ASSUME Types, NEW c \in Clients, AttemptAnswers(c), UNCHANGED contVars
    PROVE  /\ Types' /\ Moves(c) /\ call'[c].pc = "insert" /\ call'[c].pk # 0
           /\ Keeps(c, Fields \ {"pc", "batch"})
<1>1. PICK role \in {"text", "call"} :
        call' = [call EXCEPT ![c].pc = "insert",
                             ![c].batch = Append(@, [role |-> role, n |-> call[c].n])]
  BY DEF AttemptAnswers
<1>2. call[c].pk # 0 /\ call[c].pc = "route" /\ call[c].n \in 1..begun
        /\ call[c].batch \in Seq(Message)
  BY CallHas DEF AttemptAnswers, CallOK, At
<1>3. call[c].n \in 1..MaxCalls  BY <1>2, BoundsNat DEF Types
<1>4. Append(call[c].batch, [role |-> role, n |-> call[c].n]) \in Seq(Message)
  <2>1. [role |-> role, n |-> call[c].n] \in Message  BY <1>3, MessagesOK
  <2>2. QED  BY <1>2, <2>1
<1>5. Moves(c)  BY <1>1, CallHas DEF Moves, Others
<1>6. IsCall(call'[c]) /\ call'[c].pc = "insert" /\ Keeps(c, Fields \ {"pc", "batch"})
        /\ call'[c].batch = Append(call[c].batch, [role |-> role, n |-> call[c].n])
  BY <1>1, CallHas DEF IsCall, Fields, Keeps
<1>7. call'[c].n = call[c].n /\ call'[c].pk = call[c].pk  BY <1>6 DEF Keeps, Fields
<1>8. CallOK(call'[c], ids, begun)
  BY <1>2, <1>4, <1>5, <1>6, <1>7, PutMoves DEF At, Phases
<1>9. \A r \in rows' : RowOK(r) /\ r.pk \in 1..ids  BY <1>2, RecordOK DEF AttemptAnswers
<1>10. Types'  BY <1>5, <1>8, <1>9, TypesMove DEF Types, AttemptAnswers, contVars
<1>11. QED  BY <1>2, <1>5, <1>6, <1>7, <1>10
LEMMA WalkMoves ==
    ASSUME Types, NEW c \in Clients, Walk(c), UNCHANGED contVars
    PROVE  /\ Types' /\ Moves(c) /\ call'[c].pc = "write" /\ call'[c].seen = LastOf(turns)
           /\ Keeps(c, Fields \ {"pc", "seen"})
<1>1. call' = [call EXCEPT ![c].pc = "write", ![c].seen = LastOf(turns)]
        /\ call[c].pk # 0 /\ call[c].pc = "walk"
  BY CallHas DEF Walk, CallOK, At, LastOf
<1>2. Moves(c)  BY <1>1, CallHas DEF Moves, Others
<1>3. IsCall(call'[c]) /\ call'[c].pc = "write" /\ call'[c].seen = LastOf(turns)
        /\ Keeps(c, Fields \ {"pc", "seen"})
  BY <1>1, CallHas DEF IsCall, Fields, Keeps
<1>4. call'[c].n = call[c].n /\ call'[c].batch = call[c].batch /\ call'[c].pk = call[c].pk
  BY <1>3 DEF Keeps, Fields
<1>5. call[c].batch \in Seq(Message)  BY CallHas DEF CallOK
<1>6. CallOK(call'[c], ids, begun)  BY <1>1, <1>2, <1>3, <1>4, <1>5, PutMoves DEF At, Phases
<1>7. Types'  BY <1>2, <1>6, TypesKept DEF Walk, contVars
<1>8. QED  BY <1>2, <1>3, <1>7

LEMMA WriteMoves ==
    ASSUME Types, NEW c \in Clients, Write(c), UNCHANGED contVars
    PROVE  Types' /\ Moves(c) /\ call'[c].pc = "usage" /\ Keeps(c, Fields \ {"pc"})
<1>1. call[c].pk # 0 /\ call[c].pc = "write" /\ call[c].batch \in Seq(Message)
  BY CallHas DEF Write, CallOK, At
<1>2. Moves(c) /\ CallOK(call'[c], ids, begun) /\ call'[c].pc = "usage"
        /\ Keeps(c, Fields \ {"pc"})
  <2>1. Goto(c, "usage") /\ ~At(c, "idle")  BY <1>1 DEF Write, At
  <2>2. "usage" \in Phases \ {"idle", "put", "pinput"}  BY DEF Phases
  <2>3. QED  BY <1>1, <2>1, <2>2, GotoStays
<1>3. log' \in Seq(Message)  BY <1>1 DEF Write, Types
<1>4. owes' \in [Clients -> 0..MaxCalls]  BY AnsweredOK DEF Write
<1>5. Types'  BY <1>2, <1>3, <1>4, TypesMove DEF Types, Write, contVars
<1>6. QED  BY <1>2, <1>5

LEMMA AttachOutputMoves ==
    ASSUME Types, NEW c \in Clients, AttachOutput(c), UNCHANGED contVars
    PROVE  Types' /\ Moves(c) /\ call'[c].pc = "idle"
<1>1. Moves(c) /\ CallOK(call'[c], ids, begun) /\ call'[c].pc = "idle"
  BY EndMoves DEF AttachOutput
<1> DEFINE won == {r \in rows : r.table = "run" /\ r.n = call[c].n /\ r.outcome = "ok"}
<1>2. rows' = (rows \ won) \cup {[r EXCEPT !.outcome = "counted"] : r \in won}
  BY DEF AttachOutput
<1>3. ASSUME NEW r \in won
      PROVE  LET q == [r EXCEPT !.outcome = "counted"] IN RowOK(q) /\ q.pk \in 1..ids
  <2>1. r = [table |-> "run", pk |-> r.pk, n |-> r.n, outcome |-> r.outcome] /\ r.pk \in 1..ids
    BY <1>3 DEF Types, RowOK
  <2>2. QED  BY <2>1 DEF RowOK
<1>4. \A r \in rows' : RowOK(r) /\ r.pk \in 1..ids
  <2>1. TAKE r \in rows'
  <2>2. CASE r \in rows  BY <2>2 DEF Types
  <2>3. CASE r \notin rows
    <3>1. PICK q \in won : r = [q EXCEPT !.outcome = "counted"]  BY <1>2, <2>1, <2>3
    <3>2. QED  BY <1>3, <3>1
  <2>4. QED  BY <2>2, <2>3
<1>5. Types'  BY <1>1, <1>4, TypesMove DEF Types, AttachOutput, contVars
<1>6. QED  BY <1>1, <1>5

LEMMA DeleteOwnMoves ==
    ASSUME Types, NEW c \in Clients, DeleteOwn(c), UNCHANGED contVars
    PROVE  /\ Types' /\ Moves(c)
           /\ \/ /\ call'[c].pc = "sweep" /\ session = call[c].pk /\ lock' = c
                 /\ Keeps(c, Fields \ {"pc"})
              \/ call'[c].pc = "idle" /\ lock' = lock
<1>1. call[c].pk # 0 /\ call[c].pc = "own"  BY CallHas DEF DeleteOwn, CallOK, At
<1>2. CASE Goto(c, "sweep") /\ lock' = c /\ session = call[c].pk
  <2>1. Moves(c) /\ CallOK(call'[c], ids, begun) /\ call'[c].pc = "sweep"
          /\ Keeps(c, Fields \ {"pc"})
    BY <1>1, <1>2, GotoStays DEF At, Phases
  <2>2. Types'  BY <1>2, <2>1, TypesMove DEF Types, DeleteOwn, contVars
  <2>3. QED  BY <1>2, <2>1, <2>2
<1>3. CASE End(c) /\ lock' = lock
  <2>1. Moves(c) /\ CallOK(call'[c], ids, begun) /\ call'[c].pc = "idle"  BY <1>3, EndMoves
  <2>2. Types'  BY <1>3, <2>1, TypesMove DEF Types, DeleteOwn, contVars
  <2>3. QED  BY <1>3, <2>1, <2>2
<1>4. QED  BY <1>2, <1>3 DEF DeleteOwn

LEMMA DeleteChildrenMoves ==
    ASSUME Types, NEW c \in Clients, DeleteChildren(c), UNCHANGED contVars
    PROVE  /\ Types' /\ Moves(c) /\ call'[c].pc = "drop" /\ call'[c].plan = Owned(call[c].pk)
           /\ Keeps(c, Fields \ {"pc", "plan"})
<1>1. call' = [call EXCEPT ![c].pc = "drop", ![c].plan = Owned(call[c].pk)]
        /\ call[c].pk # 0 /\ call[c].pc = "sweep"
  BY CallHas DEF DeleteChildren, CallOK, At
<1>2. Moves(c)  BY <1>1, CallHas DEF Moves, Others
<1>3. IsCall(call'[c]) /\ call'[c].pc = "drop" /\ call'[c].plan = Owned(call[c].pk)
        /\ Keeps(c, Fields \ {"pc", "plan"})
  BY <1>1, CallHas DEF IsCall, Fields, Keeps
<1>4. call'[c].n = call[c].n /\ call'[c].batch = call[c].batch /\ call'[c].pk = call[c].pk
  BY <1>3 DEF Keeps, Fields
<1>5. call[c].batch \in Seq(Message)  BY CallHas DEF CallOK
<1>6. CallOK(call'[c], ids, begun)  BY <1>1, <1>2, <1>3, <1>4, <1>5, PutMoves DEF At, Phases
<1>7. Types'  BY <1>2, <1>6, TypesKept DEF DeleteChildren, contVars
<1>8. QED  BY <1>2, <1>3, <1>7

LEMMA DeleteRowMoves ==
    ASSUME Types, NEW c \in Clients, DeleteRow(c), UNCHANGED contVars
    PROVE  Types' /\ Moves(c) /\ call'[c].pc = "idle"
<1>1. Moves(c) /\ CallOK(call'[c], ids, begun) /\ call'[c].pc = "idle"
  BY EndMoves DEF DeleteRow
<1>2. session' \in {0, session} /\ log' \in {<<>>, log} /\ rows' \subseteq rows
        /\ lock' \in {None, lock}
  BY DEF DeleteRow, Unlock
<1>3. log' \in Seq(Message)
  <2>1. <<>> \in Seq(Message) /\ log \in Seq(Message)  BY DEF Types
  <2>2. QED  BY <1>2, <2>1
<1>4. Types'  BY <1>1, <1>2, <1>3, TypesMove DEF Types, DeleteRow, contVars
<1>5. QED  BY <1>1, <1>4
-----------------------------------------------------------------------------
LEMMA SetStateMoves ==
    ASSUME Types, NEW c \in Clients, SetState(c)
    PROVE  Types' /\ Moves(c) /\ call'[c].pc = "advise" /\ Keeps(c, Fields \ {"pc"})
<1>1. call[c].pk # 0 /\ call[c].pc = "load"  BY CallHas DEF SetState, CallOK, At
<1>2. Goto(c, "advise") /\ ~At(c, "idle")  BY <1>1 DEF SetState, At
<1>3. Moves(c) /\ CallOK(call'[c], ids, begun) /\ call'[c].pc = "advise"
        /\ Keeps(c, Fields \ {"pc"})
  BY <1>1, <1>2, GotoStays DEF Phases
<1>4. Types'  BY <1>3, TypesKept DEF SetState, contVars
<1>5. QED  BY <1>3, <1>4

LEMMA KeysOK == \A c \in Clients : KeyOf(c) \in Keys
BY DEF KeyOf, Keys

LEMMA StateLockMoves ==
    ASSUME Types, NEW c \in Clients, StateLock(c)
    PROVE  /\ Types' /\ Moves(c) /\ call'[c].pc = "head" /\ Keeps(c, Fields \ {"pc"})
           /\ advisory' = [advisory EXCEPT ![c] = <<call[c].pk, KeyOf(c)>>]
<1>1. call[c].pk \in 1..ids /\ call[c].pc = "advise"
  BY CallHas DEF StateLock, CallOK, At
<1>2. Goto(c, "head") /\ ~At(c, "idle")  BY <1>1 DEF StateLock, At
<1>3. Moves(c) /\ CallOK(call'[c], ids, begun) /\ call'[c].pc = "head"
        /\ Keeps(c, Fields \ {"pc"})
  <2>1. call[c].pk # 0 /\ "head" \in Phases \ {"idle", "put", "pinput"}
    BY <1>1, CallHas DEF Phases
  <2>2. QED  BY <1>2, <2>1, GotoStays
<1>4. advisory' \in [Clients -> {None} \cup ((1..ids) \X Keys)]
  BY <1>1, KeysOK DEF StateLock, Types
<1>5. Types'  BY <1>3, <1>4, TypesMove DEF Types, StateLock
<1>6. QED  BY <1>3, <1>5 DEF StateLock

LEMMA ReleaseOK ==
    ASSUME Types, NEW c \in Clients, Release(c)
    PROVE  /\ advisory' \in [Clients -> {None} \cup ((1..ids) \X Keys)]
           /\ advisory'[c] = None /\ \A d \in Clients \ {c} : advisory'[d] = advisory[d]
BY DEF Types, Release

\* The newest version of a task is a number, and it is there or 0.
LEMMA HeadIsTop ==
    ASSUME Types, TaskInv, NEW pk \in Nat, NEW key \in Keys
    PROVE  LET head == HeadVersion(pk, key) IN
           /\ head \in Nat
           /\ head # 0 => \E r \in States(pk, key) : r.version = head
           /\ \A r \in States(pk, key) : r.version <= head
<1> DEFINE V == {0} \cup {r.version : r \in States(pk, key)}
<1>1. \A r \in States(pk, key) : r.version \in Nat  BY DEF Types, States, RowOK
<1>2. V \subseteq Nat  BY <1>1
<1>3. PICK h \in V : \A r \in States(pk, key) : r.version <= h
  BY DEF TaskInv, TopOf
<1>4. \A y \in V : h >= y  BY <1>1, <1>2, <1>3
<1>5. Max(V) \in V /\ \A y \in V : Max(V) >= y  BY <1>3, <1>4 DEF Max
<1>6. HeadVersion(pk, key) = Max(V)  BY DEF HeadVersion
<1>7. \A r \in States(pk, key) : r.version \in V  OBVIOUS
<1>8. QED  BY <1>1, <1>2, <1>5, <1>6, <1>7

LEMMA StateHeadMoves ==
    ASSUME Types, TaskInv, NEW c \in Clients, StateHead(c)
    PROVE  /\ Types' /\ Moves(c)
           /\ \/ /\ call'[c].pc = "put" /\ advisory' = advisory
                 /\ call'[c].seen = HeadVersion(call[c].pk, KeyOf(c))
                 /\ Keeps(c, Fields \ {"pc", "seen"})
              \/ call'[c].pc = "idle" /\ Release(c)
<1> DEFINE head == HeadVersion(call[c].pk, KeyOf(c))
<1>1. call[c].pk # 0 /\ call[c].pc = "head"  BY CallHas DEF StateHead, CallOK, At
<1>2. CASE call' = [call EXCEPT ![c].seen = head, ![c].pc = "put"] /\ advisory' = advisory
  <2>1. head \in Nat  BY HeadIsTop, KeysOK, CallHas
  <2> HIDE DEF head
  <2>2. Moves(c)  BY <1>2, CallHas DEF Moves, Others
  <2>3. IsCall(call'[c]) /\ call'[c].pc = "put" /\ call'[c].seen = head
          /\ Keeps(c, Fields \ {"pc", "seen"})
    BY <1>2, CallHas DEF IsCall, Fields, Keeps
  <2>4. call'[c].n = call[c].n /\ call'[c].batch = call[c].batch /\ call'[c].pk = call[c].pk
    BY <2>3 DEF Keeps, Fields
  <2>5. CallOK(call'[c], ids, begun)  BY <1>1, <2>1, <2>3, <2>4, CallHas DEF CallOK, Phases
  <2>6. Types'  BY <1>2, <2>2, <2>5, TypesKept DEF StateHead
  <2>7. QED  BY <1>2, <2>2, <2>3, <2>6 DEF head
<1>3. CASE End(c) /\ Release(c)
  <2>1. Moves(c) /\ CallOK(call'[c], ids, begun) /\ call'[c].pc = "idle"  BY <1>3, EndMoves
  <2>2. Types'  BY <1>3, <2>1, ReleaseOK, TypesMove DEF Types, StateHead
  <2>3. QED  BY <1>3, <2>1, <2>2
<1>4. QED  BY <1>2, <1>3 DEF StateHead
\* The row a state write inserts.
NewState(c) ==
    [table |-> "state", pk |-> call[c].pk, key |-> KeyOf(c),
     version |-> call[c].seen + 1, n |-> call[c].n, list |-> call[c].plan]

LEMMA StateInsertMoves ==
    ASSUME Types, NEW c \in Clients, StateInsert(c)
    PROVE  /\ Types' /\ Moves(c) /\ call'[c].pc = "idle" /\ Release(c)
           /\ \/ rows' = rows
              \/ /\ rows' = rows \cup {NewState(c)} /\ session = call[c].pk
                 /\ call[c].seen \in Nat
<1>1. Moves(c) /\ CallOK(call'[c], ids, begun) /\ call'[c].pc = "idle"
  BY EndMoves DEF StateInsert
<1>2. call[c].pk \in 1..ids /\ call[c].seen \in Nat
  BY CallHas DEF StateInsert, CallOK, At
<1>3. \/ rows' = rows
      \/ rows' = rows \cup {NewState(c)} /\ session = call[c].pk
  BY DEF StateInsert, NewState
<1>4. RowOK(NewState(c)) /\ NewState(c).pk \in 1..ids  BY <1>2 DEF RowOK, NewState
<1>5. \A r \in rows' : RowOK(r) /\ r.pk \in 1..ids  BY <1>3, <1>4 DEF Types
<1>6. Types'  BY <1>1, <1>5, ReleaseOK, TypesMove DEF Types, StateInsert
<1>7. QED  BY <1>1, <1>2, <1>3, <1>6 DEF StateInsert

\* Going on with another plan.
LEMMA PlanMoves ==
    ASSUME Types, NEW c \in Clients, NEW p \in {"advise", "pin"}, NEW next,
           call[c].pk # 0, ~At(c, "idle"),
           call' = [call EXCEPT ![c].plan = next, ![c].pc = p]
    PROVE  /\ Moves(c) /\ CallOK(call'[c], ids, begun) /\ call'[c].pc = p
           /\ call'[c].plan = next /\ Keeps(c, Fields \ {"pc", "plan"})
<1>1. Moves(c)  BY CallHas DEF Moves, Others
<1>2. IsCall(call'[c]) /\ call'[c].pc = p /\ call'[c].plan = next
        /\ Keeps(c, Fields \ {"pc", "plan"})
  BY CallHas DEF IsCall, Fields, Keeps
<1>3. call'[c].n = call[c].n /\ call'[c].batch = call[c].batch /\ call'[c].pk = call[c].pk
  BY <1>2 DEF Keeps, Fields
<1>4. call[c].batch \in Seq(Message)  BY CallHas DEF CallOK
<1>5. p \in Phases \ {"idle", "put", "pinput"}  BY DEF Phases
<1>6. CallOK(call'[c], ids, begun)  BY <1>1, <1>2, <1>3, <1>4, <1>5, PutMoves
<1>7. QED  BY <1>1, <1>2, <1>6

LEMMA TodoReadMoves ==
    ASSUME Types, NEW c \in Clients, TodoRead(c)
    PROVE  /\ Types' /\ Moves(c)
           /\ \/ call'[c].pc = "advise" /\ Keeps(c, Fields \ {"pc", "plan"})
              \/ call'[c].pc = "idle"
<1>1. call[c].pk # 0 /\ ~At(c, "idle")  BY CallHas DEF TodoRead, CallOK, At
<1>2. \/ End(c)
      \/ \E next : call' = [call EXCEPT ![c].plan = next, ![c].pc = "advise"]
  BY DEF TodoRead
<1>3. CASE End(c)
  <2>1. Moves(c) /\ CallOK(call'[c], ids, begun) /\ call'[c].pc = "idle"  BY <1>3, EndMoves
  <2>2. Types'  BY <2>1, TypesKept DEF TodoRead, contVars
  <2>3. QED  BY <2>1, <2>2
<1>4. ASSUME NEW next, call' = [call EXCEPT ![c].plan = next, ![c].pc = "advise"]
      PROVE  /\ Types' /\ Moves(c) /\ call'[c].pc = "advise"
             /\ Keeps(c, Fields \ {"pc", "plan"})
  <2>1. Moves(c) /\ CallOK(call'[c], ids, begun) /\ call'[c].pc = "advise"
          /\ Keeps(c, Fields \ {"pc", "plan"})
    BY <1>1, <1>4, PlanMoves
  <2>2. Types'  BY <2>1, TypesKept DEF TodoRead, contVars
  <2>3. QED  BY <2>1, <2>2
<1>5. QED  BY <1>2, <1>3, <1>4

LEMMA HookKeysMoves ==
    ASSUME Types, NEW c \in Clients, HookKeys(c)
    PROVE  /\ Types' /\ Moves(c) /\ call'[c].pc = "pin" /\ call'[c].plan \subseteq Keys
           /\ Keeps(c, Fields \ {"pc", "plan"})
<1>1. call[c].pk # 0 /\ ~At(c, "idle")  BY CallHas DEF HookKeys, CallOK, At
<1>2. Moves(c) /\ CallOK(call'[c], ids, begun) /\ call'[c].pc = "pin"
        /\ call'[c].plan = Tracked(call[c].pk) /\ Keeps(c, Fields \ {"pc", "plan"})
  BY <1>1, PlanMoves DEF HookKeys
<1>3. Types'  BY <1>2, TypesKept DEF HookKeys, contVars
<1>4. QED  BY <1>2, <1>3 DEF Tracked

LEMMA HookDoneMoves ==
    ASSUME Types, NEW c \in Clients, HookDone(c)
    PROVE  Types' /\ Moves(c) /\ call'[c].pc = "route" /\ Keeps(c, Fields \ {"pc"})
<1>1. call[c].pk # 0 /\ ~At(c, "idle") /\ Goto(c, "route")
  BY CallHas DEF HookDone, CallOK, At
<1>2. "route" \in Phases \ {"idle", "put", "pinput"}  BY DEF Phases
<1>3. Moves(c) /\ CallOK(call'[c], ids, begun) /\ call'[c].pc = "route"
        /\ Keeps(c, Fields \ {"pc"})
  BY <1>1, <1>2, GotoStays
<1>4. Types'  BY <1>3, TypesKept DEF HookDone, contVars
<1>5. QED  BY <1>3, <1>4

\* The keys a hook has yet to pin.
LEMMA PinHeadMoves ==
    ASSUME Types, TaskInv, NEW c \in Clients, PinHead(c),
           At(c, "pin") => call[c].plan \subseteq Keys
    PROVE  /\ Types' /\ Moves(c) /\ call'[c].pc = "pinput" /\ Keeps(c, Fields \ {"pc", "arg"})
           /\ \E key \in Keys : call'[c].arg = <<key, HeadVersion(call[c].pk, key)>>
<1>1. call[c].pk # 0 /\ ~At(c, "idle")  BY CallHas DEF PinHead, CallOK, At
<1>2. PICK key \in Keys :
        call' = [call EXCEPT ![c].pc = "pinput",
                             ![c].arg = <<key, HeadVersion(call[c].pk, key)>>]
  BY DEF PinHead, Keys
<1> DEFINE head == HeadVersion(call[c].pk, key)
<1>3. head \in Nat  BY HeadIsTop, CallHas
<1> HIDE DEF head
<1>4. call' = [call EXCEPT ![c].pc = "pinput", ![c].arg = <<key, head>>]
  BY <1>2 DEF head
<1>5. Moves(c)  BY <1>4, CallHas DEF Moves, Others
<1>6. IsCall(call'[c]) /\ call'[c].pc = "pinput" /\ call'[c].arg = <<key, head>>
        /\ Keeps(c, Fields \ {"pc", "arg"})
  BY <1>4, CallHas DEF IsCall, Fields, Keeps
<1>7. call'[c].n = call[c].n /\ call'[c].batch = call[c].batch /\ call'[c].pk = call[c].pk
  BY <1>6 DEF Keeps, Fields
<1>8. CallOK(call'[c], ids, begun)
  BY <1>1, <1>3, <1>6, <1>7, CallHas DEF CallOK, Phases, At
<1>9. Types'  BY <1>5, <1>8, TypesKept DEF PinHead, contVars
<1>10. QED  BY <1>5, <1>6, <1>9 DEF head

\* The row a checkpoint inserts.
NewCheck(c) ==
    [table |-> "check", pk |-> session, key |-> call[c].arg[1],
     version |-> call[c].arg[2], n |-> call[c].n]

LEMMA PinInsertMoves ==
    ASSUME Types, NEW c \in Clients, PinInsert(c), call[c].op # "pin" => call[c].plan \subseteq Keys
    PROVE  /\ Types' /\ Moves(c)
           /\ \/ call'[c].pc = "idle"
              \/ /\ call'[c].pc = "pin" /\ Keeps(c, Fields \ {"pc", "arg", "plan"})
                 /\ call'[c].plan \subseteq Keys
           /\ \/ rows' = rows
              \/ rows' = rows \cup {NewCheck(c)} /\ session = call[c].pk
<1>1. call[c].pk \in 1..ids /\ call[c].pc = "pinput" /\ call[c].arg[2] \in Nat
  BY CallHas DEF PinInsert, CallOK, At
<1>2. \/ rows' = rows
      \/ rows' = rows \cup {NewCheck(c)} /\ session = call[c].pk
  BY DEF PinInsert, NewCheck
<1>3. session = call[c].pk => RowOK(NewCheck(c)) /\ NewCheck(c).pk \in 1..ids
  BY <1>1 DEF RowOK, NewCheck
<1>4. \A r \in rows' : RowOK(r) /\ r.pk \in 1..ids  BY <1>2, <1>3 DEF Types
<1>5. CASE End(c)
  <2>1. Moves(c) /\ CallOK(call'[c], ids, begun) /\ call'[c].pc = "idle"  BY <1>5, EndMoves
  <2>2. Types'  BY <1>4, <2>1, TypesMove DEF Types, PinInsert, contVars
  <2>3. QED  BY <1>2, <2>1, <2>2
<1>6. ASSUME NEW left, call' = [call EXCEPT ![c].pc = "pin", ![c].arg = None, ![c].plan = left],
             left \subseteq Keys
      PROVE  /\ Types' /\ Moves(c) /\ call'[c].pc = "pin" /\ call'[c].plan = left
             /\ Keeps(c, Fields \ {"pc", "arg", "plan"})
  <2>1. Moves(c)  BY <1>6, CallHas DEF Moves, Others
  <2>2. IsCall(call'[c]) /\ call'[c].pc = "pin" /\ Keeps(c, Fields \ {"pc", "arg", "plan"})
          /\ call'[c].plan = left
    BY <1>6, CallHas DEF IsCall, Fields, Keeps
  <2>3. call'[c].n = call[c].n /\ call'[c].batch = call[c].batch /\ call'[c].pk = call[c].pk
    BY <2>2 DEF Keeps, Fields
  <2>4. "pin" \in Phases \ {"idle", "put", "pinput"} /\ call[c].batch \in Seq(Message)
    BY CallHas DEF Phases, CallOK
  <2>5. CallOK(call'[c], ids, begun)  BY <1>1, <2>1, <2>2, <2>3, <2>4, PutMoves DEF At
  <2>6. Types'  BY <1>4, <2>1, <2>5, TypesMove DEF Types, PinInsert, contVars
  <2>7. QED  BY <2>1, <2>2, <2>6
<1>7. CASE call[c].op # "pin"
  <2>1. PICK left \in SUBSET Keys :
          call' = [call EXCEPT ![c].pc = "pin", ![c].arg = None, ![c].plan = left]
    <3>1. CASE session = call[c].pk
      <4> DEFINE left == call[c].plan \ {call[c].arg[1]}
      <4>1. call' = [call EXCEPT ![c].pc = "pin", ![c].arg = None, ![c].plan = left]
        BY <1>7, <3>1, CallHas DEF PinInsert
      <4>2. left \subseteq Keys  BY <1>7
      <4>3. QED  BY <4>1, <4>2
    <3>2. CASE session # call[c].pk
      <4>1. call' = [call EXCEPT ![c].pc = "pin", ![c].arg = None, ![c].plan = {}]
        BY <1>7, <3>2, CallHas DEF PinInsert
      <4>2. QED  BY <4>1
    <3>3. QED  BY <3>1, <3>2
  <2>2. QED  BY <1>2, <1>6, <2>1
<1>8. QED  BY <1>5, <1>7 DEF PinInsert
-----------------------------------------------------------------------------
(* The row lock and the rows *)

Locking == {"sweep", "drop", "walk", "write"}

\* Who may take the row lock, or has it, is the only one that works under it.
LEMMA Alone ==
    ASSUME RowInv, NEW c \in Clients, RowFree(c)
    PROVE  \A d \in Clients \ {c} : call[d].pc \notin Locking
BY BoundsNat DEF RowInv, HoldsRow, RowFree, Locking

\* Steps that touch neither the lock nor the rows.
LEMMA RowKept ==
    ASSUME RowInv, NEW c \in Clients, Moves(c), UNCHANGED <<session, lock, rows>>,
           call'[c].pc \notin Locking
    PROVE  RowInv'
<1>1. ASSUME NEW d \in Clients
      PROVE  HoldsRow(d)'
  <2>1. CASE d = c  BY <2>1 DEF Locking, HoldsRow
  <2>2. CASE d # c
    <3>1. call'[d] = call[d]  BY <2>2 DEF Moves, Others
    <3>2. QED  BY <3>1 DEF RowInv, HoldsRow, Owned
  <2>3. QED  BY <2>1, <2>2
<1>2. \A r \in rows' : r.pk = session'  BY DEF RowInv
<1>3. QED  BY <1>1, <1>2 DEF RowInv

\* Steps of a client that waited for the row, or that holds it.
LEMMA RowTaken ==
    ASSUME RowInv, NEW c \in Clients, Moves(c), RowFree(c),
           \A r \in rows' : r.pk = session',
           HoldsRow(c)'
    PROVE  RowInv'
<1>1. ASSUME NEW d \in Clients
      PROVE  HoldsRow(d)'
  <2>1. CASE d = c  BY <2>1
  <2>2. CASE d # c
    <3>1. call'[d] = call[d]  BY <2>2 DEF Moves, Others
    <3>2. call'[d].pc \notin Locking  BY <2>2, <3>1, Alone
    <3>3. QED  BY <3>2 DEF Locking, HoldsRow
  <2>3. QED  BY <2>1, <2>2
<1>3. QED  BY <1>1 DEF RowInv

LEMMA InsertRow ==
    ASSUME Types, RowInv, NEW c \in Clients, Insert(c), UNCHANGED contVars
    PROVE  RowInv'
<1>1. Moves(c) /\ call'[c].pc = "select"  BY InsertMoves
<1>2. CASE session # 0
  <2>1. UNCHANGED <<session, lock, rows>>  BY <1>2 DEF Insert
  <2>2. QED  BY <1>1, <2>1, RowKept DEF Locking
<1>3. CASE session = 0
  <2>1. \A d \in Clients : call[d].pc \notin Locking
    <3>1. ASSUME NEW d \in Clients, call[d].pc \in {"sweep", "drop"} PROVE FALSE
      <4>1. call[d].pk # 0  BY <3>1, CallHas DEF CallOK
      <4>2. QED  BY <1>3, <3>1, <4>1 DEF RowInv, HoldsRow
    <3>2. QED  BY <1>3, <3>1 DEF RowInv, HoldsRow, Locking
  <2>2. \A d \in Clients : call'[d].pc \notin Locking  BY <1>1, <2>1 DEF Moves, Others, Locking
  <2>3. rows' = {}  BY <1>3, CallHas DEF RowInv, Types, Insert
  <2>4. QED  BY <2>2, <2>3 DEF RowInv, HoldsRow, Locking
<1>4. QED  BY <1>2, <1>3

LEMMA RecordRow ==
    ASSUME RowInv, NEW c \in Clients, NEW outcome, Record(c, outcome), Moves(c),
           session' = session, call'[c].pc \notin Locking
    PROVE  RowInv'
<1>1. RowFree(c) /\ \A r \in rows' : r.pk = session'  BY DEF Record, RowInv
<1>2. HoldsRow(c)'  BY DEF HoldsRow, Locking
<1>3. QED  BY <1>1, <1>2, RowTaken

LEMMA AttachOutputRow ==
    ASSUME Types, RowInv, NEW c \in Clients, AttachOutput(c), UNCHANGED contVars
    PROVE  RowInv'
<1> DEFINE won == {r \in rows : r.table = "run" /\ r.n = call[c].n /\ r.outcome = "ok"}
<1>1. rows' = (rows \ won) \cup {[r EXCEPT !.outcome = "counted"] : r \in won}
        /\ (\A d \in Clients : At(d, "drop") => won \cap call[d].plan = {})
        /\ session' = session /\ lock' = lock
  BY DEF AttachOutput
<1>2. Moves(c) /\ call'[c].pc = "idle"  BY AttachOutputMoves
<1>3. \A r \in won : [r EXCEPT !.outcome = "counted"].pk = r.pk  BY DEF Types, RowOK
<1>4. \A r \in rows' : r.pk = session'  BY <1>1, <1>3 DEF RowInv
<1>5. ASSUME NEW d \in Clients, d # c, call[d].pc = "drop"
      PROVE  won = {}
  BY <1>1, <1>5 DEF RowInv, HoldsRow, At, Owned
<1> HIDE DEF won
<1>6. ASSUME NEW d \in Clients
      PROVE  HoldsRow(d)'
  <2>1. CASE d = c  BY <1>2, <2>1 DEF HoldsRow
  <2>2. CASE d # c
    <3>1. call'[d] = call[d]  BY <1>2, <2>2 DEF Moves, Others
    <3>2. call[d].pc = "drop" => rows' = rows  BY <1>1, <1>5, <2>2
    <3>3. QED  BY <1>1, <3>1, <3>2 DEF RowInv, HoldsRow, Owned
  <2>3. QED  BY <2>1, <2>2
<1>7. QED  BY <1>4, <1>6 DEF RowInv

LEMMA DeleteRowRow ==
    ASSUME Types, RowInv, NEW c \in Clients, DeleteRow(c), UNCHANGED contVars
    PROVE  RowInv' /\ session' = 0 /\ rows' = {} /\ turns' = <<>> /\ log' = <<>>
<1>1. lock = c /\ Owned(call[c].pk) \subseteq call[c].plan /\ session = call[c].pk
  BY DEF DeleteRow, RowInv, HoldsRow, At
<1>2. Moves(c) /\ call'[c].pc = "idle"  BY DeleteRowMoves
<1>3. rows \subseteq call[c].plan  BY <1>1 DEF RowInv, Owned
<1>4. session' = 0 /\ rows' = {} /\ turns' = <<>> /\ log' = <<>>
  BY <1>1, <1>3 DEF DeleteRow
<1>5. RowInv'  BY <1>1, <1>2, <1>4, RowTaken DEF RowFree, HoldsRow
<1>6. QED  BY <1>4, <1>5

LEMMA RowPreserved ==
    ASSUME IInv, [AllNext]_allVars
    PROVE  RowInv'
<1> USE DEF IInv
<1>1. ASSUME NEW c \in Clients, BeginChat(c), UNCHANGED contVars  PROVE RowInv'
  BY <1>1, BeginChatMoves, RowKept DEF BeginChat, Locking
<1>2. ASSUME NEW c \in Clients, BeginDelete(c), UNCHANGED contVars  PROVE RowInv'
  BY <1>2, BeginDeleteMoves, RowKept DEF BeginDelete, Locking
<1>3. ASSUME NEW c \in Clients, BeginTask(c)  PROVE RowInv'
  BY <1>3, BeginTaskMoves, RowKept DEF BeginTask, Locking
<1>4. ASSUME NEW c \in Clients, Insert(c), UNCHANGED contVars  PROVE RowInv'
  BY <1>4, InsertRow
<1>5. ASSUME NEW c \in Clients, Select(c), UNCHANGED contVars  PROVE RowInv'
  <2>1. RowFree(c) /\ session' = session /\ rows' = rows /\ session # 0  BY <1>5 DEF Select
  <2>2. Moves(c)  BY <1>5, SelectMoves
  <2>3. HoldsRow(c)'  BY <1>5, <2>1, SelectMoves DEF HoldsRow
  <2>4. QED  BY <2>1, <2>2, <2>3, RowTaken DEF RowInv
<1>6. ASSUME NEW c \in Clients, SelectNothing(c), UNCHANGED contVars  PROVE RowInv'
  BY <1>6, SelectNothingMoves, RowKept DEF SelectNothing, Locking
<1>7. ASSUME NEW c \in Clients, Load(c), UNCHANGED contVars  PROVE RowInv'
  BY <1>7, LoadMoves, RowKept DEF Load, Locking
<1>8. ASSUME NEW c \in Clients, AttemptFails(c), UNCHANGED contVars  PROVE RowInv'
  BY <1>8, AttemptFailsMoves, RecordRow DEF AttemptFails, Locking
<1>9. ASSUME NEW c \in Clients, AttemptsExhausted(c), UNCHANGED contVars  PROVE RowInv'
  BY <1>9, AttemptsExhaustedMoves, RecordRow DEF AttemptsExhausted, Locking
<1>10. ASSUME NEW c \in Clients, AttemptAnswers(c), UNCHANGED contVars  PROVE RowInv'
  BY <1>10, AttemptAnswersMoves, RecordRow DEF AttemptAnswers, Locking
<1>11. ASSUME NEW c \in Clients, Walk(c), UNCHANGED contVars  PROVE RowInv'
  <2>1. lock = c /\ session # 0 /\ UNCHANGED <<session, lock, rows>>
    BY <1>11 DEF Walk, RowInv, HoldsRow, At
  <2>2. Moves(c) /\ call'[c].pc = "write"  BY <1>11, WalkMoves
  <2>3. RowFree(c) /\ HoldsRow(c)'  BY <2>1, <2>2 DEF RowFree, HoldsRow
  <2>4. QED  BY <2>1, <2>2, <2>3, RowTaken DEF RowInv
<1>12. ASSUME NEW c \in Clients, Write(c), UNCHANGED contVars  PROVE RowInv'
  <2>1. lock = c /\ UNCHANGED <<session, rows>>
    BY <1>12 DEF Write, RowInv, HoldsRow, At
  <2>2. Moves(c) /\ call'[c].pc = "usage"  BY <1>12, WriteMoves
  <2>3. RowFree(c) /\ HoldsRow(c)'  BY <2>1, <2>2 DEF RowFree, HoldsRow
  <2>4. QED  BY <2>1, <2>2, <2>3, RowTaken DEF RowInv
<1>13. ASSUME NEW c \in Clients, AttachOutput(c), UNCHANGED contVars  PROVE RowInv'
  BY <1>13, AttachOutputRow
<1>14. ASSUME NEW c \in Clients, DeleteOwn(c), UNCHANGED contVars  PROVE RowInv'
  <2>1. RowFree(c) /\ UNCHANGED <<session, rows>>  BY <1>14 DEF DeleteOwn
  <2>2. Moves(c)  BY <1>14, DeleteOwnMoves
  <2>3. HoldsRow(c)'  BY <1>14, <2>1, DeleteOwnMoves DEF HoldsRow, Keeps, Fields
  <2>4. QED  BY <2>1, <2>2, <2>3, RowTaken DEF RowInv
<1>15. ASSUME NEW c \in Clients, DeleteChildren(c), UNCHANGED contVars  PROVE RowInv'
  <2>1. lock = c /\ session = call[c].pk /\ UNCHANGED <<session, lock, rows>>
    BY <1>15 DEF DeleteChildren, RowInv, HoldsRow, At
  <2>2. Moves(c) /\ call'[c].pc = "drop" /\ call'[c].plan = Owned(call[c].pk)
          /\ call'[c].pk = call[c].pk
    BY <1>15, DeleteChildrenMoves DEF Keeps, Fields
  <2>3. RowFree(c) /\ HoldsRow(c)'  BY <2>1, <2>2 DEF RowFree, HoldsRow, Owned
  <2>4. QED  BY <2>1, <2>2, <2>3, RowTaken DEF RowInv
<1>16. ASSUME NEW c \in Clients, DeleteRow(c), UNCHANGED contVars  PROVE RowInv'
  BY <1>16, DeleteRowRow
<1>17. ASSUME NEW c \in Clients, SetState(c)  PROVE RowInv'
  BY <1>17, SetStateMoves, RowKept DEF SetState, Locking
<1>18. ASSUME NEW c \in Clients, StateLock(c)  PROVE RowInv'
  BY <1>18, StateLockMoves, RowKept DEF StateLock, Locking
<1>19. ASSUME NEW c \in Clients, StateHead(c)  PROVE RowInv'
  BY <1>19, StateHeadMoves, RowKept DEF StateHead, Locking
<1>20. ASSUME NEW c \in Clients, StateInsert(c)  PROVE RowInv'
  <2>1. RowFree(c) /\ session' = session  BY <1>20 DEF StateInsert
  <2>2. Moves(c) /\ call'[c].pc = "idle"  BY <1>20, StateInsertMoves
  <2>3. \A r \in rows' : r.pk = session'
    BY <1>20, <2>1, StateInsertMoves DEF RowInv, NewState
  <2>4. HoldsRow(c)'  BY <2>2 DEF HoldsRow
  <2>5. QED  BY <2>1, <2>2, <2>3, <2>4, RowTaken
<1>21. ASSUME NEW c \in Clients, TodoRead(c)  PROVE RowInv'
  BY <1>21, TodoReadMoves, RowKept DEF TodoRead, Locking
<1>22. ASSUME NEW c \in Clients, HookKeys(c)  PROVE RowInv'
  BY <1>22, HookKeysMoves, RowKept DEF HookKeys, Locking
<1>23. ASSUME NEW c \in Clients, HookDone(c)  PROVE RowInv'
  BY <1>23, HookDoneMoves, RowKept DEF HookDone, Locking
<1>24. ASSUME NEW c \in Clients, PinHead(c)  PROVE RowInv'
  <2>1. At(c, "pin") => call[c].plan \subseteq Keys  BY DEF TaskInv, HoldsTask, At
  <2>2. QED  BY <1>24, <2>1, PinHeadMoves, RowKept DEF PinHead, Locking
<1>25. ASSUME NEW c \in Clients, PinInsert(c)  PROVE RowInv'
  <2>1. RowFree(c) /\ session' = session  BY <1>25 DEF PinInsert
  <2>2. call[c].op # "pin" => call[c].plan \subseteq Keys
    BY <1>25 DEF TaskInv, HoldsTask, PinInsert, At
  <2>3. Moves(c) /\ call'[c].pc \in {"idle", "pin"}  BY <1>25, <2>2, PinInsertMoves
  <2>4. \A r \in rows' : r.pk = session'
    BY <1>25, <2>1, <2>2, PinInsertMoves DEF RowInv, NewCheck
  <2>5. HoldsRow(c)'  BY <2>3 DEF HoldsRow
  <2>6. QED  BY <2>1, <2>3, <2>4, <2>5, RowTaken
<1>26. CASE UNCHANGED allVars
  BY <1>26 DEF allVars, vars, RowInv, HoldsRow, Owned
<1>27. QED
  BY <1>1, <1>2, <1>3, <1>4, <1>5, <1>6, <1>7, <1>8, <1>9, <1>10, <1>11, <1>12, <1>13,
     <1>14, <1>15, <1>16, <1>17, <1>18, <1>19, <1>20, <1>21, <1>22, <1>23, <1>24, <1>25,
     <1>26
  DEF AllNext, Conversation, Step, TaskStep, Rest
-----------------------------------------------------------------------------
(* The advisory lock, the versions and the pins *)

\* Phases at which a client relies on the versions it has read.
Relying == {"head", "put", "pin", "pinput"}
StateRows == {r \in rows : r.table = "state"}
CheckRows == {r \in rows : r.table = "check"}

LEMMA StatesSame ==
    ASSUME StateRows' = StateRows
    PROVE  /\ \A pk, key : States(pk, key)' = States(pk, key)
           /\ \A pk, key : HeadVersion(pk, key)' = HeadVersion(pk, key)
<1>1. ASSUME NEW pk, NEW key  PROVE States(pk, key)' = States(pk, key)
  BY DEF States, StateRows
<1>2. QED  BY <1>1 DEF HeadVersion

\* A client that does not step goes on relying on the versions it has read.
LEMMA OthersHoldTask ==
    ASSUME Types, TaskInv, NEW c \in Clients, Moves(c), StateRows' = StateRows,
           session' = session \/ session' \notin 1..ids,
           NEW d \in Clients \ {c}, advisory'[d] = advisory[d]
    PROVE  HoldsTask(d)'
<1>1. call'[d] = call[d]  BY DEF Moves, Others
<1>2. call[d].pc \in {"put", "pinput"} => call[d].pk \in 1..ids
  BY CallHas DEF CallOK
<1>3. HoldsTask(d)  BY DEF TaskInv
<1>4. KeyOf(d)' = KeyOf(d)  BY <1>1 DEF KeyOf
<1>5. HeadVersion(call[d].pk, KeyOf(d))' = HeadVersion(call[d].pk, KeyOf(d))
  <2>1. \A pk, key : HeadVersion(pk, key)' = HeadVersion(pk, key)  BY StatesSame
  <2>2. (call[d].pk)' = call[d].pk  BY <1>1
  <2>3. QED  BY <1>4, <2>1, <2>2, <1>1, StatesSame DEF HeadVersion, States, StateRows
<1>6. QED  BY <1>1, <1>2, <1>3, <1>4, <1>5, StatesSame DEF HoldsTask

LEMMA TaskKept ==
    ASSUME Types, TaskInv, NEW c \in Clients, Moves(c),
           StateRows' = StateRows, CheckRows' \subseteq CheckRows,
           session' = session \/ session' \notin 1..ids,
           advisory' = advisory \/ Release(c),
           Writing(c)' => Writing(c) /\ advisory' = advisory,
           HoldsTask(c)'
    PROVE  TaskInv'
<1>1. \A d \in Clients \ {c} : advisory'[d] = advisory[d]  BY ReleaseOK
<1>2. \A d \in Clients : HoldsTask(d)'
  <2>1. TAKE d \in Clients
  <2>2. CASE d = c  BY <2>2
  <2>3. CASE d # c  BY <1>1, <2>3, OthersHoldTask
  <2>4. QED  BY <2>2, <2>3
<1>3. \A d, e \in Clients : d # e /\ Writing(d)' /\ Writing(e)' => advisory'[d] # advisory'[e]
  <2>1. \A d \in Clients : Writing(d)' => Writing(d) /\ advisory'[d] = advisory[d]
    <3>1. \A d \in Clients \ {c} : Writing(d)' => Writing(d)  BY DEF Writing, Moves, Others
    <3>2. QED  BY <1>1, <3>1
  <2>2. QED  BY <2>1 DEF TaskInv
<1>4. \A pk \in Nat, key \in Keys : TopOf(States(pk, key))'
  BY StatesSame DEF TaskInv, TopOf
<1>5. PinsExist'
  <2>1. ASSUME NEW r \in rows', r.table = "check", r.version # 0
        PROVE  \E s \in States(r.pk, r.key)' : s.version = r.version
    <3>1. r \in CheckRows  BY <2>1 DEF CheckRows
    <3>2. \E s \in States(r.pk, r.key) : s.version = r.version
      BY <2>1, <3>1 DEF TaskInv, PinsExist, CheckRows
    <3>3. QED  BY <3>2 DEF States, StateRows
  <2>2. QED  BY <2>1 DEF PinsExist, States
<1>6. QED  BY <1>2, <1>3, <1>4, <1>5 DEF TaskInv

\* Steps of a conversation.
LEMMA TaskAside ==
    ASSUME Types, TaskInv, NEW c \in Clients, Moves(c), UNCHANGED advisory,
           StateRows' = StateRows, CheckRows' = CheckRows,
           session' = session \/ session' \notin 1..ids,
           call'[c].pc \notin Relying
    PROVE  TaskInv'
<1>1. HoldsTask(c)' /\ ~Writing(c)'  BY DEF HoldsTask, Writing, Relying
<1>2. QED  BY <1>1, TaskKept

LEMMA SameRows == rows' = rows => StateRows' = StateRows /\ CheckRows' = CheckRows
BY DEF StateRows, CheckRows

LEMMA RecordTask ==
    ASSUME Types, TaskInv, NEW c \in Clients, NEW outcome, Record(c, outcome), Moves(c),
           UNCHANGED <<session, advisory>>, call'[c].pc \notin Relying
    PROVE  TaskInv'
<1>1. StateRows' = StateRows /\ CheckRows' = CheckRows  BY DEF Record, StateRows, CheckRows
<1>2. QED  BY <1>1, TaskAside

LEMMA AttachOutputTask ==
    ASSUME Types, TaskInv, NEW c \in Clients, AttachOutput(c), UNCHANGED contVars
    PROVE  TaskInv'
<1> DEFINE won == {r \in rows : r.table = "run" /\ r.n = call[c].n /\ r.outcome = "ok"}
<1>1. rows' = (rows \ won) \cup {[r EXCEPT !.outcome = "counted"] : r \in won}
  BY DEF AttachOutput
<1>2. \A r \in won : [r EXCEPT !.outcome = "counted"].table = "run"
  BY DEF Types, RowOK
<1>3. \A r \in won : r.table = "run"  OBVIOUS
<1> HIDE DEF won
<1>4. StateRows' = StateRows /\ CheckRows' = CheckRows
  BY <1>1, <1>2, <1>3 DEF StateRows, CheckRows
<1>5. QED
  BY <1>4, AttachOutputMoves, TaskAside DEF AttachOutput, contVars, Relying

LEMMA DeleteRowTask ==
    ASSUME Types, RowInv, TaskInv, NEW c \in Clients, DeleteRow(c), UNCHANGED contVars
    PROVE  TaskInv'
<1>1. session' = 0 /\ rows' = {} /\ advisory' = advisory
  BY DeleteRowRow DEF contVars
<1>2. Moves(c) /\ call'[c].pc = "idle" /\ Types'  BY DeleteRowMoves
<1>3. ASSUME NEW d \in Clients  PROVE HoldsTask(d)'
  <2>1. CASE d = c  BY <1>2, <2>1 DEF HoldsTask
  <2>2. CASE d # c
    <3>1. call'[d] = call[d]  BY <1>2, <2>2 DEF Moves, Others
    <3>2. call[d].pc \in {"put", "pinput"} => call[d].pk # 0  BY CallHas DEF CallOK
    <3>3. KeyOf(d)' = KeyOf(d) /\ HoldsTask(d)  BY <3>1 DEF KeyOf, TaskInv
    <3>4. QED  BY <1>1, <3>1, <3>2, <3>3 DEF HoldsTask
  <2>3. QED  BY <2>1, <2>2
<1>4. \A pk \in Nat, key \in Keys : TopOf(States(pk, key))'
  BY <1>1 DEF TopOf, States
<1>5. PinsExist'  BY <1>1 DEF PinsExist
<1>6. \A d, e \in Clients : d # e /\ Writing(d)' /\ Writing(e)' => advisory'[d] # advisory'[e]
  BY <1>1, <1>2 DEF TaskInv, Writing, Moves, Others
<1>7. QED  BY <1>1, <1>3, <1>4, <1>5, <1>6 DEF TaskInv

\* KeyOf depends on the kind of call alone.
LEMMA KeyKept ==
    ASSUME NEW c \in Clients, Keeps(c, {"op", "pk"})
    PROVE  KeyOf(c)' = KeyOf(c) /\ call'[c].pk = call[c].pk
BY DEF Keeps, KeyOf

LEMMA StateLockTask ==
    ASSUME Types, TaskInv, NEW c \in Clients, StateLock(c)
    PROVE  TaskInv'
<1> DEFINE lk == <<call[c].pk, KeyOf(c)>>
<1>1. Moves(c) /\ call'[c].pc = "head" /\ Keeps(c, Fields \ {"pc"})
        /\ advisory' = [advisory EXCEPT ![c] = lk]
  BY StateLockMoves
<1>2. (\A d \in Clients \ {c} : advisory[d] # lk) /\ UNCHANGED <<session, rows>>
  BY DEF StateLock
<1>3. StateRows' = StateRows /\ CheckRows' = CheckRows  BY <1>2, SameRows
<1>4. Keeps(c, {"op", "pk"})  BY <1>1 DEF Keeps, Fields
<1>5. KeyOf(c)' = KeyOf(c) /\ call'[c].pk = call[c].pk  BY <1>4, KeyKept
<1>6. advisory'[c] = lk /\ \A d \in Clients \ {c} : advisory'[d] = advisory[d]
  BY <1>1 DEF Types
<1>7. HoldsTask(c)'  BY <1>1, <1>5, <1>6 DEF HoldsTask
<1>8. \A d \in Clients : HoldsTask(d)'
  <2>1. TAKE d \in Clients
  <2>2. CASE d = c  BY <1>7, <2>2
  <2>3. CASE d # c  BY <1>1, <1>2, <1>3, <1>6, <2>3, OthersHoldTask
  <2>4. QED  BY <2>2, <2>3
<1> HIDE DEF lk
<1>9. \A d, e \in Clients : d # e /\ Writing(d)' /\ Writing(e)' => advisory'[d] # advisory'[e]
  <2>1. \A d \in Clients \ {c} : Writing(d)' => Writing(d)
    BY <1>1 DEF Writing, Moves, Others
  <2>2. QED  BY <1>2, <1>6, <2>1 DEF TaskInv
<1>10. \A pk \in Nat, key \in Keys : TopOf(States(pk, key))'
  BY <1>2 DEF TaskInv, TopOf, States
<1>11. PinsExist'  BY <1>2 DEF TaskInv, PinsExist, States
<1>12. QED  BY <1>8, <1>9, <1>10, <1>11 DEF TaskInv

LEMMA StateHeadTask ==
    ASSUME Types, TaskInv, NEW c \in Clients, StateHead(c)
    PROVE  TaskInv'
<1>1. Moves(c) /\ UNCHANGED <<session, rows>> /\ call[c].pc = "head"
  BY StateHeadMoves DEF StateHead, At
<1>2. StateRows' = StateRows /\ CheckRows' = CheckRows  BY <1>1, SameRows
<1>3. CASE /\ call'[c].pc = "put" /\ advisory' = advisory
           /\ call'[c].seen = HeadVersion(call[c].pk, KeyOf(c))
           /\ Keeps(c, Fields \ {"pc", "seen"})
  <2>1. Keeps(c, {"op", "pk"})  BY <1>3 DEF Keeps, Fields
  <2>2. KeyOf(c)' = KeyOf(c) /\ call'[c].pk = call[c].pk  BY <2>1, KeyKept
  <2>3. HeadVersion(call[c].pk, KeyOf(c))' = HeadVersion(call[c].pk, KeyOf(c))
    BY <1>1, <2>2 DEF HeadVersion, States
  <2>4. advisory[c] = <<call[c].pk, KeyOf(c)>>  BY <1>1 DEF TaskInv, HoldsTask
  <2>5. HoldsTask(c)'  BY <1>3, <2>2, <2>3, <2>4 DEF HoldsTask
  <2>6. QED  BY <1>1, <1>2, <1>3, <2>5, TaskKept DEF Writing
<1>4. CASE call'[c].pc = "idle" /\ Release(c)
  <2>1. HoldsTask(c)'  BY <1>4 DEF HoldsTask
  <2>2. QED  BY <1>1, <1>2, <1>4, <2>1, TaskKept DEF Writing
<1>5. QED  BY <1>3, <1>4, StateHeadMoves

\* The new version of a task concerns nobody else: whoever else is about to
\* write holds another advisory lock, so writes another task.
LEMMA StateInsertTask ==
    ASSUME Types, RowInv, TaskInv, NEW c \in Clients, StateInsert(c)
    PROVE  TaskInv'
<1>1. Moves(c) /\ call'[c].pc = "idle" /\ Release(c) /\ session' = session
        /\ call[c].pc = "put"
  BY StateInsertMoves DEF StateInsert, At
<1>2. HoldsTask(c)'  BY <1>1 DEF HoldsTask
<1>3. CASE rows' = rows  BY <1>1, <1>2, <1>3, SameRows, TaskKept DEF Writing
<1>4. CASE /\ rows' = rows \cup {NewState(c)} /\ session = call[c].pk
           /\ call[c].seen \in Nat
  <2>1. NewState(c).table = "state" /\ NewState(c).pk = call[c].pk
          /\ NewState(c).key = KeyOf(c) /\ NewState(c).version \in Nat
    BY <1>4 DEF NewState
  <2>2. \A pk, key : States(pk, key)' =
            IF pk = call[c].pk /\ key = KeyOf(c) THEN States(pk, key) \cup {NewState(c)}
                                                 ELSE States(pk, key)
    BY <1>4, <2>1 DEF States
  <2>3. ASSUME NEW d \in Clients  PROVE HoldsTask(d)'
    <3>1. CASE d = c  BY <1>2, <3>1
    <3>2. CASE d # c
      <4>1. call'[d] = call[d] /\ advisory'[d] = advisory[d] /\ HoldsTask(d)
        BY <1>1, <3>2, ReleaseOK DEF Moves, Others, TaskInv
      <4>2. KeyOf(d)' = KeyOf(d)  BY <4>1 DEF KeyOf
      <4>3. call[d].pc = "put" => advisory[d] # advisory[c]
        BY <1>1, <3>2 DEF TaskInv, Writing
      <4>4. call[d].pc = "put" /\ session = call[d].pk =>
              States(call[d].pk, KeyOf(d))' = States(call[d].pk, KeyOf(d))
        <5>1. SUFFICES ASSUME call[d].pc = "put", session = call[d].pk
                       PROVE  KeyOf(d) # KeyOf(c)
          BY <2>2, <4>1, <4>2 DEF States
        <5>2. QED  BY <1>1, <1>4, <4>1, <4>3, <5>1 DEF TaskInv, HoldsTask
      <4>5. call[d].pc = "put" /\ session = call[d].pk =>
              HeadVersion(call[d].pk, KeyOf(d))' = HeadVersion(call[d].pk, KeyOf(d))
        BY <4>4 DEF HeadVersion
      <4>6. \A pk, key : States(pk, key) \subseteq States(pk, key)'  BY <2>2
      <4>7. QED  BY <1>1, <4>1, <4>2, <4>5, <4>6 DEF HoldsTask, States
    <3>3. QED  BY <3>1, <3>2
  <2>4. \A d, e \in Clients : d # e /\ Writing(d)' /\ Writing(e)' => advisory'[d] # advisory'[e]
    <3>1. \A d \in Clients : Writing(d)' => d # c /\ Writing(d) /\ advisory'[d] = advisory[d]
      BY <1>1, ReleaseOK DEF Writing, Moves, Others
    <3>2. QED  BY <3>1 DEF TaskInv
  <2>5. ASSUME NEW pk \in Nat, NEW key \in Keys  PROVE TopOf(States(pk, key))'
    <3> DEFINE S == States(pk, key)
               new == NewState(c).version
    <3>1. PICK h \in {0} \cup {r.version : r \in S} : \A r \in S : r.version <= h
      BY DEF TaskInv, TopOf
    <3>2. \A r \in S : r.version \in Nat  BY DEF Types, RowOK, States
    <3>3. h \in Nat  BY <3>1, <3>2
    <3> HIDE DEF S, new
    <3>4. TopOf(S \cup {NewState(c)})
      <4>1. new \in Nat  BY <2>1 DEF new
      <4>2. CASE h <= new
        <5>1. \A r \in S \cup {NewState(c)} : r.version <= new
          BY <3>1, <3>2, <3>3, <4>1, <4>2 DEF new
        <5>2. QED  BY <5>1 DEF TopOf, new
      <4>3. CASE ~(h <= new)
        <5>1. \A r \in S \cup {NewState(c)} : r.version <= h
          BY <3>1, <3>2, <3>3, <4>1, <4>3 DEF new
        <5>2. h \in {0} \cup {r.version : r \in S \cup {NewState(c)}}  BY <3>1
        <5>3. QED  BY <5>1, <5>2 DEF TopOf
      <4>4. QED  BY <4>2, <4>3
    <3>5. TopOf(S)  BY <3>1 DEF TopOf
    <3>6. States(pk, key)' \in {S, S \cup {NewState(c)}}  BY <2>2 DEF S
    <3>7. QED  BY <3>4, <3>5, <3>6 DEF TopOf
  <2>6. PinsExist'
    <3>1. ASSUME NEW r \in rows', r.table = "check", r.version # 0
          PROVE  \E s \in States(r.pk, r.key)' : s.version = r.version
      <4>1. r \in rows  BY <1>4, <2>1, <3>1
      <4>2. QED  BY <2>2, <3>1, <4>1 DEF TaskInv, PinsExist
    <3>2. QED  BY <3>1 DEF PinsExist, States
  <2>7. QED  BY <2>3, <2>4, <2>5, <2>6 DEF TaskInv
<1>5. QED  BY <1>3, <1>4, StateInsertMoves

LEMMA HookKeysTask ==
    ASSUME Types, TaskInv, NEW c \in Clients, HookKeys(c)
    PROVE  TaskInv'
<1>1. Moves(c) /\ call'[c].pc = "pin" /\ call'[c].plan \subseteq Keys
        /\ UNCHANGED <<session, rows, advisory>>
  BY HookKeysMoves DEF HookKeys, contVars
<1>2. HoldsTask(c)' /\ ~Writing(c)'  BY <1>1 DEF HoldsTask, Writing
<1>3. QED  BY <1>1, <1>2, SameRows, TaskKept

LEMMA PlansAreKeys ==
    ASSUME TaskInv, NEW c \in Clients
    PROVE  /\ At(c, "pin") => call[c].plan \subseteq Keys
           /\ At(c, "pinput") /\ call[c].op # "pin" => call[c].plan \subseteq Keys
BY DEF TaskInv, HoldsTask, At

LEMMA PinHeadTask ==
    ASSUME Types, TaskInv, NEW c \in Clients, PinHead(c)
    PROVE  TaskInv'
<1>1. Moves(c) /\ call'[c].pc = "pinput" /\ Keeps(c, Fields \ {"pc", "arg"})
        /\ UNCHANGED <<session, rows, advisory>>
  BY PlansAreKeys, PinHeadMoves DEF PinHead, contVars
<1>2. PICK key \in Keys : call'[c].arg = <<key, HeadVersion(call[c].pk, key)>>
  BY PlansAreKeys, PinHeadMoves
<1>3. call'[c].op = call[c].op /\ call'[c].plan = call[c].plan /\ call'[c].pk = call[c].pk
  BY <1>1 DEF Keeps, Fields
<1>4. call'[c].op # "pin" => call'[c].plan \subseteq Keys
  BY <1>3, PlansAreKeys DEF PinHead
<1>5. LET head == HeadVersion(call[c].pk, key) IN
      head # 0 => \E r \in States(call[c].pk, key) : r.version = head
  BY CallHas, HeadIsTop
<1>6. call'[c].arg[1] = key /\ call'[c].arg[2] = HeadVersion(call[c].pk, key)  BY <1>2
<1>7. call'[c].arg[2] # 0 =>
        \E r \in States(call[c].pk, call[c].arg[1])' : r.version = call'[c].arg[2]
  BY <1>1, <1>3, <1>5, <1>6 DEF States
<1>8. HoldsTask(c)' /\ ~Writing(c)'  BY <1>1, <1>3, <1>4, <1>7 DEF HoldsTask, Writing, States
<1>9. QED  BY <1>1, <1>8, SameRows, TaskKept

LEMMA PinInsertTask ==
    ASSUME Types, TaskInv, NEW c \in Clients, PinInsert(c)
    PROVE  TaskInv'
<1>1. Moves(c) /\ UNCHANGED <<session, advisory>> /\ call[c].pc = "pinput"
        /\ HoldsTask(c)
  BY PlansAreKeys, PinInsertMoves DEF PinInsert, contVars, TaskInv, At
<1>2. HoldsTask(c)' /\ ~Writing(c)'
  BY PlansAreKeys, PinInsertMoves DEF HoldsTask, Writing, PinInsert
<1>3. CASE rows' = rows  BY <1>1, <1>2, <1>3, SameRows, TaskKept
<1>4. CASE rows' = rows \cup {NewCheck(c)} /\ session = call[c].pk
  <2>1. NewCheck(c).table = "check" /\ NewCheck(c).pk = session
          /\ NewCheck(c).key = call[c].arg[1] /\ NewCheck(c).version = call[c].arg[2]
    BY DEF NewCheck
  <2>2. StateRows' = StateRows  BY <1>4, <2>1 DEF StateRows
  <2>3. ASSUME NEW d \in Clients  PROVE HoldsTask(d)'
    <3>1. CASE d = c  BY <1>2, <3>1
    <3>2. CASE d # c  BY <1>1, <2>2, <3>2, OthersHoldTask
    <3>3. QED  BY <3>1, <3>2
  <2>4. \A d, e \in Clients : d # e /\ Writing(d)' /\ Writing(e)' => advisory'[d] # advisory'[e]
    <3>1. \A d \in Clients : Writing(d)' => Writing(d)
      BY <1>1, <1>2 DEF Writing, Moves, Others
    <3>2. QED  BY <1>1, <3>1 DEF TaskInv
  <2>5. \A pk \in Nat, key \in Keys : TopOf(States(pk, key))'
    BY <2>2, StatesSame DEF TaskInv, TopOf
  <2>6. PinsExist'
    <3>1. ASSUME NEW r \in rows', r.table = "check", r.version # 0
          PROVE  \E s \in States(r.pk, r.key)' : s.version = r.version
      <4>1. States(r.pk, r.key)' = States(r.pk, r.key)  BY <2>2 DEF States, StateRows
      <4>2. CASE r \in rows  BY <3>1, <4>1, <4>2 DEF TaskInv, PinsExist
      <4>3. CASE r = NewCheck(c)
        BY <1>1, <1>4, <2>1, <3>1, <4>1, <4>3 DEF HoldsTask
      <4>4. QED  BY <1>4, <4>2, <4>3
    <3>2. QED  BY <3>1 DEF PinsExist, States
  <2>7. QED  BY <2>3, <2>4, <2>5, <2>6 DEF TaskInv
<1>5. QED  BY PlansAreKeys, <1>3, <1>4, PinInsertMoves DEF PinInsert

LEMMA TaskPreserved ==
    ASSUME IInv, [AllNext]_allVars
    PROVE  TaskInv'
<1> USE SameRows DEF IInv
<1>1. ASSUME NEW c \in Clients, BeginChat(c), UNCHANGED contVars  PROVE TaskInv'
  BY <1>1, BeginChatMoves, TaskAside DEF BeginChat, contVars, Relying
<1>2. ASSUME NEW c \in Clients, BeginDelete(c), UNCHANGED contVars  PROVE TaskInv'
  BY <1>2, BeginDeleteMoves, TaskAside DEF BeginDelete, contVars, Relying
<1>3. ASSUME NEW c \in Clients, BeginTask(c)  PROVE TaskInv'
  BY <1>3, BeginTaskMoves, TaskAside DEF BeginTask, contVars, Relying
<1>4. ASSUME NEW c \in Clients, Insert(c), UNCHANGED contVars  PROVE TaskInv'
  <2>1. session' = session \/ session' \notin 1..ids  BY <1>4, CallHas DEF Insert
  <2>2. QED  BY <1>4, <2>1, InsertMoves, TaskAside DEF Insert, contVars, Relying
<1>5. ASSUME NEW c \in Clients, Select(c), UNCHANGED contVars  PROVE TaskInv'
  BY <1>5, SelectMoves, TaskAside DEF Select, contVars, Relying
<1>6. ASSUME NEW c \in Clients, SelectNothing(c), UNCHANGED contVars  PROVE TaskInv'
  BY <1>6, SelectNothingMoves, TaskAside DEF SelectNothing, contVars, Relying
<1>7. ASSUME NEW c \in Clients, Load(c), UNCHANGED contVars  PROVE TaskInv'
  BY <1>7, LoadMoves, TaskAside DEF Load, contVars, Relying
<1>8. ASSUME NEW c \in Clients, AttemptFails(c), UNCHANGED contVars  PROVE TaskInv'
  BY <1>8, AttemptFailsMoves, RecordTask DEF AttemptFails, contVars, Relying
<1>9. ASSUME NEW c \in Clients, AttemptsExhausted(c), UNCHANGED contVars  PROVE TaskInv'
  BY <1>9, AttemptsExhaustedMoves, RecordTask DEF AttemptsExhausted, contVars, Relying
<1>10. ASSUME NEW c \in Clients, AttemptAnswers(c), UNCHANGED contVars  PROVE TaskInv'
  BY <1>10, AttemptAnswersMoves, RecordTask DEF AttemptAnswers, contVars, Relying
<1>11. ASSUME NEW c \in Clients, Walk(c), UNCHANGED contVars  PROVE TaskInv'
  BY <1>11, WalkMoves, TaskAside DEF Walk, contVars, Relying
<1>12. ASSUME NEW c \in Clients, Write(c), UNCHANGED contVars  PROVE TaskInv'
  BY <1>12, WriteMoves, TaskAside DEF Write, contVars, Relying
<1>13. ASSUME NEW c \in Clients, AttachOutput(c), UNCHANGED contVars  PROVE TaskInv'
  BY <1>13, AttachOutputTask
<1>14. ASSUME NEW c \in Clients, DeleteOwn(c), UNCHANGED contVars  PROVE TaskInv'
  BY <1>14, DeleteOwnMoves, TaskAside DEF DeleteOwn, contVars, Relying
<1>15. ASSUME NEW c \in Clients, DeleteChildren(c), UNCHANGED contVars  PROVE TaskInv'
  BY <1>15, DeleteChildrenMoves, TaskAside DEF DeleteChildren, contVars, Relying
<1>16. ASSUME NEW c \in Clients, DeleteRow(c), UNCHANGED contVars  PROVE TaskInv'
  BY <1>16, DeleteRowTask
<1>17. ASSUME NEW c \in Clients, SetState(c)  PROVE TaskInv'
  BY <1>17, SetStateMoves, TaskAside DEF SetState, contVars, Relying
<1>18. ASSUME NEW c \in Clients, StateLock(c)  PROVE TaskInv'
  BY <1>18, StateLockTask
<1>19. ASSUME NEW c \in Clients, StateHead(c)  PROVE TaskInv'
  BY <1>19, StateHeadTask
<1>20. ASSUME NEW c \in Clients, StateInsert(c)  PROVE TaskInv'
  BY <1>20, StateInsertTask
<1>21. ASSUME NEW c \in Clients, TodoRead(c)  PROVE TaskInv'
  BY <1>21, TodoReadMoves, TaskAside DEF TodoRead, contVars, Relying
<1>22. ASSUME NEW c \in Clients, HookKeys(c)  PROVE TaskInv'
  BY <1>22, HookKeysTask
<1>23. ASSUME NEW c \in Clients, HookDone(c)  PROVE TaskInv'
  BY <1>23, HookDoneMoves, TaskAside DEF HookDone, contVars, Relying
<1>24. ASSUME NEW c \in Clients, PinHead(c)  PROVE TaskInv'
  BY <1>24, PinHeadTask
<1>25. ASSUME NEW c \in Clients, PinInsert(c)  PROVE TaskInv'
  BY <1>25, PinInsertTask
<1>26. CASE UNCHANGED allVars
  BY <1>26 DEF allVars, vars, contVars, TaskInv, HoldsTask, Writing, TopOf, PinsExist, KeyOf,
               HeadVersion, States
<1>27. QED
  BY <1>1, <1>2, <1>3, <1>4, <1>5, <1>6, <1>7, <1>8, <1>9, <1>10, <1>11, <1>12, <1>13,
     <1>14, <1>15, <1>16, <1>17, <1>18, <1>19, <1>20, <1>21, <1>22, <1>23, <1>24, <1>25,
     <1>26
  DEF AllNext, Conversation, Step, TaskStep, Rest
-----------------------------------------------------------------------------
(* Surrogate ids *)

LEMMA CreationsFinite ==
    ASSUME NEW S \in SUBSET (Clients \X {1, 2})
    PROVE  IsFiniteSet(S) /\ Cardinality(S) \in Nat
<1>1. IsFiniteSet({1, 2})
  <2>1. IsFiniteSet({1})  BY FS_Singleton
  <2>2. IsFiniteSet({1} \cup {2})  BY <2>1, FS_AddElement
  <2>3. {1} \cup {2} = {1, 2}  OBVIOUS
  <2>4. QED  BY <2>2, <2>3
<1>2. IsFiniteSet(Clients \X {1, 2})  BY <1>1, BoundsNat, FS_Product
<1>3. QED  BY <1>2, FS_Subset, FS_CardinalityType

LEMMA RemainingOK == \A k : Remaining(k) \in {{}, {1}, {1, 2}}
BY DEF Remaining

LEMMA CreationsOK ==
    /\ Creations \in SUBSET (Clients \X {1, 2})
    /\ \A c \in Clients : \A i : <<c, i>> \in Creations <=> i \in Remaining(call[c])
<1>1. \A c \in Clients : Remaining(call[c]) \subseteq {1, 2}  BY RemainingOK
<1>2. QED  BY <1>1 DEF Creations

LEMMA CreationsNext ==
    ASSUME NEW c \in Clients, Moves(c)
    PROVE  /\ Creations' \in SUBSET (Clients \X {1, 2})
           /\ \A d \in Clients : \A i :
                <<d, i>> \in Creations' <=>
                    i \in Remaining(IF d = c THEN call'[c] ELSE call[d])
<1>1. \A d \in Clients : Remaining(call'[d]) \subseteq {1, 2}  BY RemainingOK
<1>2. \A d \in Clients : call'[d] = IF d = c THEN call'[c] ELSE call[d]  BY DEF Moves, Others
<1>3. Creations' = UNION {{d} \X Remaining(call'[d]) : d \in Clients}  BY DEF Creations
<1>4. QED  BY <1>1, <1>2, <1>3

\* A statement that creates nothing.
LEMMA IdsKept ==
    ASSUME Types, IdsInv, NEW c \in Clients, Moves(c), UNCHANGED <<ids, begun>>,
           Remaining(call'[c]) \subseteq Remaining(call[c])
    PROVE  IdsInv'
<1>1. Creations' \subseteq Creations  BY CreationsOK, CreationsNext
<1> DEFINE S == Creations
           T == Creations'
<1>2. IsFiniteSet(S) /\ Cardinality(S) \in Nat /\ Cardinality(T) \in Nat
  BY CreationsOK, CreationsNext, CreationsFinite
<1>3. Cardinality(T) <= Cardinality(S)  BY <1>1, <1>2, FS_Subset
<1> DEFINE a == Cardinality(S)
           b == Cardinality(T)
<1>4. a \in Nat /\ b \in Nat /\ b <= a /\ ids + a <= 2 * begun  BY <1>2, <1>3 DEF IdsInv
<1>5. ids \in Nat /\ begun \in Nat  BY CallHas
<1> HIDE DEF a, b
<1>6. ids' + b <= 2 * begun'  BY <1>4, <1>5
<1>7. QED  BY <1>6 DEF b, IdsInv

\* A call begun may create the session twice.
LEMMA IdsBegun ==
    ASSUME Types, IdsInv, NEW c \in Clients, Moves(c), ids' = ids, begun' = begun + 1
    PROVE  IdsInv'
<1> DEFINE S == Creations
           S1 == S \cup {<<c, 1>>}
           S2 == S1 \cup {<<c, 2>>}
           T == Creations'
<1>1. IsFiniteSet(S) /\ Cardinality(S) \in Nat /\ IsFiniteSet(T) /\ Cardinality(T) \in Nat
  BY CreationsOK, CreationsNext, CreationsFinite
<1>2. IsFiniteSet(S1) /\ Cardinality(S1) \in Nat /\ Cardinality(S1) <= Cardinality(S) + 1
  <2> HIDE DEF S
  <2>1. IsFiniteSet(S1) /\ Cardinality(S1) \in {Cardinality(S), Cardinality(S) + 1}
    BY <1>1, FS_AddElement
  <2>2. QED  BY <1>1, <2>1
<1>3. IsFiniteSet(S2) /\ Cardinality(S2) \in Nat /\ Cardinality(S2) <= Cardinality(S1) + 1
  <2> HIDE DEF S1
  <2>1. QED  BY <1>2, FS_AddElement
<1>4. T \subseteq S2
  <2>1. ASSUME NEW d \in Clients, NEW i, <<d, i>> \in T  PROVE <<d, i>> \in S2
    <3>1. CASE d = c
      <4>1. i \in {1, 2}  BY <2>1, CreationsNext
      <4>2. QED  BY <3>1, <4>1
    <3>2. CASE d # c  BY <2>1, <3>2, CreationsOK, CreationsNext
    <3>3. QED  BY <3>1, <3>2
  <2>2. QED  BY <2>1, CreationsNext
<1>5. Cardinality(T) <= Cardinality(S2)
  <2> HIDE DEF S2, T
  <2>1. QED  BY <1>3, <1>4, FS_Subset
<1> DEFINE a == Cardinality(S)
           b == Cardinality(T)
<1>6. a \in Nat /\ b \in Nat /\ b <= a + 2
  <2> DEFINE x == Cardinality(S1)
             y == Cardinality(S2)
  <2>1. x \in Nat /\ y \in Nat /\ x <= a + 1 /\ y <= x + 1 /\ b <= y /\ a \in Nat /\ b \in Nat
    BY <1>1, <1>2, <1>3, <1>5
  <2> HIDE DEF a, b, x, y
  <2>2. QED  BY <2>1
<1>7. ids \in Nat /\ begun \in Nat /\ ids + a <= 2 * begun  BY CallHas DEF IdsInv
<1> HIDE DEF a, b
<1>8. ids' + b <= 2 * begun'  BY <1>6, <1>7
<1>9. QED  BY <1>8 DEF b, IdsInv

LEMMA InsertIds ==
    ASSUME Types, IdsInv, NEW c \in Clients, Insert(c), UNCHANGED contVars
    PROVE  IdsInv'
<1>1. Moves(c) /\ call'[c].pc = "select" /\ call'[c].pk = call[c].pk
        /\ call[c].pc = "insert" /\ begun' = begun
  BY InsertMoves DEF Insert, At, Keeps, Fields
<1>2. PICK i \in {1, 2} : /\ i \in Remaining(call[c]) /\ i \notin Remaining(call'[c])
                          /\ Remaining(call'[c]) \subseteq Remaining(call[c])
  BY <1>1 DEF Remaining
<1>3. CASE session # 0
  BY <1>1, <1>2, <1>3, IdsKept DEF Insert
<1>4. CASE session = 0
  <2> DEFINE S == Creations
             S1 == S \ {<<c, i>>}
             T == Creations'
  <2>1. IsFiniteSet(S) /\ Cardinality(S) \in Nat /\ IsFiniteSet(T) /\ Cardinality(T) \in Nat
    BY CreationsOK, CreationsNext, CreationsFinite, <1>1
  <2>2. <<c, i>> \in S  BY <1>2, CreationsOK
  <2>3. IsFiniteSet(S1) /\ Cardinality(S1) = Cardinality(S) - 1
    BY <2>1, <2>2, FS_RemoveElement
  <2>4. T \subseteq S1
    <3>1. ASSUME NEW d \in Clients, NEW j, <<d, j>> \in T  PROVE <<d, j>> \in S1
      <4>1. j \in Remaining(IF d = c THEN call'[c] ELSE call[d])  BY <1>1, <3>1, CreationsNext
      <4>2. <<d, j>> \in S  BY <1>2, <4>1, CreationsOK
      <4>3. d # c \/ j # i  BY <1>2, <4>1
      <4>4. QED  BY <4>2, <4>3
    <3>2. QED  BY <3>1, <1>1, CreationsNext
  <2>5. Cardinality(T) <= Cardinality(S1)
    <3> HIDE DEF S1, T
    <3>1. QED  BY <2>3, <2>4, FS_Subset
  <2> DEFINE a == Cardinality(S)
             b == Cardinality(T)
  <2>6. a \in Nat /\ b \in Nat /\ b <= a - 1  BY <2>1, <2>3, <2>5
  <2>7. ids \in Nat /\ begun \in Nat /\ ids + a <= 2 * begun /\ ids' = ids + 1
    BY <1>4, CallHas DEF IdsInv, Insert
  <2> HIDE DEF a, b
  <2>8. ids' + b <= 2 * begun'  BY <1>1, <2>6, <2>7
  <2>9. QED  BY <2>8 DEF b, IdsInv
<1>5. QED  BY <1>3, <1>4

LEMMA IdsPreserved ==
    ASSUME IInv, [AllNext]_allVars
    PROVE  IdsInv'
<1> USE DEF IInv
<1>1. ASSUME NEW c \in Clients, BeginChat(c), UNCHANGED contVars  PROVE IdsInv'
  BY <1>1, BeginChatMoves, IdsBegun DEF BeginChat, Begin
<1>2. ASSUME NEW c \in Clients, BeginDelete(c), UNCHANGED contVars  PROVE IdsInv'
  BY <1>2, BeginDeleteMoves, IdsBegun DEF BeginDelete, Begin
<1>3. ASSUME NEW c \in Clients, BeginTask(c)  PROVE IdsInv'
  BY <1>3, BeginTaskMoves, IdsBegun DEF BeginTask, Begin
<1>4. ASSUME NEW c \in Clients, Insert(c), UNCHANGED contVars  PROVE IdsInv'
  BY <1>4, InsertIds
<1>5. ASSUME NEW c \in Clients, Select(c), UNCHANGED contVars  PROVE IdsInv'
  <2>1. Moves(c) /\ UNCHANGED <<ids, begun>>  BY <1>5, SelectMoves DEF Select, At
  <2>2. Remaining(call'[c]) \subseteq Remaining(call[c])
    BY <1>5, SelectMoves DEF Select, At, Remaining
  <2>3. QED  BY <2>1, <2>2, IdsKept
<1>6. ASSUME NEW c \in Clients, SelectNothing(c), UNCHANGED contVars  PROVE IdsInv'
  <2>1. Moves(c) /\ UNCHANGED <<ids, begun>>  BY <1>6, SelectNothingMoves DEF SelectNothing, At
  <2>2. Remaining(call'[c]) \subseteq Remaining(call[c])
    BY <1>6, SelectNothingMoves DEF SelectNothing, At, Remaining
  <2>3. QED  BY <2>1, <2>2, IdsKept
<1>7. ASSUME NEW c \in Clients, Load(c), UNCHANGED contVars  PROVE IdsInv'
  <2>1. Moves(c) /\ UNCHANGED <<ids, begun>>  BY <1>7, LoadMoves DEF Load, At
  <2>2. Remaining(call'[c]) \subseteq Remaining(call[c])
    BY <1>7, LoadMoves DEF Load, At, Remaining
  <2>3. QED  BY <2>1, <2>2, IdsKept
<1>8. ASSUME NEW c \in Clients, AttemptFails(c), UNCHANGED contVars  PROVE IdsInv'
  <2>1. Moves(c) /\ UNCHANGED <<ids, begun>>  BY <1>8, AttemptFailsMoves DEF AttemptFails, At
  <2>2. Remaining(call'[c]) \subseteq Remaining(call[c])
    BY <1>8, AttemptFailsMoves DEF AttemptFails, At, Remaining
  <2>3. QED  BY <2>1, <2>2, IdsKept
<1>9. ASSUME NEW c \in Clients, AttemptsExhausted(c), UNCHANGED contVars  PROVE IdsInv'
  <2>1. Moves(c) /\ UNCHANGED <<ids, begun>>  BY <1>9, AttemptsExhaustedMoves DEF AttemptsExhausted, At
  <2>2. Remaining(call'[c]) \subseteq Remaining(call[c])
    BY <1>9, AttemptsExhaustedMoves DEF AttemptsExhausted, At, Remaining
  <2>3. QED  BY <2>1, <2>2, IdsKept
<1>10. ASSUME NEW c \in Clients, AttemptAnswers(c), UNCHANGED contVars  PROVE IdsInv'
  <2>1. Moves(c) /\ UNCHANGED <<ids, begun>>  BY <1>10, AttemptAnswersMoves DEF AttemptAnswers, At
  <2>2. Remaining(call'[c]) \subseteq Remaining(call[c])
    BY <1>10, AttemptAnswersMoves DEF AttemptAnswers, At, Remaining
  <2>3. QED  BY <2>1, <2>2, IdsKept
<1>11. ASSUME NEW c \in Clients, Walk(c), UNCHANGED contVars  PROVE IdsInv'
  <2>1. Moves(c) /\ UNCHANGED <<ids, begun>>  BY <1>11, WalkMoves DEF Walk, At
  <2>2. Remaining(call'[c]) \subseteq Remaining(call[c])
    BY <1>11, WalkMoves DEF Walk, At, Remaining
  <2>3. QED  BY <2>1, <2>2, IdsKept
<1>12. ASSUME NEW c \in Clients, Write(c), UNCHANGED contVars  PROVE IdsInv'
  <2>1. Moves(c) /\ UNCHANGED <<ids, begun>>  BY <1>12, WriteMoves DEF Write, At
  <2>2. Remaining(call'[c]) \subseteq Remaining(call[c])
    BY <1>12, WriteMoves DEF Write, At, Remaining
  <2>3. QED  BY <2>1, <2>2, IdsKept
<1>13. ASSUME NEW c \in Clients, AttachOutput(c), UNCHANGED contVars  PROVE IdsInv'
  <2>1. Moves(c) /\ UNCHANGED <<ids, begun>>  BY <1>13, AttachOutputMoves DEF AttachOutput, At
  <2>2. Remaining(call'[c]) \subseteq Remaining(call[c])
    BY <1>13, AttachOutputMoves DEF AttachOutput, At, Remaining
  <2>3. QED  BY <2>1, <2>2, IdsKept
<1>14. ASSUME NEW c \in Clients, DeleteOwn(c), UNCHANGED contVars  PROVE IdsInv'
  <2>1. Moves(c) /\ UNCHANGED <<ids, begun>>  BY <1>14, DeleteOwnMoves DEF DeleteOwn, At
  <2>2. Remaining(call'[c]) \subseteq Remaining(call[c])
    BY <1>14, DeleteOwnMoves DEF DeleteOwn, At, Remaining
  <2>3. QED  BY <2>1, <2>2, IdsKept
<1>15. ASSUME NEW c \in Clients, DeleteChildren(c), UNCHANGED contVars  PROVE IdsInv'
  <2>1. Moves(c) /\ UNCHANGED <<ids, begun>>  BY <1>15, DeleteChildrenMoves DEF DeleteChildren, At
  <2>2. Remaining(call'[c]) \subseteq Remaining(call[c])
    BY <1>15, DeleteChildrenMoves DEF DeleteChildren, At, Remaining
  <2>3. QED  BY <2>1, <2>2, IdsKept
<1>16. ASSUME NEW c \in Clients, DeleteRow(c), UNCHANGED contVars  PROVE IdsInv'
  <2>1. Moves(c) /\ UNCHANGED <<ids, begun>>  BY <1>16, DeleteRowMoves DEF DeleteRow, At
  <2>2. Remaining(call'[c]) \subseteq Remaining(call[c])
    BY <1>16, DeleteRowMoves DEF DeleteRow, At, Remaining
  <2>3. QED  BY <2>1, <2>2, IdsKept
<1>17. ASSUME NEW c \in Clients, SetState(c)  PROVE IdsInv'
  <2>1. Moves(c) /\ UNCHANGED <<ids, begun>>  BY <1>17, SetStateMoves DEF SetState, At
  <2>2. Remaining(call'[c]) \subseteq Remaining(call[c])
    BY <1>17, SetStateMoves DEF SetState, At, Remaining
  <2>3. QED  BY <2>1, <2>2, IdsKept
<1>18. ASSUME NEW c \in Clients, StateLock(c)  PROVE IdsInv'
  <2>1. Moves(c) /\ UNCHANGED <<ids, begun>>  BY <1>18, StateLockMoves DEF StateLock, At
  <2>2. Remaining(call'[c]) \subseteq Remaining(call[c])
    BY <1>18, StateLockMoves DEF StateLock, At, Remaining
  <2>3. QED  BY <2>1, <2>2, IdsKept
<1>19. ASSUME NEW c \in Clients, StateHead(c)  PROVE IdsInv'
  <2>1. Moves(c) /\ UNCHANGED <<ids, begun>>  BY <1>19, StateHeadMoves DEF StateHead, At
  <2>2. Remaining(call'[c]) \subseteq Remaining(call[c])
    BY <1>19, StateHeadMoves DEF StateHead, At, Remaining
  <2>3. QED  BY <2>1, <2>2, IdsKept
<1>20. ASSUME NEW c \in Clients, StateInsert(c)  PROVE IdsInv'
  <2>1. Moves(c) /\ UNCHANGED <<ids, begun>>  BY <1>20, StateInsertMoves DEF StateInsert, At
  <2>2. Remaining(call'[c]) \subseteq Remaining(call[c])
    BY <1>20, StateInsertMoves DEF StateInsert, At, Remaining
  <2>3. QED  BY <2>1, <2>2, IdsKept
<1>21. ASSUME NEW c \in Clients, TodoRead(c)  PROVE IdsInv'
  <2>1. Moves(c) /\ UNCHANGED <<ids, begun>>  BY <1>21, TodoReadMoves DEF TodoRead, At
  <2>2. Remaining(call'[c]) \subseteq Remaining(call[c])
    BY <1>21, TodoReadMoves DEF TodoRead, At, Remaining
  <2>3. QED  BY <2>1, <2>2, IdsKept
<1>22. ASSUME NEW c \in Clients, HookKeys(c)  PROVE IdsInv'
  <2>1. Moves(c) /\ UNCHANGED <<ids, begun>>  BY <1>22, HookKeysMoves DEF HookKeys, At
  <2>2. Remaining(call'[c]) \subseteq Remaining(call[c])
    BY <1>22, HookKeysMoves DEF HookKeys, At, Remaining
  <2>3. QED  BY <2>1, <2>2, IdsKept
<1>23. ASSUME NEW c \in Clients, HookDone(c)  PROVE IdsInv'
  <2>1. Moves(c) /\ UNCHANGED <<ids, begun>>  BY <1>23, HookDoneMoves DEF HookDone, At
  <2>2. Remaining(call'[c]) \subseteq Remaining(call[c])
    BY <1>23, HookDoneMoves DEF HookDone, At, Remaining
  <2>3. QED  BY <2>1, <2>2, IdsKept
<1>24. ASSUME NEW c \in Clients, PinHead(c)  PROVE IdsInv'
  <2>1. Moves(c) /\ UNCHANGED <<ids, begun>>  BY <1>24, PinHeadMoves, PlansAreKeys DEF PinHead, At
  <2>2. Remaining(call'[c]) \subseteq Remaining(call[c])
    BY <1>24, PinHeadMoves, PlansAreKeys DEF PinHead, At, Remaining
  <2>3. QED  BY <2>1, <2>2, IdsKept
<1>25. ASSUME NEW c \in Clients, PinInsert(c)  PROVE IdsInv'
  <2>1. Moves(c) /\ UNCHANGED <<ids, begun>>  BY <1>25, PinInsertMoves, PlansAreKeys DEF PinInsert, At
  <2>2. Remaining(call'[c]) \subseteq Remaining(call[c])
    BY <1>25, PinInsertMoves, PlansAreKeys DEF PinInsert, At, Remaining
  <2>3. QED  BY <2>1, <2>2, IdsKept
<1>26. CASE UNCHANGED allVars
  BY <1>26 DEF allVars, vars, IdsInv, Creations
<1>27. QED
  BY <1>1, <1>2, <1>3, <1>4, <1>5, <1>6, <1>7, <1>8, <1>9, <1>10, <1>11, <1>12, <1>13,
     <1>14, <1>15, <1>16, <1>17, <1>18, <1>19, <1>20, <1>21, <1>22, <1>23, <1>24, <1>25,
     <1>26
  DEF AllNext, Conversation, Step, TaskStep, Rest

LEMMA TypesPreserved ==
    ASSUME IInv, [AllNext]_allVars
    PROVE  Types'
<1> USE DEF IInv
<1>1. ASSUME NEW c \in Clients, BeginChat(c), UNCHANGED contVars  PROVE Types'
  BY <1>1, BeginChatMoves
<1>2. ASSUME NEW c \in Clients, BeginDelete(c), UNCHANGED contVars  PROVE Types'
  BY <1>2, BeginDeleteMoves
<1>3. ASSUME NEW c \in Clients, BeginTask(c)  PROVE Types'
  BY <1>3, BeginTaskMoves
<1>4. ASSUME NEW c \in Clients, Insert(c), UNCHANGED contVars  PROVE Types'
  BY <1>4, InsertMoves
<1>5. ASSUME NEW c \in Clients, Select(c), UNCHANGED contVars  PROVE Types'
  BY <1>5, SelectMoves
<1>6. ASSUME NEW c \in Clients, SelectNothing(c), UNCHANGED contVars  PROVE Types'
  BY <1>6, SelectNothingMoves
<1>7. ASSUME NEW c \in Clients, Load(c), UNCHANGED contVars  PROVE Types'
  BY <1>7, LoadMoves
<1>8. ASSUME NEW c \in Clients, AttemptFails(c), UNCHANGED contVars  PROVE Types'
  BY <1>8, AttemptFailsMoves
<1>9. ASSUME NEW c \in Clients, AttemptsExhausted(c), UNCHANGED contVars  PROVE Types'
  BY <1>9, AttemptsExhaustedMoves
<1>10. ASSUME NEW c \in Clients, AttemptAnswers(c), UNCHANGED contVars  PROVE Types'
  BY <1>10, AttemptAnswersMoves
<1>11. ASSUME NEW c \in Clients, Walk(c), UNCHANGED contVars  PROVE Types'
  BY <1>11, WalkMoves
<1>12. ASSUME NEW c \in Clients, Write(c), UNCHANGED contVars  PROVE Types'
  BY <1>12, WriteMoves
<1>13. ASSUME NEW c \in Clients, AttachOutput(c), UNCHANGED contVars  PROVE Types'
  BY <1>13, AttachOutputMoves
<1>14. ASSUME NEW c \in Clients, DeleteOwn(c), UNCHANGED contVars  PROVE Types'
  BY <1>14, DeleteOwnMoves
<1>15. ASSUME NEW c \in Clients, DeleteChildren(c), UNCHANGED contVars  PROVE Types'
  BY <1>15, DeleteChildrenMoves
<1>16. ASSUME NEW c \in Clients, DeleteRow(c), UNCHANGED contVars  PROVE Types'
  BY <1>16, DeleteRowMoves
<1>17. ASSUME NEW c \in Clients, SetState(c)  PROVE Types'
  BY <1>17, SetStateMoves
<1>18. ASSUME NEW c \in Clients, StateLock(c)  PROVE Types'
  BY <1>18, StateLockMoves
<1>19. ASSUME NEW c \in Clients, StateHead(c)  PROVE Types'
  BY <1>19, StateHeadMoves
<1>20. ASSUME NEW c \in Clients, StateInsert(c)  PROVE Types'
  BY <1>20, StateInsertMoves
<1>21. ASSUME NEW c \in Clients, TodoRead(c)  PROVE Types'
  BY <1>21, TodoReadMoves
<1>22. ASSUME NEW c \in Clients, HookKeys(c)  PROVE Types'
  BY <1>22, HookKeysMoves
<1>23. ASSUME NEW c \in Clients, HookDone(c)  PROVE Types'
  BY <1>23, HookDoneMoves
<1>24. ASSUME NEW c \in Clients, PinHead(c)  PROVE Types'
  BY <1>24, PinHeadMoves, PlansAreKeys
<1>25. ASSUME NEW c \in Clients, PinInsert(c)  PROVE Types'
  BY <1>25, PinInsertMoves, PlansAreKeys DEF PinInsert
<1>26. CASE UNCHANGED allVars
  BY <1>26 DEF allVars, vars, contVars, Types, Calls
<1>27. QED
  BY <1>1, <1>2, <1>3, <1>4, <1>5, <1>6, <1>7, <1>8, <1>9, <1>10, <1>11, <1>12, <1>13,
     <1>14, <1>15, <1>16, <1>17, <1>18, <1>19, <1>20, <1>21, <1>22, <1>23, <1>24, <1>25,
     <1>26
  DEF AllNext, Conversation, Step, TaskStep, Rest
-----------------------------------------------------------------------------
(* The stored turns *)

\* Steps that leave the turns alone and do not walk them.
LEMMA WriteKept ==
    ASSUME WriteInv, NEW c \in Clients, Moves(c), UNCHANGED <<turns, log>>,
           call'[c].pc # "write"
    PROVE  WriteInv'
<1>1. \A d \in Clients : call'[d].pc = "write" => d # c /\ call'[d] = call[d]
  BY DEF Moves, Others
<1>2. StoredAsGrouped'  BY DEF WriteInv, StoredAsGrouped
<1>3. \A d \in Clients : call'[d].pc = "write" => call'[d].seen = LastOf(turns')
  BY <1>1 DEF WriteInv
<1>4. QED  BY <1>2, <1>3 DEF WriteInv

LEMMA WalkWrite ==
    ASSUME Types, WriteInv, NEW c \in Clients, Walk(c), UNCHANGED contVars
    PROVE  WriteInv'
<1>1. Moves(c) /\ call'[c].seen = LastOf(turns) /\ UNCHANGED <<turns, log>>
  BY WalkMoves DEF Walk
<1>2. StoredAsGrouped'  BY <1>1 DEF WriteInv, StoredAsGrouped
<1>3. \A d \in Clients : call'[d].pc = "write" => call'[d].seen = LastOf(turns')
  BY <1>1 DEF WriteInv, Moves, Others
<1>4. QED  BY <1>2, <1>3 DEF WriteInv

\* The append: the row lock keeps the turns as the walk found them.
LEMMA WriteWrite ==
    ASSUME Types, RowInv, WriteInv, NEW c \in Clients, Write(c), UNCHANGED contVars
    PROVE  WriteInv'
<1>1. call[c].pc = "write" /\ call[c].seen = LastOf(turns) /\ lock = c
        /\ call[c].batch \in Seq(Message) /\ log \in Seq(Message)
  BY CallHas DEF Write, At, WriteInv, RowInv, HoldsRow, CallOK, Types
<1>2. turns = StoredTurns(log)  BY StoredIsGrouped DEF WriteInv
<1>3. turns' = StoredTurns(log \o call[c].batch)
  BY <1>1, <1>2, AppendKeepsTurns DEF Write
<1>4. log' = log \o call[c].batch  BY DEF Write
<1>5. turns' = StoredTurns(log')  BY <1>3, <1>4
<1>6. StoredAsGrouped'  BY <1>5 DEF StoredAsGrouped, StoredTurns, Past
<1>7. \A d \in Clients : call'[d].pc # "write"
  <2>1. Moves(c) /\ call'[c].pc = "usage"  BY WriteMoves
  <2>2. \A d \in Clients \ {c} : call[d].pc # "write"
    BY <1>1, Alone DEF RowFree, Locking
  <2>3. QED  BY <2>1, <2>2 DEF Moves, Others
<1>8. QED  BY <1>6, <1>7 DEF WriteInv

LEMMA DeleteRowWrite ==
    ASSUME Types, RowInv, WriteInv, NEW c \in Clients, DeleteRow(c), UNCHANGED contVars
    PROVE  WriteInv'
<1>1. turns' = <<>> /\ log' = <<>>  BY DeleteRowRow
<1>2. Moves(c) /\ call'[c].pc = "idle" /\ lock = c
  BY DeleteRowMoves DEF DeleteRow, RowInv, HoldsRow, At
<1>3. \A d \in Clients : call'[d].pc # "write"
  <2>1. \A d \in Clients \ {c} : call[d].pc # "write"
    BY <1>2, Alone DEF RowFree, Locking
  <2>2. QED  BY <1>2, <2>1 DEF Moves, Others
<1>4. turns' = StoredTurns(log')  BY <1>1, StoredNothing
<1>5. StoredAsGrouped'  BY <1>4 DEF StoredAsGrouped, StoredTurns, Past
<1>6. QED  BY <1>3, <1>5 DEF WriteInv

LEMMA WritePreserved ==
    ASSUME IInv, [AllNext]_allVars
    PROVE  WriteInv'
<1> USE DEF IInv
<1>1. ASSUME NEW c \in Clients, BeginChat(c), UNCHANGED contVars  PROVE WriteInv'
  BY <1>1, BeginChatMoves, WriteKept DEF BeginChat
<1>2. ASSUME NEW c \in Clients, BeginDelete(c), UNCHANGED contVars  PROVE WriteInv'
  BY <1>2, BeginDeleteMoves, WriteKept DEF BeginDelete
<1>3. ASSUME NEW c \in Clients, BeginTask(c)  PROVE WriteInv'
  BY <1>3, BeginTaskMoves, WriteKept DEF BeginTask
<1>4. ASSUME NEW c \in Clients, Insert(c), UNCHANGED contVars  PROVE WriteInv'
  BY <1>4, InsertMoves, WriteKept DEF Insert
<1>5. ASSUME NEW c \in Clients, Select(c), UNCHANGED contVars  PROVE WriteInv'
  BY <1>5, SelectMoves, WriteKept DEF Select
<1>6. ASSUME NEW c \in Clients, SelectNothing(c), UNCHANGED contVars  PROVE WriteInv'
  BY <1>6, SelectNothingMoves, WriteKept DEF SelectNothing
<1>7. ASSUME NEW c \in Clients, Load(c), UNCHANGED contVars  PROVE WriteInv'
  BY <1>7, LoadMoves, WriteKept DEF Load
<1>8. ASSUME NEW c \in Clients, AttemptFails(c), UNCHANGED contVars  PROVE WriteInv'
  BY <1>8, AttemptFailsMoves, WriteKept DEF AttemptFails
<1>9. ASSUME NEW c \in Clients, AttemptsExhausted(c), UNCHANGED contVars  PROVE WriteInv'
  BY <1>9, AttemptsExhaustedMoves, WriteKept DEF AttemptsExhausted
<1>10. ASSUME NEW c \in Clients, AttemptAnswers(c), UNCHANGED contVars  PROVE WriteInv'
  BY <1>10, AttemptAnswersMoves, WriteKept DEF AttemptAnswers
<1>11. ASSUME NEW c \in Clients, Walk(c), UNCHANGED contVars  PROVE WriteInv'
  BY <1>11, WalkWrite
<1>12. ASSUME NEW c \in Clients, Write(c), UNCHANGED contVars  PROVE WriteInv'
  BY <1>12, WriteWrite
<1>13. ASSUME NEW c \in Clients, AttachOutput(c), UNCHANGED contVars  PROVE WriteInv'
  BY <1>13, AttachOutputMoves, WriteKept DEF AttachOutput
<1>14. ASSUME NEW c \in Clients, DeleteOwn(c), UNCHANGED contVars  PROVE WriteInv'
  BY <1>14, DeleteOwnMoves, WriteKept DEF DeleteOwn
<1>15. ASSUME NEW c \in Clients, DeleteChildren(c), UNCHANGED contVars  PROVE WriteInv'
  BY <1>15, DeleteChildrenMoves, WriteKept DEF DeleteChildren
<1>16. ASSUME NEW c \in Clients, DeleteRow(c), UNCHANGED contVars  PROVE WriteInv'
  BY <1>16, DeleteRowWrite
<1>17. ASSUME NEW c \in Clients, SetState(c)  PROVE WriteInv'
  BY <1>17, SetStateMoves, WriteKept DEF SetState
<1>18. ASSUME NEW c \in Clients, StateLock(c)  PROVE WriteInv'
  BY <1>18, StateLockMoves, WriteKept DEF StateLock
<1>19. ASSUME NEW c \in Clients, StateHead(c)  PROVE WriteInv'
  BY <1>19, StateHeadMoves, WriteKept DEF StateHead
<1>20. ASSUME NEW c \in Clients, StateInsert(c)  PROVE WriteInv'
  BY <1>20, StateInsertMoves, WriteKept DEF StateInsert
<1>21. ASSUME NEW c \in Clients, TodoRead(c)  PROVE WriteInv'
  BY <1>21, TodoReadMoves, WriteKept DEF TodoRead
<1>22. ASSUME NEW c \in Clients, HookKeys(c)  PROVE WriteInv'
  BY <1>22, HookKeysMoves, WriteKept DEF HookKeys
<1>23. ASSUME NEW c \in Clients, HookDone(c)  PROVE WriteInv'
  BY <1>23, HookDoneMoves, WriteKept DEF HookDone
<1>24. ASSUME NEW c \in Clients, PinHead(c)  PROVE WriteInv'
  BY <1>24, PinHeadMoves, PlansAreKeys, WriteKept DEF PinHead
<1>25. ASSUME NEW c \in Clients, PinInsert(c)  PROVE WriteInv'
  BY <1>25, PinInsertMoves, PlansAreKeys, WriteKept DEF PinInsert
<1>26. CASE UNCHANGED allVars
  BY <1>26 DEF allVars, vars, WriteInv, StoredAsGrouped, LastOf
<1>27. QED
  BY <1>1, <1>2, <1>3, <1>4, <1>5, <1>6, <1>7, <1>8, <1>9, <1>10, <1>11, <1>12, <1>13,
     <1>14, <1>15, <1>16, <1>17, <1>18, <1>19, <1>20, <1>21, <1>22, <1>23, <1>24, <1>25,
     <1>26
  DEF AllNext, Conversation, Step, TaskStep, Rest
-----------------------------------------------------------------------------
(* The theorems *)

LEMMA InitHolds == AllInit => IInv
<1>1. SUFFICES ASSUME AllInit  PROVE IInv
  OBVIOUS
<1>2. /\ session = 0 /\ ids = 0 /\ lock = None /\ turns = <<>> /\ log = <<>> /\ rows = {}
      /\ call = [c \in Clients |-> Idle] /\ owes = [c \in Clients |-> 0] /\ begun = 0
      /\ advisory = [c \in Clients |-> None]
      /\ \A c \in Clients : call[c] = Idle /\ call[c].pc = "idle"
  BY <1>1 DEF AllInit, Init, Idle
<1>3. Types
  <2>1. <<>> \in Seq(Message) /\ 0 \in Nat /\ MaxCalls \in Nat  BY BoundsNat
  <2>2. Calls  BY <1>2, IdleOK DEF Calls
  <2>3. QED  BY <1>2, <2>1, <2>2 DEF Types
<1>4. RowInv  BY <1>2 DEF RowInv, HoldsRow
<1>5. TaskInv
  <2>1. \A c \in Clients : HoldsTask(c) /\ ~Writing(c)  BY <1>2 DEF HoldsTask, Writing
  <2>2. \A pk \in Nat, key \in Keys : TopOf(States(pk, key))  BY <1>2 DEF TopOf, States
  <2>3. QED  BY <1>2, <2>1, <2>2 DEF TaskInv, PinsExist
<1>6. IdsInv
  <2>1. \A c \in Clients : Remaining(call[c]) = {}  BY <1>2 DEF Remaining
  <2>2. Creations = {}  BY <2>1, CreationsOK
  <2>3. Cardinality(Creations) = 0  BY <2>2, FS_EmptySet
  <2>4. QED  BY <1>2, <2>3 DEF IdsInv
<1>7. WriteInv
  <2>1. StoredAsGrouped  BY <1>2, StoredNothing, StoredIsGrouped
  <2>2. QED  BY <1>2, <2>1 DEF WriteInv
<1>8. QED  BY <1>3, <1>4, <1>5, <1>6, <1>7 DEF IInv

\* The invariant of the stored conversation: who works under the row lock,
\* what the advisory locks and the versions of a task have to do with each
\* other, and that an append knows the last turn (session_store.py,
\* continuity.py, run_store.py).
THEOREM Invariance == StorageSpec => []IInv
<1>1. IInv /\ [AllNext]_allVars => IInv'
  BY TypesPreserved, RowPreserved, TaskPreserved, IdsPreserved, WritePreserved DEF IInv
<1>2. QED  BY InitHolds, <1>1, PTL DEF StorageSpec

\* The variables keep their types: surrogate ids stay within two creations of
\* the row for each call, a row of another table refers to an id handed out,
\* and an advisory lock is one of a task of a session that existed.
THEOREM TypesHold == StorageSpec => []TypeOK
<1>1. IInv => TypeOK
  <2>1. SUFFICES ASSUME IInv  PROVE TypeOK
    OBVIOUS
  <2>2. Types /\ IdsInv /\ WriteInv  BY <2>1 DEF IInv
  <2>3. ids \in 0..(2 * MaxCalls)
    <3>1. Cardinality(Creations) \in Nat  BY CreationsOK, CreationsFinite
    <3>2. ids \in Nat /\ begun \in 0..MaxCalls /\ MaxCalls \in Nat  BY <2>2, BoundsNat DEF Types
    <3>3. ids + Cardinality(Creations) <= 2 * begun  BY <2>2 DEF IdsInv
    <3> DEFINE n == Cardinality(Creations)
    <3> HIDE DEF n
    <3>4. n \in Nat /\ ids + n <= 2 * begun  BY <3>1, <3>3 DEF n
    <3>5. QED  BY <3>2, <3>4
  <2>4. \A i \in DOMAIN turns : turns[i].seq \in Nat /\ turns[i].msgs \in Seq(Message)
    BY <2>2, StoredIsGrouped, StoredTurnsOK DEF Types, WriteInv
  <2>5. \A c \in Clients : call[c].pc = "idle" <=> call[c] = Idle
    <3>1. Idle.pc = "idle"  BY DEF Idle
    <3>2. QED  BY <2>2, <3>1 DEF Types, Calls, CallOK
  <2>6. QED  BY <2>2, <2>3, <2>4, <2>5 DEF Types, TypeOK, RowOK
<1>2. QED  BY Invariance, <1>1, PTL

\* The stored turns are always the newest TurnCap turns of everything
\* appended since the row was created, numbered densely from 0, whoever
\* appends, deletes and creates the session meanwhile (append_messages).
THEOREM TurnsStayGrouped == StorageSpec => []StoredAsGrouped
<1>1. IInv => StoredAsGrouped  BY DEF IInv, WriteInv
<1>2. QED  BY Invariance, <1>1, PTL

\* Nothing ever refers to a session that is gone, and the last statement of a
\* deletion meets no row it did not delete: FOR UPDATE holds off every insert
\* that refers to the session (delete_session).
THEOREM DeletionsAreComplete == StorageSpec => []DeleteLeavesNothing
<1>1. IInv => DeleteLeavesNothing
  BY DEF IInv, RowInv, HoldsRow, DeleteLeavesNothing, At
<1>2. QED  BY Invariance, <1>1, PTL

\* Nobody comes between a writer that read the head of a task and the version
\* it inserts, and a checkpoint pins a version that is there (set_state's
\* advisory lock, create_checkpoint).
THEOREM VersionsStayHeld == StorageSpec => []VersionsHeld
<1>1. IInv => VersionsHeld
  BY DEF IInv, TaskInv, HoldsTask, VersionsHeld, HeadHeld, At
<1>2. QED  BY Invariance, <1>1, PTL
=============================================================================
