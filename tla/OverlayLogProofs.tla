-------------------------- MODULE OverlayLogProofs --------------------------
(***************************************************************************)
(* What load makes of an overlay's log, of any length: a commit appended   *)
(* to it, a commit cut short, and a compacted log give the books the       *)
(* server has in memory.                                                   *)
(***************************************************************************)
EXTENDS OverlayLog, FiniteSetTheorems, NaturalsInduction, SequenceTheorems, TLAPS

\* The parts of Load.
CommitsOf(log) == {i \in DOMAIN log : log[i].kind = "commit"}
EndOf(log) == Max(CommitsOf(log) \cup {0})
Before(log, i) == Max({j \in CommitsOf(log) : j < i} \cup {0})
ResetAt(log, i) == IF i = 0 THEN 0 ELSE log[i].reset
VersionAt(log, i) == IF i = 0 THEN 0 ELSE log[i].v
Resets(log) == {i \in CommitsOf(log) : ResetAt(log, i) # ResetAt(log, Before(log, i))}
FromOf(log) == IF Resets(log) = {} THEN 0 ELSE Before(log, Max(Resets(log)))

\* A log in which nothing follows the last commit.
Closed(log) == log = <<>> \/ log[Len(log)].kind = "commit"

\* The blocks of a log after the position from: which there are, where the
\* newest of each is, and how many of the log's are superseded.
Numbers(log, from) == {log[i].n : i \in {j \in BlocksOf(log) : j > from}}
Places(log, from, n) == {i \in BlocksOf(log) : i > from /\ log[i].n = n}
Place(log, i) == [v |-> log[i].v, off |-> i]
IndexOf(log, from) == [n \in Numbers(log, from) |-> Place(log, Max(Places(log, from, n)))]
DeadOf(log, from) == Cardinality(BlocksOf(log)) - Cardinality(Numbers(log, from))

\* The book of a closed log whose last reset is at the commit from.
BookOf(log, from) ==
  [version |-> VersionAt(log, Len(log)), reset |-> ResetAt(log, Len(log)),
   name |-> Named("", log), index |-> IndexOf(log, from),
   dead |-> DeadOf(log, from), end |-> Len(log)]

\* The records of a log that give a name.
MetasOf(log) == {i \in DOMAIN log : log[i].kind = "meta"}

\* The records a log can have, names being those given to its disk.
Records(names) ==
  {Block(n, v, d) : n \in Nat, v \in Nat, d \in Int} \cup {Meta(x) : x \in names}
    \cup {Commit(v, r) : v \in Nat, r \in Nat}

\* What Enter makes of the index and of the number of superseded blocks.
EnteredIndex(index, recs, at) ==
  [n \in DOMAIN index \cup Numbers(recs, 0) |->
     IF n \in Numbers(recs, 0)
     THEN [v |-> recs[Max(Places(recs, 0, n))].v, off |-> at + Max(Places(recs, 0, n))]
     ELSE index[n]]
EnteredDead(dead, index, recs) ==
  dead + Cardinality(BlocksOf(recs)) - Cardinality(Numbers(recs, 0) \ DOMAIN index)

-----------------------------------------------------------------------------
\* A set of numbers that has one has a smallest.
LEMMA SmallestNat ==
  ASSUME NEW S \in SUBSET Nat, S # {}
  PROVE  \E w \in S : \A v \in S : w <= v
<1> DEFINE R == OpToRel(<, Nat)
<1>1. IsWellFoundedOn(R, Nat)
  BY NatLessThanWellFounded
<1>2. \A x, y \in Nat : x < y => <<x, y>> \in R
  BY DEF OpToRel
<1> HIDE DEF R
<1>3. PICK x \in S : \A y \in S : ~(<<y, x>> \in R)
  BY <1>1, WFMin
<1>4. \A y \in S : ~(y < x)
  BY <1>2, <1>3
<1> QED
  BY <1>4

\* A set of numbers up to k that has one has a largest.
LEMMA MaxIs ==
  ASSUME NEW k \in Nat, NEW S \in SUBSET (0 .. k), S # {}
  PROVE  Max(S) \in S /\ \A y \in S : Max(S) >= y
<1> DEFINE T == {k - x : x \in S}
<1>0. \A x \in S : x \in Nat /\ k - x \in Nat
  OBVIOUS
<1>1. T \in SUBSET Nat /\ T # {}
  BY <1>0
<1>2. PICK w \in T : \A v \in T : w <= v
  BY <1>1, SmallestNat
<1>3. PICK x \in S : w = k - x
  BY <1>2
<1>4. ASSUME NEW y \in S PROVE x >= y
  <2>1. k - x <= k - y
    BY <1>2, <1>3
  <2> QED
    BY <1>0, <2>1
<1> QED
  BY <1>3, <1>4 DEF Max

\* And no other number is the largest.
LEMMA MaxOnly ==
  ASSUME NEW k \in Nat, NEW S \in SUBSET (0 .. k), NEW x \in S, \A y \in S : x >= y
  PROVE  Max(S) = x
<1>1. Max(S) \in S /\ Max(S) >= x
  BY MaxIs
<1>2. \A y \in S : y \in Nat
  OBVIOUS
<1>3. x >= Max(S)
  BY <1>1
<1>4. \A a, b \in Nat : a >= b /\ b >= a => a = b
  OBVIOUS
<1> QED
  BY <1>1, <1>2, <1>3, <1>4

\* Load, by its parts.
LEMMA LoadParts ==
  ASSUME NEW log
  PROVE  Load(log) =
           LET end == EndOf(log)
               from == FromOf(log)
           IN  IF end = 0 THEN NoBook
               ELSE Enter([version |-> log[end].v, reset |-> log[end].reset, end |-> end,
                           name |-> Named("", SubSeq(log, 1, end)), index |-> Empty,
                           dead |-> Cardinality(BlocksOf(SubSeq(log, 1, from)))],
                          SubSeq(log, from + 1, end), from)
  BY DEF Load, EndOf, FromOf, Resets, ResetAt, Before, CommitsOf

-----------------------------------------------------------------------------
\* The blocks of a log are at some of its positions.
LEMMA BlocksIn ==
  ASSUME NEW R, NEW log \in Seq(R)
  PROVE  /\ BlocksOf(log) \subseteq 1 .. Len(log)
         /\ IsFiniteSet(BlocksOf(log)) /\ Cardinality(BlocksOf(log)) \in Nat
<1>1. BlocksOf(log) \subseteq 1 .. Len(log)
  BY DEF BlocksOf
<1>2. IsFiniteSet(1 .. Len(log))
  BY FS_Interval
<1>3. IsFiniteSet(BlocksOf(log))
  BY <1>1, <1>2, FS_Subset
<1> QED
  BY <1>1, <1>3, FS_CardinalityType

\* The numbers of the blocks after a position are finitely many.
LEMMA NumbersIn ==
  ASSUME NEW R, NEW log \in Seq(R), NEW from
  PROVE  IsFiniteSet(Numbers(log, from)) /\ Cardinality(Numbers(log, from)) \in Nat
<1> DEFINE S == {j \in BlocksOf(log) : j > from}
           f == [j \in S |-> log[j].n]
<1>1. IsFiniteSet(S)
  BY BlocksIn, FS_Subset
<1>2. f \in Surjection(S, Numbers(log, from))
  BY DEF Surjection, Numbers
<1>3. IsFiniteSet(Numbers(log, from))
  BY <1>1, <1>2, FS_Surjection
<1> QED
  BY <1>3, FS_CardinalityType

\* Of a block after a position there is a newest.
LEMMA NewestIs ==
  ASSUME NEW R, NEW log \in Seq(R), NEW from, NEW n \in Numbers(log, from)
  PROVE  LET m == Max(Places(log, from, n))
         IN  /\ m \in BlocksOf(log) /\ m \in 1 .. Len(log) /\ m > from /\ log[m].n = n
             /\ \A i \in Places(log, from, n) : m >= i
<1>1. Places(log, from, n) \subseteq BlocksOf(log) /\ BlocksOf(log) \subseteq 1 .. Len(log)
  BY BlocksIn DEF Places
<1>2. Len(log) \in Nat /\ Places(log, from, n) \in SUBSET (0 .. Len(log))
  BY <1>1
<1>3. Places(log, from, n) # {}
  BY DEF Places, Numbers
<1>4. /\ Max(Places(log, from, n)) \in Places(log, from, n)
      /\ \A i \in Places(log, from, n) : Max(Places(log, from, n)) >= i
  BY <1>2, <1>3, MaxIs
<1>5. \A i \in Places(log, from, n) : i > from /\ log[i].n = n
  BY DEF Places
<1> QED
  BY <1>1, <1>4, <1>5

\* The blocks of two logs one after the other.
LEMMA BlocksConcat ==
  ASSUME NEW R, NEW a \in Seq(R), NEW b \in Seq(R)
  PROVE  /\ a \o b \in Seq(R) /\ Len(a \o b) = Len(a) + Len(b)
         /\ \A i \in 1 .. Len(a) : (a \o b)[i] = a[i] /\ (i \in BlocksOf(a \o b) <=> i \in BlocksOf(a))
         /\ \A i \in 1 .. Len(b) : /\ (a \o b)[Len(a) + i] = b[i]
                                   /\ Len(a) + i \in BlocksOf(a \o b) <=> i \in BlocksOf(b)
         /\ BlocksOf(a \o b) = BlocksOf(a) \cup {Len(a) + i : i \in BlocksOf(b)}
<1>1. /\ a \o b \in Seq(R) /\ Len(a \o b) = Len(a) + Len(b) /\ Len(a) \in Nat /\ Len(b) \in Nat
      /\ \A i \in 1 .. Len(a) + Len(b) : (a \o b)[i] = IF i <= Len(a) THEN a[i] ELSE b[i - Len(a)]
  BY ConcatProperties
<1> DEFINE c == a \o b
<1>2. DOMAIN c = 1 .. Len(a) + Len(b) /\ DOMAIN a = 1 .. Len(a) /\ DOMAIN b = 1 .. Len(b)
  BY <1>1
<1> HIDE DEF c
<1>3. \A i \in 1 .. Len(a) : i \in 1 .. Len(a) + Len(b) /\ c[i] = a[i]
  BY <1>1 DEF c
<1>4. ASSUME NEW i \in 1 .. Len(b) PROVE Len(a) + i \in 1 .. Len(a) + Len(b) /\ c[Len(a) + i] = b[i]
  <2>1. Len(a) + i \in 1 .. Len(a) + Len(b) /\ ~(Len(a) + i <= Len(a)) /\ Len(a) + i - Len(a) = i
    BY <1>1
  <2> QED
    BY <1>1, <2>1 DEF c
<1>5. \A i \in 1 .. Len(a) : i \in BlocksOf(c) <=> i \in BlocksOf(a)
  BY <1>2, <1>3 DEF BlocksOf
<1>6. \A i \in 1 .. Len(b) : Len(a) + i \in BlocksOf(c) <=> i \in BlocksOf(b)
  BY <1>2, <1>4 DEF BlocksOf
<1>7. \A j \in 1 .. Len(a) + Len(b) : j \in 1 .. Len(a) \/ \E i \in 1 .. Len(b) : j = Len(a) + i
  <2>1. ASSUME NEW j \in 1 .. Len(a) + Len(b), j \notin 1 .. Len(a)
        PROVE  j - Len(a) \in 1 .. Len(b) /\ j = Len(a) + (j - Len(a))
    BY <1>1, <2>1
  <2> QED
    BY <2>1
<1>8. BlocksOf(c) \subseteq 1 .. Len(a) + Len(b) /\ BlocksOf(a) \subseteq 1 .. Len(a) /\ BlocksOf(b) \subseteq 1 .. Len(b)
  BY <1>2 DEF BlocksOf
<1>9. BlocksOf(c) = BlocksOf(a) \cup {Len(a) + i : i \in BlocksOf(b)}
  BY <1>5, <1>6, <1>7, <1>8
<1> QED
  BY <1>1, <1>3, <1>4, <1>5, <1>6, <1>9 DEF c

\* As many as in both.
LEMMA BlocksAdd ==
  ASSUME NEW R, NEW a \in Seq(R), NEW b \in Seq(R)
  PROVE  Cardinality(BlocksOf(a \o b)) = Cardinality(BlocksOf(a)) + Cardinality(BlocksOf(b))
<1> DEFINE S == BlocksOf(b)
           T == {Len(a) + i : i \in S}
           f == [i \in S |-> Len(a) + i]
<1>1. /\ IsFiniteSet(BlocksOf(a)) /\ BlocksOf(a) \subseteq 1 .. Len(a) /\ IsFiniteSet(S) /\ S \subseteq 1 .. Len(b)
      /\ Len(a) \in Nat /\ Len(b) \in Nat
      /\ Cardinality(BlocksOf(a)) \in Nat /\ Cardinality(S) \in Nat
  BY BlocksIn
<1>2. f \in Bijection(S, T)
  <2>1. f \in [S -> T] /\ \A t \in T : \E i \in S : f[i] = t
    OBVIOUS
  <2>2. \A i, j \in S : f[i] = f[j] => i = j
    BY <1>1
  <2> QED
    BY <2>1, <2>2 DEF Bijection, Injection, Surjection, IsInjective
<1>3. IsFiniteSet(T) /\ Cardinality(T) = Cardinality(S)
  BY <1>1, <1>2, FS_Bijection DEF ExistsBijection
<1>4. BlocksOf(a) \cap T = {}
  BY <1>1
<1>5. Cardinality(BlocksOf(a) \cap T) = 0
  BY <1>4, FS_EmptySet
<1>6. BlocksOf(a \o b) = BlocksOf(a) \cup T
  BY BlocksConcat
<1> HIDE DEF S, T
<1>7. Cardinality(BlocksOf(a) \cup T) = Cardinality(BlocksOf(a)) + Cardinality(T) - 0
  BY <1>1, <1>3, <1>5, FS_Union
<1> QED
  BY <1>1, <1>3, <1>6, <1>7 DEF S

\* The numbers of the blocks of two logs, and where the newest is of each.
LEMMA NumbersConcat ==
  ASSUME NEW R, NEW a \in Seq(R), NEW b \in Seq(R), NEW f \in 0 .. Len(a)
  PROVE  /\ Numbers(a \o b, f) = Numbers(a, f) \cup Numbers(b, 0)
         /\ \A n \in Numbers(b, 0) : Max(Places(a \o b, f, n)) = Len(a) + Max(Places(b, 0, n))
         /\ \A n \in Numbers(a, f) \ Numbers(b, 0) : Max(Places(a \o b, f, n)) = Max(Places(a, f, n))
<1> DEFINE c == a \o b
           k == Len(a)
<1>1. /\ c \in Seq(R) /\ Len(c) = k + Len(b)
      /\ \A i \in 1 .. k : c[i] = a[i] /\ (i \in BlocksOf(c) <=> i \in BlocksOf(a))
      /\ \A i \in 1 .. Len(b) : c[k + i] = b[i] /\ (k + i \in BlocksOf(c) <=> i \in BlocksOf(b))
      /\ BlocksOf(c) = BlocksOf(a) \cup {k + i : i \in BlocksOf(b)}
  BY BlocksConcat
<1>2. /\ BlocksOf(a) \subseteq 1 .. k /\ BlocksOf(b) \subseteq 1 .. Len(b) /\ k \in Nat /\ Len(b) \in Nat
      /\ BlocksOf(c) \subseteq 1 .. Len(c)
  BY <1>1, BlocksIn
<1> HIDE DEF c, k
<1>3. \A i \in BlocksOf(b) : i > 0 /\ k + i > f /\ k + i > k
  BY <1>2 DEF k
<1>4. Numbers(c, f) = Numbers(a, f) \cup Numbers(b, 0)
  <2>1. ASSUME NEW i \in BlocksOf(c), i > f PROVE c[i].n \in Numbers(a, f) \cup Numbers(b, 0)
    <3>1. CASE i \in BlocksOf(a)
      BY <1>1, <1>2, <2>1, <3>1 DEF Numbers
    <3>2. ASSUME NEW j \in BlocksOf(b), i = k + j PROVE c[i].n \in Numbers(b, 0)
      BY <1>1, <1>2, <1>3, <3>2 DEF Numbers
    <3> QED
      BY <1>1, <3>1, <3>2
  <2>2. ASSUME NEW i \in BlocksOf(a), i > f PROVE a[i].n \in Numbers(c, f)
    <3>1. i \in BlocksOf(c) /\ c[i] = a[i]
      BY <1>1, <1>2
    <3> QED
      BY <2>2, <3>1 DEF Numbers
  <2>3. ASSUME NEW j \in BlocksOf(b) PROVE b[j].n \in Numbers(c, f)
    <3>1. k + j \in BlocksOf(c) /\ c[k + j] = b[j] /\ k + j > f
      BY <1>1, <1>2, <1>3
    <3> QED
      BY <3>1 DEF Numbers
  <2> QED
    BY <2>1, <2>2, <2>3 DEF Numbers
<1>5. ASSUME NEW n \in Numbers(b, 0) PROVE Max(Places(c, f, n)) = k + Max(Places(b, 0, n))
  <2> DEFINE m == Max(Places(b, 0, n))
  <2>1. m \in BlocksOf(b) /\ m \in 1 .. Len(b) /\ b[m].n = n /\ \A i \in Places(b, 0, n) : m >= i
    BY NewestIs
  <2> HIDE DEF m
  <2>2. k + m \in Places(c, f, n)
    BY <1>1, <1>2, <1>3, <2>1 DEF Places
  <2>3. ASSUME NEW i \in Places(c, f, n) PROVE k + m >= i
    <3>1. i \in BlocksOf(c) /\ c[i].n = n
      BY DEF Places
    <3>2. CASE i \in BlocksOf(a)
      <4>1. i \in 1 .. k
        BY <1>2, <3>2
      <4> QED
        BY <1>2, <2>1, <4>1
    <3>3. ASSUME NEW j \in BlocksOf(b), i = k + j PROVE k + m >= i
      <4>1. j \in Places(b, 0, n)
        BY <1>1, <1>2, <1>3, <3>1, <3>3 DEF Places
      <4>2. m >= j /\ j \in Nat /\ m \in Nat
        BY <1>2, <2>1, <4>1
      <4> QED
        BY <1>2, <3>3, <4>2
    <3> QED
      BY <1>1, <3>1, <3>2, <3>3
  <2>4. Places(c, f, n) \in SUBSET (0 .. Len(c)) /\ Len(c) \in Nat
    BY <1>1, <1>2 DEF Places
  <2> QED
    BY <2>2, <2>3, <2>4, MaxOnly DEF m
<1>6. ASSUME NEW n \in Numbers(a, f), n \notin Numbers(b, 0) PROVE Max(Places(c, f, n)) = Max(Places(a, f, n))
  <2>1. Places(c, f, n) \subseteq Places(a, f, n)
    <3> SUFFICES ASSUME NEW i \in Places(c, f, n) PROVE i \in Places(a, f, n)
      OBVIOUS
    <3>1. i \in BlocksOf(c) /\ c[i].n = n /\ i > f
      BY DEF Places
    <3>2. CASE i \in BlocksOf(a)
      BY <1>1, <1>2, <3>1, <3>2 DEF Places
    <3>3. ASSUME NEW j \in BlocksOf(b), i = k + j PROVE FALSE
      <4>1. b[j].n = n /\ j > 0
        BY <1>1, <1>2, <1>3, <3>1, <3>3
      <4> QED
        BY <1>6, <4>1 DEF Numbers
    <3> QED
      BY <1>1, <3>1, <3>2, <3>3
  <2>2. Places(a, f, n) \subseteq Places(c, f, n)
    BY <1>1, <1>2 DEF Places
  <2>3. Places(c, f, n) = Places(a, f, n)
    BY <2>1, <2>2
  <2> QED
    BY <2>3
<1> QED
  BY <1>4, <1>5, <1>6 DEF c, k

\* Enter, by what it makes of the index and of the superseded.
LEMMA EnterIs ==
  ASSUME NEW R, NEW book, NEW recs \in Seq(R), NEW at
  PROVE  Enter(book, recs, at) =
           [book EXCEPT !.index = EnteredIndex(book.index, recs, at),
                        !.dead = EnteredDead(book.dead, book.index, recs)]
<1> DEFINE names == {recs[i].n : i \in BlocksOf(recs)}
           newest(n) == Max({i \in BlocksOf(recs) : recs[i].n = n})
<1>1. \A i \in BlocksOf(recs) : i > 0
  BY BlocksIn
<1>2. names = Numbers(recs, 0)
  BY <1>1 DEF Numbers
<1>3. ASSUME NEW n PROVE newest(n) = Max(Places(recs, 0, n))
  <2>1. {i \in BlocksOf(recs) : recs[i].n = n} = Places(recs, 0, n)
    BY <1>1 DEF Places
  <2> QED
    BY <2>1
<1>4. Enter(book, recs, at) =
        [book EXCEPT
           !.index = [n \in DOMAIN @ \cup names |->
                        IF n \in names THEN [v |-> recs[newest(n)].v, off |-> at + newest(n)] ELSE @[n]],
           !.dead  = @ + Cardinality(BlocksOf(recs)) - Cardinality(names \ DOMAIN book.index)]
  BY DEF Enter
<1> HIDE DEF names, newest
<1>5. [n \in DOMAIN book.index \cup names |->
         IF n \in names THEN [v |-> recs[newest(n)].v, off |-> at + newest(n)] ELSE book.index[n]]
        = EnteredIndex(book.index, recs, at)
  BY <1>2, <1>3 DEF EnteredIndex
<1>6. book.dead + Cardinality(BlocksOf(recs)) - Cardinality(names \ DOMAIN book.index)
        = EnteredDead(book.dead, book.index, recs)
  BY <1>2 DEF EnteredDead
<1> QED
  BY <1>4, <1>5, <1>6

\* What follows a log is entered into its index: the index of both together.
LEMMA EnterMore ==
  ASSUME NEW R, NEW a \in Seq(R), NEW b \in Seq(R), NEW f \in 0 .. Len(a)
  PROVE  /\ EnteredIndex(IndexOf(a, f), b, Len(a)) = IndexOf(a \o b, f)
         /\ EnteredDead(DeadOf(a, f), IndexOf(a, f), b) = DeadOf(a \o b, f)
<1> DEFINE c == a \o b
           A == Numbers(a, f)
           B == Numbers(b, 0)
<1>1. /\ Numbers(c, f) = A \cup B
      /\ \A n \in B : Max(Places(c, f, n)) = Len(a) + Max(Places(b, 0, n))
      /\ \A n \in A \ B : Max(Places(c, f, n)) = Max(Places(a, f, n))
  BY NumbersConcat
<1>2. DOMAIN IndexOf(a, f) = A
  BY DEF IndexOf
<1>3. EnteredIndex(IndexOf(a, f), b, Len(a)) = IndexOf(c, f)
  <2>1. ASSUME NEW n \in B
        PROVE  [v |-> b[Max(Places(b, 0, n))].v, off |-> Len(a) + Max(Places(b, 0, n))]
                 = Place(c, Max(Places(c, f, n)))
    <3>1. Max(Places(b, 0, n)) \in 1 .. Len(b)
      BY NewestIs
    <3>2. c[Len(a) + Max(Places(b, 0, n))] = b[Max(Places(b, 0, n))]
      BY <3>1, BlocksConcat
    <3> QED
      BY <1>1, <3>2 DEF Place
  <2>2. ASSUME NEW n \in A \ B PROVE IndexOf(a, f)[n] = Place(c, Max(Places(c, f, n)))
    <3>1. Max(Places(a, f, n)) \in 1 .. Len(a)
      BY NewestIs
    <3>2. c[Max(Places(a, f, n))] = a[Max(Places(a, f, n))]
      BY <3>1, BlocksConcat
    <3> QED
      BY <1>1, <3>2 DEF Place, IndexOf
  <2> HIDE DEF c, A, B
  <2>3. EnteredIndex(IndexOf(a, f), b, Len(a)) =
          [n \in A \cup B |-> IF n \in B
                              THEN [v |-> b[Max(Places(b, 0, n))].v, off |-> Len(a) + Max(Places(b, 0, n))]
                              ELSE IndexOf(a, f)[n]]
    BY <1>2 DEF EnteredIndex, B
  <2>4. IndexOf(c, f) = [n \in A \cup B |-> Place(c, Max(Places(c, f, n)))]
    BY <1>1 DEF IndexOf
  <2> QED
    BY <2>1, <2>2, <2>3, <2>4
<1>4. EnteredDead(DeadOf(a, f), IndexOf(a, f), b) = DeadOf(c, f)
  <2>1. /\ IsFiniteSet(A) /\ IsFiniteSet(B) /\ Cardinality(A) \in Nat /\ Cardinality(B) \in Nat
        /\ Cardinality(BlocksOf(a)) \in Nat /\ Cardinality(BlocksOf(b)) \in Nat
    BY NumbersIn, BlocksIn
  <2>2. Cardinality(BlocksOf(c)) = Cardinality(BlocksOf(a)) + Cardinality(BlocksOf(b))
    BY BlocksAdd
  <2> HIDE DEF c, A, B
  <2>3. IsFiniteSet(B \ A) /\ Cardinality(B \ A) \in Nat
    BY <2>1, FS_Difference, FS_CardinalityType
  <2>4. A \cup (B \ A) = A \cup B /\ A \cap (B \ A) = {}
    OBVIOUS
  <2>5. Cardinality(A \cup B) = Cardinality(A) + Cardinality(B \ A)
    <3>1. Cardinality(A \cup (B \ A)) = Cardinality(A) + Cardinality(B \ A) - Cardinality(A \cap (B \ A))
      BY <2>1, <2>3, FS_Union
    <3>2. Cardinality(A \cap (B \ A)) = 0
      BY <2>4, FS_EmptySet
    <3>3. Cardinality(A \cup (B \ A)) = Cardinality(A \cup B)
      BY <2>4
    <3> QED
      BY <2>1, <2>3, <3>1, <3>2, <3>3
  <2>6. DeadOf(c, f) = Cardinality(BlocksOf(c)) - Cardinality(A \cup B)
    BY <1>1 DEF DeadOf
  <2>7. EnteredDead(DeadOf(a, f), IndexOf(a, f), b) =
          Cardinality(BlocksOf(a)) - Cardinality(A) + Cardinality(BlocksOf(b)) - Cardinality(B \ A)
    BY <1>2 DEF EnteredDead, DeadOf, A, B
  <2> QED
    BY <2>1, <2>2, <2>3, <2>5, <2>6, <2>7
<1> QED
  BY <1>3, <1>4

-----------------------------------------------------------------------------
\* The last commit of a log, the one before a position, and the one before its
\* last reset, are commits of it, or 0.
LEMMA CommitPlaces ==
  ASSUME NEW R, NEW log \in Seq(R)
  PROVE  /\ CommitsOf(log) \subseteq 1 .. Len(log)
         /\ EndOf(log) \in CommitsOf(log) \cup {0}
         /\ EndOf(log) \in 0 .. Len(log)
         /\ \A i \in CommitsOf(log) : i <= EndOf(log)
         /\ \A i \in CommitsOf(log) : /\ Before(log, i) \in CommitsOf(log) \cup {0}
                                      /\ Before(log, i) \in 0 .. Len(log) /\ Before(log, i) < i
                                      /\ \A j \in CommitsOf(log) : j < i => j <= Before(log, i)
         /\ FromOf(log) \in CommitsOf(log) \cup {0} /\ FromOf(log) \in 0 .. Len(log)
         /\ FromOf(log) <= EndOf(log)
<1> DEFINE C == CommitsOf(log)
<1>1. C \subseteq 1 .. Len(log) /\ Len(log) \in Nat
  BY DEF CommitsOf
<1>2. /\ EndOf(log) \in C \cup {0} /\ EndOf(log) \in 0 .. Len(log)
      /\ \A i \in C : i <= EndOf(log)
  <2>1. C \cup {0} \in SUBSET (0 .. Len(log)) /\ C \cup {0} # {}
    BY <1>1
  <2>2. Max(C \cup {0}) \in C \cup {0} /\ \A y \in C \cup {0} : Max(C \cup {0}) >= y
    BY <1>1, <2>1, MaxIs
  <2> QED
    BY <1>1, <2>1, <2>2 DEF EndOf
<1>3. ASSUME NEW i \in C
      PROVE  /\ Before(log, i) \in C \cup {0} /\ Before(log, i) \in 0 .. Len(log) /\ Before(log, i) < i
             /\ \A j \in C : j < i => j <= Before(log, i)
  <2> DEFINE S == {j \in C : j < i} \cup {0}
  <2>1. S \in SUBSET (0 .. Len(log)) /\ S # {} /\ \A j \in S : j < i /\ j \in C \cup {0}
    BY <1>1
  <2>2. Max(S) \in S /\ \A y \in S : Max(S) >= y
    BY <1>1, <2>1, MaxIs
  <2>3. Before(log, i) = Max(S)
    BY DEF Before
  <2>4. \A j \in C : j < i => j \in S
    OBVIOUS
  <2> HIDE DEF S
  <2> QED
    BY <1>1, <2>1, <2>2, <2>3, <2>4
<1>4. FromOf(log) \in C \cup {0} /\ FromOf(log) \in 0 .. Len(log) /\ FromOf(log) <= EndOf(log)
  <2>1. CASE Resets(log) = {}
    BY <1>1, <1>2, <2>1 DEF FromOf
  <2>2. CASE Resets(log) # {}
    <3>1. Resets(log) \subseteq C
      BY DEF Resets
    <3>2. Resets(log) \in SUBSET (0 .. Len(log))
      BY <1>1, <3>1
    <3>3. Max(Resets(log)) \in C
      BY <1>1, <2>2, <3>1, <3>2, MaxIs
    <3>4. FromOf(log) = Before(log, Max(Resets(log)))
      BY <2>2 DEF FromOf
    <3>5. FromOf(log) \in C \cup {0} /\ FromOf(log) \in 0 .. Len(log)
      BY <1>3, <3>3, <3>4
    <3> QED
      BY <1>2, <3>5
  <2> QED
    BY <2>1, <2>2
<1> QED
  BY <1>1, <1>2, <1>3, <1>4

\* A closed log's last commit is its last record.
LEMMA EndClosed ==
  ASSUME NEW R, NEW log \in Seq(R), Closed(log)
  PROVE  EndOf(log) = Len(log) /\ (log = <<>> \/ Len(log) \in CommitsOf(log))
<1>1. CASE log = <<>>
  <2>1. EndOf(log) \in 0 .. Len(log)
    BY CommitPlaces
  <2>2. Len(log) = 0
    BY <1>1
  <2> QED
    BY <1>1, <2>1, <2>2
<1>2. CASE log # <<>>
  <2>1. Len(log) \in 1 .. Len(log) /\ Len(log) \in Nat
    BY <1>2
  <2>2. Len(log) \in CommitsOf(log)
    BY <1>2, <2>1 DEF Closed, CommitsOf
  <2>3. EndOf(log) \in 0 .. Len(log) /\ Len(log) <= EndOf(log)
    BY <2>2, CommitPlaces
  <2> QED
    BY <2>1, <2>2, <2>3
<1> QED
  BY <1>1, <1>2

\* Nothing of a log is after its end.
LEMMA NothingAfter ==
  ASSUME NEW R, NEW log \in Seq(R)
  PROVE  /\ Numbers(log, Len(log)) = {} /\ IndexOf(log, Len(log)) = Empty
         /\ DeadOf(log, Len(log)) = Cardinality(BlocksOf(log))
<1>1. \A i \in BlocksOf(log) : ~(i > Len(log))
  BY BlocksIn
<1>2. Numbers(log, Len(log)) = {}
  BY <1>1 DEF Numbers
<1>3. IndexOf(log, Len(log)) = Empty
  BY <1>2 DEF IndexOf, Empty
<1>4. Cardinality(BlocksOf(log)) \in Nat /\ Cardinality({}) = 0
  BY BlocksIn, FS_EmptySet
<1> QED
  BY <1>2, <1>3, <1>4 DEF DeadOf

\* load reads a closed log's book.
LEMMA LoadClosed ==
  ASSUME NEW R, NEW log \in Seq(R), Closed(log)
  PROVE  Load(log) = BookOf(log, FromOf(log))
<1>1. EndOf(log) = Len(log) /\ Len(log) \in Nat
  BY EndClosed
<1>2. CASE log = <<>>
  <2>1. Len(log) = 0 /\ EndOf(log) = 0
    BY <1>1, <1>2
  <2>2. FromOf(log) = 0
    <3>1. FromOf(log) \in 0 .. Len(log)
      BY CommitPlaces
    <3> QED
      BY <2>1, <3>1
  <2>3. Load(log) = NoBook
    BY <2>1, LoadParts
  <2>4. BlocksOf(log) = {} /\ Cardinality({}) = 0 /\ DOMAIN log = {}
    BY <1>2, FS_EmptySet DEF BlocksOf
  <2>5. IndexOf(log, 0) = Empty /\ DeadOf(log, 0) = 0
    BY <2>1, <2>4, NothingAfter
  <2>6. Named("", log) = ""
    BY <2>4 DEF Named
  <2> QED
    BY <2>1, <2>2, <2>3, <2>5, <2>6 DEF BookOf, VersionAt, ResetAt, NoBook
<1>3. CASE log # <<>>
  <2> DEFINE f == FromOf(log)
             a == SubSeq(log, 1, f)
             b == SubSeq(log, f + 1, Len(log))
             start == [version |-> log[Len(log)].v, reset |-> log[Len(log)].reset, end |-> Len(log),
                       name |-> Named("", log), index |-> Empty, dead |-> Cardinality(BlocksOf(a))]
  <2>1. f \in 0 .. Len(log)
    BY CommitPlaces
  <2>2. Len(log) # 0
    BY <1>3
  <2>3. SubSeq(log, 1, Len(log)) = log
    BY SubSeqFull
  <2>4. Load(log) = Enter(start, b, f)
    BY <1>1, <2>2, <2>3, LoadParts
  <2>a. \A i \in 1 .. f : i \in 1 .. Len(log)
    BY <1>1, <2>1
  <2>b. \A i \in f + 1 .. Len(log) : i \in 1 .. Len(log)
    BY <1>1, <2>1
  <2>c. \A i \in 1 .. Len(log) : log[i] \in R
    OBVIOUS
  <2>d. f \in Int /\ f + 1 \in Int /\ Len(log) \in Int
    BY <1>1, <2>1
  <2>5. a \in Seq(R) /\ Len(a) = f
    <3>1. a \in Seq(R) /\ Len(a) = IF 1 <= f THEN f - 1 + 1 ELSE 0
      BY <2>a, <2>c, <2>d, SubSeqProperties
    <3> QED
      BY <2>1, <3>1
  <2>6. b \in Seq(R)
    BY <2>b, <2>c, <2>d, SubSeqProperties
  <2>7. a \o b = log
    <3>1. 1 \in 1 .. Len(log) + 1 /\ f \in 1 - 1 .. Len(log) /\ Len(log) \in f .. Len(log)
      BY <1>1, <2>1
    <3>2. a \o b = SubSeq(log, 1, Len(log))
      BY <3>1, ConcatAdjacentSubSeq
    <3> QED
      BY <2>3, <3>2
  <2> HIDE DEF a, b, f
  <2>8. IndexOf(a, f) = Empty /\ DeadOf(a, f) = Cardinality(BlocksOf(a))
    BY <2>5, NothingAfter
  <2>9. /\ EnteredIndex(Empty, b, f) = IndexOf(log, f)
        /\ EnteredDead(Cardinality(BlocksOf(a)), Empty, b) = DeadOf(log, f)
    <3>1. f \in 0 .. Len(a)
      BY <2>1, <2>5
    <3> QED
      BY <2>5, <2>6, <2>7, <2>8, <3>1, EnterMore
  <2>10. Enter(start, b, f) = [start EXCEPT !.index = EnteredIndex(start.index, b, f),
                                            !.dead = EnteredDead(start.dead, start.index, b)]
    <3> HIDE DEF start
    <3> QED
      BY <2>6, EnterIs
  <2> QED
    BY <2>2, <2>4, <2>9, <2>10 DEF BookOf, VersionAt, ResetAt, f
<1> QED
  BY <1>2, <1>3

-----------------------------------------------------------------------------
\* Parts of two logs that agree on them.
LEMMA SameParts ==
  ASSUME NEW R, NEW a \in Seq(R), NEW b \in Seq(R), NEW m \in Nat \ {0}, NEW n \in Nat,
         n <= Len(a), n <= Len(b), \A i \in 1 .. n : a[i] = b[i]
  PROVE  SubSeq(a, m, n) = SubSeq(b, m, n)
<1>1. \A i \in m .. n : i \in 1 .. n /\ i \in 1 .. Len(a) /\ i \in 1 .. Len(b)
  OBVIOUS
<1>2. \A i \in m .. n : a[i] \in R /\ b[i] \in R
  BY <1>1
<1>3. /\ SubSeq(a, m, n) \in Seq(R) /\ Len(SubSeq(a, m, n)) = IF m <= n THEN n - m + 1 ELSE 0
      /\ \A i \in 1 .. n - m + 1 : SubSeq(a, m, n)[i] = a[m + i - 1]
  BY <1>2, SubSeqProperties
<1>4. /\ SubSeq(b, m, n) \in Seq(R) /\ Len(SubSeq(b, m, n)) = IF m <= n THEN n - m + 1 ELSE 0
      /\ \A i \in 1 .. n - m + 1 : SubSeq(b, m, n)[i] = b[m + i - 1]
  BY <1>2, SubSeqProperties
<1>5. Len(SubSeq(a, m, n)) = Len(SubSeq(b, m, n))
  BY <1>3, <1>4
<1>6. ASSUME NEW i \in 1 .. Len(SubSeq(a, m, n)) PROVE SubSeq(a, m, n)[i] = SubSeq(b, m, n)[i]
  <2>1. m <= n
    BY <1>3
  <2>2. i \in 1 .. n - m + 1 /\ m + i - 1 \in 1 .. n
    BY <1>3, <2>1
  <2> QED
    BY <1>3, <1>4, <2>2
<1> QED
  BY <1>3, <1>4, <1>5, <1>6, SeqEqual

\* load looks at nothing after the last commit.
LEMMA LoadSame ==
  ASSUME NEW R, NEW a \in Seq(R), NEW b \in Seq(R), CommitsOf(a) = CommitsOf(b),
         \A i \in 1 .. EndOf(a) : a[i] = b[i]
  PROVE  Load(a) = Load(b)
<1> DEFINE e == EndOf(a)
           C == CommitsOf(a)
           f == FromOf(a)
<1>1. EndOf(b) = e
  BY DEF EndOf
<1>2. e \in 0 .. Len(a) /\ e \in 0 .. Len(b)
  BY <1>1, CommitPlaces
<1>3. \A i : Before(b, i) = Before(a, i)
  BY DEF Before
<1>4. \A i \in C \cup {0} : ResetAt(a, i) = ResetAt(b, i)
  <2>1. \A i \in C : i \in 1 .. Len(a) /\ i <= e
    BY CommitPlaces
  <2>2. \A i \in C : a[i] = b[i]
    BY <1>2, <2>1
  <2> QED
    BY <2>2 DEF ResetAt
<1>5. Resets(b) = Resets(a)
  <2>1. \A i \in C : Before(a, i) \in C \cup {0}
    BY CommitPlaces
  <2> QED
    BY <1>3, <1>4, <2>1 DEF Resets
<1>6. FromOf(b) = f
  BY <1>3, <1>5 DEF FromOf
<1>7. f \in 0 .. Len(a) /\ f <= e
  BY CommitPlaces
<1>8. CASE e = 0
  BY <1>1, <1>8, LoadParts
<1>9. CASE e # 0
  <2>1. e \in 1 .. e /\ e \in Nat /\ f \in Nat /\ f + 1 \in Nat \ {0} /\ e <= Len(a) /\ e <= Len(b)
        /\ f <= Len(a) /\ f <= Len(b)
    BY <1>2, <1>7, <1>9
  <2>2. \A i \in 1 .. f : i \in 1 .. e
    BY <1>2, <1>7
  <2>a. \A i \in 1 .. e : a[i] = b[i]
    OBVIOUS
  <2>b. \A i \in 1 .. f : a[i] = b[i]
    BY <2>2, <2>a
  <2>c. 1 \in Nat \ {0}
    OBVIOUS
  <2> HIDE DEF e, f
  <2>3. a[e] = b[e]
    BY <2>1, <2>a
  <2>4. SubSeq(a, 1, e) = SubSeq(b, 1, e)
    BY <2>1, <2>a, <2>c, SameParts
  <2>5. SubSeq(a, f + 1, e) = SubSeq(b, f + 1, e)
    BY <2>1, <2>a, SameParts
  <2>6. SubSeq(a, 1, f) = SubSeq(b, 1, f)
    BY <2>1, <2>b, <2>c, SameParts
  <2> QED
    BY <1>1, <1>6, <1>9, <2>3, <2>4, <2>5, <2>6, LoadParts DEF e, f
<1> QED
  BY <1>8, <1>9

\* The commits of two logs one after the other.
LEMMA CommitsConcat ==
  ASSUME NEW R, NEW a \in Seq(R), NEW b \in Seq(R)
  PROVE  /\ \A i \in 1 .. Len(a) : i \in CommitsOf(a \o b) <=> i \in CommitsOf(a)
         /\ \A i \in 1 .. Len(b) : Len(a) + i \in CommitsOf(a \o b) <=> i \in CommitsOf(b)
         /\ CommitsOf(a \o b) = CommitsOf(a) \cup {Len(a) + i : i \in CommitsOf(b)}
<1>1. /\ a \o b \in Seq(R) /\ Len(a \o b) = Len(a) + Len(b) /\ Len(a) \in Nat /\ Len(b) \in Nat
      /\ \A i \in 1 .. Len(a) : (a \o b)[i] = a[i]
      /\ \A i \in 1 .. Len(b) : (a \o b)[Len(a) + i] = b[i]
  BY BlocksConcat
<1> DEFINE c == a \o b
<1>2. DOMAIN c = 1 .. Len(a) + Len(b) /\ DOMAIN a = 1 .. Len(a) /\ DOMAIN b = 1 .. Len(b)
  BY <1>1
<1> HIDE DEF c
<1>3. \A i \in 1 .. Len(a) : i \in 1 .. Len(a) + Len(b) /\ c[i] = a[i]
  BY <1>1 DEF c
<1>4. \A i \in 1 .. Len(b) : Len(a) + i \in 1 .. Len(a) + Len(b) /\ c[Len(a) + i] = b[i]
  BY <1>1 DEF c
<1>5. \A i \in 1 .. Len(a) : i \in CommitsOf(c) <=> i \in CommitsOf(a)
  BY <1>2, <1>3 DEF CommitsOf
<1>6. \A i \in 1 .. Len(b) : Len(a) + i \in CommitsOf(c) <=> i \in CommitsOf(b)
  BY <1>2, <1>4 DEF CommitsOf
<1>7. \A j \in 1 .. Len(a) + Len(b) : j \in 1 .. Len(a) \/ \E i \in 1 .. Len(b) : j = Len(a) + i
  <2>1. ASSUME NEW j \in 1 .. Len(a) + Len(b), j \notin 1 .. Len(a)
        PROVE  j - Len(a) \in 1 .. Len(b) /\ j = Len(a) + (j - Len(a))
    BY <1>1, <2>1
  <2> QED
    BY <2>1
<1>8. /\ CommitsOf(c) \subseteq 1 .. Len(a) + Len(b)
      /\ CommitsOf(a) \subseteq 1 .. Len(a) /\ CommitsOf(b) \subseteq 1 .. Len(b)
  BY <1>2 DEF CommitsOf
<1>9. CommitsOf(c) = CommitsOf(a) \cup {Len(a) + i : i \in CommitsOf(b)}
  BY <1>5, <1>6, <1>7, <1>8
<1> QED
  BY <1>5, <1>6, <1>9 DEF c

\* A write that was cut short is not read.
LEMMA LoadTail ==
  ASSUME NEW R, NEW log \in Seq(R), NEW tail \in Seq(R), CommitsOf(tail) = {}
  PROVE  Load(log \o tail) = Load(log) /\ EndOf(log \o tail) = EndOf(log)
<1>1. CommitsOf(log \o tail) = CommitsOf(log)
  <2>1. CommitsOf(log \o tail) = CommitsOf(log) \cup {Len(log) + i : i \in CommitsOf(tail)}
    BY CommitsConcat
  <2> QED
    BY <2>1
<1>2. \A i \in 1 .. Len(log) : (log \o tail)[i] = log[i]
  BY BlocksConcat
<1>3. log \o tail \in Seq(R)
  BY BlocksConcat
<1>4. EndOf(log) \in 0 .. Len(log) /\ Len(log) \in Nat
  BY CommitPlaces
<1>5. \A i \in 1 .. EndOf(log) : log[i] = (log \o tail)[i]
  BY <1>2, <1>4
<1> QED
  BY <1>1, <1>3, <1>5, LoadSame DEF EndOf

\* load cuts a log off after its last commit, and reads the same from it again.
LEMMA LoadCut ==
  ASSUME NEW R, NEW log \in Seq(R)
  PROVE  LET cut == SubSeq(log, 1, EndOf(log))
         IN  /\ cut \in Seq(R) /\ Closed(cut) /\ Len(cut) = EndOf(log)
             /\ Load(cut) = Load(log) /\ Load(log).end = EndOf(log)
             /\ \A i \in 1 .. EndOf(log) : cut[i] = log[i]
<1> DEFINE e == EndOf(log)
           cut == SubSeq(log, 1, e)
<1>1. /\ e \in CommitsOf(log) \cup {0} /\ e \in 0 .. Len(log) /\ e \in Int /\ Len(log) \in Nat
      /\ CommitsOf(log) \subseteq 1 .. Len(log)
      /\ \A i \in CommitsOf(log) : i <= e
  BY CommitPlaces
<1>2. \A i \in 1 .. e : i \in 1 .. Len(log) /\ log[i] \in R
  BY <1>1
<1>3. cut \in Seq(R) /\ Len(cut) = e /\ \A i \in 1 .. e : cut[i] = log[i]
  <2>1. /\ cut \in Seq(R) /\ Len(cut) = IF 1 <= e THEN e - 1 + 1 ELSE 0
        /\ \A i \in 1 .. e - 1 + 1 : cut[i] = log[1 + i - 1]
    BY <1>1, <1>2, SubSeqProperties
  <2>2. \A i \in 1 .. e : i \in 1 .. e - 1 + 1 /\ 1 + i - 1 = i
    BY <1>1
  <2> QED
    BY <1>1, <2>1, <2>2
<1> HIDE DEF cut
<1>4. CommitsOf(cut) = CommitsOf(log)
  <2>1. DOMAIN cut = 1 .. e /\ DOMAIN log = 1 .. Len(log)
    BY <1>3
  <2>2. \A i \in CommitsOf(log) : i \in 1 .. e
    BY <1>1
  <2> QED
    BY <1>2, <1>3, <2>1, <2>2 DEF CommitsOf
<1>5. EndOf(cut) = e
  BY <1>4 DEF EndOf
<1>6. Load(cut) = Load(log)
  BY <1>3, <1>4, <1>5, LoadSame
<1>7. Closed(cut)
  <2>1. CASE e = 0
    BY <1>3, <2>1 DEF Closed
  <2>2. CASE e # 0
    <3>1. e \in CommitsOf(cut)
      BY <1>1, <1>4, <2>2
    <3> QED
      BY <1>3, <3>1 DEF Closed, CommitsOf
  <2> QED
    BY <2>1, <2>2
<1>8. Load(cut).end = e
  <2>1. Load(cut) = BookOf(cut, FromOf(cut))
    BY <1>3, <1>7, LoadClosed
  <2>2. BookOf(cut, FromOf(cut)).end = Len(cut)
    BY DEF BookOf
  <2> QED
    BY <1>3, <2>1, <2>2
<1> QED
  BY <1>3, <1>6, <1>7, <1>8 DEF cut

-----------------------------------------------------------------------------
\* A record added to a log.
LEMMA AppendParts ==
  ASSUME NEW R, NEW recs \in Seq(R), NEW c \in R
  PROVE  /\ Append(recs, c) \in Seq(R) /\ Len(Append(recs, c)) = Len(recs) + 1
         /\ Append(recs, c)[Len(recs) + 1] = c
         /\ \A i \in 1 .. Len(recs) : Append(recs, c)[i] = recs[i]
         /\ DOMAIN Append(recs, c) = DOMAIN recs \cup {Len(recs) + 1}
         /\ DOMAIN recs = 1 .. Len(recs) /\ Len(recs) \in Nat /\ Len(recs) + 1 \notin DOMAIN recs
<1>1. /\ Append(recs, c) \in Seq(R) /\ Len(Append(recs, c)) = Len(recs) + 1
      /\ \A i \in 1 .. Len(recs) : Append(recs, c)[i] = recs[i]
      /\ Append(recs, c)[Len(recs) + 1] = c
  BY AppendProperties
<1>2. DOMAIN recs = 1 .. Len(recs) /\ Len(recs) \in Nat /\ Len(recs) + 1 \notin 1 .. Len(recs)
  OBVIOUS
<1>3. DOMAIN Append(recs, c) = 1 .. Len(recs) + 1
  BY <1>1
<1>4. 1 .. Len(recs) + 1 = 1 .. Len(recs) \cup {Len(recs) + 1}
  BY <1>2
<1> QED
  BY <1>1, <1>2, <1>3, <1>4

\* A record that isn't a block enters nothing.
LEMMA NotEntered ==
  ASSUME NEW R, NEW recs \in Seq(R), NEW c \in R, c.kind # "block",
         NEW index, NEW dead, NEW at
  PROVE  /\ EnteredIndex(index, Append(recs, c), at) = EnteredIndex(index, recs, at)
         /\ EnteredDead(dead, index, Append(recs, c)) = EnteredDead(dead, index, recs)
<1> DEFINE l == Append(recs, c)
<1>1. /\ l[Len(recs) + 1] = c /\ DOMAIN l = DOMAIN recs \cup {Len(recs) + 1}
      /\ \A i \in DOMAIN recs : l[i] = recs[i]
      /\ Len(recs) + 1 \notin DOMAIN recs
  BY AppendParts
<1> HIDE DEF l
<1>2. BlocksOf(l) = BlocksOf(recs) /\ \A i \in BlocksOf(recs) : l[i] = recs[i]
  BY <1>1 DEF BlocksOf
<1>3. Numbers(l, 0) = Numbers(recs, 0)
  BY <1>2 DEF Numbers
<1>4. \A n : Places(l, 0, n) = Places(recs, 0, n)
  BY <1>2 DEF Places
<1>5. \A n \in Numbers(recs, 0) : l[Max(Places(recs, 0, n))] = recs[Max(Places(recs, 0, n))]
  BY <1>2, NewestIs
<1>6. EnteredIndex(index, l, at) = EnteredIndex(index, recs, at)
  BY <1>3, <1>4, <1>5 DEF EnteredIndex
<1>7. EnteredDead(dead, index, l) = EnteredDead(dead, index, recs)
  BY <1>2, <1>3 DEF EnteredDead
<1> QED
  BY <1>6, <1>7 DEF l

\* Named, by its parts.
LEMMA NamedIs ==
  ASSUME NEW name, NEW log
  PROVE  Named(name, log) = IF MetasOf(log) = {} THEN name ELSE log[Max(MetasOf(log))].name
  BY DEF Named, MetasOf

\* The last name of a log is at one of its positions.
LEMMA MetasIn ==
  ASSUME NEW R, NEW log \in Seq(R)
  PROVE  /\ MetasOf(log) \subseteq 1 .. Len(log) /\ MetasOf(log) \in SUBSET (0 .. Len(log)) /\ Len(log) \in Nat
         /\ MetasOf(log) # {} => /\ Max(MetasOf(log)) \in MetasOf(log)
                                 /\ \A i \in MetasOf(log) : Max(MetasOf(log)) >= i
<1>1. MetasOf(log) \subseteq 1 .. Len(log) /\ Len(log) \in Nat
  BY DEF MetasOf
<1>2. MetasOf(log) \in SUBSET (0 .. Len(log))
  BY <1>1
<1> QED
  BY <1>1, <1>2, MaxIs

\* A record that isn't a name gives none.
LEMMA NotNamed ==
  ASSUME NEW R, NEW recs \in Seq(R), NEW c \in R, c.kind # "meta", NEW name
  PROVE  Named(name, Append(recs, c)) = Named(name, recs)
<1> DEFINE l == Append(recs, c)
<1>1. /\ l[Len(recs) + 1] = c /\ DOMAIN l = DOMAIN recs \cup {Len(recs) + 1}
      /\ \A i \in DOMAIN recs : l[i] = recs[i]
      /\ Len(recs) + 1 \notin DOMAIN recs
  BY AppendParts
<1> HIDE DEF l
<1>2. MetasOf(l) = MetasOf(recs) /\ \A i \in MetasOf(recs) : l[i] = recs[i]
  BY <1>1 DEF MetasOf
<1>3. MetasOf(recs) # {} => l[Max(MetasOf(recs))] = recs[Max(MetasOf(recs))]
  BY <1>2, MetasIn
<1> QED
  BY <1>2, <1>3, NamedIs DEF l

\* The name after two logs is the last one's, if it has one.
LEMMA NamedConcat ==
  ASSUME NEW R, NEW a \in Seq(R), NEW b \in Seq(R), NEW name
  PROVE  Named(name, a \o b) = Named(Named(name, a), b)
<1> DEFINE c == a \o b
           k == Len(a)
<1>1. /\ c \in Seq(R) /\ Len(c) = k + Len(b) /\ k \in Nat /\ Len(b) \in Nat
      /\ \A i \in 1 .. k : c[i] = a[i]
      /\ \A i \in 1 .. Len(b) : c[k + i] = b[i]
  BY BlocksConcat
<1>2. DOMAIN c = 1 .. k + Len(b) /\ DOMAIN a = 1 .. k /\ DOMAIN b = 1 .. Len(b)
  BY <1>1
<1> HIDE DEF c, k
<1>3. \A i \in 1 .. k : i \in MetasOf(c) <=> i \in MetasOf(a)
  <2>1. \A i \in 1 .. k : i \in 1 .. k + Len(b)
    BY <1>1
  <2> QED
    BY <1>1, <1>2, <2>1 DEF MetasOf
<1>4. \A i \in 1 .. Len(b) : k + i \in MetasOf(c) <=> i \in MetasOf(b)
  <2>1. \A i \in 1 .. Len(b) : k + i \in 1 .. k + Len(b)
    BY <1>1
  <2> QED
    BY <1>1, <1>2, <2>1 DEF MetasOf
<1>5. \A j \in 1 .. k + Len(b) : j \in 1 .. k \/ \E i \in 1 .. Len(b) : j = k + i
  <2>1. ASSUME NEW j \in 1 .. k + Len(b), j \notin 1 .. k
        PROVE  j - k \in 1 .. Len(b) /\ j = k + (j - k)
    BY <1>1, <2>1
  <2> QED
    BY <2>1
<1>6. /\ MetasOf(c) \subseteq 1 .. k + Len(b) /\ MetasOf(a) \subseteq 1 .. k /\ MetasOf(b) \subseteq 1 .. Len(b)
  BY <1>2 DEF MetasOf
<1>7. CASE MetasOf(b) = {}
  <2>1. MetasOf(c) = MetasOf(a)
    BY <1>3, <1>4, <1>5, <1>6, <1>7
  <2>2. MetasOf(a) # {} => c[Max(MetasOf(a))] = a[Max(MetasOf(a))]
    BY <1>1, <1>6, MetasIn
  <2>3. Named(Named(name, a), b) = Named(name, a)
    BY <1>7, NamedIs
  <2> QED
    BY <2>1, <2>2, <2>3, NamedIs DEF c
<1>8. CASE MetasOf(b) # {}
  <2> DEFINE m == Max(MetasOf(b))
  <2>1. m \in MetasOf(b) /\ m \in 1 .. Len(b) /\ \A i \in MetasOf(b) : m >= i
    BY <1>6, <1>8, MetasIn
  <2> HIDE DEF m
  <2>2. k + m \in MetasOf(c)
    BY <1>4, <2>1
  <2>3. ASSUME NEW j \in MetasOf(c) PROVE k + m >= j
    <3>1. CASE j \in 1 .. k
      BY <1>1, <2>1, <3>1
    <3>2. ASSUME NEW i \in 1 .. Len(b), j = k + i PROVE k + m >= j
      <4>1. i \in MetasOf(b)
        BY <1>4, <3>2
      <4>2. m >= i
        BY <2>1, <4>1
      <4> QED
        BY <1>1, <2>1, <3>2, <4>2
    <3> QED
      BY <1>5, <1>6, <3>1, <3>2
  <2>4. MetasOf(c) \in SUBSET (0 .. Len(c)) /\ Len(c) \in Nat
    BY <1>1, MetasIn
  <2>5. Max(MetasOf(c)) = k + m
    BY <2>2, <2>3, <2>4, MaxOnly
  <2>6. c[k + m] = b[m]
    BY <1>1, <2>1
  <2>7. Named(name, c) = b[m].name
    BY <2>2, <2>5, <2>6, NamedIs
  <2>8. Named(Named(name, a), b) = b[m].name
    BY <1>8, NamedIs DEF m
  <2> QED
    BY <2>7, <2>8 DEF c
<1> QED
  BY <1>7, <1>8

-----------------------------------------------------------------------------
\* The last reset of a closed log to which one more commit is added: the blocks
\* before that commit are dropped if its reset is another than the last one's.
LEMMA FromAfter ==
  ASSUME NEW R, NEW log \in Seq(R), Closed(log), NEW b \in Seq(R), CommitsOf(b) = {Len(b)}
  PROVE  FromOf(log \o b) = IF b[Len(b)].reset # ResetAt(log, Len(log)) THEN Len(log) ELSE FromOf(log)
<1> DEFINE l == log \o b
           C == CommitsOf(log)
           k == Len(log)
           w == Len(log) + Len(b)
           r == b[Len(b)].reset
<1>1. /\ l \in Seq(R) /\ Len(l) = w /\ k \in Nat /\ Len(b) \in Nat
      /\ \A i \in 1 .. k : l[i] = log[i]
      /\ \A i \in 1 .. Len(b) : l[k + i] = b[i]
  BY BlocksConcat
<1>2. Len(b) \in 1 .. Len(b)
  BY DEF CommitsOf
<1>3. CommitsOf(l) = C \cup {w}
  <2>1. CommitsOf(l) = C \cup {k + i : i \in CommitsOf(b)}
    BY CommitsConcat
  <2> QED
    BY <2>1
<1>4. C \subseteq 1 .. k /\ \A i \in C : Before(log, i) \in C \cup {0}
  BY CommitPlaces
<1>5. w \in Nat /\ w > k /\ w # 0 /\ w \notin C
  BY <1>1, <1>2, <1>4
<1> HIDE DEF l, C, w, r, k
<1>6. \A i \in C : i \in Nat /\ i < w /\ i <= k
  BY <1>1, <1>4, <1>5
<1>7. ASSUME NEW i \in C PROVE Before(l, i) = Before(log, i)
  <2>1. {j \in C \cup {w} : j < i} = {j \in C : j < i}
    BY <1>5, <1>6
  <2> QED
    BY <1>3, <2>1 DEF Before, C
<1>8. EndOf(log) = k /\ k \in C \cup {0}
  BY EndClosed DEF C, k
<1>9. Before(l, w) = k
  <2>1. {j \in C \cup {w} : j < w} = C
    BY <1>5, <1>6
  <2>2. Before(l, w) = Max(C \cup {0})
    BY <1>3, <2>1 DEF Before
  <2> QED
    BY <1>8, <2>2 DEF EndOf, C
<1>10. \A i \in C \cup {0} : ResetAt(l, i) = ResetAt(log, i)
  BY <1>1, <1>4 DEF ResetAt
<1>11. ResetAt(l, w) = r
  <2>1. l[w] = b[Len(b)]
    BY <1>1, <1>2 DEF w, k
  <2> QED
    BY <1>5, <2>1 DEF ResetAt, r
<1>12. \A i \in C : i \in Resets(l) <=> i \in Resets(log)
  <2>1. \A i \in C : ResetAt(l, i) = ResetAt(log, i) /\ ResetAt(l, Before(l, i)) = ResetAt(log, Before(log, i))
    BY <1>4, <1>7, <1>10
  <2> QED
    BY <1>3, <2>1 DEF Resets, C
<1>13. w \in Resets(l) <=> r # ResetAt(log, k)
  BY <1>3, <1>8, <1>9, <1>10, <1>11 DEF Resets
<1>14. Resets(l) \subseteq C \cup {w} /\ Resets(log) \subseteq C
  BY <1>3 DEF Resets, C
<1>15. CASE r # ResetAt(log, k)
  <2>1. w \in Resets(l) /\ Resets(l) \in SUBSET (0 .. w)
    BY <1>5, <1>6, <1>13, <1>14, <1>15
  <2>2. \A y \in Resets(l) : w >= y
    BY <1>5, <1>6, <1>14
  <2>3. Max(Resets(l)) = w
    BY <1>5, <2>1, <2>2, MaxOnly
  <2> QED
    BY <1>9, <1>15, <2>1, <2>3 DEF FromOf, l, k, r
<1>16. CASE r = ResetAt(log, k)
  <2>1. Resets(l) = Resets(log)
    BY <1>12, <1>13, <1>14, <1>16
  <2>2. ASSUME Resets(log) # {} PROVE Before(l, Max(Resets(log))) = Before(log, Max(Resets(log)))
    <3>0. \A i \in 1 .. k : i \in 0 .. k
      BY <1>1
    <3>1. Resets(log) \in SUBSET (0 .. k)
      BY <1>4, <1>14, <3>0
    <3>2. Max(Resets(log)) \in Resets(log)
      BY <1>1, <2>2, <3>1, MaxIs
    <3> QED
      BY <1>7, <1>14, <3>2
  <2> QED
    BY <1>16, <2>1, <2>2 DEF FromOf, l, k, r
<1> QED
  BY <1>15, <1>16

\* The records, the log and the book after a commit to a log.
Adds(log, recs, v, replace) == CommitRecords(Load(log), recs, v, replace)
NewLog(log, recs, v, replace) == log \o Adds(log, recs, v, replace)
NewBook(log, recs, v, replace) == Committed(Load(log), recs, v, replace)

\* What load makes of the log after a commit is what commit has in memory.
LEMMA CommitLoads ==
  ASSUME NEW R, NEW log \in Seq(R), Closed(log), NEW recs \in Seq(R), CommitsOf(recs) = {},
         NEW v, NEW replace \in BOOLEAN, replace => v # Load(log).reset,
         NEW r, r = IF replace THEN v ELSE Load(log).reset, Commit(v, r) \in R
  PROVE  /\ NewLog(log, recs, v, replace) \in Seq(R) /\ Closed(NewLog(log, recs, v, replace))
         /\ Load(NewLog(log, recs, v, replace)) = NewBook(log, recs, v, replace)
<1> DEFINE book == Load(log)
           c == Commit(v, IF replace THEN v ELSE book.reset)
           b == Append(recs, c)
           new == log \o b
           f == FromOf(log)
           g == IF replace THEN Len(log) ELSE f
<1>1. /\ b \in Seq(R) /\ Len(b) = Len(recs) + 1 /\ b[Len(recs) + 1] = c /\ Len(recs) \in Nat
      /\ \A i \in DOMAIN recs : b[i] = recs[i]
      /\ DOMAIN b = DOMAIN recs \cup {Len(recs) + 1}
  BY AppendParts
<1>2. CommitRecords(book, recs, v, replace) = b
  BY DEF CommitRecords
<1>3. c.kind = "commit" /\ c.v = v /\ c.reset = IF replace THEN v ELSE book.reset
  BY DEF Commit
<1>4. book = BookOf(log, f) /\ f \in 0 .. Len(log) /\ Len(log) \in Nat
  BY LoadClosed, CommitPlaces
<1>c. c \in R
  OBVIOUS
<1>r. replace => v # book.reset
  OBVIOUS
<1> HIDE DEF book, c, f, b
<1>5. /\ book.version = VersionAt(log, Len(log)) /\ book.reset = ResetAt(log, Len(log))
      /\ book.name = Named("", log) /\ book.index = IndexOf(log, f) /\ book.dead = DeadOf(log, f)
      /\ book.end = Len(log)
  BY <1>4 DEF BookOf
<1>6. /\ new \in Seq(R) /\ Len(new) = Len(log) + Len(b)
      /\ \A i \in 1 .. Len(b) : new[Len(log) + i] = b[i]
  <2>1. b \in Seq(R)
    BY <1>1
  <2> QED
    BY <2>1, BlocksConcat
<1>7. Len(new) = Len(log) + Len(recs) + 1 /\ new[Len(new)] = c /\ Len(new) # 0
  <2>1. Len(b) \in 1 .. Len(b) /\ Len(log) + Len(b) = Len(log) + Len(recs) + 1 /\ Len(log) + Len(b) # 0
    BY <1>1, <1>4
  <2> QED
    BY <1>1, <1>6, <2>1
<1>8. Closed(new)
  BY <1>3, <1>7 DEF Closed
<1>9. CommitsOf(b) = {Len(b)}
  BY <1>1, <1>3 DEF CommitsOf
<1>10. FromOf(new) = g
  <2>1. b[Len(b)] = c
    BY <1>1
  <2>2. FromOf(new) = IF b[Len(b)].reset # ResetAt(log, Len(log)) THEN Len(log) ELSE FromOf(log)
    BY <1>1, <1>9, FromAfter
  <2>3. (c.reset # book.reset) <=> replace
    BY <1>3, <1>r
  <2> QED
    BY <1>5, <2>1, <2>2, <2>3 DEF f
<1>11. g \in 0 .. Len(log)
  BY <1>4
<1> HIDE DEF new, g
<1>12. Load(new) = BookOf(new, g)
  BY <1>6, <1>8, <1>10, LoadClosed
<1>13. /\ IndexOf(new, g) = EnteredIndex(IndexOf(log, g), recs, Len(log))
       /\ DeadOf(new, g) = EnteredDead(DeadOf(log, g), IndexOf(log, g), recs)
  <2>1. /\ EnteredIndex(IndexOf(log, g), b, Len(log)) = IndexOf(new, g)
        /\ EnteredDead(DeadOf(log, g), IndexOf(log, g), b) = DeadOf(new, g)
    BY <1>1, <1>11, EnterMore DEF new
  <2>2. c.kind # "block"
    BY <1>3
  <2> QED
    BY <1>c, <2>1, <2>2, NotEntered DEF b
<1>14. Named("", new) = Named(book.name, recs)
  <2>1. Named("", new) = Named(Named("", log), b)
    BY <1>1, NamedConcat DEF new
  <2>2. Named(book.name, b) = Named(book.name, recs)
    BY <1>c, <1>3, NotNamed DEF b
  <2> QED
    BY <1>5, <2>1, <2>2
<1>15. VersionAt(new, Len(new)) = v /\ ResetAt(new, Len(new)) = IF replace THEN v ELSE book.reset
  BY <1>3, <1>7 DEF VersionAt, ResetAt
<1> DEFINE kept == IF replace THEN DropBlocks(book) ELSE book
<1>16. /\ kept.index = IndexOf(log, g) /\ kept.dead = DeadOf(log, g)
       /\ kept.version = book.version /\ kept.reset = book.reset /\ kept.name = book.name /\ kept.end = book.end
       /\ kept = [version |-> book.version, reset |-> book.reset, name |-> book.name,
                  index |-> IndexOf(log, g), dead |-> DeadOf(log, g), end |-> book.end]
  <2>1. CASE ~replace
    BY <1>4, <1>5, <2>1 DEF g, BookOf
  <2>2. CASE replace
    <3>1. DOMAIN book.index = Numbers(log, f)
      BY <1>5 DEF IndexOf
    <3>2. Cardinality(BlocksOf(log)) \in Nat /\ Cardinality(Numbers(log, f)) \in Nat
      BY BlocksIn, NumbersIn
    <3>3. book.dead + Cardinality(DOMAIN book.index) = Cardinality(BlocksOf(log))
      <4>1. \A x, y \in Nat : (x - y) + y = x
        OBVIOUS
      <4>2. book.dead = Cardinality(BlocksOf(log)) - Cardinality(Numbers(log, f))
        BY <1>5 DEF DeadOf
      <4> QED
        BY <3>1, <3>2, <4>1, <4>2
    <3>4. IndexOf(log, g) = Empty /\ DeadOf(log, g) = Cardinality(BlocksOf(log))
      BY <2>2, NothingAfter DEF g
    <3>5. kept = [book EXCEPT !.dead = Cardinality(BlocksOf(log)), !.index = Empty]
      BY <2>2, <3>3 DEF DropBlocks
    <3>6. book = [version |-> book.version, reset |-> book.reset, name |-> book.name,
                  index |-> book.index, dead |-> book.dead, end |-> book.end]
      BY <1>4 DEF BookOf
    <3> QED
      BY <3>4, <3>5, <3>6
  <2> QED
    BY <2>1, <2>2
<1>17. Committed(book, recs, v, replace) =
         [Enter(kept, recs, book.end) EXCEPT
            !.name = Named(@, recs), !.end = @ + Len(recs) + 1, !.version = v,
            !.reset = IF replace THEN v ELSE @]
  BY DEF Committed
<1> HIDE DEF kept
<1>18. Enter(kept, recs, book.end) =
         [kept EXCEPT !.index = IndexOf(new, g), !.dead = DeadOf(new, g)]
  <2>1. Enter(kept, recs, book.end) =
          [kept EXCEPT !.index = EnteredIndex(kept.index, recs, book.end),
                       !.dead = EnteredDead(kept.dead, kept.index, recs)]
    BY EnterIs
  <2> QED
    BY <1>5, <1>13, <1>16, <2>1
<1>19. Committed(book, recs, v, replace) =
         [version |-> v, reset |-> IF replace THEN v ELSE book.reset, name |-> Named(book.name, recs),
          index |-> IndexOf(new, g), dead |-> DeadOf(new, g), end |-> Len(log) + Len(recs) + 1]
  <2> DEFINE e == Enter(kept, recs, book.end)
  <2>1. e = [version |-> book.version, reset |-> book.reset, name |-> book.name,
             index |-> IndexOf(new, g), dead |-> DeadOf(new, g), end |-> Len(log)]
    BY <1>5, <1>16, <1>18
  <2> HIDE DEF e
  <2>2. Committed(book, recs, v, replace) =
          [e EXCEPT !.name = Named(@, recs), !.end = @ + Len(recs) + 1, !.version = v,
                    !.reset = IF replace THEN v ELSE @]
    BY <1>17 DEF e
  <2> QED
    BY <2>1, <2>2
<1>20. Load(new) = Committed(book, recs, v, replace)
  BY <1>7, <1>12, <1>14, <1>15, <1>19 DEF BookOf
<1> QED
  BY <1>2, <1>6, <1>8, <1>20 DEF new, book, NewLog, NewBook, Adds

-----------------------------------------------------------------------------
\* No more blocks are superseded than there are.
LEMMA DeadIsNat ==
  ASSUME NEW R, NEW log \in Seq(R), NEW from
  PROVE  DeadOf(log, from) \in Nat
<1> DEFINE S == {j \in BlocksOf(log) : j > from}
           f == [j \in S |-> log[j].n]
<1>1. /\ IsFiniteSet(BlocksOf(log)) /\ Cardinality(BlocksOf(log)) \in Nat
      /\ Cardinality(Numbers(log, from)) \in Nat
  BY BlocksIn, NumbersIn
<1>2. IsFiniteSet(S) /\ Cardinality(S) <= Cardinality(BlocksOf(log)) /\ Cardinality(S) \in Nat
  <2>1. S \in SUBSET BlocksOf(log)
    OBVIOUS
  <2> HIDE DEF S
  <2> QED
    BY <1>1, <2>1, FS_Subset, FS_CardinalityType
<1>3. f \in Surjection(S, Numbers(log, from))
  BY DEF Surjection, Numbers
<1> HIDE DEF S, f
<1>4. Cardinality(Numbers(log, from)) <= Cardinality(S)
  BY <1>2, <1>3, FS_Surjection
<1> QED
  BY <1>1, <1>2, <1>4 DEF DeadOf

\* A finite set of block numbers can be put in order.
LEMMA OrderExists ==
  ASSUME NEW D \in SUBSET Nat, IsFiniteSet(D)
  PROVE  \E s \in [1 .. Cardinality(D) -> D] : \A i, j \in DOMAIN s : i < j => s[i] < s[j]
<1> DEFINE Ordered(E) == \E s \in [1 .. Cardinality(E) -> E] : \A i, j \in DOMAIN s : i < j => s[i] < s[j]
           Bad == {k \in Nat : \E E \in SUBSET Nat : IsFiniteSet(E) /\ Cardinality(E) = k /\ ~Ordered(E)}
<1>1. SUFFICES ASSUME Bad # {} PROVE FALSE
  <2>1. Cardinality(D) \in Nat
    BY FS_CardinalityType
  <2>2. ~Ordered(D) => Cardinality(D) \in Bad
    BY <2>1
  <2> HIDE DEF Bad
  <2> QED
    BY <1>1, <2>2
<1>2. Bad \in SUBSET Nat
  OBVIOUS
<1>3. PICK k \in Bad : \A x \in Bad : k <= x
  <2> HIDE DEF Bad
  <2> QED
    BY <1>1, <1>2, SmallestNat
<1> HIDE DEF Ordered
<1>4. PICK E \in SUBSET Nat : IsFiniteSet(E) /\ Cardinality(E) = k /\ ~Ordered(E)
  BY <1>3
<1>5. CASE E = {}
  <2>1. Cardinality(E) = 0
    BY <1>5, FS_EmptySet
  <2>2. 1 .. 0 = {}
    OBVIOUS
  <2>3. [i \in {} |-> 0] \in [1 .. Cardinality(E) -> E]
    BY <2>1, <2>2
  <2>4. \A i, j \in DOMAIN [x \in {} |-> 0] : i < j => [x \in {} |-> 0][i] < [x \in {} |-> 0][j]
    OBVIOUS
  <2> QED
    BY <1>4, <2>3, <2>4 DEF Ordered
<1>6. CASE E # {}
  <2>1. PICK w \in E : \A x \in E : w <= x
    BY <1>6, SmallestNat
  <2> DEFINE F == E \ {w}
  <2>2. IsFiniteSet(F) /\ Cardinality(F) = k - 1 /\ Cardinality(F) \in Nat
    <3>1. IsFiniteSet(F) /\ Cardinality(F) = k - 1
      BY <1>4, FS_RemoveElement
    <3> QED
      BY <3>1, FS_CardinalityType
  <2>3. k \in Nat
    BY <1>2
  <2>4. F \in SUBSET Nat
    OBVIOUS
  <2>5. Ordered(F)
    <3>1. k - 1 \notin Bad
      BY <1>3, <2>2, <2>3
    <3>2. k - 1 \in Nat
      BY <2>2
    <3> HIDE DEF F
    <3> QED
      BY <2>2, <2>4, <3>1, <3>2
  <2>6. PICK s \in [1 .. k - 1 -> F] : \A i, j \in 1 .. k - 1 : i < j => s[i] < s[j]
    BY <2>2, <2>5 DEF Ordered
  <2> DEFINE t == [i \in 1 .. k |-> IF i = 1 THEN w ELSE s[i - 1]]
  <2>7. \A i \in 1 .. k : i # 1 => i - 1 \in 1 .. k - 1
    BY <2>3
  <2>8. \A i \in 1 .. k - 1 : s[i] \in E /\ s[i] \in Nat /\ w < s[i]
    <3>1. \A x \in F : x \in E /\ x \in Nat /\ w \in Nat /\ w <= x /\ x # w
      BY <2>1
    <3>2. \A x, y \in Nat : y <= x /\ x # y => y < x
      OBVIOUS
    <3> HIDE DEF F
    <3> QED
      BY <2>6, <3>1, <3>2
  <2>9. t \in [1 .. k -> E]
    BY <2>7, <2>8
  <2>10. ASSUME NEW i \in 1 .. k, NEW j \in 1 .. k, i < j PROVE t[i] < t[j]
    <3>1. j # 1 /\ j - 1 \in 1 .. k - 1
      BY <2>3, <2>10
    <3>2. CASE i = 1
      BY <2>8, <3>1, <3>2
    <3>3. CASE i # 1
      <4>1. i - 1 \in 1 .. k - 1 /\ i - 1 < j - 1
        BY <2>3, <2>10, <3>3
      <4> QED
        BY <2>6, <3>1, <3>3, <4>1
    <3> QED
      BY <3>2, <3>3
  <2>11. DOMAIN t = 1 .. k
    OBVIOUS
  <2> HIDE DEF t
  <2> QED
    BY <1>4, <2>9, <2>10, <2>11 DEF Ordered
<1> QED
  BY <1>5, <1>6

\* The numbers in order are each there, once.
LEMMA InOrderIs ==
  ASSUME NEW D \in SUBSET Nat, IsFiniteSet(D)
  PROVE  /\ Cardinality(D) \in Nat /\ InOrder(D) \in [1 .. Cardinality(D) -> D]
         /\ \A n \in D : \E i \in 1 .. Cardinality(D) : InOrder(D)[i] = n
         /\ \A i, j \in 1 .. Cardinality(D) : InOrder(D)[i] = InOrder(D)[j] => i = j
<1> DEFINE k == Cardinality(D)
           s == InOrder(D)
<1>1. k \in Nat
  BY FS_CardinalityType
<1>2. s \in [1 .. k -> D] /\ \A i, j \in DOMAIN s : i < j => s[i] < s[j]
  BY OrderExists DEF InOrder
<1>3. DOMAIN s = 1 .. k
  BY <1>2
<1> HIDE DEF s
<1>4. ASSUME NEW i \in 1 .. k, NEW j \in 1 .. k, s[i] = s[j] PROVE i = j
  <2>1. \A x \in Nat : ~(x < x)
    OBVIOUS
  <2>2. s[i] \in Nat /\ s[j] \in Nat
    BY <1>2
  <2>3. ~(i < j) /\ ~(j < i)
    BY <1>2, <1>3, <1>4, <2>1, <2>2
  <2>4. \A a, b \in 1 .. k : ~(a < b) /\ ~(b < a) => a = b
    BY <1>1
  <2> QED
    BY <2>3, <2>4
<1>5. s \in Injection(1 .. k, D)
  BY <1>2, <1>4 DEF Injection, IsInjective
<1>6. Cardinality(1 .. k) = k
  <2>1. Cardinality(1 .. k) = IF 1 > k THEN 0 ELSE k - 1 + 1
    BY <1>1, FS_Interval
  <2> QED
    BY <1>1, <2>1
<1>7. s \in Surjection(1 .. k, D)
  BY <1>5, <1>6, FS_Injection
<1>8. \A n \in D : \E i \in 1 .. k : s[i] = n
  BY <1>7 DEF Surjection
<1> QED
  BY <1>1, <1>2, <1>4, <1>8 DEF s

\* A record has the fields of its kind.
LEMMA RecordKinds ==
  ASSUME NEW names, NEW r \in Records(names)
  PROVE  /\ r.kind \in {"block", "meta", "commit"}
         /\ r.kind = "block" => r = Block(r.n, r.v, r.d) /\ r.n \in Nat /\ r.v \in Nat /\ r.d \in Int
         /\ r.kind = "meta" => r = Meta(r.name) /\ r.name \in names
         /\ r.kind = "commit" => r = Commit(r.v, r.reset) /\ r.v \in Nat /\ r.reset \in Nat
  BY DEF Records, Block, Meta, Commit

\* Where a book of a log says a block is, the block is, of the version it says.
LEMMA BookPlaces ==
  ASSUME NEW names, NEW log \in Seq(Records(names)), NEW from, NEW n \in Numbers(log, from),
         NEW e, e = IndexOf(log, from)[n]
  PROVE  /\ e = [v |-> log[e.off].v, off |-> e.off]
         /\ e.off \in BlocksOf(log) /\ e.off \in 1 .. Len(log) /\ e.off > from
         /\ ReadAt(log, e.off) = log[e.off].d
         /\ log[e.off] = Block(n, e.v, ReadAt(log, e.off))
         /\ n \in Nat /\ e.v \in Nat /\ ReadAt(log, e.off) \in Int
<1> DEFINE m == Max(Places(log, from, n))
<1>1. m \in BlocksOf(log) /\ m \in 1 .. Len(log) /\ m > from /\ log[m].n = n
  BY NewestIs
<1>2. e = [v |-> log[m].v, off |-> m]
  BY DEF IndexOf, Place
<1> HIDE DEF m
<1>3. log[m].kind = "block" /\ m \in DOMAIN log
  BY <1>1 DEF BlocksOf
<1>4. log[m] \in Records(names)
  BY <1>1
<1>5. log[m] = Block(log[m].n, log[m].v, log[m].d) /\ log[m].n \in Nat /\ log[m].v \in Nat /\ log[m].d \in Int
  BY <1>3, <1>4, RecordKinds
<1>6. ReadAt(log, m) = log[m].d
  BY <1>3 DEF ReadAt
<1> QED
  BY <1>1, <1>2, <1>5, <1>6

\* A block, a name and a commit are records.
LEMMA RecordsHave ==
  ASSUME NEW names
  PROVE  /\ \A n \in Nat, v \in Nat, d \in Int : Block(n, v, d) \in Records(names)
         /\ \A x \in names : Meta(x) \in Records(names)
         /\ \A v \in Nat, r \in Nat : Commit(v, r) \in Records(names)
<1>1. \A n \in Nat, v \in Nat, d \in Int : Block(n, v, d) \in Records(names)
  BY DEF Records, Block, Meta, Commit
<1>2. \A x \in names : Meta(x) \in Records(names)
  <2>1. \A x \in names : Meta(x) \in {Meta(y) : y \in names}
    BY DEF Meta
  <2> QED
    BY <2>1 DEF Records
<1>3. \A v \in Nat, r \in Nat : Commit(v, r) \in Records(names)
  <2>1. \A v \in Nat, r \in Nat : Commit(v, r) \in {Commit(x, y) : x \in Nat, y \in Nat}
    BY DEF Commit
  <2> QED
    BY <2>1 DEF Records
<1> QED
  BY <1>1, <1>2, <1>3

\* The record of a name, if there is one, at the head of a compacted log.
LEMMA HeadIs ==
  ASSUME NEW R, NEW none, NEW name, name # none => Meta(name) \in R,
         NEW head, head = IF name = none THEN <<>> ELSE <<Meta(name)>>
  PROVE  /\ head \in Seq(R) /\ Len(head) \in Nat /\ \A i \in DOMAIN head : head[i] = Meta(name)
         /\ Named(none, head) = name
<1>1. CASE name = none
  <2>1. head = <<>> /\ MetasOf(head) = {}
    BY <1>1 DEF MetasOf
  <2>2. Named(none, head) = none
    BY <2>1, NamedIs
  <2> QED
    BY <1>1, <2>1, <2>2
<1>2. CASE name # none
  <2>1. head = <<Meta(name)>> /\ DOMAIN head = {1} /\ head[1] = Meta(name) /\ Meta(name) \in R
    BY <1>2
  <2>2. Meta(name).kind = "meta" /\ Meta(name).name = name
    BY DEF Meta
  <2>3. MetasOf(head) = {1}
    BY <2>1, <2>2 DEF MetasOf
  <2>4. Max({1}) = 1
    <3>1. 1 \in Nat /\ {1} \in SUBSET (0 .. 1) /\ 1 \in {1} /\ \A y \in {1} : 1 >= y
      OBVIOUS
    <3> QED
      BY <3>1, MaxOnly
  <2>5. Named(none, head) = name
    BY <2>1, <2>2, <2>3, <2>4, NamedIs
  <2>6. head \in Seq(R) /\ Len(head) \in Nat
    BY <2>1
  <2> QED
    BY <2>1, <2>5, <2>6
<1> QED
  BY <1>1, <1>2

\* A compacted log is read as the book it is given, and has the version, the
\* reset, the name and the blocks of the one before.
LEMMA CompactLoads ==
  ASSUME NEW names, NEW log \in Seq(Records(names)), Closed(log)
  PROVE  LET book == Load(log)
             new == Compacted(book, log)
         IN  /\ new.log \in Seq(Records(names)) /\ Closed(new.log)
             /\ Load(new.log) = new.book /\ new.book.end = Len(new.log)
             /\ new.book.version = book.version /\ new.book.reset = book.reset
             /\ new.book.name = book.name
             /\ DOMAIN new.book.index = DOMAIN book.index
             /\ \A n \in DOMAIN book.index :
                  /\ new.book.index[n].v = book.index[n].v
                  /\ ReadAt(new.log, new.book.index[n].off) = ReadAt(log, book.index[n].off)
<1> DEFINE R == Records(names)
           book == Load(log)
           f == FromOf(log)
           D == DOMAIN book.index
           K == Cardinality(D)
           numbers == InOrder(D)
           head == IF book.name = "" THEN <<>> ELSE <<Meta(book.name)>>
           entry(k) == book.index[numbers[k]]
           blocks == [k \in DOMAIN numbers |-> Block(numbers[k], entry(k).v, ReadAt(log, entry(k).off))]
           recs == head \o blocks
           c == Commit(book.version, book.reset)
           l == Append(recs, c)
           h == Len(head)
           start == [book EXCEPT !.index = Empty, !.dead = 0, !.end = Len(recs) + 1]
<1>1. book = BookOf(log, f) /\ f \in 0 .. Len(log) /\ Len(log) \in Nat
  BY LoadClosed, CommitPlaces
<1>2. Compacted(book, log) = [log |-> l, book |-> Enter(start, recs, 0)]
  BY DEF Compacted, CompactCommit
<1> HIDE DEF R, book, f
<1>3. /\ book.version = VersionAt(log, Len(log)) /\ book.reset = ResetAt(log, Len(log))
      /\ book.name = Named("", log) /\ book.index = IndexOf(log, f)
  BY <1>1 DEF BookOf
<1>4. D = Numbers(log, f) /\ IsFiniteSet(D)
  <2>1. D = Numbers(log, f)
    BY <1>3 DEF IndexOf
  <2> QED
    BY <2>1, NumbersIn
<1>5. \A n \in D : /\ n \in Nat
                   /\ book.index[n].off \in 1 .. Len(log)
                   /\ log[book.index[n].off] = Block(n, book.index[n].v, ReadAt(log, book.index[n].off))
  <2> SUFFICES ASSUME NEW n \in Numbers(log, f), NEW e, e = IndexOf(log, f)[n]
               PROVE  /\ n \in Nat
                      /\ e.off \in 1 .. Len(log)
                      /\ log[e.off] = Block(n, e.v, ReadAt(log, e.off))
    BY <1>3, <1>4
  <2> QED
    BY BookPlaces
<1> HIDE DEF D
<1>6. /\ K \in Nat /\ numbers \in [1 .. K -> D] /\ DOMAIN numbers = 1 .. K
      /\ \A n \in D : \E i \in 1 .. K : numbers[i] = n
      /\ \A i, j \in 1 .. K : numbers[i] = numbers[j] => i = j
  <2>1. D \in SUBSET Nat
    BY <1>5
  <2> QED
    BY <1>4, <2>1, InOrderIs
<1> HIDE DEF numbers, K
<1>7. \A k \in 1 .. K : Block(numbers[k], entry(k).v, ReadAt(log, entry(k).off)) \in R
  <2>1. \A i \in 1 .. Len(log) : log[i] \in R
    BY DEF R
  <2>2. \A k \in 1 .. K : numbers[k] \in D
    BY <1>6
  <2> QED
    BY <1>5, <2>1, <2>2
<1> HIDE DEF entry
<1>8. blocks \in Seq(R) /\ Len(blocks) = K /\ DOMAIN blocks = 1 .. K
  <2>1. blocks \in [1 .. K -> R]
    BY <1>6, <1>7
  <2> QED
    BY <1>6, <2>1
<1>9. \A k \in 1 .. K : /\ blocks[k] = Block(numbers[k], entry(k).v, ReadAt(log, entry(k).off))
                        /\ blocks[k].kind = "block" /\ blocks[k].n = numbers[k]
                        /\ blocks[k].v = entry(k).v /\ blocks[k].d = ReadAt(log, entry(k).off)
  BY <1>6 DEF Block
<1> HIDE DEF blocks
<1>a. book.name # "" => Meta(book.name) \in R
  <2>1. ASSUME NEW x, MetasOf(log) # {}, x = log[Max(MetasOf(log))].name PROVE Meta(x) \in R
    <3>2. Max(MetasOf(log)) \in MetasOf(log)
      BY <2>1, MetasIn
    <3>3. log[Max(MetasOf(log))].kind = "meta" /\ log[Max(MetasOf(log))] \in R
      BY <3>2 DEF MetasOf, R
    <3> QED
      BY <2>1, <3>3, RecordKinds DEF R
  <2>2. book.name = IF MetasOf(log) = {} THEN "" ELSE log[Max(MetasOf(log))].name
    BY <1>3, NamedIs, Zenon
  <2> QED
    BY <2>1, <2>2, Zenon
<1>b. /\ head \in Seq(R) /\ Len(head) \in Nat /\ \A i \in DOMAIN head : head[i] = Meta(book.name)
      /\ Named("", head) = book.name
  <2>1. ASSUME NEW none, book.name # none => Meta(book.name) \in R,
               head = IF book.name = none THEN <<>> ELSE <<Meta(book.name)>>
        PROVE  /\ head \in Seq(R) /\ Len(head) \in Nat /\ \A i \in DOMAIN head : head[i] = Meta(book.name)
               /\ Named(none, head) = book.name
    <3> HIDE DEF head
    <3> QED
      BY <2>1, HeadIs
  <2>2. head = IF book.name = "" THEN <<>> ELSE <<Meta(book.name)>>
    BY Zenon
  <2> HIDE DEF head
  <2> QED
    BY <1>a, <2>1, <2>2, Zenon
<1> HIDE DEF head
<1>10. head \in Seq(R) /\ h \in Nat /\ \A i \in DOMAIN head : head[i] = Meta(book.name)
  BY <1>b, Zenon
<1>13. Named("", head) = book.name
  BY <1>b, Zenon
<1>11. c \in R /\ c.kind = "commit" /\ c.v = book.version /\ c.reset = book.reset
  <2>1. c.kind = "commit" /\ c.v = book.version /\ c.reset = book.reset
    BY DEF Commit
  <2>2. CASE log = <<>>
    <3>1. book.version = 0 /\ book.reset = 0
      BY <1>3, <2>2 DEF VersionAt, ResetAt
    <3>2. Commit(0, 0) \in Records(names)
      BY RecordsHave
    <3> QED
      BY <2>1, <3>1, <3>2 DEF R
  <2>3. CASE log # <<>>
    <3>1. Len(log) \in 1 .. Len(log) /\ Len(log) # 0
      BY <2>3
    <3>2. log[Len(log)] \in R /\ log[Len(log)].kind = "commit"
      BY <2>3, <3>1 DEF R, Closed
    <3>3. book.version = log[Len(log)].v /\ book.reset = log[Len(log)].reset
      BY <1>3, <3>1 DEF VersionAt, ResetAt
    <3> QED
      BY <2>1, <3>2, <3>3, RecordKinds DEF R
  <2> QED
    BY <2>1, <2>2, <2>3
<1>12. BlocksOf(head) = {} /\ Numbers(head, 0) = {} /\ CommitsOf(head) = {}
  <2>0. Meta(book.name).kind = "meta"
    BY DEF Meta
  <2>1. \A i \in DOMAIN head : head[i].kind = "meta"
    BY <1>10, <2>0
  <2>2. BlocksOf(head) = {} /\ CommitsOf(head) = {}
    BY <2>1 DEF BlocksOf, CommitsOf
  <2> QED
    BY <2>2 DEF Numbers
<1> HIDE DEF h, c
<1>14. /\ recs \in Seq(R) /\ Len(recs) = h + K
       /\ \A k \in 1 .. K : recs[h + k] = blocks[k]
  <2>1. /\ recs \in Seq(R) /\ Len(recs) = Len(head) + Len(blocks)
        /\ \A i \in 1 .. Len(blocks) : recs[Len(head) + i] = blocks[i]
    <3>1. blocks \in Seq(R) /\ head \in Seq(R)
      BY <1>8, <1>10
    <3> QED
      BY <3>1, BlocksConcat
  <2> QED
    BY <1>8, <2>1 DEF h
<1>15. Numbers(blocks, 0) = D /\ BlocksOf(blocks) = 1 .. K /\ CommitsOf(blocks) = {}
  <2>1. BlocksOf(blocks) = 1 .. K /\ CommitsOf(blocks) = {}
    BY <1>8, <1>9 DEF BlocksOf, CommitsOf
  <2>2. \A i \in 1 .. K : i > 0
    BY <1>6
  <2>3. Numbers(blocks, 0) = {numbers[k] : k \in 1 .. K}
    BY <1>9, <2>1, <2>2 DEF Numbers
  <2>4. {numbers[k] : k \in 1 .. K} \subseteq D
    BY <1>6
  <2>5. D \subseteq {numbers[k] : k \in 1 .. K}
    BY <1>6
  <2> QED
    BY <2>1, <2>3, <2>4, <2>5
<1>16. ASSUME NEW k \in 1 .. K PROVE Max(Places(blocks, 0, numbers[k])) = k
  <2>1. Places(blocks, 0, numbers[k]) = {k}
    <3>1. \A i \in 1 .. K : i > 0
      BY <1>6
    <3> QED
      BY <1>6, <1>9, <1>15, <3>1 DEF Places
  <2>2. {k} \in SUBSET (0 .. K) /\ k \in {k} /\ \A y \in {k} : k >= y
    BY <1>6
  <2>3. Max({k}) = k
    <3> DEFINE S == {k}
    <3>1. K \in Nat /\ S \in SUBSET (0 .. K) /\ k \in S /\ \A y \in S : k >= y
      BY <1>6, <2>2
    <3> HIDE DEF S
    <3>2. Max(S) = k
      BY <3>1, MaxOnly
    <3> QED
      BY <3>2 DEF S
  <2> QED
    BY <2>1, <2>3
<1>17. Numbers(recs, 0) = D /\ \A k \in 1 .. K : Max(Places(recs, 0, numbers[k])) = h + k
  <2>1. 0 \in 0 .. Len(head)
    BY <1>10 DEF h
  <2>2. /\ Numbers(recs, 0) = Numbers(head, 0) \cup Numbers(blocks, 0)
        /\ \A n \in Numbers(blocks, 0) : Max(Places(recs, 0, n)) = Len(head) + Max(Places(blocks, 0, n))
    BY <1>8, <1>10, <2>1, NumbersConcat
  <2>3. \A k \in 1 .. K : numbers[k] \in D
    BY <1>6
  <2> QED
    BY <1>12, <1>15, <1>16, <2>2, <2>3 DEF h
<1>18. CommitsOf(recs) = {}
  <2>1. CommitsOf(recs) = CommitsOf(head) \cup {Len(head) + i : i \in CommitsOf(blocks)}
    BY <1>8, <1>10, CommitsConcat
  <2> QED
    BY <1>12, <1>15, <2>1
<1>19. Named("", recs) = book.name
  <2>1. MetasOf(blocks) = {}
    BY <1>8, <1>9 DEF MetasOf
  <2>2. Named("", recs) = Named(Named("", head), blocks)
    BY <1>8, <1>10, NamedConcat
  <2> QED
    BY <1>13, <2>1, <2>2, NamedIs, Zenon
<1> HIDE DEF recs
<1>20. /\ l \in Seq(R) /\ Len(l) = Len(recs) + 1 /\ l[Len(recs) + 1] = c /\ Len(recs) \in Nat
       /\ \A i \in 1 .. Len(recs) : l[i] = recs[i]
       /\ DOMAIN recs = 1 .. Len(recs)
       /\ DOMAIN l = DOMAIN recs \cup {Len(recs) + 1}
  BY <1>11, <1>14, AppendParts
<1>21. EnteredIndex(Empty, l, 0) = EnteredIndex(Empty, recs, 0) /\ EnteredDead(0, Empty, l) = EnteredDead(0, Empty, recs)
  <2>1. c \in R /\ c.kind # "block" /\ recs \in Seq(R)
    BY <1>11, <1>14
  <2>2. \A index, dead, at :
          /\ EnteredIndex(index, Append(recs, c), at) = EnteredIndex(index, recs, at)
          /\ EnteredDead(dead, index, Append(recs, c)) = EnteredDead(dead, index, recs)
    BY <2>1, NotEntered
  <2> QED
    BY <2>2
<1>22. Named("", l) = book.name
  BY <1>11, <1>14, <1>19, NotNamed
<1> HIDE DEF l
<1>23. CommitsOf(l) = {Len(l)}
  BY <1>11, <1>18, <1>20 DEF CommitsOf
<1>24. Closed(l) /\ Len(l) # 0
  BY <1>11, <1>20 DEF Closed
<1>25. FromOf(l) = 0
  <2>1. <<>> \in Seq(R) /\ Closed(<<>>) /\ <<>> \o l = l /\ Len(<<>>) = 0
    BY <1>20 DEF Closed
  <2>2. FromOf(<<>>) = 0
    <3>1. FromOf(<<>>) \in 0 .. Len(<<>>)
      BY <2>1, CommitPlaces
    <3> QED
      BY <2>1, <3>1
  <2>3. FromOf(<<>> \o l) = IF l[Len(l)].reset # ResetAt(<<>>, Len(<<>>)) THEN Len(<<>>) ELSE FromOf(<<>>)
    BY <1>20, <1>23, <2>1, FromAfter
  <2> QED
    BY <2>1, <2>2, <2>3
<1>26. Load(l) = BookOf(l, 0)
  BY <1>20, <1>24, <1>25, LoadClosed
<1>27. IndexOf(l, 0) = EnteredIndex(Empty, recs, 0) /\ DeadOf(l, 0) = EnteredDead(0, Empty, recs)
  <2>1. <<>> \in Seq(R) /\ <<>> \o l = l /\ Len(<<>>) = 0 /\ 0 \in 0 .. Len(<<>>)
    BY <1>20
  <2>2. BlocksOf(<<>>) = {} /\ Cardinality({}) = 0
    BY FS_EmptySet DEF BlocksOf
  <2>3. IndexOf(<<>>, 0) = Empty /\ DeadOf(<<>>, 0) = 0
    BY <2>1, <2>2, NothingAfter
  <2>4. /\ EnteredIndex(IndexOf(<<>>, 0), l, Len(<<>>)) = IndexOf(<<>> \o l, 0)
        /\ EnteredDead(DeadOf(<<>>, 0), IndexOf(<<>>, 0), l) = DeadOf(<<>> \o l, 0)
    BY <1>20, <2>1, EnterMore
  <2> QED
    BY <1>21, <2>1, <2>3, <2>4
<1>28. VersionAt(l, Len(l)) = book.version /\ ResetAt(l, Len(l)) = book.reset
  BY <1>11, <1>20, <1>24 DEF VersionAt, ResetAt
<1>29. Enter(start, recs, 0) = BookOf(l, 0)
  <2>1. start = [version |-> book.version, reset |-> book.reset, name |-> book.name,
                 index |-> Empty, dead |-> 0, end |-> Len(l)]
    <3> DEFINE b1 == [book EXCEPT !.index = Empty]
               b2 == [b1 EXCEPT !.dead = 0]
               b3 == [b2 EXCEPT !.end = Len(l)]
               ver == VersionAt(log, Len(log))
               res == ResetAt(log, Len(log))
               nam == Named("", log)
    <3>1. Len(l) = Len(recs) + 1
      BY <1>20
    <3>2. start = b3
      BY <3>1, Zenon
    <3>3. book = [version |-> ver, reset |-> res, name |-> nam,
                  index |-> IndexOf(log, f), dead |-> DeadOf(log, f), end |-> Len(log)]
      BY <1>1, Zenon DEF BookOf
    <3>4. ver = book.version /\ res = book.reset /\ nam = book.name
      BY <1>3, Zenon
    <3> HIDE DEF ver, res, nam
    <3>5. b1 = [version |-> ver, reset |-> res, name |-> nam, index |-> Empty,
                dead |-> DeadOf(log, f), end |-> Len(log)]
      BY <3>3
    <3> HIDE DEF b1
    <3>6. b2 = [version |-> ver, reset |-> res, name |-> nam, index |-> Empty, dead |-> 0, end |-> Len(log)]
      BY <3>5
    <3> HIDE DEF b2
    <3>7. b3 = [version |-> ver, reset |-> res, name |-> nam, index |-> Empty, dead |-> 0, end |-> Len(l)]
      BY <3>6
    <3> HIDE DEF b3, start
    <3> QED
      BY <3>2, <3>4, <3>7, Zenon
  <2> HIDE DEF start
  <2>2. Enter(start, recs, 0) = [start EXCEPT !.index = EnteredIndex(start.index, recs, 0),
                                              !.dead = EnteredDead(start.dead, start.index, recs)]
    <3>1. recs \in Seq(R)
      BY <1>14
    <3> HIDE DEF recs
    <3> QED
      BY <3>1, EnterIs
  <2> QED
    BY <1>22, <1>27, <1>28, <2>1, <2>2 DEF BookOf
<1>30. DOMAIN IndexOf(l, 0) = D
  BY <1>17, <1>27 DEF EnteredIndex, Empty
<1>31. ASSUME NEW n \in D
       PROVE  /\ IndexOf(l, 0)[n].v = book.index[n].v
              /\ ReadAt(l, IndexOf(l, 0)[n].off) = ReadAt(log, book.index[n].off)
  <2>1. PICK k \in 1 .. K : numbers[k] = n
    BY <1>6
  <2>2. IndexOf(l, 0)[n] = [v |-> recs[h + k].v, off |-> 0 + (h + k)]
    BY <1>17, <1>27, <2>1 DEF EnteredIndex, Empty
  <2>3. h + k \in 1 .. Len(recs) /\ 0 + (h + k) = h + k
    BY <1>6, <1>10, <1>14
  <2>4. l[h + k] = blocks[k] /\ recs[h + k] = blocks[k] /\ h + k \in DOMAIN l
    BY <1>14, <1>20, <2>3
  <2>5. entry(k) = book.index[n]
    BY <2>1 DEF entry
  <2> QED
    BY <1>9, <2>2, <2>3, <2>4, <2>5 DEF ReadAt
<1> HIDE DEF start
<1>32. /\ Load(l) = Enter(start, recs, 0) /\ Load(l).end = Len(l)
       /\ Load(l).version = book.version /\ Load(l).reset = book.reset
       /\ Load(l).name = book.name /\ Load(l).index = IndexOf(l, 0)
  <2>1. /\ BookOf(l, 0).end = Len(l) /\ BookOf(l, 0).version = VersionAt(l, Len(l))
        /\ BookOf(l, 0).reset = ResetAt(l, Len(l)) /\ BookOf(l, 0).name = Named("", l)
        /\ BookOf(l, 0).index = IndexOf(l, 0)
    BY DEF BookOf
  <2> QED
    BY <1>22, <1>26, <1>28, <1>29, <2>1
<1>33. LET new == Compacted(book, log) IN new.log = l /\ new.book = Load(l)
  BY <1>2, <1>32
<1> QED
  BY <1>20, <1>24, <1>30, <1>31, <1>32, <1>33 DEF R, D, book
=============================================================================
