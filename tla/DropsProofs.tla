----------------------------- MODULE DropsProofs -----------------------------
(***************************************************************************)
(* The drops goroutine, for any drops, games, deadlines and bounds.  Three   *)
(* results.  Every refresh with a scan leaves the list in the promised        *)
(* order: each tier is sorted, the tiers follow each other by rank, and       *)
(* filtering and stabilizing the list keep what the order promises; so does   *)
(* the game that may be kept come first.  No game known to be unconnected is  *)
(* listed between polls: the exceptions are a refused claim that has not had  *)
(* its refresh yet and a refresh without a scan, and the invariant names      *)
(* them.  Drops implements DropLife, and so announces no drop twice: the      *)
(* copies of the inventory that the claim loop goes through may be out of     *)
(* date in everything but one, a drop that was complete stays complete.       *)
(***************************************************************************)
EXTENDS Drops, WellFoundedInduction, FiniteSetTheorems, FunctionTheorems, SequenceTheorems, TLAPS

-----------------------------------------------------------------------------
(* Lists.                                                                    *)

\* A nonempty set of naturals has a least element.
LEMMA LeastNatural ==
    ASSUME NEW T, T \subseteq Nat, T # {}
    PROVE  \E x \in T : \A y \in T : x <= y
<1> DEFINE R == OpToRel(<, Nat)
<1>1. IsWellFoundedOn(R, Nat)
  BY NatLessThanWellFounded, Zenon
<1>2. PICK x \in T : \A y \in T : ~ (<<y, x>> \in R)
  BY <1>1, WFMin, Zenon
<1>3. \A y \in T : y < x => <<y, x>> \in R
  BY DEF OpToRel
<1> HIDE DEF R
<1>4. ASSUME NEW y \in T PROVE x <= y
  <2> x \in Nat /\ y \in Nat
    OBVIOUS
  <2>1. ~ (y < x)
    BY <1>2, <1>3
  <2> QED BY <2>1
<1> QED
  BY <1>4

\* One step of Only.
Taken(list, S, f, n) ==
    IF n = 0 THEN <<>>
    ELSE IF list[n] \in S THEN Append(f[n - 1], list[n]) ELSE f[n - 1]

\* What is in S of the first n elements.
UpTo(list, S, n) == CHOOSE f : f = [k \in 0..n |-> Taken(list, S, f, k)]

\* The recursion of Only defines a function.
LEMMA UpToExists ==
    ASSUME NEW list, NEW S, NEW l \in Nat
    PROVE  \E f : f = [k \in 0..l |-> Taken(list, S, f, k)]
<1> DEFINE Bad == {n \in Nat : ~ \E f : f = [k \in 0..n |-> Taken(list, S, f, k)]}
<1> SUFFICES ASSUME Bad # {} PROVE FALSE
  OBVIOUS
<1>1. PICK n \in Bad : \A k \in Bad : n <= k
  <2> HIDE DEF Bad
  <2>1. Bad \subseteq Nat
    BY DEF Bad
  <2> QED
    BY <2>1, LeastNatural
<1>2. CASE n = 0
  <2> DEFINE g == [k \in 0..0 |-> <<>>]
  <2>1. g = [k \in 0..0 |-> Taken(list, S, g, k)]
    BY DEF Taken
  <2> HIDE DEF g
  <2>2. 0 \notin Bad
    BY <2>1
  <2> QED
    BY <1>2, <2>2
<1>3. CASE n # 0
  <2>1. n - 1 \in Nat /\ n - 1 \notin Bad
    BY <1>1, <1>3
  <2>2. PICK f : f = [k \in 0..(n - 1) |-> Taken(list, S, f, k)]
    BY <2>1
  <2> DEFINE g == [k \in 0..n |-> IF k = n THEN Taken(list, S, f, n) ELSE f[k]]
  <2>3. \A k \in 0..n : g[k] = Taken(list, S, g, k)
    <3> SUFFICES ASSUME NEW k \in 0..n PROVE g[k] = Taken(list, S, g, k)
      OBVIOUS
    <3>1. Taken(list, S, g, k) = Taken(list, S, f, k)
      <4>1. k # 0 => k - 1 \in 0..n /\ k - 1 # n
        OBVIOUS
      <4>2. k # 0 => g[k - 1] = f[k - 1]
        BY <4>1
      <4> HIDE DEF g
      <4> QED
        BY <4>2 DEF Taken
    <3>2. CASE k = n
      BY <3>1, <3>2
    <3>3. CASE k # n
      <4>1. k \in 0..(n - 1)
        BY <2>1, <3>3
      <4>2. f[k] = Taken(list, S, f, k)
        BY <2>2, <4>1
      <4> QED
        BY <3>1, <3>3, <4>2
    <3> QED
      BY <3>2, <3>3
  <2>4. g = [k \in 0..n |-> g[k]]
    OBVIOUS
  <2> HIDE DEF g
  <2>5. g = [k \in 0..n |-> Taken(list, S, g, k)]
    BY <2>3, <2>4
  <2>6. n \notin Bad
    BY <2>5
  <2> QED
    BY <2>6
<1> QED
  BY <1>2, <1>3

\* Only is the last value of that function.
LEMMA OnlyUpTo ==
    ASSUME NEW T, NEW list \in Seq(T), NEW S
    PROVE  LET f == UpTo(list, S, Len(list))
           IN  /\ \A n \in 0..Len(list) : f[n] = Taken(list, S, f, n)
               /\ Only(list, S) = f[Len(list)]
<1> DEFINE f == UpTo(list, S, Len(list))
<1>1. f = [k \in 0..Len(list) |-> Taken(list, S, f, k)]
  BY UpToExists DEF UpTo
<1>2. Only(list, S) = f[Len(list)]
  BY DEF Only, UpTo, Taken
<1> QED
  BY <1>1, <1>2

\* Only keeps the order of the list, and what is in the set.
LEMMA OnlyElements ==
    ASSUME NEW T, NEW list \in Seq(T), NEW S
    PROVE  /\ Only(list, S) \in Seq(T \cap S)
           /\ Len(Only(list, S)) <= Len(list)
           /\ \E at \in [1..Len(Only(list, S)) -> 1..Len(list)] :
                 /\ \A j \in 1..Len(Only(list, S)) : Only(list, S)[j] = list[at[j]]
                 /\ \A j, k \in 1..Len(Only(list, S)) : j < k => at[j] < at[k]
<1> DEFINE n0 == Len(list)
           f == UpTo(list, S, n0)
           InStep(n) == \E at \in [1..Len(f[n]) -> 1..n] :
                           /\ \A j \in 1..Len(f[n]) : f[n][j] = list[at[j]]
                           /\ \A j, k \in 1..Len(f[n]) : j < k => at[j] < at[k]
           Good(n) == f[n] \in Seq(T \cap S) /\ Len(f[n]) <= n /\ InStep(n)
           Bad == {n \in 0..n0 : ~Good(n)}
<1>1. /\ \A n \in 0..n0 : f[n] = Taken(list, S, f, n)
      /\ Only(list, S) = f[n0] /\ n0 \in Nat
  BY OnlyUpTo
<1>2. SUFFICES ASSUME Bad # {} PROVE FALSE
  <2>1. n0 \notin Bad => Good(n0)
    BY <1>1
  <2>2. Good(n0) => /\ Only(list, S) \in Seq(T \cap S) /\ Len(Only(list, S)) <= n0
                    /\ \E at \in [1..Len(Only(list, S)) -> 1..n0] :
                          /\ \A j \in 1..Len(Only(list, S)) : Only(list, S)[j] = list[at[j]]
                          /\ \A j, k \in 1..Len(Only(list, S)) : j < k => at[j] < at[k]
    <3> DEFINE o == Only(list, S)
    <3>1. f[n0] = o
      BY <1>1
    <3> HIDE DEF f, n0, o
    <3>2. Good(n0) => /\ o \in Seq(T \cap S) /\ Len(o) <= n0
                      /\ \E at \in [1..Len(o) -> 1..n0] :
                            /\ \A j \in 1..Len(o) : o[j] = list[at[j]]
                            /\ \A j, k \in 1..Len(o) : j < k => at[j] < at[k]
      BY ONLY <3>1, Zenon
    <3> QED
      BY <3>2 DEF o
  <2> HIDE DEF f, n0, Good, Bad
  <2> QED
    BY <2>1, <2>2 DEF n0
<1> HIDE DEF f, n0
<1>3. PICK n \in Bad : \A k \in Bad : n <= k
  <2> HIDE DEF Bad
  <2>1. Bad \subseteq Nat
    BY DEF Bad
  <2> QED
    BY <1>2, <2>1, LeastNatural
<1>4. n \in 0..n0 /\ n \in Nat
  BY <1>1
<1>5. CASE n = 0
  <2>1. f[0] = <<>>
    BY <1>1, <1>4, <1>5 DEF Taken
  <2>2. f[0] \in Seq(T \cap S) /\ Len(f[0]) = 0
    BY <2>1
  <2>3. InStep(0)
    <3>1. \A j \in 1..0 : FALSE
      OBVIOUS
    <3>2. [j \in 1..0 |-> 1] \in [1..Len(f[0]) -> 1..0]
      BY <2>2, <3>1
    <3> HIDE DEF f
    <3> QED
      BY <2>2, <3>1, <3>2
  <2>4. Good(0)
    BY <2>2, <2>3
  <2> HIDE DEF Good
  <2> QED
    BY <1>5, <2>4
<1>6. CASE n # 0
  <2>1. n - 1 \in 0..n0 /\ n - 1 \notin Bad
    <3> HIDE DEF Bad
    <3> QED
      BY <1>1, <1>3, <1>4, <1>6
  <2>2. f[n - 1] \in Seq(T \cap S) /\ Len(f[n - 1]) <= n - 1 /\ InStep(n - 1)
    BY <2>1
  <2> DEFINE q == f[n - 1]
             m == Len(q)
  <2>3. PICK at \in [1..m -> 1..(n - 1)] :
            /\ \A j \in 1..m : q[j] = list[at[j]]
            /\ \A j, k \in 1..m : j < k => at[j] < at[k]
    BY <2>2
  <2>4. f[n] = IF list[n] \in S THEN Append(q, list[n]) ELSE q
    BY <1>1, <1>4, <1>6 DEF Taken
  <2>5. q \in Seq(T \cap S) /\ m \in Nat
    BY <2>2, LenProperties
  <2>50. m <= n - 1
    BY <2>2
  <2> HIDE DEF q
  <2>6. CASE list[n] \notin S
    <3>1. f[n] = q
      BY <2>4, <2>6
    <3>2. at \in [1..m -> 1..n]
      BY <1>4, <1>6, <2>3
    <3>3. Good(n)
      <4>1. Len(f[n]) <= n
        BY <1>4, <2>5, <2>50, <3>1
      <4> QED
        BY <2>3, <2>5, <3>1, <3>2, <4>1
    <3> QED
      BY <3>3
  <2>7. CASE list[n] \in S
    <3>1. list[n] \in T \cap S
      <4>1. n \in 1..Len(list)
        BY <1>4, <1>6 DEF n0
      <4> QED
        BY <2>7, <4>1, ElementOfSeq
    <3>2. /\ f[n] \in Seq(T \cap S) /\ Len(f[n]) = m + 1
          /\ \A j \in 1..m : f[n][j] = q[j]
          /\ f[n][m + 1] = list[n]
      BY <2>4, <2>5, <2>7, <3>1, AppendProperties
    <3> DEFINE to == [j \in 1..(m + 1) |-> IF j = m + 1 THEN n ELSE at[j]]
    <3> HIDE DEF m
    <3>3. \A j \in 1..m : at[j] \in 1..(n - 1)
      BY <2>3
    <3>4. \A j \in 1..(m + 1) : j # m + 1 => j \in 1..m
      BY <2>5
    <3>5. \A j \in 1..(m + 1) : to[j] \in 1..n
      BY <1>4, <1>6, <3>3, <3>4
    <3>6. to \in [1..(m + 1) -> 1..n]
      BY <3>5
    <3>7. \A j \in 1..(m + 1) : f[n][j] = list[to[j]]
      BY <2>3, <3>2, <3>4
    <3>8. \A j, k \in 1..(m + 1) : j < k => to[j] < to[k]
      <4> SUFFICES ASSUME NEW j \in 1..(m + 1), NEW k \in 1..(m + 1), j < k
                   PROVE  to[j] < to[k]
        OBVIOUS
      <4>1. j # m + 1 /\ j \in 1..m
        BY <2>5
      <4>2. CASE k = m + 1
        BY <1>4, <3>3, <4>1, <4>2
      <4>3. CASE k # m + 1
        BY <2>3, <3>4, <4>1, <4>3
      <4> QED
        BY <4>2, <4>3
    <3> HIDE DEF to
    <3>9. Good(n)
      <4>1. Len(f[n]) <= n
        BY <1>4, <2>5, <2>50, <3>2
      <4> QED
        BY <3>2, <3>6, <3>7, <3>8, <4>1
    <3> QED
      BY <3>9
  <2> QED
    BY <2>6, <2>7
<1> QED
  BY <1>5, <1>6

LEMMA MinOf ==
    ASSUME NEW M, M \subseteq Nat, M # {}
    PROVE  Min(M) \in M /\ \A k \in M : Min(M) <= k
<1>1. \E x \in M : \A y \in M : x <= y
  BY LeastNatural
<1> QED
  BY <1>1 DEF Min

\* The first place of g in a list, 0 if there is none.
LEMMA IndexInIs ==
    ASSUME NEW T, NEW list \in Seq(T), NEW g
    PROVE  LET i == IndexIn(list, g)
           IN  /\ i \in 0..Len(list)
               /\ i = 0 => \A j \in 1..Len(list) : list[j] # g
               /\ i # 0 => list[i] = g /\ \A j \in 1..Len(list) : j < i => list[j] # g
<1> DEFINE I == {j \in 1..Len(list) : list[j] = g}
<1>1. IndexIn(list, g) = IF I # {} THEN Min(I) ELSE 0
  BY DEF IndexIn, SelectInSeq
<1>2. Len(list) \in Nat /\ I \subseteq Nat
  BY LenProperties
<1>3. CASE I = {}
  BY <1>1, <1>2, <1>3
<1>4. CASE I # {}
  <2>1. Min(I) \in I /\ \A k \in I : Min(I) <= k
    <3> HIDE DEF I
    <3> QED
      BY <1>2, <1>4, MinOf
  <2> DEFINE i == Min(I)
  <2>2. i \in 1..Len(list) /\ list[i] = g
    BY <2>1
  <2>3. ASSUME NEW j \in 1..Len(list), j < i PROVE list[j] # g
    <3>1. j \notin I
      <4> HIDE DEF I
      <4> QED
        BY <1>2, <2>1, <2>2, <2>3
    <3> QED
      BY <3>1
  <2> HIDE DEF i
  <2>4. IndexIn(list, g) = i
    BY <1>1, <1>4 DEF i
  <2> QED
    BY <1>2, <2>2, <2>3, <2>4
<1> QED
  BY <1>3, <1>4

\* The same for the first element of at least some rank.
LEMMA FirstRankedIs ==
    ASSUME NEW T, NEW list \in Seq(T), NEW rank, NEW r
    PROVE  LET i == SelectInSeq(list, LAMBDA g : rank[g] >= r)
           IN  /\ i \in 0..Len(list)
               /\ i = 0 => \A j \in 1..Len(list) : ~(rank[list[j]] >= r)
               /\ i # 0 => /\ rank[list[i]] >= r
                           /\ \A j \in 1..Len(list) : j < i => ~(rank[list[j]] >= r)
<1> DEFINE I == {j \in 1..Len(list) : rank[list[j]] >= r}
           at == SelectInSeq(list, LAMBDA g : rank[g] >= r)
<1>1. at = IF I # {} THEN Min(I) ELSE 0
  BY DEF SelectInSeq
<1> HIDE DEF at
<1>2. Len(list) \in Nat /\ I \subseteq Nat
  BY LenProperties
<1>3. CASE I = {}
  <2>1. at = 0 /\ \A j \in 1..Len(list) : ~(rank[list[j]] >= r)
    BY <1>1, <1>3
  <2> QED
    BY <1>2, <2>1 DEF at
<1>4. CASE I # {}
  <2>1. Min(I) \in I /\ \A k \in I : Min(I) <= k
    <3> HIDE DEF I
    <3> QED
      BY <1>2, <1>4, MinOf
  <2>2. at = Min(I)
    BY <1>1, <1>4
  <2>3. at \in 1..Len(list) /\ rank[list[at]] >= r
    BY <2>1, <2>2
  <2>4. ASSUME NEW j \in 1..Len(list), j < at PROVE ~(rank[list[j]] >= r)
    <3>1. j \notin I
      <4> HIDE DEF I
      <4> QED
        BY <1>2, <2>1, <2>2, <2>3, <2>4
    <3> QED
      BY <3>1
  <2>5. at \in 0..Len(list) /\ at # 0
    BY <1>2, <2>3
  <2> QED
    BY <2>3, <2>4, <2>5 DEF at
<1> QED
  BY <1>3, <1>4

\* How Stabilize leaves a list: as it was, or with the farmed game moved from b to a.
Unmoved(list, rank, farmed) ==
    \A b \in 1..Len(list) :
        (list[b] = farmed /\ \A j \in 1..(b - 1) : list[j] # farmed)
            => \A j \in 1..(b - 1) : rank[list[j]] < rank[farmed]

Moved(list, rank, farmed, new, a, b) ==
    /\ a < b
    /\ list[b] = farmed /\ \A j \in 1..(b - 1) : list[j] # farmed
    /\ rank[list[a]] >= rank[farmed]
    /\ \A j \in 1..(a - 1) : rank[list[j]] < rank[farmed]
    /\ Len(new) = Len(list)
    /\ \A k \in 1..Len(list) : new[k] = IF k < a \/ k > b THEN list[k]
                                        ELSE IF k = a THEN farmed ELSE list[k - 1]

LEMMA StabilizeIs ==
    ASSUME NEW list \in Seq(Games), NEW rank \in [Games -> Nat], NEW farmed
    PROVE  LET new == Stabilize(list, rank, farmed)
           IN  /\ new \in Seq(Games)
               /\ \/ new = list /\ Unmoved(list, rank, farmed)
                  \/ \E a, b \in 1..Len(list) : Moved(list, rank, farmed, new, a, b)
<1> DEFINE n == Len(list)
           b == IndexIn(list, farmed)
           a == SelectInSeq(list, LAMBDA g : rank[g] >= rank[farmed])
           new == Stabilize(list, rank, farmed)
<1>1. /\ b \in 0..n
      /\ b = 0 => \A j \in 1..n : list[j] # farmed
      /\ b # 0 => list[b] = farmed /\ \A j \in 1..n : j < b => list[j] # farmed
  BY IndexInIs
<1>2. /\ a \in 0..n
      /\ a = 0 => \A j \in 1..n : ~(rank[list[j]] >= rank[farmed])
      /\ a # 0 => /\ rank[list[a]] >= rank[farmed]
                  /\ \A j \in 1..n : j < a => ~(rank[list[j]] >= rank[farmed])
  BY FirstRankedIs
<1>3. new = IF b = 0 \/ a >= b THEN list
            ELSE SubSeq(list, 1, a - 1) \o <<farmed>>
                   \o SubSeq(list, a, b - 1) \o SubSeq(list, b + 1, n)
  BY DEF Stabilize
<1> HIDE DEF a, b, new
<1>4. n \in Nat /\ \A j \in 1..n : list[j] \in Games
  BY LenProperties, ElementOfSeq
<1> HIDE DEF n
<1>5. CASE b = 0
  <2>1. new = list
    BY <1>3, <1>5
  <2>2. Unmoved(list, rank, farmed)
    BY <1>1, <1>5 DEF Unmoved, n
  <2> QED
    BY <2>1, <2>2 DEF new
<1>6. CASE b # 0
  <2>1. b \in 1..n /\ list[b] = farmed /\ farmed \in Games
    BY <1>1, <1>4, <1>6
  <2>2. \A j \in 1..n : rank[list[j]] \in Nat
    BY <1>4
  <2>3. rank[farmed] \in Nat
    BY <2>1
  <2>4. a \in 1..n /\ a <= b
    <3>1. rank[list[b]] >= rank[farmed]
      BY <2>1, <2>3
    <3>2. a # 0
      BY <1>2, <2>1, <3>1
    <3>3. ~(b < a)
      BY <1>2, <2>1, <3>1, <3>2
    <3> QED
      BY <1>2, <1>4, <2>1, <3>2, <3>3
  <2>5. \A j \in 1..n : j < a => rank[list[j]] < rank[farmed]
    BY <1>2, <2>2, <2>3, <2>4
  <2>6. CASE a = b
    <3>1. new = list
      BY <1>3, <1>4, <2>6, <2>1
    <3>2. Unmoved(list, rank, farmed)
      <4> SUFFICES ASSUME NEW c \in 1..n, list[c] = farmed,
                          \A j \in 1..(c - 1) : list[j] # farmed,
                          NEW j \in 1..(c - 1)
                   PROVE  rank[list[j]] < rank[farmed]
        BY DEF Unmoved, n
      <4>1. ~(b < c)
        BY <1>4, <2>1
      <4>2. j \in 1..n /\ j < a
        BY <1>4, <2>1, <2>6, <4>1
      <4> QED
        BY <2>5, <4>2
    <3> QED
      BY <3>1, <3>2 DEF new
  <2>7. CASE a # b
    <3>0. a < b /\ a \in Nat /\ b \in Nat /\ b <= n /\ a >= 1
      BY <1>4, <2>1, <2>4, <2>7
    <3> DEFINE p == SubSeq(list, 1, a - 1)
               q == SubSeq(list, a, b - 1)
               r == SubSeq(list, b + 1, n)
    <3>1. new = ((p \o <<farmed>>) \o q) \o r
      <4>1. ~(b = 0 \/ a >= b)
        BY <1>6, <3>0
      <4> QED
        BY <1>3, <4>1, Zenon
    <3>2. /\ p \in Seq(Games) /\ Len(p) = a - 1
          /\ \A i \in 1..(a - 1) : p[i] = list[i]
      <4>1. \A i \in 1..(a - 1) : list[i] \in Games
        BY <1>4, <3>0
      <4>2. /\ p \in Seq(Games) /\ Len(p) = IF 1 <= a - 1 THEN a - 1 - 1 + 1 ELSE 0
            /\ \A i \in 1..(a - 1 - 1 + 1) : p[i] = list[1 + i - 1]
        BY <3>0, <4>1, SubSeqProperties
      <4> QED
        BY <3>0, <4>2
    <3>3. /\ q \in Seq(Games) /\ Len(q) = b - a
          /\ \A i \in 1..(b - a) : q[i] = list[a + i - 1]
      <4>1. \A i \in a..(b - 1) : list[i] \in Games
        BY <1>4, <3>0
      <4>2. /\ q \in Seq(Games) /\ Len(q) = IF a <= b - 1 THEN b - 1 - a + 1 ELSE 0
            /\ \A i \in 1..(b - 1 - a + 1) : q[i] = list[a + i - 1]
        BY <3>0, <4>1, SubSeqProperties
      <4> QED
        BY <3>0, <4>2
    <3>4. /\ r \in Seq(Games) /\ Len(r) = n - b
          /\ \A i \in 1..(n - b) : r[i] = list[b + i]
      <4>1. \A i \in (b + 1)..n : list[i] \in Games
        BY <1>4, <3>0
      <4>2. /\ r \in Seq(Games) /\ Len(r) = IF b + 1 <= n THEN n - (b + 1) + 1 ELSE 0
            /\ \A i \in 1..(n - (b + 1) + 1) : r[i] = list[b + 1 + i - 1]
        BY <1>4, <3>0, <4>1, SubSeqProperties
      <4>3. n - (b + 1) + 1 = n - b /\ (IF b + 1 <= n THEN n - b ELSE 0) = n - b
        BY <1>4, <3>0
      <4>4. \A i \in 1..(n - b) : b + 1 + i - 1 = b + i
        BY <1>4, <3>0
      <4> HIDE DEF r
      <4> QED
        BY <4>2, <4>3, <4>4
    <3> HIDE DEF p, q, r
    <3> DEFINE pq == (p \o <<farmed>>) \o q
    <3>5. p \o <<farmed>> \in Seq(Games) /\ Len(p \o <<farmed>>) = a
          /\ \A i \in 1..a : (p \o <<farmed>>)[i] = IF i < a THEN list[i] ELSE farmed
      BY <2>1, <3>0, <3>2
    <3>6. /\ pq \in Seq(Games) /\ Len(pq) = b
          /\ \A i \in 1..b : pq[i] = IF i < a THEN list[i] ELSE IF i = a THEN farmed ELSE list[i - 1]
      <4> DEFINE pa == p \o <<farmed>>
      <4>1. pa \in Seq(Games) /\ Len(pa) = a
            /\ \A i \in 1..a : pa[i] = IF i < a THEN list[i] ELSE farmed
        BY <3>5
      <4>2. pq = pa \o q
        OBVIOUS
      <4> HIDE DEF pa, pq
      <4>3. pq \in Seq(Games) /\ Len(pq) = b
        <5>1. pq \in Seq(Games) /\ Len(pq) = Len(pa) + Len(q)
          BY <3>3, <4>1, <4>2, ConcatProperties
        <5> QED
          BY <3>0, <3>3, <4>1, <5>1
      <4>4. \A i \in 1..b : pq[i] = IF i <= a THEN pa[i] ELSE q[i - a]
        BY SMTT(20), <3>0, <3>3, <4>1, <4>2
      <4>5. \A i \in 1..b : i > a => i - a \in 1..(b - a) /\ a + (i - a) - 1 = i - 1
        BY <3>0
      <4>6. \A i \in 1..b : i > a => pq[i] = list[i - 1]
        BY <3>0, <3>3, <4>4, <4>5
      <4>7. \A i \in 1..b : i <= a => pq[i] = IF i < a THEN list[i] ELSE farmed
        BY <3>0, <4>1, <4>4
      <4> QED
        BY <3>0, <4>3, <4>6, <4>7
    <3> HIDE DEF pq
    <3>7. new = pq \o r
      BY <3>1 DEF pq
    <3>80. new \in Seq(Games) /\ Len(new) = Len(pq) + Len(r)
      BY <3>4, <3>6, <3>7, ConcatProperties
    <3>8. new \in Seq(Games) /\ Len(new) = n
      BY <1>4, <3>0, <3>4, <3>6, <3>80
    <3>90. pq \in Seq(Games) /\ r \in Seq(Games)
      BY <3>4, <3>6
    <3>91. \A k \in 1..(Len(pq) + Len(r)) :
               new[k] = IF k <= Len(pq) THEN pq[k] ELSE r[k - Len(pq)]
      BY ONLY <3>7, <3>90
    <3>9. \A k \in 1..n : new[k] = IF k <= b THEN pq[k] ELSE r[k - b]
      <4>1. Len(pq) = b /\ Len(pq) + Len(r) = n
        BY <1>4, <3>0, <3>4, <3>6
      <4> QED
        BY <3>91, <4>1
    <3>10. \A k \in 1..n : k > b => k - b \in 1..(n - b) /\ b + (k - b) = k
      BY <1>4, <3>0
    <3>11. \A k \in 1..n : k > b => new[k] = list[k]
      BY <1>4, <3>0, <3>4, <3>9, <3>10
    <3>12. \A k \in 1..n : k <= b =>
               new[k] = IF k < a THEN list[k] ELSE IF k = a THEN farmed ELSE list[k - 1]
      BY <3>0, <3>6, <3>9
    <3>13. \A k \in 1..n : new[k] = IF k < a \/ k > b THEN list[k]
                                    ELSE IF k = a THEN farmed ELSE list[k - 1]
      BY <3>0, <3>11, <3>12
    <3>14. \A j \in 1..(b - 1) : list[j] # farmed
      BY <1>1, <1>4, <1>6, <3>0
    <3>15. \A j \in 1..(a - 1) : rank[list[j]] < rank[farmed]
      BY <1>4, <2>5, <3>0
    <3>16. rank[list[a]] >= rank[farmed]
      BY <1>2, <2>4
    <3>17. Moved(list, rank, farmed, new, a, b)
      BY <2>1, <3>0, <3>8, <3>13, <3>14, <3>15, <3>16 DEF Moved, n
    <3>18. a \in 1..Len(list) /\ b \in 1..Len(list)
      BY <2>1, <2>4 DEF n
    <3> QED
      BY <3>8, <3>17, <3>18 DEF new
  <2> QED
    BY <2>6, <2>7
<1> QED
  BY <1>5, <1>6

-----------------------------------------------------------------------------
(* Sorting.                                                                  *)

LEMMA ImageFinite ==
    ASSUME NEW S, IsFiniteSet(S), NEW f
    PROVE  IsFiniteSet({f[x] : x \in S})
<1> DEFINE T == {f[x] : x \in S}
           g == [x \in S |-> f[x]]
<1>1. g \in [S -> T] /\ \A t \in T : \E x \in S : g[x] = t
  OBVIOUS
<1>2. g \in Surjection(S, T)
  BY <1>1, Fun_IsSurj
<1> QED
  BY <1>2, FS_Surjection

\* A list has finitely many elements.
LEMMA ToSetFinite ==
    ASSUME NEW T, NEW list \in Seq(T)
    PROVE  IsFiniteSet(ToSet(list)) /\ ToSet(list) \subseteq T
<1>1. DOMAIN list = 1..Len(list) /\ Len(list) \in Nat
  BY LenProperties
<1>2. IsFiniteSet(DOMAIN list)
  BY <1>1, FS_Interval
<1>3. ToSet(list) = {list[i] : i \in DOMAIN list}
  BY DEF ToSet
<1>4. \A i \in DOMAIN list : list[i] \in T
  BY <1>1, ElementOfSeq
<1> QED
  BY <1>2, <1>3, <1>4, ImageFinite

\* A finite set of integers has a least element.
LEMMA LeastInteger ==
    ASSUME NEW M \in SUBSET Int, IsFiniteSet(M), M # {}
    PROVE  Min(M) \in M /\ \A k \in M : Min(M) <= k
<1> DEFINE Bounded(N) == \E m \in N : \A k \in N : m <= k
           Bad == {n \in Nat : \E N \in SUBSET Int :
                      IsFiniteSet(N) /\ N # {} /\ Cardinality(N) = n /\ ~Bounded(N)}
<1>1. Bounded(M) => Min(M) \in M /\ \A k \in M : Min(M) <= k
  BY DEF Min
<1>2. ~Bounded(M) => Bad # {}
  BY FS_CardinalityType
<1>3. ASSUME Bad # {} PROVE FALSE
  <2>1. PICK n \in Bad : \A k \in Bad : n <= k
    <3>1. Bad \subseteq Nat
      OBVIOUS
    <3> HIDE DEF Bad
    <3> QED
      BY <1>3, <3>1, LeastNatural
  <2>2. PICK N \in SUBSET Int : IsFiniteSet(N) /\ N # {} /\ Cardinality(N) = n /\ ~Bounded(N)
    BY <2>1
  <2>3. PICK x \in N : TRUE
    BY <2>2
  <2> DEFINE K == N \ {x}
  <2>4. IsFiniteSet(K) /\ Cardinality(K) = n - 1 /\ K \in SUBSET Int
    BY <2>2, <2>3, FS_RemoveElement
  <2>5. K # {}
    <3>1. K = {} => \A k \in N : k = x
      OBVIOUS
    <3>2. K = {} => \A k \in N : x <= k
      BY <2>2, <2>3, <3>1
    <3> QED
      BY <2>2, <2>3, <3>2
  <2>6. n - 1 \in Nat
    BY <2>4, FS_CardinalityType
  <2>7. n - 1 \notin Bad
    <3>1. n \in Nat
      BY <2>1
    <3> HIDE DEF Bad
    <3> QED
      BY <2>1, <2>6, <3>1
  <2>8. Bounded(K)
    BY <2>4, <2>5, <2>6, <2>7
  <2>9. PICK m \in K : \A k \in K : m <= k
    BY <2>8
  <2>10. m \in Int /\ x \in Int /\ m \in N
    BY <2>2, <2>3
  <2>11. CASE m <= x
    <3>1. \A k \in N : m <= k
      BY <2>9, <2>11
    <3> QED
      BY <2>2, <2>10, <3>1
  <2>12. CASE ~(m <= x)
    <3>1. \A k \in N : x <= k
      BY <2>2, <2>9, <2>10, <2>12
    <3> QED
      BY <2>2, <2>3, <3>1
  <2> QED
    BY <2>11, <2>12
<1> HIDE DEF Bad, Bounded
<1> QED
  BY <1>1, <1>2, <1>3

\* InOrder lists a finite set, each member after those ahead of it, if of any two
\* exactly one is ahead and whoever is ahead of it is ahead of the other.
LEMMA InOrderIs ==
    ASSUME NEW S, IsFiniteSet(S), NEW ahead \in [S -> SUBSET S],
           \A x \in S : x \notin ahead[x],
           \A x, y \in S : x # y => x \in ahead[y] \/ y \in ahead[x],
           \A x, y \in S : x \in ahead[y] => ahead[x] \subseteq ahead[y]
    PROVE  LET list == InOrder(S, ahead)
           IN  /\ list \in Seq(S)
               /\ \A i, j \in 1..Len(list) : i < j => list[i] \in ahead[list[j]]
<1> DEFINE n == Cardinality(S)
           place == [x \in S |-> Cardinality(ahead[x])]
           list == InOrder(S, ahead)
<1>1. n \in Nat
  BY FS_CardinalityType
<1>2. \A x \in S : IsFiniteSet(ahead[x]) /\ place[x] \in Nat
  BY FS_Subset, FS_CardinalityType
<1>3. ASSUME NEW x \in S, NEW y \in S, x \in ahead[y] PROVE place[x] < place[y]
  <2>1. IsFiniteSet(ahead[y]) /\ ahead[x] \in SUBSET ahead[y]
    BY <1>2, <1>3
  <2>2. place[x] <= place[y] /\ (place[y] = place[x] => ahead[y] = ahead[x])
    BY <2>1, FS_Subset
  <2>3. place[x] # place[y]
    BY <1>3, <2>2
  <2> HIDE DEF place
  <2> QED
    BY <1>2, <2>2, <2>3
<1>4. \A x \in S : place[x] \in 0..(n - 1)
  <2> SUFFICES ASSUME NEW x \in S PROVE place[x] \in 0..(n - 1)
    OBVIOUS
  <2>1. ahead[x] \in SUBSET S /\ x \notin ahead[x]
    OBVIOUS
  <2>2. place[x] <= n /\ (n = place[x] => S = ahead[x])
    BY <2>1, FS_Subset
  <2>3. place[x] # n
    BY <2>1, <2>2
  <2> HIDE DEF place, n
  <2> QED
    BY <1>1, <1>2, <2>2, <2>3
<1>5. place \in Injection(S, 0..(n - 1))
  <2>1. \A x, y \in S : place[x] = place[y] => x = y
    <3> SUFFICES ASSUME NEW x \in S, NEW y \in S, x # y PROVE place[x] # place[y]
      OBVIOUS
    <3>1. place[x] < place[y] \/ place[y] < place[x]
      BY <1>3
    <3> HIDE DEF place
    <3> QED
      BY <1>2, <3>1
  <2>2. place \in [S -> 0..(n - 1)]
    BY <1>4
  <2> HIDE DEF place
  <2> QED
    BY <2>1, <2>2, Fun_IsInj
<1>6. IsFiniteSet(0..(n - 1)) /\ Cardinality(0..(n - 1)) = n
  <2>1. 0 \in Int /\ n - 1 \in Int
    BY <1>1
  <2>2. /\ IsFiniteSet(0..(n - 1))
        /\ Cardinality(0..(n - 1)) = IF 0 > n - 1 THEN 0 ELSE n - 1 - 0 + 1
    BY <2>1, FS_Interval
  <2> HIDE DEF n
  <2> QED
    BY <1>1, <2>2
<1>7. place \in Surjection(S, 0..(n - 1))
  <2>1. Cardinality(S) = Cardinality(0..(n - 1))
    BY <1>6
  <2> HIDE DEF place, n
  <2> QED
    BY <1>5, <1>6, <2>1, FS_Injection
<1>8. \A k \in 1..n : \E x \in S : place[x] = k - 1
  <2>1. \A p \in 0..(n - 1) : \E x \in S : place[x] = p
    <3> DEFINE P == 0..(n - 1)
    <3>1. place \in Surjection(S, P)
      BY <1>7
    <3> HIDE DEF place, n, P
    <3>2. \A p \in P : \E x \in S : place[x] = p
      BY <3>1, Fun_SurjectionProperties
    <3> QED
      BY <3>2 DEF P
  <2>2. \A k \in 1..n : k - 1 \in 0..(n - 1)
    BY <1>1
  <2> HIDE DEF place, n
  <2> QED
    BY <2>1, <2>2
<1>9. list = [k \in 1..n |-> CHOOSE x \in S : Cardinality(ahead[x]) = k - 1]
  BY DEF InOrder
<1>10. \A k \in 1..n : list[k] \in S /\ place[list[k]] = k - 1
  <2> SUFFICES ASSUME NEW k \in 1..n PROVE list[k] \in S /\ place[list[k]] = k - 1
    OBVIOUS
  <2>1. \E x \in S : Cardinality(ahead[x]) = k - 1
    BY <1>8
  <2>2. list[k] = CHOOSE x \in S : Cardinality(ahead[x]) = k - 1
    BY <1>9
  <2>3. list[k] \in S /\ Cardinality(ahead[list[k]]) = k - 1
    BY <2>1, <2>2
  <2> QED
    BY <2>3
<1> HIDE DEF list, place, n
<1>11. list \in Seq(S) /\ Len(list) = n
  <2>1. list \in [1..n -> S]
    BY <1>9, <1>10
  <2> QED
    BY <1>1, <2>1
<1>12. ASSUME NEW i \in 1..n, NEW j \in 1..n, i < j PROVE list[i] \in ahead[list[j]]
  <2>1. list[i] # list[j]
    BY <1>1, <1>10, <1>12
  <2>2. list[j] \notin ahead[list[i]]
    <3>1. ~(place[list[j]] < place[list[i]])
      BY <1>1, <1>10, <1>12
    <3> QED
      BY <1>3, <1>10, <3>1
  <2> QED
    BY <1>10, <2>1, <2>2
<1> QED
  BY <1>11, <1>12 DEF list

\* A tier sorted by urgency.
LEMMA UrgencyIs ==
    ASSUME NEW S \in SUBSET Games, IsFiniteSet(S),
           NEW spares \in [Games -> SUBSET Int], \A g \in Games : IsFiniteSet(spares[g]),
           NEW met \in Seq(Games), S \subseteq ToSet(met)
    PROVE  LET list == ByUrgency(S, spares, met)
           IN  /\ list \in Seq(S)
               /\ \A i, j \in 1..Len(list) : i < j =>
                     list[i] # list[j] /\ ~MoreUrgent(spares, list[j], list[i])
<1> DEFINE U(g, h) == MoreUrgent(spares, g, h)
           at(g) == IndexIn(met, g)
           margin(g) == Min(spares[g])
           ahead == [g \in S |-> {h \in S : \/ U(h, g)
                                            \/ ~U(g, h) /\ at(h) < at(g)}]
           list == ByUrgency(S, spares, met)
<1>1. \A g \in S : spares[g] # {} => margin(g) \in Int
  <2> SUFFICES ASSUME NEW g \in S, spares[g] # {} PROVE margin(g) \in Int
    OBVIOUS
  <2>1. spares[g] \in SUBSET Int /\ IsFiniteSet(spares[g])
    OBVIOUS
  <2> QED
    BY <2>1, LeastInteger
<1>2. \A g, h \in S : U(g, h) <=> spares[g] # {} /\ (spares[h] # {} => margin(g) < margin(h))
  BY DEF MoreUrgent
<1>3. \A g \in S : at(g) \in Nat /\ at(g) \in DOMAIN met /\ met[at(g)] = g
  <2> SUFFICES ASSUME NEW g \in S PROVE at(g) \in Nat /\ at(g) \in DOMAIN met /\ met[at(g)] = g
    OBVIOUS
  <2>1. PICK i \in 1..Len(met) : met[i] = g
    BY LenProperties DEF ToSet
  <2>2. at(g) \in 0..Len(met) /\ at(g) # 0 /\ met[at(g)] = g
    BY <2>1, IndexInIs
  <2> HIDE DEF at
  <2> QED
    BY <2>2, LenProperties
<1> HIDE DEF at, margin, U
<1>4. \A g, h \in S : g # h => at(g) # at(h)
  BY <1>3
<1>5. ahead \in [S -> SUBSET S] /\ \A g, h \in S : h \in ahead[g] <=> (U(h, g) \/ (~U(g, h) /\ at(h) < at(g)))
  OBVIOUS
<1> HIDE DEF ahead
<1>6. \A x \in S : x \notin ahead[x]
  BY <1>1, <1>2, <1>3, <1>5
<1>7. \A x, y \in S : x # y => x \in ahead[y] \/ y \in ahead[x]
  BY <1>3, <1>4, <1>5
<1>8. ASSUME NEW x \in S, NEW y \in S, NEW z \in S, x \in ahead[y], z \in ahead[x]
      PROVE  z \in ahead[y]
  <2>1. /\ U(x, y) \/ (~U(y, x) /\ at(x) < at(y))
        /\ U(z, x) \/ (~U(x, z) /\ at(z) < at(x))
    BY <1>5, <1>8
  <2>2. at(x) \in Nat /\ at(y) \in Nat /\ at(z) \in Nat
    BY <1>3
  <2>3. CASE spares[x] = {}
    <3>1. U(z, x) <=> spares[z] # {}
      BY <1>2, <2>3
    <3>2. ~U(x, y) /\ ~U(x, z)
      BY <1>2, <2>3
    <3>3. spares[y] = {} /\ at(x) < at(y)
      BY <1>2, <2>1, <2>3, <3>2
    <3>4. (U(z, y) <=> spares[z] # {}) /\ ~U(y, z)
      BY <1>2, <3>3
    <3> QED
      BY <2>1, <2>2, <3>1, <3>3, <3>4, <1>5
  <2>4. CASE spares[x] # {} /\ spares[y] = {}
    <3>1. spares[z] # {}
      BY <1>2, <2>1, <2>4
    <3> QED
      BY <1>2, <1>5, <2>4, <3>1
  <2>5. CASE spares[x] # {} /\ spares[y] # {}
    <3>1. spares[z] # {}
      BY <1>2, <2>1, <2>5
    <3>2. margin(x) \in Int /\ margin(y) \in Int /\ margin(z) \in Int
      BY <1>1, <2>5, <3>1
    <3>3. /\ U(x, y) <=> margin(x) < margin(y)
          /\ U(y, x) <=> margin(y) < margin(x)
          /\ U(z, x) <=> margin(z) < margin(x)
          /\ U(x, z) <=> margin(x) < margin(z)
          /\ U(z, y) <=> margin(z) < margin(y)
          /\ U(y, z) <=> margin(y) < margin(z)
      BY <1>2, <2>5, <3>1
    <3>4. U(z, y) \/ (~U(y, z) /\ at(z) < at(y))
      BY <2>1, <2>2, <3>2, <3>3
    <3> QED
      BY <1>5, <3>4
  <2> QED
    BY <2>3, <2>4, <2>5
<1>9. \A x, y \in S : x \in ahead[y] => ahead[x] \subseteq ahead[y]
  BY <1>5, <1>8
<1>10. list = InOrder(S, ahead)
  BY DEF ByUrgency, ahead, U, at
<1>11. list \in Seq(S) /\ \A i, j \in 1..Len(list) : i < j => list[i] \in ahead[list[j]]
  BY <1>5, <1>6, <1>7, <1>9, <1>10, InOrderIs
<1>12. \A x, y \in S : x \in ahead[y] => x # y /\ ~U(y, x)
  BY <1>1, <1>2, <1>5, <1>6
<1>13. ASSUME NEW i \in 1..Len(list), NEW j \in 1..Len(list), i < j
       PROVE  list[i] # list[j] /\ ~MoreUrgent(spares, list[j], list[i])
  <2>1. list[i] \in S /\ list[j] \in S
    BY <1>11, ElementOfSeq
  <2> QED
    BY <1>11, <1>12, <1>13, <2>1 DEF U
<1> QED
  BY <1>11, <1>13

\* A tier of priority games.
LEMMA PositionIs ==
    ASSUME NEW S
    PROVE  LET list == ByPosition(S)
           IN  /\ list \in Seq(Games \cap S)
               /\ \A i \in 1..Len(list) : IsPriority(list[i])
               /\ \A i, j \in 1..Len(list) : i < j =>
                     /\ list[i] # list[j]
                     /\ IndexIn(Priority, list[i]) < IndexIn(Priority, list[j])
<1> DEFINE list == ByPosition(S)
<1>1. Priority \in Seq(Games) /\ \A k, l \in 1..Len(Priority) : Priority[k] = Priority[l] => k = l
  BY PriorityAssumption, LenProperties
<1>2. list \in Seq(Games \cap S)
  BY <1>1, OnlyElements DEF ByPosition
<1>3. PICK at \in [1..Len(list) -> 1..Len(Priority)] :
          /\ \A j \in 1..Len(list) : list[j] = Priority[at[j]]
          /\ \A j, k \in 1..Len(list) : j < k => at[j] < at[k]
  BY <1>1, OnlyElements DEF ByPosition
<1> HIDE DEF list
<1>4. \A k \in 1..Len(Priority) : IndexIn(Priority, Priority[k]) = k
  <2> SUFFICES ASSUME NEW k \in 1..Len(Priority) PROVE IndexIn(Priority, Priority[k]) = k
    OBVIOUS
  <2> DEFINE i == IndexIn(Priority, Priority[k])
  <2>1. /\ i \in 0..Len(Priority)
        /\ i = 0 => \A j \in 1..Len(Priority) : Priority[j] # Priority[k]
        /\ i # 0 => Priority[i] = Priority[k]
    BY <1>1, IndexInIs
  <2> HIDE DEF i
  <2>2. i # 0 /\ i \in 1..Len(Priority)
    BY <2>1
  <2> QED
    BY <1>1, <2>1, <2>2 DEF i
<1>5. \A i \in 1..Len(list) : at[i] \in 1..Len(Priority) /\ IndexIn(Priority, list[i]) = at[i]
  BY <1>3, <1>4
<1>6. \A i \in 1..Len(list) : IsPriority(list[i])
  <2>1. 1..Len(Priority) = DOMAIN Priority
    BY <1>1, LenProperties
  <2> QED
    BY <1>3, <1>5, <2>1 DEF IsPriority, ToSet
<1>7. ASSUME NEW i \in 1..Len(list), NEW j \in 1..Len(list), i < j
      PROVE  /\ list[i] # list[j]
             /\ IndexIn(Priority, list[i]) < IndexIn(Priority, list[j])
  <2>1. at[i] < at[j] /\ at[i] \in Int /\ at[j] \in Int
    BY <1>3, <1>5, <1>7
  <2>2. IndexIn(Priority, list[i]) < IndexIn(Priority, list[j])
    BY <1>5, <2>1
  <2>3. at[i] # at[j]
    BY <2>1
  <2> QED
    BY <1>5, <2>2, <2>3
<1> QED
  BY <1>2, <1>6, <1>7 DEF list

-----------------------------------------------------------------------------
(* Lists in order.                                                           *)

\* Every element is related to all that follow it.
Arranged(list, R) == \A i, j \in 1..Len(list) : i < j => list[j] \in R[list[i]]

\* Two lists in order are in order one after the other, if each element of the first is
\* related to each of the second.
LEMMA ArrangedConcat ==
    ASSUME NEW T, NEW p \in Seq(T), NEW q \in Seq(T), NEW R,
           Arranged(p, R), Arranged(q, R),
           \A i \in 1..Len(p), j \in 1..Len(q) : q[j] \in R[p[i]]
    PROVE  p \o q \in Seq(T) /\ Arranged(p \o q, R)
<1> DEFINE x == p \o q
           m == Len(p)
           n == Len(q)
<1>1. x \in Seq(T) /\ Len(x) = m + n
  BY ConcatProperties
<1>2. \A k \in 1..(Len(p) + Len(q)) : x[k] = IF k <= Len(p) THEN p[k] ELSE q[k - Len(p)]
  OBVIOUS
<1>3. m \in Nat /\ n \in Nat
  BY LenProperties
<1>4. \A k \in 1..(m + n) : x[k] = IF k <= m THEN p[k] ELSE q[k - m]
  BY <1>2
<1> HIDE DEF x, m, n
<1>5. \A k \in 1..(m + n) : k <= m => k \in 1..m
  BY <1>3
<1>6. \A k \in 1..(m + n) : ~(k <= m) => k - m \in 1..n
  BY <1>3
<1>7. ASSUME NEW i \in 1..(m + n), NEW j \in 1..(m + n), i < j PROVE x[j] \in R[x[i]]
  <2>1. CASE j <= m
    <3>1. i <= m /\ i \in 1..m /\ j \in 1..m
      BY <1>3, <1>5, <1>7, <2>1
    <3>2. p[j] \in R[p[i]]
      BY <1>7, <3>1 DEF Arranged, m
    <3> QED
      BY <1>4, <2>1, <3>1, <3>2
  <2>2. CASE ~(j <= m) /\ i <= m
    <3>1. i \in 1..m /\ j - m \in 1..n
      BY <1>5, <1>6, <2>2
    <3>2. q[j - m] \in R[p[i]]
      BY <3>1 DEF m, n
    <3> QED
      BY <1>4, <2>2, <3>2
  <2>3. CASE ~(j <= m) /\ ~(i <= m)
    <3>1. i - m \in 1..n /\ j - m \in 1..n /\ i - m < j - m
      BY <1>3, <1>6, <1>7, <2>3
    <3>2. q[j - m] \in R[q[i - m]]
      BY <3>1 DEF Arranged, n
    <3> QED
      BY <1>4, <2>3, <3>2
  <2> QED
    BY <2>1, <2>2, <2>3
<1>8. x \in Seq(T) /\ Arranged(x, R)
  BY <1>1, <1>7 DEF Arranged
<1> QED
  BY <1>8 DEF x

\* Leaving elements out keeps the order.
LEMMA ArrangedOnly ==
    ASSUME NEW T, NEW list \in Seq(T), NEW S, NEW R, Arranged(list, R)
    PROVE  Arranged(Only(list, S), R)
<1> DEFINE o == Only(list, S)
<1>1. PICK at \in [1..Len(o) -> 1..Len(list)] :
          /\ \A j \in 1..Len(o) : o[j] = list[at[j]]
          /\ \A j, k \in 1..Len(o) : j < k => at[j] < at[k]
  BY OnlyElements
<1> HIDE DEF o
<1>2. \A i, j \in 1..Len(o) : i < j => o[j] \in R[o[i]]
  BY <1>1 DEF Arranged
<1> QED
  BY <1>2 DEF Arranged, o

\* The order of the list once the game being farmed, farmed, is put before the others of
\* its rank, if it was in the order R of the tiers.
LEMMA StabilizedOrder ==
    ASSUME NEW list \in Seq(Games), NEW rank \in [Games -> Nat], NEW farmed,
           NEW R \in [Games -> SUBSET Games], Arranged(list, R),
           \A g, h \in Games : h \in R[g] => g # h /\ rank[g] <= rank[h],
           NEW i, NEW j,
           i \in 1..Len(Stabilize(list, rank, farmed)),
           j \in 1..Len(Stabilize(list, rank, farmed)), i < j
    PROVE  LET g == Stabilize(list, rank, farmed)[i]
               h == Stabilize(list, rank, farmed)[j]
           IN  /\ g \in Games /\ h \in Games /\ g # h
               /\ \/ rank[g] < rank[h]
                  \/ rank[g] = rank[h] /\ (g = farmed \/ (h # farmed /\ h \in R[g]))
<1> DEFINE n == Len(list)
           new == Stabilize(list, rank, farmed)
           g == new[i]
           h == new[j]
           Placed == /\ g # h
                     /\ \/ rank[g] < rank[h]
                        \/ rank[g] = rank[h] /\ (g = farmed \/ (h # farmed /\ h \in R[g]))
<1>1. /\ new \in Seq(Games)
      /\ \/ new = list /\ Unmoved(list, rank, farmed)
         \/ \E a, b \in 1..Len(list) : Moved(list, rank, farmed, new, a, b)
  BY StabilizeIs
<1> HIDE DEF new
<1>2. g \in Games /\ h \in Games
  BY <1>1, ElementOfSeq DEF new
<1>20. SUFFICES Placed
  BY <1>2 DEF new
<1>3. n \in Nat /\ \A k \in 1..n : list[k] \in Games /\ rank[list[k]] \in Nat
  BY LenProperties, ElementOfSeq
<1>4. \A k, l \in 1..n : k < l => /\ list[l] \in R[list[k]] /\ list[k] # list[l]
                                  /\ rank[list[k]] <= rank[list[l]]
  BY <1>3 DEF Arranged
<1>5. CASE new = list /\ Unmoved(list, rank, farmed)
  <2>1. i \in 1..n /\ j \in 1..n /\ g = list[i] /\ h = list[j]
    BY <1>5 DEF new
  <2>2. h = farmed => rank[g] < rank[h]
    <3> SUFFICES ASSUME h = farmed PROVE rank[g] < rank[h]
      OBVIOUS
    <3>1. \A k \in 1..(j - 1) : k \in 1..n /\ k < j
      BY <1>3, <2>1
    <3>2. \A k \in 1..(j - 1) : list[k] # farmed
      BY <1>4, <2>1, <3>1
    <3>3. i \in 1..(j - 1)
      BY <1>3, <2>1
    <3> QED
      BY <1>5, <2>1, <3>2, <3>3 DEF Unmoved
  <2> QED
    BY <1>3, <1>4, <2>1, <2>2
<1>6. CASE \E a, b \in 1..n : Moved(list, rank, farmed, new, a, b)
  <2>1. PICK a \in 1..n, b \in 1..n : Moved(list, rank, farmed, new, a, b)
    BY <1>6
  <2>2. /\ a < b /\ list[b] = farmed
        /\ rank[list[a]] >= rank[farmed]
        /\ \A k \in 1..(a - 1) : rank[list[k]] < rank[farmed]
        /\ Len(new) = n
        /\ \A k \in 1..n : new[k] = IF k < a \/ k > b THEN list[k]
                                    ELSE IF k = a THEN farmed ELSE list[k - 1]
    BY <2>1 DEF Moved
  <2>20. a \in Nat /\ b \in Nat /\ a \in 1..n /\ a <= b
    BY <1>3, <2>2
  <2>21. new[a] = farmed
    BY <2>2, <2>20
  <2>22. \A k \in 1..n : k < a \/ k > b => new[k] = list[k]
    BY <2>2
  <2>23. \A k \in 1..n : k > a /\ k <= b => new[k] = list[k - 1]
    BY <2>2, <2>20
  <2>3. i \in 1..n /\ j \in 1..n
    BY <2>2 DEF new
  <2>4. \A k \in 1..n : k # b => list[k] # farmed
    BY <1>3, <1>4, <2>2
  <2>5. CASE i = a
    <3>1. g = farmed
      BY <2>21, <2>5
    <3>2. CASE j > b
      <4>1. h = list[j]
        BY <2>22, <2>3, <3>2
      <4> QED
        BY <1>3, <1>4, <2>2, <2>3, <3>1, <3>2, <4>1
    <3>3. CASE ~(j > b)
      <4> DEFINE p == j - 1
      <4>1. p \in 1..n /\ p >= a /\ p < b /\ j > a /\ j <= b
        BY <1>3, <2>3, <2>5, <2>20, <3>3
      <4>2. h = list[p]
        BY <2>23, <2>3, <4>1
      <4> HIDE DEF p
      <4>3. h # farmed /\ rank[h] <= rank[farmed]
        BY <1>4, <2>2, <2>20, <4>1, <4>2
      <4>4. rank[list[a]] <= rank[h]
        <5>1. CASE a = p
          <6>1. rank[h] \in Nat /\ h = list[a]
            BY <1>3, <4>1, <4>2, <5>1
          <6> QED
            BY <6>1
        <5>2. CASE a < p
          <6>1. a \in 1..n /\ p \in 1..n
            BY <2>20, <4>1
          <6>2. rank[list[a]] <= rank[list[p]]
            BY <1>4, <5>2, <6>1
          <6> QED
            BY <4>2, <6>2
        <5> QED
          BY <2>20, <4>1, <5>1, <5>2
      <4>5. rank[h] \in Nat /\ rank[list[a]] \in Nat /\ rank[farmed] \in Nat
        BY <1>2, <1>3, <3>1
      <4>6. rank[h] = rank[farmed]
        BY <2>2, <4>3, <4>4, <4>5
      <4> QED
        BY <3>1, <4>3, <4>6
    <3> QED
      BY <3>2, <3>3
  <2>6. CASE j = a
    <3>1. i \in 1..(a - 1) /\ i < a
      BY <1>3, <2>3, <2>6, <2>20
    <3>2. g = list[i] /\ h = farmed
      BY <2>21, <2>22, <2>3, <2>6, <3>1
    <3>3. rank[g] < rank[h] /\ g # h
      BY <1>2, <2>2, <2>3, <2>4, <3>1, <3>2
    <3> QED
      BY <3>3
  <2>7. CASE i # a /\ j # a
    <3> DEFINE s(k) == IF k < a \/ k > b THEN k ELSE k - 1
    <3>1. \A k \in 1..n : k # a => s(k) \in 1..n /\ s(k) # b /\ new[k] = list[s(k)]
      BY <1>3, <2>2, <2>20, <2>22, <2>23
    <3>2. s(i) < s(j)
      BY <1>3, <2>2, <2>3, <2>7, <2>20, <3>1
    <3> HIDE DEF s
    <3>3. g = list[s(i)] /\ h = list[s(j)] /\ s(i) \in 1..n /\ s(j) \in 1..n /\ h # farmed
      BY <2>3, <2>4, <2>7, <3>1
    <3>4. h \in R[g] /\ g # h /\ rank[g] <= rank[h]
      BY <1>4, <3>2, <3>3
    <3>5. rank[g] \in Nat /\ rank[h] \in Nat
      BY <1>2
    <3> QED
      BY SMTT(20), <3>3, <3>4, <3>5
  <2> QED
    BY <2>5, <2>6, <2>7
<1> QED
  BY <1>1, <1>5, <1>6

\* A list of elements of S is one of elements of a larger set.
LEMMA SeqSubset ==
    ASSUME NEW S, NEW T, S \subseteq T, NEW list \in Seq(S)
    PROVE  list \in Seq(T)
<1>1. Len(list) \in Nat /\ list = [i \in 1..Len(list) |-> list[i]]
  BY LenProperties
<1>2. \A i \in 1..Len(list) : list[i] \in T
  BY ElementOfSeq
<1> QED
  BY <1>1, <1>2

\* The same for lists whose elements are known by their sets.
LEMMA ArrangedJoin ==
    ASSUME NEW S, NEW T, NEW p \in Seq(S), NEW q \in Seq(T), NEW R,
           Arranged(p, R), Arranged(q, R), \A x \in S, y \in T : y \in R[x]
    PROVE  p \o q \in Seq(S \cup T) /\ Arranged(p \o q, R)
<1>1. p \in Seq(S \cup T) /\ q \in Seq(S \cup T)
  BY SeqSubset
<1>2. \A i \in 1..Len(p), j \in 1..Len(q) : q[j] \in R[p[i]]
  BY ElementOfSeq
<1> QED
  BY <1>1, <1>2, ArrangedConcat

-----------------------------------------------------------------------------
(* What the ranking is made of.                                              *)

ScanTypes(scan) ==
    /\ scan.connected \in Seq(Games)
    /\ scan.unconnected \in Seq(Games)
    /\ scan.drops \in Seq(DropRecords(DropIds))

LEMMA LargestOfTwo ==
    ASSUME NEW x \in Int, NEW y \in Int
    PROVE  Max({x, y}) \in {x, y}
<1>1. \E m \in {x, y} : \A k \in {x, y} : m >= k
  BY DEF Max
<1> QED
  BY <1>1 DEF Max

\* The margins of a game are finitely many integers.
LEMMA SparesAre ==
    ASSUME NEW D \in SUBSET DropRecords(DropIds), IsFiniteSet(D), NEW t \in Nat, NEW g
    PROVE  Spares(D, t, g) \in SUBSET Int /\ IsFiniteSet(Spares(D, t, g))
<1> DEFINE E == {d \in D : d.game = g /\ ~d.claimed /\ d.endsAt # NoDeadline /\ d.required > 0}
           margin == [d \in E |-> d.endsAt - t - Max({d.required - d.current, 0})]
<1>1. IsFiniteSet(E)
  BY FS_Subset
<1>2. Spares(D, t, g) = {margin[d] : d \in E}
  BY DEF Spares
<1>3. ASSUME NEW d \in E PROVE margin[d] \in Int
  <2>1. d.endsAt \in Int /\ d.required \in Nat /\ d.current \in Nat
    BY DEF DropRecords, NoDeadline
  <2>2. d.required - d.current \in Int /\ 0 \in Int
    BY <2>1
  <2> DEFINE m == Max({d.required - d.current, 0})
  <2>3. m \in Int
    BY <2>2, LargestOfTwo
  <2> HIDE DEF m
  <2>4. d.endsAt - t - m \in Int
    BY <2>1, <2>3
  <2> QED
    BY <2>4 DEF m
<1> HIDE DEF E, margin
<1> QED
  BY <1>1, <1>2, <1>3, ImageFinite

LEMMA ConsideredAre ==
    ASSUME NEW list \in Seq(DropRecords(DropIds)), NEW unconnected
    PROVE  /\ Considered(list, unconnected) \in SUBSET DropRecords(DropIds)
           /\ IsFiniteSet(Considered(list, unconnected))
           /\ InProgress(list, unconnected) \in SUBSET Games
           /\ IsFiniteSet(InProgress(list, unconnected))
<1> DEFINE D == Considered(list, unconnected)
           E == {d \in D : d.earnable /\ ~d.claimed}
           game == [d \in E |-> d.game]
<1>1. IsFiniteSet(ToSet(list)) /\ ToSet(list) \subseteq DropRecords(DropIds)
  BY ToSetFinite
<1>2. D \in SUBSET DropRecords(DropIds) /\ IsFiniteSet(D)
  BY <1>1, FS_Subset DEF Considered
<1> HIDE DEF D
<1>3. IsFiniteSet(E)
  BY <1>2, FS_Subset
<1>4. \A d \in E : d.game \in Games
  BY <1>2 DEF DropRecords
<1>5. InProgress(list, unconnected) = {game[d] : d \in E}
  BY DEF InProgress, D
<1>6. IsFiniteSet({game[d] : d \in E})
  <2> HIDE DEF E, game
  <2> QED
    BY <1>3, ImageFinite
<1>7. {game[d] : d \in E} \in SUBSET Games
  BY <1>4
<1> QED
  BY <1>2, <1>5, <1>6, <1>7 DEF D

\* The games of the drops and of the campaigns are met in some order.
LEMMA MetIs ==
    ASSUME NEW list \in Seq(DropRecords(DropIds)), NEW connected \in Seq(Games), NEW unconnected
    PROVE  LET met == [i \in DOMAIN list |-> list[i].game] \o connected
           IN  /\ met \in Seq(Games)
               /\ InProgress(list, unconnected) \cup ToSet(connected) \subseteq ToSet(met)
<1> DEFINE p == [i \in DOMAIN list |-> list[i].game]
           met == p \o connected
<1>1. DOMAIN list = 1..Len(list) /\ Len(list) \in Nat
  BY LenProperties
<1>2. \A i \in DOMAIN list : list[i] \in DropRecords(DropIds) /\ list[i].game \in Games
  <2>1. \A i \in DOMAIN list : list[i] \in DropRecords(DropIds)
    BY <1>1, ElementOfSeq
  <2> QED
    BY <2>1 DEF DropRecords
<1>3. p \in Seq(Games) /\ Len(p) = Len(list)
  BY <1>1, <1>2
<1>4. \A i \in DOMAIN list : p[i] = list[i].game
  OBVIOUS
<1> HIDE DEF p
<1>5. met \in Seq(Games) /\ Len(met) = Len(p) + Len(connected)
  BY <1>3, ConcatProperties
<1>6. \A k \in 1..(Len(p) + Len(connected)) :
          met[k] = IF k <= Len(p) THEN p[k] ELSE connected[k - Len(p)]
  BY ONLY <1>3, connected \in Seq(Games)
<1>7. Len(p) \in Nat /\ Len(connected) \in Nat /\ DOMAIN connected = 1..Len(connected)
  BY <1>3, LenProperties
<1>8. DOMAIN met = 1..(Len(p) + Len(connected))
  BY <1>5, LenProperties
<1> HIDE DEF met
<1>9. ASSUME NEW i \in 1..Len(p) PROVE p[i] \in ToSet(met)
  <2>1. i \in 1..(Len(p) + Len(connected)) /\ i <= Len(p)
    BY <1>7
  <2>2. met[i] = p[i]
    BY <1>6, <2>1
  <2> QED
    BY <1>8, <2>1, <2>2 DEF ToSet
<1>10. ASSUME NEW i \in 1..Len(connected) PROVE connected[i] \in ToSet(met)
  <2> DEFINE k == Len(p) + i
  <2>1. k \in 1..(Len(p) + Len(connected)) /\ ~(k <= Len(p)) /\ k - Len(p) = i
    BY <1>7
  <2> HIDE DEF k
  <2>2. met[k] = connected[i]
    BY <1>6, <2>1
  <2> QED
    BY <1>8, <2>1, <2>2 DEF ToSet
<1>11. ToSet(connected) \subseteq ToSet(met)
  <2> SUFFICES ASSUME NEW g \in ToSet(connected) PROVE g \in ToSet(met)
    OBVIOUS
  <2>1. PICK i \in DOMAIN connected : g = connected[i]
    BY DEF ToSet
  <2> QED
    BY <1>7, <1>10, <2>1
<1>12. ASSUME NEW g \in InProgress(list, unconnected) PROVE g \in ToSet(met)
  <2>1. PICK d \in ToSet(list) : g = d.game
    BY DEF InProgress, Considered
  <2>2. PICK i \in DOMAIN list : d = list[i]
    BY <2>1 DEF ToSet
  <2>3. i \in 1..Len(p) /\ p[i] = g
    BY <1>1, <1>3, <1>4, <2>1, <2>2
  <2> QED
    BY <1>9, <2>3
<1> QED
  BY <1>5, <1>11, <1>12 DEF met, p

-----------------------------------------------------------------------------
(* The ranking.                                                              *)

\* Stabilize moves the elements of a list, and no more.
LEMMA StabilizedElements ==
    ASSUME NEW list \in Seq(Games), NEW rank \in [Games -> Nat], NEW farmed, NEW T,
           list \in Seq(T)
    PROVE  Stabilize(list, rank, farmed) \in Seq(T)
<1> DEFINE new == Stabilize(list, rank, farmed)
           n == Len(list)
<1>1. /\ new \in Seq(Games)
      /\ \/ new = list
         \/ \E a, b \in 1..n : Moved(list, rank, farmed, new, a, b)
  BY StabilizeIs
<1> HIDE DEF new
<1>2. n \in Nat /\ \A k \in 1..n : list[k] \in T
  BY LenProperties, ElementOfSeq
<1>3. CASE \E a, b \in 1..n : Moved(list, rank, farmed, new, a, b)
  <2>1. PICK a \in 1..n, b \in 1..n : Moved(list, rank, farmed, new, a, b)
    BY <1>3
  <2>2. /\ a < b /\ list[b] = farmed /\ Len(new) = n
        /\ \A k \in 1..n : new[k] = IF k < a \/ k > b THEN list[k]
                                    ELSE IF k = a THEN farmed ELSE list[k - 1]
    BY <2>1 DEF Moved
  <2>3. \A k \in 1..n : k > a /\ k <= b => k - 1 \in 1..n
    BY <1>2
  <2>4. \A k \in 1..n : \/ k < a \/ k > b
                        \/ k = a
                        \/ k > a /\ k <= b
    BY <1>2
  <2>5. farmed \in T
    BY <1>2, <2>2
  <2>6. \A k \in 1..n : new[k] \in T
    BY <1>2, <2>2, <2>3, <2>4, <2>5
  <2>7. new = [k \in 1..n |-> new[k]]
    BY <1>1, <2>2, LenProperties
  <2>8. new \in Seq(T)
    BY <1>2, <2>6, <2>7
  <2> QED
    BY <2>8 DEF new
<1> QED
  BY <1>1, <1>3 DEF new

LEMMA RanksAre ==
    ASSUME NEW inProgress
    PROVE  \A g : /\ Rank(g, inProgress) \in 0..3 /\ Rank(g, inProgress) \in Nat
                  /\ IsPriority(g) /\ g \in inProgress => Rank(g, inProgress) = 0
                  /\ IsPriority(g) /\ g \notin inProgress => Rank(g, inProgress) = 1
                  /\ ~IsPriority(g) /\ g \in inProgress => Rank(g, inProgress) = 2
                  /\ ~IsPriority(g) /\ g \notin inProgress => Rank(g, inProgress) = 3
BY DEF Rank

\* The order of the tiers: by rank, and within a rank as Ahead says.
TierOrder(rank, offered, spares) ==
    [g \in Games |-> {h \in Games :
        g # h /\ (rank[g] < rank[h] \/ (rank[g] = rank[h] /\ Ahead(g, h, offered, spares)))}]

\* A tier of priority games of one rank that are all offered, or all not.
LEMMA PriorityTier ==
    ASSUME NEW S, NEW rank, NEW offered, NEW spares,
           \A g, h \in S : IsPriority(g) /\ IsPriority(h) => rank[g] = rank[h],
           S \subseteq offered \/ S \cap offered = {}
    PROVE  /\ ByPosition(S) \in Seq({g \in Games \cap S : IsPriority(g)})
           /\ Arranged(ByPosition(S), TierOrder(rank, offered, spares))
<1> DEFINE list == ByPosition(S)
           T == {g \in Games \cap S : IsPriority(g)}
           R == TierOrder(rank, offered, spares)
<1>1. /\ list \in Seq(Games \cap S)
      /\ \A i \in 1..Len(list) : IsPriority(list[i])
      /\ \A i, j \in 1..Len(list) : i < j =>
            /\ list[i] # list[j]
            /\ IndexIn(Priority, list[i]) < IndexIn(Priority, list[j])
  BY PositionIs
<1> HIDE DEF list
<1>2. \A i \in 1..Len(list) : list[i] \in T
  BY <1>1, ElementOfSeq
<1>3. list \in Seq(T)
  <2>1. Len(list) \in Nat /\ list = [i \in 1..Len(list) |-> list[i]]
    BY <1>1, LenProperties
  <2> HIDE DEF T
  <2> QED
    BY <1>2, <2>1
<1>4. ASSUME NEW i \in 1..Len(list), NEW j \in 1..Len(list), i < j
      PROVE  list[j] \in R[list[i]]
  <2>1. Ahead(list[i], list[j], offered, spares)
    BY <1>1, <1>2, <1>4 DEF Ahead
  <2>2. rank[list[i]] = rank[list[j]]
    BY <1>2
  <2> QED
    BY <1>1, <1>2, <1>4, <2>1, <2>2 DEF TierOrder
<1> QED
  BY <1>3, <1>4 DEF Arranged, list

\* A tier of other games of one rank.
LEMMA UrgentTier ==
    ASSUME NEW S \in SUBSET Games, IsFiniteSet(S), NEW rank, NEW offered,
           NEW spares \in [Games -> SUBSET Int], \A g \in Games : IsFiniteSet(spares[g]),
           NEW met \in Seq(Games), S \subseteq ToSet(met),
           \A g \in S : ~IsPriority(g), \A g, h \in S : rank[g] = rank[h]
    PROVE  /\ ByUrgency(S, spares, met) \in Seq(S)
           /\ Arranged(ByUrgency(S, spares, met), TierOrder(rank, offered, spares))
<1> DEFINE list == ByUrgency(S, spares, met)
           R == TierOrder(rank, offered, spares)
<1>1. /\ list \in Seq(S)
      /\ \A i, j \in 1..Len(list) : i < j =>
            list[i] # list[j] /\ ~MoreUrgent(spares, list[j], list[i])
  BY UrgencyIs
<1> HIDE DEF list
<1>2. \A i \in 1..Len(list) : list[i] \in S
  BY <1>1, ElementOfSeq
<1>3. ASSUME NEW i \in 1..Len(list), NEW j \in 1..Len(list), i < j
      PROVE  list[j] \in R[list[i]]
  <2>1. Ahead(list[i], list[j], offered, spares)
    BY <1>1, <1>2, <1>3 DEF Ahead
  <2>2. rank[list[i]] = rank[list[j]]
    BY <1>2
  <2> QED
    BY <1>1, <1>2, <1>3, <2>1, <2>2 DEF TierOrder
<1> QED
  BY <1>1, <1>3 DEF Arranged, list

\* What sortActiveGames returns: no game that is unconnected after the scan, in the
\* promised order.
LEMMA SortedIs ==
    ASSUME drops \in Seq(DropRecords(DropIds)), unconnectedGames \subseteq Games, now \in Nat,
           NEW scan, ScanTypes(scan)
    PROVE  LET list == SortActiveGames(drops, unconnectedGames, scan, sticky, now)
           IN  /\ list \in Seq(Games \ AfterScan(unconnectedGames, scan))
               /\ Ordered(list, scan)
<1> DEFINE still      == AfterScan(unconnectedGames, scan)
           inProgress == InProgress(drops, unconnectedGames)
           connected  == ToSet(scan.connected)
           available  == connected \ inProgress
           offered    == inProgress \cup connected
           met        == [i \in DOMAIN drops |-> drops[i].game] \o scan.connected
           known      == Considered(drops, unconnectedGames) \cup ToSet(scan.drops)
           spares     == [g \in Games |-> Spares(known, now, g)]
           others     == {g \in Games : ~IsPriority(g)}
           rank       == [g \in Games |-> Rank(g, inProgress)]
           excluded   == still \cup Spent(drops, unconnectedGames, scan, now)
           R          == TierOrder(rank, offered, spares)
           unlisted   == ToSet(Priority) \ (inProgress \cup available)
           C1         == (inProgress \ still) \cap others
           C2         == available \cap others
           later      == IF FallbackAll
                         THEN ByUrgency(C1, spares, met) \o ByUrgency(C2, spares, met)
                         ELSE ByPosition(unlisted)
           tiers      == (ByPosition(inProgress \ still) \o ByPosition(available)) \o later
           list       == SortActiveGames(drops, unconnectedGames, scan, sticky, now)
<1>1. list = Stabilize(Only(tiers, Games \ excluded), rank, sticky)
  BY DEF SortActiveGames
<1>2. inProgress \in SUBSET Games /\ IsFiniteSet(inProgress)
  BY ConsideredAre
<1>3. connected \in SUBSET Games /\ IsFiniteSet(connected)
  BY ToSetFinite DEF ScanTypes
<1>4. met \in Seq(Games) /\ inProgress \cup connected \subseteq ToSet(met)
  BY MetIs DEF ScanTypes
<1>5. spares \in [Games -> SUBSET Int] /\ \A g \in Games : IsFiniteSet(spares[g])
  <2>1. IsFiniteSet(ToSet(scan.drops)) /\ ToSet(scan.drops) \subseteq DropRecords(DropIds)
    BY ToSetFinite DEF ScanTypes
  <2>2. known \in SUBSET DropRecords(DropIds) /\ IsFiniteSet(known)
    BY <2>1, ConsideredAre, FS_Union
  <2> HIDE DEF known
  <2>3. \A g \in Games : Spares(known, now, g) \in SUBSET Int /\ IsFiniteSet(Spares(known, now, g))
    BY <2>2, SparesAre
  <2> QED
    BY <2>3
<1>6. rank \in [Games -> Nat]
      /\ \A g \in Games : /\ IsPriority(g) /\ g \in inProgress => rank[g] = 0
                          /\ IsPriority(g) /\ g \notin inProgress => rank[g] = 1
                          /\ ~IsPriority(g) /\ g \in inProgress => rank[g] = 2
                          /\ ~IsPriority(g) /\ g \notin inProgress => rank[g] = 3
  BY RanksAre
<1>7. ToSet(Priority) \subseteq Games
  BY PriorityAssumption, ToSetFinite
<1>8. \A g, h \in Games : h \in R[g] <=>
          g # h /\ (rank[g] < rank[h] \/ (rank[g] = rank[h] /\ Ahead(g, h, offered, spares)))
  BY DEF TierOrder
<1>9. R \in [Games -> SUBSET Games] /\ \A g, h \in Games : h \in R[g] => g # h /\ rank[g] <= rank[h]
  <2> HIDE DEF rank, offered, spares
  <2>1. R \in [Games -> SUBSET Games]
    BY DEF TierOrder
  <2>2. \A g \in Games : rank[g] \in Nat
    BY <1>6
  <2> HIDE DEF R
  <2> QED
    BY <1>8, <2>1, <2>2
<1> DEFINE P1 == {g \in Games \cap (inProgress \ still) : IsPriority(g)}
           P2 == {g \in Games \cap available : IsPriority(g)}
           P3 == {g \in Games \cap unlisted : IsPriority(g)}
<1>10. ByPosition(inProgress \ still) \in Seq(P1) /\ Arranged(ByPosition(inProgress \ still), R)
  <2> DEFINE S == inProgress \ still
  <2>1. \A g, h \in S : IsPriority(g) /\ IsPriority(h) => rank[g] = rank[h]
    BY <1>2, <1>6
  <2>2. S \subseteq offered
    OBVIOUS
  <2> HIDE DEF rank, S, offered, spares
  <2>3. ByPosition(S) \in Seq({g \in Games \cap S : IsPriority(g)}) /\ Arranged(ByPosition(S), R)
    BY <2>1, <2>2, PriorityTier
  <2> QED
    BY <2>3 DEF S
<1>11. ByPosition(available) \in Seq(P2) /\ Arranged(ByPosition(available), R)
  <2>1. \A g, h \in available : IsPriority(g) /\ IsPriority(h) => rank[g] = rank[h]
    BY <1>3, <1>6
  <2>2. available \subseteq offered
    OBVIOUS
  <2> HIDE DEF rank, available, offered, spares
  <2> QED
    BY <2>1, <2>2, PriorityTier
<1>12. ByPosition(unlisted) \in Seq(P3) /\ Arranged(ByPosition(unlisted), R)
  <2>1. \A g, h \in unlisted : IsPriority(g) /\ IsPriority(h) => rank[g] = rank[h]
    BY <1>6, <1>7
  <2>2. unlisted \cap offered = {}
    OBVIOUS
  <2> HIDE DEF rank, unlisted, offered, spares
  <2> QED
    BY <2>1, <2>2, PriorityTier
<1>13. ByUrgency(C1, spares, met) \in Seq(C1) /\ Arranged(ByUrgency(C1, spares, met), R)
  <2>1. C1 \in SUBSET Games /\ IsFiniteSet(C1) /\ C1 \subseteq ToSet(met)
    BY <1>2, <1>4, FS_Subset
  <2>2. (\A g \in C1 : ~IsPriority(g)) /\ \A g, h \in C1 : rank[g] = rank[h]
    BY <1>6
  <2> HIDE DEF rank, C1, offered, spares, met
  <2> QED
    BY <1>4, <1>5, <2>1, <2>2, UrgentTier
<1>14. ByUrgency(C2, spares, met) \in Seq(C2) /\ Arranged(ByUrgency(C2, spares, met), R)
  <2>1. C2 \in SUBSET Games /\ IsFiniteSet(C2) /\ C2 \subseteq ToSet(met)
    BY <1>3, <1>4, FS_Subset
  <2>2. (\A g \in C2 : ~IsPriority(g)) /\ \A g, h \in C2 : rank[g] = rank[h]
    BY <1>6
  <2> HIDE DEF rank, C2, offered, spares, met
  <2> QED
    BY <1>4, <1>5, <2>1, <2>2, UrgentTier
<1>15. /\ \A g \in P1 : g \in Games /\ rank[g] = 0
       /\ \A g \in P2 : g \in Games /\ rank[g] = 1 /\ IsPriority(g) /\ g \in offered
       /\ \A g \in P3 : g \in Games /\ rank[g] = 1 /\ IsPriority(g) /\ g \notin offered
       /\ \A g \in C1 : g \in Games /\ rank[g] = 2
       /\ \A g \in C2 : g \in Games /\ rank[g] = 3
  BY <1>6
<1> HIDE DEF rank, R, offered, P1, P2, P3, C1, C2, later, spares, met, unlisted, available, inProgress, still
<1>16. \A g \in P1 : \A h \in P2 \cup P3 \cup C1 \cup C2 : h \in R[g]
  BY <1>8, <1>15
<1>17. \A g \in P2 : \A h \in P3 \cup C1 \cup C2 : h \in R[g]
  BY <1>8, <1>15 DEF Ahead
<1>18. \A g \in C1 : \A h \in C2 : h \in R[g]
  BY <1>8, <1>15
<1>19. tiers \in Seq(Games) /\ Arranged(tiers, R)
  <2> DEFINE p == ByPosition(inProgress \ still) \o ByPosition(available)
  <2>1. p \in Seq(P1 \cup P2) /\ Arranged(p, R)
    BY <1>10, <1>11, <1>16, ArrangedJoin
  <2>2. later \in Seq(P3 \cup C1 \cup C2) /\ Arranged(later, R)
    <3>1. CASE FallbackAll
      <4> DEFINE q == ByUrgency(C1, spares, met) \o ByUrgency(C2, spares, met)
      <4>1. q \in Seq(C1 \cup C2) /\ Arranged(q, R)
        BY <1>13, <1>14, <1>18, ArrangedJoin
      <4>2. later = q
        BY <3>1 DEF later
      <4> HIDE DEF q
      <4>3. C1 \cup C2 \subseteq P3 \cup C1 \cup C2
        OBVIOUS
      <4> QED
        BY <4>1, <4>2, <4>3, SeqSubset
    <3>2. CASE ~FallbackAll
      <4>1. later = ByPosition(unlisted)
        BY <3>2 DEF later
      <4>2. P3 \subseteq P3 \cup C1 \cup C2
        OBVIOUS
      <4> QED
        BY <1>12, <4>1, <4>2, SeqSubset
    <3> QED
      BY <3>1, <3>2
  <2>3. tiers = p \o later
    OBVIOUS
  <2> HIDE DEF p, tiers
  <2>4. tiers \in Seq((P1 \cup P2) \cup (P3 \cup C1 \cup C2)) /\ Arranged(tiers, R)
    <3>1. \A x \in P1 \cup P2, y \in P3 \cup C1 \cup C2 : y \in R[x]
      BY <1>16, <1>17
    <3> QED
      BY <2>1, <2>2, <2>3, <3>1, ArrangedJoin
  <2>5. (P1 \cup P2) \cup (P3 \cup C1 \cup C2) \subseteq Games
    BY <1>15
  <2> QED
    BY <2>4, <2>5, SeqSubset
<1> HIDE DEF tiers
<1> DEFINE kept == Only(tiers, Games \ excluded)
<1>20. /\ kept \in Seq(Games) /\ kept \in Seq(Games \ still)
       /\ Arranged(kept, R)
  <2>1. kept \in Seq(Games \cap (Games \ excluded))
    BY <1>19, OnlyElements
  <2>2. Games \cap (Games \ excluded) \subseteq Games \ still
    OBVIOUS
  <2>3. Games \cap (Games \ excluded) \subseteq Games
    OBVIOUS
  <2>4. Arranged(kept, R)
    BY <1>19, ArrangedOnly
  <2> HIDE DEF kept
  <2> QED
    BY <2>1, <2>2, <2>3, <2>4, SeqSubset
<1> HIDE DEF kept
<1>21. list = Stabilize(kept, rank, sticky)
  BY <1>1 DEF kept
<1>22. list \in Seq(Games \ still)
  BY <1>6, <1>20, <1>21, StabilizedElements
<1> HIDE DEF list
<1>23. ASSUME NEW i \in 1..Len(list), NEW j \in 1..Len(list), i < j
       PROVE  LET g == list[i]
                  h == list[j]
              IN  /\ g \in Games /\ h \in Games /\ g # h
                  /\ \/ rank[g] < rank[h]
                     \/ rank[g] = rank[h] /\ (g = sticky \/ (h # sticky /\ h \in R[g]))
  <2> DEFINE new == Stabilize(kept, rank, sticky)
  <2>1. i \in 1..Len(new) /\ j \in 1..Len(new)
    BY <1>21
  <2>2. LET g == new[i]
            h == new[j]
        IN  /\ g \in Games /\ h \in Games /\ g # h
            /\ \/ rank[g] < rank[h]
               \/ rank[g] = rank[h] /\ (g = sticky \/ (h # sticky /\ h \in R[g]))
    <3>1. rank \in [Games -> Nat] /\ R \in [Games -> SUBSET Games]
          /\ kept \in Seq(Games) /\ Arranged(kept, R)
          /\ \A g, h \in Games : h \in R[g] => g # h /\ rank[g] <= rank[h]
      BY <1>6, <1>9, <1>20
    <3> QED
      BY <1>23, <2>1, <3>1, StabilizedOrder
  <2> QED
    BY <1>21, <2>2
<1>24. \A i, j \in 1..Len(list) : i < j =>
           \/ rank[list[i]] < rank[list[j]]
           \/ /\ rank[list[i]] = rank[list[j]] /\ list[i] # list[j]
              /\ list[i] = sticky \/ (list[j] # sticky /\ Ahead(list[i], list[j], offered, spares))
  <2> SUFFICES ASSUME NEW i \in 1..Len(list), NEW j \in 1..Len(list), i < j
               PROVE \/ rank[list[i]] < rank[list[j]]
                     \/ /\ rank[list[i]] = rank[list[j]] /\ list[i] # list[j]
                        /\ list[i] = sticky
                             \/ (list[j] # sticky /\ Ahead(list[i], list[j], offered, spares))
    OBVIOUS
  <2> DEFINE g == list[i]
             h == list[j]
  <2>1. /\ g \in Games /\ h \in Games /\ g # h
        /\ \/ rank[g] < rank[h]
           \/ rank[g] = rank[h] /\ (g = sticky \/ (h # sticky /\ h \in R[g]))
    BY <1>23
  <2>2. rank[g] \in Nat /\ rank[h] \in Nat
    BY <1>6, <2>1
  <2> HIDE DEF g, h
  <2>3. rank[g] = rank[h] /\ h \in R[g] => Ahead(g, h, offered, spares)
    BY <1>8, <2>1, <2>2
  <2>4. \/ rank[g] < rank[h]
        \/ /\ rank[g] = rank[h] /\ g # h
           /\ g = sticky \/ (h # sticky /\ Ahead(g, h, offered, spares))
    BY <2>1, <2>3
  <2> QED
    BY <2>4 DEF g, h
<1>25. Ordered(list, scan)
  <2>1. \A i \in 1..Len(list) : list[i] \in Games
    BY <1>22, ElementOfSeq
  <2>2. DOMAIN list = 1..Len(list)
    BY <1>22, LenProperties
  <2>3. \A g \in Games : rank[g] = Rank(g, inProgress)
    BY DEF rank
  <2>4. \A i, j \in DOMAIN list : i < j =>
           \/ Rank(list[i], inProgress) < Rank(list[j], inProgress)
           \/ /\ Rank(list[i], inProgress) = Rank(list[j], inProgress) /\ list[i] # list[j]
              /\ list[i] = sticky \/ (list[j] # sticky /\ Ahead(list[i], list[j], offered, spares))
    BY <1>24, <2>1, <2>2, <2>3
  <2> QED
    BY <2>4 DEF Ordered, inProgress, offered, spares, known, connected
<1> QED
  BY <1>22, <1>25 DEF list, still

-----------------------------------------------------------------------------
(* Types.                                                                    *)

\* The index stays in the inventory because the copy is no longer than it.
TypeInv == DropsTypeOK /\ Len(drops) <= Len(DropOrder)

LEMMA InventoryDropType ==
    ASSUME DropsTypeOK, NEW d \in DropIds
    PROVE  InventoryDrop(d) \in DropRecords(DropIds)
<1> DEFINE drop == [id |-> d, game |-> GameOf[d], required |-> Required[d],
                    current |-> minutes[d], claimed |-> d \in honoured,
                    claimable |-> d \notin honoured /\ minutes[d] >= Required[d],
                    earnable |-> FALSE, endsAt |-> EndsAt[d]]
           worth == ~drop.claimed /\ PreconditionsMet(d) /\ Open(d) /\ Completable(drop, now)
<1>1. /\ GameOf[d] \in Games /\ Required[d] \in Nat /\ minutes[d] \in Nat
      /\ EndsAt[d] \in Nat \cup {NoDeadline}
  BY DropsAssumption DEF DropsTypeOK
<1>2. drop \in DropRecords(DropIds)
  BY <1>1 DEF DropRecords
<1>3. InventoryDrop(d) = [drop EXCEPT !.earnable = worth]
  BY DEF InventoryDrop
<1>4. worth \in BOOLEAN
  OBVIOUS
<1> HIDE DEF drop, worth
<1> QED
  BY <1>2, <1>3, <1>4 DEF DropRecords

LEMMA InventoryType ==
    ASSUME DropsTypeOK
    PROVE  Inventory \in Seq(DropRecords(DropIds)) /\ Len(Inventory) <= Len(DropOrder)
<1> DEFINE begun == {d \in DropIds : \E e \in DropIds : GameOf[e] = GameOf[d] /\ minutes[e] > 0}
           T == {InventoryDrop(d) : d \in begun}
           list == [i \in DOMAIN DropOrder |-> InventoryDrop(DropOrder[i])]
<1>1. DOMAIN DropOrder = 1..Len(DropOrder) /\ Len(DropOrder) \in Nat
      /\ \A i \in DOMAIN DropOrder : DropOrder[i] \in DropIds
  BY DropsAssumption, LenProperties, ElementOfSeq
<1>2. \A i \in 1..Len(DropOrder) : InventoryDrop(DropOrder[i]) \in DropRecords(DropIds)
  BY <1>1, InventoryDropType
<1>3. list \in Seq(DropRecords(DropIds)) /\ Len(list) = Len(DropOrder)
  BY <1>1, <1>2
<1>4. Inventory = Only(list, T)
  BY DEF Inventory
<1> HIDE DEF list, T
<1>5. Inventory \in Seq(DropRecords(DropIds) \cap T) /\ Len(Inventory) <= Len(list)
  BY <1>3, <1>4, OnlyElements
<1>6. Inventory \in Seq(DropRecords(DropIds))
  BY <1>5, SeqSubset
<1> QED
  BY <1>3, <1>5, <1>6

\* A copy in the inventory is that of a drop.
LEMMA InventoryCopies ==
    \A i \in DOMAIN Inventory : \E d \in DropIds : Inventory[i] = InventoryDrop(d)
<1> DEFINE begun == {d \in DropIds : \E e \in DropIds : GameOf[e] = GameOf[d] /\ minutes[e] > 0}
           T == {InventoryDrop(d) : d \in begun}
           list == [i \in DOMAIN DropOrder |-> InventoryDrop(DropOrder[i])]
           U == {InventoryDrop(DropOrder[i]) : i \in DOMAIN DropOrder}
<1>1. DOMAIN DropOrder = 1..Len(DropOrder) /\ Len(DropOrder) \in Nat
  BY DropsAssumption, LenProperties
<1>2. list \in Seq(U)
  BY <1>1
<1>3. Inventory = Only(list, T)
  BY DEF Inventory
<1>4. \A x \in T : \E d \in DropIds : x = InventoryDrop(d)
  OBVIOUS
<1> HIDE DEF list, T, U
<1>5. Inventory \in Seq(U \cap T)
  BY <1>2, <1>3, OnlyElements
<1>6. \A i \in DOMAIN Inventory : Inventory[i] \in T
  BY <1>5, LenProperties, ElementOfSeq
<1> QED
  BY <1>4, <1>6

LEMMA DirectoryTypes ==
    ASSUME NEW fetched, NEW benefits \in BOOLEAN
    PROVE  ScanTypes(Directory(fetched, benefits))
<1> DEFINE earnable == {g \in fetched : CampaignEarnable(g, benefits)}
           S == {d \in DropIds : /\ GameOf[d] \in linked \cap earnable
                                 /\ Completable(DirectoryDrop(d, benefits), now)}
           shown == Only(DropOrder, S)
           scan == Directory(fetched, benefits)
<1>1. /\ scan.connected = Only(GameOrder, linked \cap earnable)
      /\ scan.unconnected = Only(GameOrder, earnable \ linked)
      /\ scan.drops = [i \in DOMAIN shown |-> DirectoryDrop(shown[i], benefits)]
  BY DEF Directory
<1> HIDE DEF earnable, S, scan
<1>2. \A X : Only(GameOrder, X) \in Seq(Games)
  <2> SUFFICES ASSUME NEW X PROVE Only(GameOrder, X) \in Seq(Games)
    OBVIOUS
  <2>1. Only(GameOrder, X) \in Seq(Games \cap X)
    BY DropsAssumption, OnlyElements
  <2> QED
    BY <2>1, SeqSubset
<1>3. shown \in Seq(DropIds \cap S)
  BY DropsAssumption, OnlyElements
<1> HIDE DEF shown
<1>4. DOMAIN shown = 1..Len(shown) /\ Len(shown) \in Nat
      /\ \A i \in 1..Len(shown) : shown[i] \in DropIds
  BY <1>3, LenProperties, ElementOfSeq
<1>5. ASSUME NEW d \in DropIds PROVE DirectoryDrop(d, benefits) \in DropRecords(DropIds)
  <2>1. /\ GameOf[d] \in Games /\ Required[d] \in Nat /\ EndsAt[d] \in Nat \cup {NoDeadline}
    BY DropsAssumption
  <2> QED
    BY <2>1 DEF DirectoryDrop, DropRecords
<1>6. \A i \in 1..Len(shown) : DirectoryDrop(shown[i], benefits) \in DropRecords(DropIds)
  BY <1>4, <1>5
<1>7. scan.drops \in Seq(DropRecords(DropIds))
  BY <1>1, <1>4, <1>6
<1>8. ScanTypes(scan)
  BY <1>1, <1>2, <1>7 DEF ScanTypes
<1> QED
  BY <1>8 DEF scan

LEMMA ScansTypes == ScanTypes(NothingScanned) /\ \A scan \in Scans : ScanTypes(scan)
<1>1. ScanTypes(NothingScanned)
  BY DEF ScanTypes, NothingScanned
<1> QED
  BY <1>1, DirectoryTypes DEF Scans

LEMMA DropsInit_Types == DropsInit => TypeInv
<1> SUFFICES ASSUME DropsInit PROVE TypeInv
  OBVIOUS
<1>1. Len(DropOrder) \in Nat
  BY DropsAssumption, LenProperties
<1>2. index \in 1..(Len(DropOrder) + 1) /\ now \in 0..MaxNow /\ changes \in 0..MaxChanges
  BY <1>1, DropsBounds DEF DropsInit
<1>3. /\ drops \in Seq(DropRecords(DropIds)) /\ Len(drops) <= Len(DropOrder)
      /\ lastDrops \in Seq(DropRecords(DropIds)) /\ activeGames \in Seq(Games)
  BY <1>1 DEF DropsInit
<1>4. minutes \in [DropIds -> Nat] /\ announced \in [DropIds -> Nat] /\ linked \subseteq Games
  BY DropsAssumption DEF DropsInit
<1> QED
  BY <1>2, <1>3, <1>4 DEF DropsInit, TypeInv, DropsTypeOK, StickyGames

\* The service's steps.
LEMMA Service_Types ==
    ASSUME TypeInv, Service
    PROVE  TypeInv'
<1> USE DEF knowledge, ranked, local, history
<1>1. Len(drops') <= Len(DropOrder)
  BY DEF TypeInv, Service, Credit, ClaimElsewhere, Link, TimePasses
<1>2. CASE Credit
  <2>1. PICK d \in DropIds : minutes' = [minutes EXCEPT ![d] = @ + 1]
    BY <1>2 DEF Credit
  <2>2. minutes' \in [DropIds -> Nat]
    BY <2>1 DEF TypeInv, DropsTypeOK
  <2> QED
    BY <1>1, <1>2, <2>2 DEF TypeInv, DropsTypeOK, Credit, StickyGames
<1>3. CASE ClaimElsewhere
  BY <1>1, <1>3 DEF TypeInv, DropsTypeOK, ClaimElsewhere, StickyGames
<1>4. CASE Link
  <2>1. changes' \in 0..MaxChanges
    BY <1>4, DropsBounds DEF TypeInv, DropsTypeOK, Link
  <2> QED
    BY <1>1, <1>4, <2>1 DEF TypeInv, DropsTypeOK, Link, StickyGames
<1>5. CASE TimePasses
  <2>1. now' \in 0..MaxNow
    BY <1>5, DropsBounds DEF TypeInv, DropsTypeOK, TimePasses
  <2> QED
    BY <1>1, <1>5, <2>1 DEF TypeInv, DropsTypeOK, TimePasses, StickyGames
<1> QED
  BY <1>2, <1>3, <1>4, <1>5 DEF Service

\* The steps of the poll outside the loop and before the ranking.
LEMMA Poll_Types ==
    ASSUME TypeInv,
           \/ InitialFetch \/ InitialFetchFails
           \/ ScanFallsDue \/ Poll \/ FetchFails \/ Fetch \/ FetchNothing \/ Settle
    PROVE  TypeInv'
<1> USE DEF service, knowledge, ranked, local, history
<1>1. Len(DropOrder) \in Nat /\ 1 \in 1..(Len(DropOrder) + 1)
  <2>1. Len(DropOrder) \in Nat
    BY DropsAssumption, LenProperties
  <2> QED
    BY <2>1
<1>2. CASE ScanFallsDue
  BY <1>2 DEF TypeInv, DropsTypeOK, ScanFallsDue, StickyGames
<1>3. CASE Poll
  BY <1>3 DEF TypeInv, DropsTypeOK, Poll, StickyGames
<1>4. CASE FetchFails
  BY <1>4 DEF TypeInv, DropsTypeOK, FetchFails, StickyGames
<1>5. CASE Fetch
  <2>1. drops' \in Seq(DropRecords(DropIds)) /\ Len(drops') <= Len(DropOrder)
    BY <1>5, InventoryType DEF Fetch, TypeInv
  <2> QED
    BY <1>1, <1>5, <2>1 DEF TypeInv, DropsTypeOK, Fetch, StickyGames
<1>6. CASE FetchNothing
  <2>1. drops' \in Seq(DropRecords(DropIds)) /\ Len(drops') <= Len(DropOrder)
    BY <1>1, <1>6 DEF FetchNothing
  <2> QED
    BY <1>1, <1>6, <2>1 DEF TypeInv, DropsTypeOK, FetchNothing, StickyGames
<1>7. CASE Settle
  <2>1. drops' = drops \/ drops' = <<>>
    BY <1>7 DEF Settle
  <2>2. drops' \in Seq(DropRecords(DropIds)) /\ Len(drops') <= Len(DropOrder)
    <3>1. drops \in Seq(DropRecords(DropIds)) /\ Len(drops) <= Len(DropOrder)
      BY DEF TypeInv, DropsTypeOK
    <3>2. CASE drops' = drops
      BY <3>1, <3>2
    <3>3. CASE drops' = <<>>
      BY <1>1, <3>3
    <3> QED
      BY <2>1, <3>2, <3>3
  <2>3. sticky' \in StickyGames
    BY <1>7 DEF Settle, StickyGames
  <2>4. pc' \in {"starting", "idle", "fetching", "claiming", "ranking"}
    BY <1>7 DEF Settle
  <2>5. lastDrops' \in Seq(DropRecords(DropIds)) /\ index' \in 1..(Len(DropOrder) + 1)
    BY <1>1, <1>7 DEF Settle, TypeInv, DropsTypeOK
  <2>6. UNCHANGED <<now, changes, minutes, honoured, linked, claimedInstances,
                    unconnectedGames, activeGames, scanDue, failed, refresh, announced, refused>>
    BY <1>7 DEF Settle
  <2>7. /\ now' \in 0..MaxNow /\ changes' \in 0..MaxChanges /\ minutes' \in [DropIds -> Nat]
        /\ honoured' \subseteq DropIds /\ linked' \subseteq Games
        /\ claimedInstances' \subseteq DropIds /\ unconnectedGames' \subseteq Games
        /\ activeGames' \in Seq(Games)
        /\ announced' \in [DropIds -> Nat] /\ refused' \subseteq DropIds
    BY <2>6 DEF TypeInv, DropsTypeOK
  <2>8. {scanDue', refresh', failed'} \subseteq BOOLEAN
    BY <2>6 DEF TypeInv, DropsTypeOK
  <2> QED
    BY <2>2, <2>3, <2>4, <2>5, <2>7, <2>8 DEF TypeInv, DropsTypeOK, StickyGames
<1>8. CASE InitialFetch
  <2>1. drops' \in Seq(DropRecords(DropIds)) /\ Len(drops') <= Len(DropOrder)
    <3>1. CASE drops' = Inventory
      BY <3>1, InventoryType DEF TypeInv
    <3>2. CASE drops' = <<>>
      BY <1>1, <3>2
    <3> QED
      BY <1>8, <3>1, <3>2 DEF InitialFetch, Answers
  <2>2. lastDrops' \in Seq(DropRecords(DropIds)) /\ pc' = "ranking"
    BY <1>8, <2>1 DEF InitialFetch
  <2>3. UNCHANGED <<now, changes, minutes, honoured, linked, claimedInstances,
                    unconnectedGames, activeGames, scanDue, failed, index, refresh, sticky,
                    announced, refused>>
    BY <1>8 DEF InitialFetch
  <2> QED
    BY <2>1, <2>2, <2>3 DEF TypeInv, DropsTypeOK, StickyGames
<1>9. CASE InitialFetchFails
  BY <1>9 DEF TypeInv, DropsTypeOK, InitialFetchFails, StickyGames
<1> QED
  BY <1>2, <1>3, <1>4, <1>5, <1>6, <1>7, <1>8, <1>9

\* The loop's own variables.
LEMMA Continue_Types ==
    ASSUME TypeInv, NEW d \in DropIds, At(d),
           Continue(Copy) \/ Continue(Unclaimable) \/ Continue(AsClaimed)
    PROVE  /\ drops' \in Seq(DropRecords(DropIds)) /\ Len(drops') <= Len(DropOrder)
           /\ index' \in 1..(Len(DropOrder) + 1)
<1>1. Len(DropOrder) \in Nat /\ Len(drops) \in Nat /\ DOMAIN drops = 1..Len(drops)
      /\ drops \in Seq(DropRecords(DropIds)) /\ Len(drops) <= Len(DropOrder)
  BY DropsAssumption, LenProperties DEF TypeInv, DropsTypeOK
<1>2. index \in 1..Len(drops)
  BY <1>1 DEF At
<1>3. Copy \in DropRecords(DropIds)
  BY <1>1, <1>2, ElementOfSeq DEF Copy
<1>4. Unclaimable \in DropRecords(DropIds)
  BY <1>3 DEF Unclaimable, DropRecords
<1>5. AsClaimed \in DropRecords(DropIds)
  BY <1>4 DEF AsClaimed, DropRecords
<1>6. PICK r \in DropRecords(DropIds) : drops' = [drops EXCEPT ![index] = r]
  BY <1>3, <1>4, <1>5 DEF Continue
<1>7. drops' \in Seq(DropRecords(DropIds)) /\ Len(drops') = Len(drops)
  BY <1>1, <1>2, <1>6, ExceptSeq
<1>8. index' = index + 1
  BY DEF Continue
<1> QED
  BY <1>1, <1>2, <1>7, <1>8

LEMMA Loop_Types ==
    ASSUME TypeInv, ClaimLoop
    PROVE  TypeInv'
<1>1. PICK d \in DropIds :
        \/ SkipUnconnected(d) \/ SkipUnclaimable(d) \/ SkipMarked(d)
        \/ ClaimDry(d) \/ ClaimSucceeds(d) \/ ClaimAlreadyDone(d)
        \/ ClaimNotConnected(d) \/ ClaimFails(d)
  BY DEF ClaimLoop
<1> USE DEF service, knowledge, ranked, local, history
<1>2. At(d) /\ (Continue(Copy) \/ Continue(Unclaimable) \/ Continue(AsClaimed))
  BY <1>1 DEF SkipUnconnected, SkipUnclaimable, SkipMarked, ClaimDry, ClaimSucceeds,
       ClaimAlreadyDone, ClaimNotConnected, NotConnected, ClaimFails, Fails, Claimable
<1>3. /\ drops' \in Seq(DropRecords(DropIds)) /\ Len(drops') <= Len(DropOrder)
      /\ index' \in 1..(Len(DropOrder) + 1)
  BY <1>2, Continue_Types
<1>4. UNCHANGED <<now, minutes, linked, changes, lastDrops, activeGames, scanDue, failed, pc, sticky>>
  BY <1>1 DEF SkipUnconnected, SkipUnclaimable, SkipMarked, ClaimDry, ClaimSucceeds,
       ClaimAlreadyDone, ClaimNotConnected, NotConnected, ClaimFails, Fails
<1>5. /\ honoured' \in {honoured, honoured \cup {d}}
      /\ claimedInstances' \in {claimedInstances, claimedInstances \cup {d}}
      /\ refused' \in {refused, refused \cup {d}}
      /\ unconnectedGames' \in {unconnectedGames, unconnectedGames \cup {GameOf[d]}}
      /\ refresh' \in {refresh, TRUE}
  BY <1>1 DEF SkipUnconnected, SkipUnclaimable, SkipMarked, ClaimDry, ClaimSucceeds,
       ClaimAlreadyDone, ClaimNotConnected, NotConnected, ClaimFails, Fails, Mark
<1>6. announced' \in {announced, [announced EXCEPT ![d] = @ + 1]}
  BY <1>1 DEF SkipUnconnected, SkipUnclaimable, SkipMarked, ClaimDry, ClaimSucceeds,
       ClaimAlreadyDone, ClaimNotConnected, NotConnected, ClaimFails, Fails, Announce
<1>7. announced' \in [DropIds -> Nat]
  <2>1. announced \in [DropIds -> Nat]
    BY DEF TypeInv, DropsTypeOK
  <2>2. [announced EXCEPT ![d] = @ + 1] \in [DropIds -> Nat]
    BY <2>1
  <2> QED
    BY <1>6, <2>1, <2>2
<1>8. GameOf[d] \in Games
  BY DropsAssumption
<1>9. /\ honoured' \subseteq DropIds /\ claimedInstances' \subseteq DropIds
      /\ refused' \subseteq DropIds /\ unconnectedGames' \subseteq Games /\ refresh' \in BOOLEAN
  BY <1>5, <1>8 DEF TypeInv, DropsTypeOK
<1>10. /\ now' \in 0..MaxNow /\ changes' \in 0..MaxChanges /\ minutes' \in [DropIds -> Nat]
       /\ linked' \subseteq Games /\ lastDrops' \in Seq(DropRecords(DropIds))
       /\ activeGames' \in Seq(Games)
       /\ pc' \in {"starting", "idle", "fetching", "claiming", "ranking"}
       /\ sticky' \in StickyGames
  BY <1>4 DEF TypeInv, DropsTypeOK, StickyGames
<1>11. {scanDue', refresh', failed'} \subseteq BOOLEAN
  BY <1>4, <1>9 DEF TypeInv, DropsTypeOK
<1> QED
  BY <1>3, <1>7, <1>9, <1>10, <1>11 DEF TypeInv, DropsTypeOK, StickyGames

LEMMA Rank_Types ==
    ASSUME TypeInv, RankScanned \/ RankUnscanned
    PROVE  TypeInv'
<1>1. Len(DropOrder) \in Nat
  BY DropsAssumption, LenProperties
<1>2. drops \in Seq(DropRecords(DropIds)) /\ unconnectedGames \subseteq Games /\ now \in Nat
  BY DropsBounds DEF TypeInv, DropsTypeOK
<1>3. ASSUME NEW scan, ScanTypes(scan)
      PROVE  /\ SortActiveGames(drops, unconnectedGames, scan, sticky, now) \in Seq(Games)
             /\ AfterScan(unconnectedGames, scan) \subseteq Games
  <2>1. SortActiveGames(drops, unconnectedGames, scan, sticky, now)
            \in Seq(Games \ AfterScan(unconnectedGames, scan))
    BY <1>2, <1>3, SortedIs
  <2>2. SortActiveGames(drops, unconnectedGames, scan, sticky, now) \in Seq(Games)
    BY <2>1, SeqSubset
  <2>3. ToSet(scan.unconnected) \subseteq Games
    BY <1>3, ToSetFinite DEF ScanTypes
  <2> QED
    BY <1>2, <2>2, <2>3 DEF AfterScan
<1>4. activeGames' \in Seq(Games) /\ unconnectedGames' \subseteq Games
  <2>1. CASE RankScanned
    BY <1>3, <2>1, ScansTypes DEF RankScanned
  <2>2. CASE RankUnscanned
    BY <1>2, <1>3, <2>2, ScansTypes DEF RankUnscanned, TypeInv, DropsTypeOK
  <2> QED
    BY <2>1, <2>2
<1>5. /\ pc' = "idle" /\ drops' = <<>> /\ refresh' = FALSE /\ sticky' = NoGame
      /\ UNCHANGED <<now, minutes, honoured, linked, changes, lastDrops, claimedInstances,
                     index, announced, refused>>
      /\ scanDue' \in {scanDue, FALSE} /\ failed' \in BOOLEAN
  BY DEF RankScanned, RankUnscanned, EndRefresh, service, history
<1>6. drops' \in Seq(DropRecords(DropIds)) /\ Len(drops') <= Len(DropOrder)
  BY <1>1, <1>5
<1> QED
  BY <1>4, <1>5, <1>6 DEF TypeInv, DropsTypeOK, StickyGames

LEMMA Restart_Types ==
    ASSUME TypeInv, Restart
    PROVE  TypeInv'
<1>1. Len(DropOrder) \in Nat
  BY DropsAssumption, LenProperties
<1>2. changes' \in 0..MaxChanges
  BY DropsBounds DEF TypeInv, DropsTypeOK, Restart
<1>3. drops' \in Seq(DropRecords(DropIds)) /\ Len(drops') <= Len(DropOrder)
      /\ index' \in 1..(Len(DropOrder) + 1)
  BY <1>1 DEF Restart
<1>4. lastDrops' \in Seq(DropRecords(DropIds)) /\ activeGames' \in Seq(Games)
  BY DEF Restart
<1> QED
  BY <1>2, <1>3, <1>4 DEF TypeInv, DropsTypeOK, Restart, StickyGames, history

LEMMA Types_Step ==
    ASSUME TypeInv, [DropsNext]_dropsVars
    PROVE  TypeInv'
<1>1. CASE Restart
  BY <1>1, Restart_Types
<1>2. CASE DropsStep
  BY <1>2, Service_Types, Poll_Types, Loop_Types, Rank_Types DEF DropsStep
<1>3. CASE UNCHANGED dropsVars
  BY <1>3 DEF dropsVars, service, knowledge, ranked, local, history, TypeInv, DropsTypeOK,
       StickyGames
<1> QED
  BY <1>1, <1>2, <1>3 DEF DropsNext

\* Every variable keeps its type.
THEOREM Drops_TypesKept == DropsSpec => []DropsTypeOK
<1>1. TypeInv => DropsTypeOK
  BY DEF TypeInv
<1>2. TypeInv /\ [DropsNext]_dropsVars => TypeInv'
  BY Types_Step
<1> QED
  BY <1>1, <1>2, DropsInit_Types, PTL DEF DropsSpec

-----------------------------------------------------------------------------
(* The list and the games known to be unconnected.                           *)

\* The list avoids the unconnected games, except between a refused claim and the
\* refresh it asks for, and after a refresh without a scan.
ListedConnected ==
    ~failed /\ (pc \in {"starting", "idle", "fetching"} \/ (pc = "claiming" /\ ~refresh))
        => ToSet(activeGames) \cap unconnectedGames = {}

ListInv == TypeInv /\ ListedConnected

LEMMA Ranked_Step ==
    ASSUME ListInv, RankScanned
    PROVE  ToSet(activeGames') \cap unconnectedGames' = {}
<1>1. PICK scan \in Scans :
          /\ activeGames' = SortActiveGames(drops, unconnectedGames, scan, sticky, now)
          /\ unconnectedGames' = AfterScan(unconnectedGames, scan)
  BY DEF RankScanned
<1>2. drops \in Seq(DropRecords(DropIds)) /\ unconnectedGames \subseteq Games /\ now \in Nat
  BY DropsBounds DEF ListInv, TypeInv, DropsTypeOK
<1>3. ScanTypes(scan)
  BY ScansTypes
<1>4. activeGames' \in Seq(Games \ unconnectedGames')
  BY <1>1, <1>2, <1>3, SortedIs
<1>5. ToSet(activeGames') \subseteq Games \ unconnectedGames'
  BY <1>4, ToSetFinite
<1> QED
  BY <1>5

LEMMA Listed_Step ==
    ASSUME ListInv, [DropsNext]_dropsVars
    PROVE  ListInv'
<1>1. TypeInv'
  BY Types_Step DEF ListInv
<1> USE DEF ListInv, ListedConnected
<1>2. CASE Restart
  BY <1>1, <1>2 DEF Restart
<1>3. CASE RankScanned
  BY <1>1, <1>3, Ranked_Step
<1>4. CASE RankUnscanned
  BY <1>1, <1>4 DEF RankUnscanned
<1>5. CASE \/ Service \/ InitialFetch \/ InitialFetchFails
           \/ ScanFallsDue \/ Poll \/ FetchFails \/ Fetch \/ FetchNothing \/ Settle
  <2>1. UNCHANGED <<activeGames, unconnectedGames, failed>>
    BY <1>5 DEF Service, Credit, ClaimElsewhere, Link, TimePasses, InitialFetch,
         InitialFetchFails, ScanFallsDue, Poll, FetchFails, Fetch, FetchNothing, Settle,
         knowledge, ranked
  <2>2. pc' \in {"starting", "idle", "fetching"} \/ (pc' = "claiming" /\ ~refresh')
          => pc \in {"starting", "idle", "fetching"} \/ (pc = "claiming" /\ ~refresh)
    BY <1>5 DEF Service, Credit, ClaimElsewhere, Link, TimePasses, InitialFetch,
         InitialFetchFails, ScanFallsDue, Poll, FetchFails, Fetch, FetchNothing, Settle,
         local
  <2> QED
    BY <1>1, <2>1, <2>2
<1>6. CASE ClaimLoop
  <2>1. PICK d \in DropIds :
          \/ SkipUnconnected(d) \/ SkipUnclaimable(d) \/ SkipMarked(d)
          \/ ClaimDry(d) \/ ClaimSucceeds(d) \/ ClaimAlreadyDone(d)
          \/ ClaimNotConnected(d) \/ ClaimFails(d)
    BY <1>6 DEF ClaimLoop
  <2>2. pc = "claiming" /\ pc' = "claiming" /\ UNCHANGED <<activeGames, failed>>
    BY <2>1 DEF SkipUnconnected, SkipUnclaimable, SkipMarked, ClaimDry, ClaimSucceeds,
         ClaimAlreadyDone, ClaimNotConnected, NotConnected, ClaimFails, Fails, Claimable, At,
         ranked
  <2>3. refresh' = TRUE \/ UNCHANGED <<refresh, unconnectedGames>>
    BY <2>1 DEF SkipUnconnected, SkipUnclaimable, SkipMarked, ClaimDry, ClaimSucceeds,
         ClaimAlreadyDone, ClaimNotConnected, ClaimFails, knowledge
  <2> QED
    BY <1>1, <2>2, <2>3
<1>7. CASE UNCHANGED dropsVars
  BY <1>1, <1>7 DEF dropsVars, knowledge, ranked, local
<1> QED
  BY <1>2, <1>3, <1>4, <1>5, <1>6, <1>7 DEF DropsNext, DropsStep

LEMMA DropsInit_Listed == DropsInit => ListInv
BY DropsInit_Types DEF DropsInit, ListInv, ListedConnected

THEOREM Drops_ListInv == DropsSpec => []ListInv
BY DropsInit_Listed, Listed_Step, PTL DEF DropsSpec

\* For any inventory, links, scans and restarts, no game known to be unconnected is in
\* the list between polls, if the last refresh had its scan.
THEOREM Drops_ConnectedOnly == DropsSpec => []ConnectedOnly
<1>1. ListInv => ConnectedOnly
  BY DEF ListInv, ListedConnected, ConnectedOnly
<1> QED
  BY <1>1, Drops_ListInv, PTL

\* Whoever may be kept is first when the list is stabilized.
LEMMA KeptFirst ==
    ASSUME DropsTypeOK
    PROVE  KeptIsFirst
<1> SUFFICES ASSUME NEW g \in Games, CanKeep(lastDrops, activeGames, g)
             PROVE  Head(Stabilize(activeGames, SnapshotRanks(lastDrops), g)) = g
  BY DEF KeptIsFirst
<1> DEFINE list == activeGames
           rank == SnapshotRanks(lastDrops)
           new == Stabilize(list, rank, g)
<1>1. list \in Seq(Games) /\ DOMAIN list = 1..Len(list) /\ Len(list) \in Nat
  BY LenProperties DEF DropsTypeOK
<1>2. rank \in [Games -> Nat]
  BY RanksAre DEF SnapshotRanks
<1>3. /\ \E b \in 1..Len(list) : list[b] = g
      /\ \A k \in 1..Len(list) : rank[list[k]] >= rank[g]
  BY <1>1 DEF CanKeep, ToSet
<1> HIDE DEF list, rank, new
<1>4. \A k \in 1..Len(list) : list[k] \in Games /\ rank[list[k]] \in Nat /\ rank[g] \in Nat
  BY <1>1, <1>2, ElementOfSeq
<1>5. \A k \in 1..Len(list) : ~(rank[list[k]] < rank[g])
  BY <1>3, <1>4
<1>6. /\ new \in Seq(Games)
      /\ \/ new = list /\ Unmoved(list, rank, g)
         \/ \E a, b \in 1..Len(list) : Moved(list, rank, g, new, a, b)
  BY <1>1, <1>2, StabilizeIs DEF new
<1>7. 1 \in 1..Len(list)
  BY <1>1, <1>3
<1>8. new[1] = g
  <2>1. CASE new = list /\ Unmoved(list, rank, g)
    <3> DEFINE b == IndexIn(list, g)
    <3>1. b \in 0..Len(list) /\ b # 0 /\ list[b] = g
          /\ \A j \in 1..Len(list) : j < b => list[j] # g
      BY <1>1, <1>3, IndexInIs
    <3> HIDE DEF b
    <3>2. b \in 1..Len(list) /\ \A j \in 1..(b - 1) : list[j] # g
      BY <1>1, <3>1
    <3>3. \A j \in 1..(b - 1) : rank[list[j]] < rank[g]
      BY <2>1, <3>1, <3>2 DEF Unmoved
    <3>4. b = 1
      <4>1. b # 1 => 1 \in 1..(b - 1)
        BY <3>2
      <4> QED
        BY <1>5, <1>7, <3>3, <4>1
    <3> QED
      BY <2>1, <3>1, <3>4
  <2>2. CASE \E a, b \in 1..Len(list) : Moved(list, rank, g, new, a, b)
    <3>1. PICK a \in 1..Len(list), b \in 1..Len(list) : Moved(list, rank, g, new, a, b)
      BY <2>2
    <3>2. /\ a < b
          /\ \A j \in 1..(a - 1) : rank[list[j]] < rank[g]
          /\ \A k \in 1..Len(list) : new[k] = IF k < a \/ k > b THEN list[k]
                                              ELSE IF k = a THEN g ELSE list[k - 1]
      BY <3>1 DEF Moved
    <3>3. a = 1
      <4>1. a # 1 => 1 \in 1..(a - 1)
        BY <1>1
      <4> QED
        BY <1>5, <1>7, <3>2, <4>1
    <3> QED
      BY <1>1, <1>7, <3>2, <3>3
  <2> QED
    BY <1>6, <2>1, <2>2
<1> QED
  BY <1>6, <1>8 DEF new, list, rank

\* For any drops and any list the poll can come to, the game CanKeep keeps is the one
\* the next ranking would put first.
THEOREM Drops_KeptIsFirst == DropsSpec => []KeptIsFirst
BY KeptFirst, Drops_TypesKept, PTL

\* Every refresh with a scan leaves the list in the promised order.
THEOREM Drops_RankedInOrder == DropsSpec => RankedInOrder
<1> DEFINE InOrderNow ==
             pc = "ranking" /\ pc' = "idle" /\ ~failed' =>
               \E scan \in Scans :
                  /\ unconnectedGames' = AfterScan(unconnectedGames, scan)
                  /\ Ordered(activeGames', scan)
<1>1. ASSUME DropsTypeOK, DropsNext PROVE InOrderNow
  <2> SUFFICES ASSUME pc = "ranking", pc' = "idle", ~failed'
               PROVE  \E scan \in Scans :
                         /\ unconnectedGames' = AfterScan(unconnectedGames, scan)
                         /\ Ordered(activeGames', scan)
    OBVIOUS
  <2>1. RankScanned
    BY <1>1 DEF DropsNext, Restart, DropsStep, Service, Credit, ClaimElsewhere, Link, TimePasses,
         InitialFetch, InitialFetchFails, ScanFallsDue, Poll, FetchFails, Fetch, FetchNothing,
         ClaimLoop, SkipUnconnected,
         SkipUnclaimable, SkipMarked, ClaimDry, ClaimSucceeds, ClaimAlreadyDone,
         ClaimNotConnected, NotConnected, ClaimFails, Fails, Claimable, At, Settle,
         RankUnscanned, local
  <2>2. PICK scan \in Scans :
            /\ activeGames' = SortActiveGames(drops, unconnectedGames, scan, sticky, now)
            /\ unconnectedGames' = AfterScan(unconnectedGames, scan)
    BY <2>1 DEF RankScanned
  <2>3. drops \in Seq(DropRecords(DropIds)) /\ unconnectedGames \subseteq Games /\ now \in Nat
    BY <1>1, DropsBounds DEF DropsTypeOK
  <2>4. Ordered(activeGames', scan)
    <3>1. ScanTypes(scan)
      BY ScansTypes
    <3>2. Ordered(SortActiveGames(drops, unconnectedGames, scan, sticky, now), scan)
      BY <2>3, <3>1, SortedIs
    <3> QED
      BY <2>2, <3>2
  <2> QED
    BY <2>2, <2>4
<1>2. DropsTypeOK /\ [DropsNext]_dropsVars => [InOrderNow]_dropsVars
  BY <1>1
<1> QED
  BY <1>2, Drops_TypesKept, PTL DEF DropsSpec, RankedInOrder

-----------------------------------------------------------------------------
(* The promise                                                               *)

LifeInv == Life!LifeTypeOK /\ Life!OnceAndClaimed

-----------------------------------------------------------------------------
(* The invariant of Drops                                                    *)

Fields == {"id", "game", "required", "current", "claimed", "claimable", "earnable", "endsAt"}

Seen ==
    /\ dryRun \in BOOLEAN
    /\ minutes \in [DropIds -> Nat]
    /\ honoured \subseteq DropIds
    /\ claimedInstances \subseteq DropIds
    /\ announced \in [DropIds -> Nat]

\* A copy that is claimable is that of a complete drop.
CopiesTrue ==
    \A i \in DOMAIN drops :
        /\ drops[i] = [f \in Fields |-> drops[i][f]]
        /\ drops[i].id \in DropIds /\ drops[i].claimable = TRUE
              => minutes[drops[i].id] >= Required[drops[i].id]

DropsInv == Seen /\ CopiesTrue

-----------------------------------------------------------------------------
LEMMA DropsInit_Inv == DropsInit => DropsInv
BY DropsFlags DEF DropsInit, DropsInv, Seen, CopiesTrue

\* Minutes are never taken back.
LEMMA Credit_Inv ==
    ASSUME DropsInv, Credit, UNCHANGED dryRun
    PROVE  DropsInv'
<1> USE DropsAssumption DEF DropsInv
<1>1. PICK e \in DropIds : minutes' = [minutes EXCEPT ![e] = @ + 1]
    BY DEF Credit
<1>2. \A d \in DropIds : minutes[d] \in Nat /\ minutes'[d] \in Nat /\ minutes'[d] >= minutes[d]
    BY <1>1 DEF Seen
<1>3. Seen'
    BY <1>1 DEF Seen, Credit, knowledge, history
<1>4. drops' = drops
    BY DEF Credit, local
<1>5. CopiesTrue'
  <2> SUFFICES ASSUME NEW i \in DOMAIN drops, drops[i].id \in DropIds, drops[i].claimable = TRUE
               PROVE  minutes'[drops[i].id] >= Required[drops[i].id]
      BY <1>4 DEF CopiesTrue
  <2> DEFINE d == drops[i].id
  <2>1. d \in DropIds /\ minutes[d] >= Required[d]
      BY DEF CopiesTrue
  <2> HIDE DEF d
  <2>2. Required[d] \in Nat
      BY <2>1
  <2>3. minutes'[d] >= Required[d]
      BY <1>2, <2>1, <2>2
  <2>4. QED
      BY <2>3 DEF d
<1>6. QED
    BY <1>3, <1>5

\* GetInventory gives an instance only to a drop that is complete.
LEMMA Fetch_Inv ==
    ASSUME DropsInv, drops' = Inventory,
           UNCHANGED <<dryRun, minutes, honoured, claimedInstances, announced>>
    PROVE  DropsInv'
<1> USE DEF DropsInv
<1>1. Seen' /\ minutes' = minutes
    BY DEF Seen
<1>2. \A d : /\ InventoryDrop(d) = [f \in Fields |-> InventoryDrop(d)[f]]
             /\ InventoryDrop(d).id = d
             /\ InventoryDrop(d).claimable = (d \notin honoured /\ minutes[d] >= Required[d])
    BY DEF InventoryDrop, Fields
<1>3. CopiesTrue'
  <2> SUFFICES ASSUME NEW i \in DOMAIN Inventory
               PROVE  /\ drops'[i] = [f \in Fields |-> drops'[i][f]]
                      /\ drops'[i].id \in DropIds /\ drops'[i].claimable = TRUE
                            => minutes'[drops'[i].id] >= Required[drops'[i].id]
      BY DEF CopiesTrue
  <2>1. PICK d \in DropIds : drops'[i] = InventoryDrop(d)
      BY InventoryCopies
  <2>2. InventoryDrop(d).claimable = TRUE => minutes[d] >= Required[d]
      BY <1>2
  <2>3. QED
      BY <1>1, <1>2, <2>1, <2>2
<1>4. QED
    BY <1>1, <1>3

\* What the loop leaves in the place of a copy is no more claimable than the copy.
LEMMA Continue_Copies ==
    ASSUME DropsInv, NEW d \in DropIds, At(d), minutes' = minutes,
           Continue(Copy) \/ Continue(Unclaimable) \/ Continue(AsClaimed)
    PROVE  CopiesTrue'
<1> USE DEF DropsInv
<1>1. index \in DOMAIN drops /\ Copy = [f \in Fields |-> Copy[f]]
    BY DEF At, Copy, CopiesTrue
<1>2. /\ Unclaimable = [f \in Fields |-> Unclaimable[f]]
      /\ Unclaimable.claimable = FALSE
    BY <1>1 DEF Unclaimable, Fields
<1>3. /\ AsClaimed = [f \in Fields |-> AsClaimed[f]]
      /\ AsClaimed.claimable = FALSE
    BY <1>2 DEF AsClaimed, Fields
<1>4. PICK r \in {Copy, Unclaimable, AsClaimed} : drops' = [drops EXCEPT ![index] = r]
    BY DEF Continue
<1>5. r = [f \in Fields |-> r[f]] /\ (r = Copy \/ r.claimable # TRUE)
    BY <1>1, <1>2, <1>3
<1>6. DOMAIN drops' = DOMAIN drops
      /\ \A i \in DOMAIN drops : drops'[i] = IF i = index THEN r ELSE drops[i]
    BY <1>4
<1>7. \A i \in DOMAIN drops : drops'[i] = drops[i] \/ (drops'[i] = r /\ r.claimable # TRUE)
    BY <1>5, <1>6 DEF Copy
<1>8. \A i \in DOMAIN drops : drops'[i] = [f \in Fields |-> drops'[i][f]]
    BY <1>5, <1>6 DEF CopiesTrue
<1>9. QED
    BY <1>6, <1>7, <1>8 DEF CopiesTrue

-----------------------------------------------------------------------------
(* The refinement: what each step is for DropLife.                           *)

LEMMA DropsInit_Life == DropsInit => Life!LifeInit
<1> SUFFICES ASSUME DropsInit PROVE Life!LifeInit
    OBVIOUS
<1>1. \A d \in DropIds : d \notin honoured /\ ~(minutes[d] >= Required[d])
    BY DropsAssumption DEF DropsInit
<1>2. Progress = [d \in DropIds |-> "open"]
    BY <1>1 DEF Progress
<1>3. QED
    BY <1>2, DropsFlags DEF DropsInit, Life!LifeInit

LEMMA SameProgress ==
    ASSUME UNCHANGED <<minutes, honoured>>
    PROVE  Progress' = Progress
BY DEF Progress

LEMMA ClaimedProgress ==
    ASSUME NEW d \in DropIds, UNCHANGED minutes, honoured' = honoured \cup {d}
    PROVE  Progress' = [Progress EXCEPT ![d] = "claimed"]
BY DEF Progress

\* A drop whose copy is claimable is not open.
LEMMA ClaimableProgress ==
    ASSUME DropsInv, NEW d \in DropIds, At(d), Copy.claimable = TRUE
    PROVE  Progress[d] = IF d \in honoured THEN "claimed" ELSE "complete"
BY DEF DropsInv, CopiesTrue, At, Copy, Progress

\* The service, on its own.
LEMMA Service_Step ==
    ASSUME DropsInv, Service, UNCHANGED dryRun
    PROVE  DropsInv' /\ [Life!LifeNext]_Life!life
<1> USE DEF knowledge, ranked, local, history
<1>1. CASE Credit
  <2>1. DropsInv'
      BY <1>1, Credit_Inv
  <2>2. PICK e \in DropIds : /\ e \notin honoured /\ minutes[e] < Required[e]
                             /\ minutes' = [minutes EXCEPT ![e] = @ + 1]
      BY <1>1 DEF Credit
  <2>3. UNCHANGED <<honoured, claimedInstances, announced>>
      BY <1>1 DEF Credit
  <2>4. \A d \in DropIds : d # e => minutes'[d] = minutes[d]
      BY <2>2 DEF DropsInv, Seen
  <2>5. minutes[e] \in Nat /\ Required[e] \in Nat
      BY DropsAssumption DEF DropsInv, Seen
  <2>6. Progress[e] = "open"
      BY <2>2, <2>5 DEF Progress
  <2>7. CASE minutes'[e] >= Required[e]
    <3>1. Progress' = [Progress EXCEPT ![e] = "complete"]
        BY <2>2, <2>3, <2>4, <2>7 DEF Progress
    <3>2. Life!Earn(e)
        BY <2>3, <2>6, <3>1 DEF Life!Earn
    <3>3. QED
        BY <2>1, <3>2 DEF Life!LifeNext
  <2>8. CASE ~(minutes'[e] >= Required[e])
    <3>1. Progress' = Progress
        BY <2>2, <2>3, <2>4, <2>6, <2>8 DEF Progress
    <3>2. QED
        BY <2>1, <2>3, <3>1 DEF Life!life
  <2>9. QED
      BY <2>7, <2>8
<1>2. CASE ClaimElsewhere
  <2>1. PICK d \in DropIds : /\ minutes[d] >= Required[d] /\ d \notin honoured
                             /\ honoured' = honoured \cup {d}
      BY <1>2 DEF ClaimElsewhere
  <2>2. UNCHANGED <<minutes, claimedInstances, announced, drops>>
      BY <1>2 DEF ClaimElsewhere
  <2>3. DropsInv'
      BY <2>1, <2>2 DEF DropsInv, Seen, CopiesTrue
  <2>4. Progress[d] = "complete" /\ Progress' = [Progress EXCEPT ![d] = "claimed"]
      BY <2>1, <2>2, ClaimedProgress DEF Progress
  <2>5. Life!TakenElsewhere(d)
      BY <2>2, <2>4 DEF Life!TakenElsewhere
  <2>6. QED
      BY <2>3, <2>5 DEF Life!LifeNext
<1>3. CASE Link \/ TimePasses
  <2>1. UNCHANGED <<minutes, honoured, claimedInstances, announced, drops>>
      BY <1>3 DEF Link, TimePasses
  <2>2. DropsInv'
      BY <2>1 DEF DropsInv, Seen, CopiesTrue
  <2>3. QED
      BY <2>1, <2>2, SameProgress DEF Life!life
<1>4. QED
    BY <1>1, <1>2, <1>3 DEF Service

\* The steps of the poll outside the loop.
LEMMA Poll_Step ==
    ASSUME DropsInv, UNCHANGED dryRun,
           \/ InitialFetch \/ InitialFetchFails
           \/ ScanFallsDue \/ Poll \/ FetchFails \/ Fetch \/ FetchNothing
           \/ Settle \/ RankScanned \/ RankUnscanned
    PROVE  DropsInv' /\ [Life!LifeNext]_Life!life
<1>1. UNCHANGED <<minutes, honoured, claimedInstances, announced>>
    BY DEF InitialFetch, InitialFetchFails, ScanFallsDue, Poll, FetchFails, Fetch,
           FetchNothing, Settle, RankScanned, RankUnscanned, EndRefresh, service, knowledge, history
<1>2. CASE drops' = Inventory
    BY <1>1, <1>2, Fetch_Inv, SameProgress DEF Life!life
<1>3. CASE drops' # Inventory
  <2>1. drops' = drops \/ drops' = <<>>
      BY <1>3 DEF InitialFetch, Answers, InitialFetchFails, ScanFallsDue, Poll, FetchFails,
             Fetch, FetchNothing, Settle, RankScanned, RankUnscanned, EndRefresh, local
  <2>2. DropsInv'
      BY <1>1, <2>1 DEF DropsInv, Seen, CopiesTrue
  <2>3. QED
      BY <1>1, <2>2, SameProgress DEF Life!life
<1>4. QED
    BY <1>2, <1>3

\* The steps of the loop that leave a drop alone.
LEMMA Skip_Step ==
    ASSUME DropsInv, UNCHANGED dryRun, NEW d \in DropIds,
           SkipUnconnected(d) \/ SkipUnclaimable(d) \/ SkipMarked(d)
    PROVE  DropsInv' /\ [Life!LifeNext]_Life!life
<1>1. /\ At(d) /\ UNCHANGED <<minutes, honoured, announced>>
      /\ Continue(Copy) \/ Continue(Unclaimable) \/ Continue(AsClaimed)
      /\ \/ UNCHANGED claimedInstances
         \/ Copy.claimable = TRUE /\ claimedInstances' = claimedInstances \cup {d}
    BY DEF SkipUnconnected, SkipUnclaimable, SkipMarked, service, knowledge, history
<1>2. CopiesTrue'
    BY <1>1, Continue_Copies
<1>3. DropsInv' /\ Progress' = Progress
    BY <1>1, <1>2, SameProgress DEF DropsInv, Seen
<1>4. CASE claimedInstances' = claimedInstances
    BY <1>1, <1>3, <1>4 DEF Life!life
<1>5. CASE claimedInstances' # claimedInstances
  <2>1. Progress[d] # "open"
      BY <1>1, <1>5, ClaimableProgress
  <2>2. Life!Miss(d)
      BY <1>1, <1>3, <1>5, <2>1 DEF Life!Miss, Life!Attend
  <2>3. QED
      BY <1>3, <2>2 DEF Life!LifeNext
<1>6. QED
    BY <1>4, <1>5

\* What every claim does before its answer is looked at.
LEMMA Claim_Attends ==
    ASSUME DropsInv, UNCHANGED <<dryRun, minutes>>, NEW d \in DropIds,
           Claimable(d), Mark(d), honoured' \in {honoured, honoured \cup {d}},
           UNCHANGED announced \/ Announce(d),
           Continue(Copy) \/ Continue(Unclaimable) \/ Continue(AsClaimed)
    PROVE  /\ DropsInv'
           /\ Life!Attend(d)
           /\ Progress[d] = IF d \in honoured THEN "claimed" ELSE "complete"
           /\ honoured' = honoured => Progress' = Progress
           /\ honoured' # honoured => Progress' = [Progress EXCEPT ![d] = "claimed"]
<1>1. At(d) /\ Copy.claimable = TRUE /\ d \notin claimedInstances
    BY DEF Claimable, DropsInv, CopiesTrue
<1>2. CopiesTrue'
    BY <1>1, Continue_Copies
<1>3. Seen'
    BY DEF DropsInv, Seen, Mark, Announce
<1>4. Progress[d] = IF d \in honoured THEN "claimed" ELSE "complete"
    BY <1>1, ClaimableProgress
<1>5. Life!Attend(d)
    BY <1>1, <1>4 DEF Life!Attend, Mark
<1>6. QED
    BY <1>2, <1>3, <1>4, <1>5, SameProgress, ClaimedProgress DEF DropsInv

LEMMA Claim_Step ==
    ASSUME DropsInv, UNCHANGED dryRun, NEW d \in DropIds,
           \/ ClaimDry(d) \/ ClaimSucceeds(d) \/ ClaimAlreadyDone(d)
           \/ ClaimNotConnected(d) \/ ClaimFails(d)
    PROVE  DropsInv' /\ [Life!LifeNext]_Life!life
<1> USE DEF service, history
<1>1. CASE ClaimDry(d)
  <2>1. /\ Claimable(d) /\ Mark(d) /\ Announce(d) /\ Continue(Copy)
        /\ UNCHANGED <<minutes, honoured>> /\ dryRun
      BY <1>1 DEF ClaimDry
  <2>2. DropsInv' /\ Life!Attend(d) /\ Progress' = Progress
      BY <2>1, Claim_Attends
  <2>3. Life!Pretend(d)
      BY <2>1, <2>2 DEF Life!Pretend, Announce
  <2>4. QED
      BY <2>2, <2>3 DEF Life!LifeNext
<1>2. CASE ClaimSucceeds(d)
  <2>1. /\ Claimable(d) /\ Mark(d) /\ Announce(d) /\ Continue(AsClaimed)
        /\ minutes' = minutes /\ d \notin honoured /\ honoured' = honoured \cup {d} /\ ~dryRun
      BY <1>2 DEF ClaimSucceeds
  <2>2. /\ DropsInv' /\ Life!Attend(d) /\ Progress[d] = "complete"
        /\ Progress' = [Progress EXCEPT ![d] = "claimed"]
      BY <2>1, Claim_Attends
  <2>3. Life!Claim(d)
      BY <2>1, <2>2 DEF Life!Claim, Announce
  <2>4. QED
      BY <2>2, <2>3 DEF Life!LifeNext
<1>3. CASE ClaimAlreadyDone(d) \/ ClaimNotConnected(d) \/ ClaimFails(d)
  <2>1. /\ Claimable(d) /\ Mark(d) /\ UNCHANGED <<minutes, announced>>
        /\ honoured' \in {honoured, honoured \cup {d}}
        /\ Continue(Copy) \/ Continue(Unclaimable) \/ Continue(AsClaimed)
      BY <1>3 DEF ClaimAlreadyDone, ClaimNotConnected, NotConnected, ClaimFails, Fails
  <2>2. /\ DropsInv' /\ Life!Attend(d)
        /\ Progress' \in {Progress, [Progress EXCEPT ![d] = "claimed"]}
      BY <2>1, Claim_Attends
  <2>3. Life!Miss(d)
      BY <2>1, <2>2 DEF Life!Miss
  <2>4. QED
      BY <2>2, <2>3 DEF Life!LifeNext
<1>4. QED
    BY <1>1, <1>2, <1>3

LEMMA Restart_Step ==
    ASSUME DropsInv, Restart
    PROVE  DropsInv' /\ [Life!LifeNext]_Life!life
<1>1. /\ UNCHANGED <<dryRun, minutes, honoured, announced>>
      /\ claimedInstances' = {} /\ drops' = <<>>
    BY DEF Restart, history
<1>2. DropsInv'
    BY <1>1 DEF DropsInv, Seen, CopiesTrue
<1>3. Life!Forget
    BY <1>1, SameProgress DEF Life!Forget
<1>4. QED
    BY <1>2, <1>3 DEF Life!LifeNext

LEMMA Drops_Step ==
    ASSUME DropsInv, [DropsNext]_dropsVars
    PROVE  DropsInv' /\ [Life!LifeNext]_Life!life
<1>1. CASE Restart
    BY <1>1, Restart_Step
<1>2. CASE DropsStep /\ UNCHANGED dryRun
  <2>1. CASE Service
      BY <1>2, <2>1, Service_Step
  <2>2. CASE \/ InitialFetch \/ InitialFetchFails \/ ScanFallsDue \/ Poll \/ FetchFails \/ Fetch \/ FetchNothing
             \/ Settle \/ RankScanned \/ RankUnscanned
      BY <1>2, <2>2, Poll_Step
  <2>3. CASE ClaimLoop
      BY <1>2, <2>3, Skip_Step, Claim_Step DEF ClaimLoop
  <2>4. QED
      BY <1>2, <2>1, <2>2, <2>3 DEF DropsStep
<1>3. CASE UNCHANGED dropsVars
  <2>1. UNCHANGED <<dryRun, minutes, honoured, claimedInstances, announced, drops>>
      BY <1>3 DEF dropsVars, service, knowledge, local, history
  <2>2. DropsInv'
      BY <2>1 DEF DropsInv, Seen, CopiesTrue
  <2>3. QED
      BY <2>1, <2>2, SameProgress DEF Life!life
<1>4. QED
    BY <1>1, <1>2, <1>3 DEF DropsNext

THEOREM Drops_Inv == DropsSpec => []DropsInv
<1>1. DropsInv /\ [DropsNext]_dropsVars => DropsInv'
    BY Drops_Step
<1>2. QED
    BY <1>1, DropsInit_Inv, PTL DEF DropsSpec

\* For any inventory, links, scans and restarts, the drops goroutine does with each
\* drop what DropLife promises.
THEOREM Drops_ImplementsLife == DropsSpec => ImplementsLife
<1>1. DropsInv /\ [DropsNext]_dropsVars => [Life!LifeNext]_Life!life
    BY Drops_Step
<1>2. QED
    BY <1>1, DropsInit_Life, Drops_Inv, PTL DEF DropsSpec, ImplementsLife, Life!LifeSpec

-----------------------------------------------------------------------------
(* What the promise comes to.                                                *)

LEMMA Life_Init == Life!LifeInit => LifeInv
BY DEF Life!LifeInit, LifeInv, Life!LifeTypeOK, Life!Stages, Life!OnceAndClaimed

LEMMA Life_Step == LifeInv /\ [Life!LifeNext]_Life!life => LifeInv'
<1> SUFFICES ASSUME LifeInv, [Life!LifeNext]_Life!life PROVE LifeInv'
    OBVIOUS
<1> USE DEF LifeInv, Life!LifeTypeOK, Life!OnceAndClaimed, Life!Stages
<1>1. CASE Life!Forget
    BY <1>1 DEF Life!Forget
<1>2. ASSUME NEW d \in DropIds, Life!Earn(d) PROVE LifeInv'
    BY <1>2 DEF Life!Earn
<1>3. ASSUME NEW d \in DropIds, Life!TakenElsewhere(d) PROVE LifeInv'
    BY <1>3 DEF Life!TakenElsewhere
<1>4. ASSUME NEW d \in DropIds, Life!Claim(d) PROVE LifeInv'
    BY <1>4 DEF Life!Claim, Life!Attend
<1>5. ASSUME NEW d \in DropIds, Life!Pretend(d) PROVE LifeInv'
    BY <1>5 DEF Life!Pretend, Life!Attend
<1>6. ASSUME NEW d \in DropIds, Life!Miss(d) PROVE LifeInv'
    BY <1>6 DEF Life!Miss, Life!Attend
<1>7. CASE UNCHANGED Life!life
    BY <1>7 DEF Life!life
<1>8. QED
    BY <1>1, <1>2, <1>3, <1>4, <1>5, <1>6, <1>7 DEF Life!LifeNext

\* Restarted or not, outside a dry run the process announces a drop once at most, and
\* only if the service has honoured its claim.
THEOREM Drops_AnnouncedOnce == DropsSpec => []AnnouncedOnce
<1>1. LifeInv => AnnouncedOnce
    BY DEF LifeInv, AnnouncedOnce
<1>2. QED
    BY <1>1, Life_Init, Life_Step, Drops_ImplementsLife, PTL DEF ImplementsLife, Life!LifeSpec
=============================================================================
