------------------------------- MODULE Folding --------------------------------
(* Induction for proofs, said with sets and functions: what holds at 0 and  *)
(* after every step, for sequences what holds of the empty one and after    *)
(* every Append; and what the folds of the community modules go through.    *)
EXTENDS Naturals, Sequences, SequencesExt, FiniteSets,
        WellFoundedInduction, SequenceTheorems, TLAPS

(* Induction with sets: a set of numbers that is not empty has a least one.   *)
LEMMA LeastOf ==
  ASSUME NEW T \in SUBSET Nat, T # {}
  PROVE  \E m \in T : \A k \in T : m <= k
<1> DEFINE Less == {ss \in Nat \X Nat : ss[1] < ss[2]}
<1>1. IsWellFoundedOn(Less, Nat)
  BY NatLessThanWellFounded DEF OpToRel
<1>2. \E x \in T : \A y \in T : ~ (<<y, x>> \in Less)
  <2> HIDE DEF Less
  <2> QED BY <1>1, WFMin
<1>3. \A x \in T, y \in T : ~ (<<y, x>> \in Less) => x <= y
  OBVIOUS
<1>4. QED
  <2> HIDE DEF Less
  <2> QED BY <1>2, <1>3

(* A set with 0 and with the successor of each number in it has them all.     *)
LEMMA SetInduction ==
  ASSUME NEW T, 0 \in T, \A n \in Nat : n \in T => n + 1 \in T
  PROVE  Nat \subseteq T
<1>1. SUFFICES ASSUME Nat \ T # {} PROVE FALSE
  OBVIOUS
<1>2. PICK m \in Nat \ T : \A k \in Nat \ T : m <= k
  BY <1>1, LeastOf
<1>3. m # 0
  BY <1>2
<1>4. m - 1 \in Nat /\ m - 1 \notin Nat \ T
  BY <1>2, <1>3
<1>5. QED
  BY <1>2, <1>4

(* There is a function with a given value at 0 whose value at each number     *)
(* follows from the one before.                                               *)
Recursion(f, base, n, step) ==
  f[0] = base /\ \A k \in 1..n : f[k] = step[k][f[k - 1]]

LEMMA FunctionByRecursion ==
  ASSUME NEW S, NEW base \in S, NEW n \in Nat, NEW step \in [1..n -> [S -> S]]
  PROVE  \E f \in [0..n -> S] : Recursion(f, base, n, step)
<1> DEFINE Upto(m, f) == /\ f \in [0..m -> S]
                         /\ f[0] = base
                         /\ \A k \in 1..m : f[k] = step[k][f[k - 1]]
           T == {m \in Nat : m <= n => \E f : Upto(m, f)}
<1>1. 0 \in T
  <2>1. Upto(0, [k \in 0..0 |-> base])
    OBVIOUS
  <2>2. QED
    BY <2>1
<1>2. ASSUME NEW m \in Nat, m \in T
      PROVE  m + 1 \in T
  <2>1. SUFFICES ASSUME m + 1 <= n
                 PROVE  \E f : Upto(m + 1, f)
    OBVIOUS
  <2>2. PICK f : Upto(m, f)
    BY <1>2, <2>1
  <2> DEFINE g == [k \in 0..(m + 1) |-> IF k = m + 1 THEN step[k][f[k - 1]] ELSE f[k]]
  <2>3. m + 1 \in 1..n /\ f[m] \in S
    BY <2>1, <2>2
  <2>4. step[m + 1] \in [S -> S] /\ step[m + 1][f[m]] \in S
    BY <2>3
  <2>5. g \in [0..(m + 1) -> S]
    BY <2>2, <2>4
  <2>6. g[0] = base
    BY <2>2
  <2>7. ASSUME NEW k \in 1..(m + 1)
        PROVE  g[k] = step[k][g[k - 1]]
    <3>1. CASE k = m + 1
      BY <3>1
    <3>2. CASE k # m + 1
      BY <3>2, <2>2
    <3>3. QED
      BY <3>1, <3>2
  <2>8. QED
    BY <2>5, <2>6, <2>7
<1>3. Nat \subseteq T
  <2> HIDE DEF T
  <2> QED BY <1>1, <1>2, SetInduction
<1>4. QED
  BY <1>3 DEF Recursion

(* The fold of the community modules goes through the sets of indices and     *)
(* takes the greatest index last: there is a function that does.              *)
LEMMA GreatestOf ==
  ASSUME NEW m \in Nat, NEW s \in SUBSET (1..m), m \in s
  PROVE  Max(s) = m
<1> DEFINE Top(x) == x \in s /\ \A y \in s : x >= y
<1>1. Top(m)
  OBVIOUS
<1>2. \A x : Top(x) => x = m
  OBVIOUS
<1>3. Max(s) = CHOOSE x \in s : \A y \in s : x >= y
  BY DEF Max
<1>4. QED
  BY <1>1, <1>2, <1>3

Folding(f, base, n, step) ==
  \A s \in SUBSET (1..n) : f[s] = IF s = {} THEN base ELSE step[Max(s)][f[s \ {Max(s)}]]

LEMMA FoldExists ==
  ASSUME NEW S, NEW base \in S, NEW n \in Nat, NEW step \in [1..n -> [S -> S]]
  PROVE  \E f \in [SUBSET (1..n) -> S] : Folding(f, base, n, step)
<1> DEFINE Upto(m, f) ==
             /\ f \in [SUBSET (1..m) -> S]
             /\ \A s \in SUBSET (1..m) :
                  f[s] = IF s = {} THEN base ELSE step[Max(s)][f[s \ {Max(s)}]]
           T == {m \in Nat : m <= n => \E f : Upto(m, f)}
<1>1. 0 \in T
  <2>1. 1..0 = {}
    OBVIOUS
  <2>2. Upto(0, [s \in SUBSET (1..0) |-> base])
    BY <2>1
  <2>3. QED
    BY <2>2
<1>2. ASSUME NEW m \in Nat, m \in T
      PROVE  m + 1 \in T
  <2>1. SUFFICES ASSUME m + 1 <= n
                 PROVE  \E f : Upto(m + 1, f)
    <3> HIDE DEF Upto
    <3> QED OBVIOUS
  <2>2. PICK f : Upto(m, f)
    <3> HIDE DEF Upto
    <3> QED BY <1>2, <2>1
  <2> DEFINE g == [s \in SUBSET (1..(m + 1)) |->
                     IF m + 1 \in s THEN step[m + 1][f[s \ {m + 1}]] ELSE f[s]]
  <2>3. \A s \in SUBSET (1..(m + 1)) : s \ {m + 1} \in SUBSET (1..m)
    OBVIOUS
  <2>4. \A s \in SUBSET (1..(m + 1)) : m + 1 \notin s => s \in SUBSET (1..m)
    OBVIOUS
  <2>5. step[m + 1] \in [S -> S]
    BY <2>1
  <2>6. g \in [SUBSET (1..(m + 1)) -> S]
    BY <2>2, <2>3, <2>4, <2>5
  <2>7. ASSUME NEW s \in SUBSET (1..(m + 1))
        PROVE  g[s] = IF s = {} THEN base ELSE step[Max(s)][g[s \ {Max(s)}]]
    <3>1. CASE m + 1 \in s
      <4>1. Max(s) = m + 1
        BY <3>1, GreatestOf
      <4>2. g[s \ {m + 1}] = f[s \ {m + 1}]
        BY <2>3
      <4>3. g[s] = step[m + 1][f[s \ {m + 1}]]
        BY <3>1
      <4>4. QED
        BY <4>1, <4>2, <4>3, <3>1
    <3>2. CASE m + 1 \notin s
      <4>1. s \in SUBSET (1..m)
        BY <3>2, <2>4
      <4>2. g[s] = f[s]
        BY <3>2
      <4>3. g[s \ {Max(s)}] = f[s \ {Max(s)}]
        BY <3>2
      <4>4. f[s] = IF s = {} THEN base ELSE step[Max(s)][f[s \ {Max(s)}]]
        BY <2>2, <4>1
      <4>5. QED
        BY <4>2, <4>3, <4>4
    <3>3. QED
      BY <3>1, <3>2
  <2>8. Upto(m + 1, g)
    <3> HIDE DEF g
    <3> QED BY <2>6, <2>7
  <2>9. QED
    <3> HIDE DEF Upto, g
    <3> QED BY <2>8
<1>3. Nat \subseteq T
  <2> HIDE DEF T
  <2> QED BY <1>1, <1>2, SetInduction
<1>4. \E f : Upto(n, f)
  <2> HIDE DEF Upto
  <2> QED BY <1>3
<1>5. QED
  BY <1>4 DEF Folding

(* What each step of a sequence of steps leads to, the whole leads to.        *)
LEMMA StepsReach ==
  ASSUME NEW n \in Nat, NEW at, NEW reach, at[0] \in reach[0],
         \A k \in 1..n : at[k - 1] \in reach[k - 1] => at[k] \in reach[k]
  PROVE  \A k \in 0..n : at[k] \in reach[k]
<1> DEFINE T == {k \in Nat : k <= n => at[k] \in reach[k]}
<1>1. 0 \in T
  OBVIOUS
<1>2. ASSUME NEW k \in Nat, k \in T PROVE k + 1 \in T
  <2>1. SUFFICES ASSUME k + 1 <= n PROVE at[k + 1] \in reach[k + 1]
    OBVIOUS
  <2>2. at[k] \in reach[k] /\ k + 1 \in 1..n /\ (k + 1) - 1 = k
    BY <1>2, <2>1
  <2>3. QED
    BY <2>2
<1>3. Nat \subseteq T
  <2> HIDE DEF T
  <2> QED BY <1>1, <1>2, SetInduction
<1>4. QED
  BY <1>3

LEMMA StepsKeep ==
  ASSUME NEW n \in Nat, NEW at, NEW reached, at[0] \in reached,
         \A k \in 1..n : at[k - 1] \in reached => at[k] \in reached
  PROVE  at[n] \in reached
<1> DEFINE reach == [k \in Nat |-> reached]
<1>1. reach[0] = reached /\ \A k \in 1..n : reach[k - 1] = reached /\ reach[k] = reached
  OBVIOUS
<1>2. n \in 0..n /\ reach[n] = reached
  OBVIOUS
<1> HIDE DEF reach
<1>3. at[0] \in reach[0] /\ \A k \in 1..n : at[k - 1] \in reach[k - 1] => at[k] \in reach[k]
  BY <1>1
<1>4. QED
  BY <1>2, <1>3, StepsReach

(* The same for the prefixes a fold goes through.                             *)
Unfolding(iter, base, n, body) ==
  \A s \in SUBSET (1..n) : iter[s] = IF s = {} THEN base ELSE body[s]

UnfoldedBy(iter, base, n, body) ==
  /\ iter[1..0] = base
  /\ \A k \in 1..n : /\ iter[1..k] = body[1..k]
                     /\ Max(1..k) = k
                     /\ (1..k) \ {k} = 1..(k - 1)

LEMMA FoldSteps ==
  ASSUME NEW n \in Nat, NEW base, NEW iter, NEW body, Unfolding(iter, base, n, body)
  PROVE  UnfoldedBy(iter, base, n, body)
<1>1. 1..0 = {}
  OBVIOUS
<1>2. ASSUME NEW k \in 1..n
      PROVE  /\ iter[1..k] = body[1..k]
             /\ Max(1..k) = k
             /\ (1..k) \ {k} = 1..(k - 1)
  <2>1. 1..k \in SUBSET (1..n) /\ k \in 1..k
    OBVIOUS
  <2>2. Max(1..k) = k
    BY <2>1, GreatestOf
  <2>3. (1..k) \ {k} = 1..(k - 1)
    OBVIOUS
  <2>4. QED
    BY <2>1, <2>2, <2>3 DEF Unfolding
<1>3. QED
  BY <1>1, <1>2 DEF Unfolding, UnfoldedBy

(* A set of numbers with a bound has a greatest one.                          *)
LEMMA MaxIn ==
  ASSUME NEW n \in Nat, NEW s \in SUBSET (1..n), s # {}
  PROVE  Max(s) \in s
<1> DEFINE T == {n - x : x \in s}
<1>1. T \in SUBSET Nat /\ T # {}
  <2>1. PICK x \in s : TRUE
    OBVIOUS
  <2>2. n - x \in T
    OBVIOUS
  <2>3. T \in SUBSET Nat
    OBVIOUS
  <2>4. QED
    BY <2>2, <2>3
<1>2. PICK m \in T : \A k \in T : m <= k
  <2> HIDE DEF T
  <2> QED BY <1>1, LeastOf
<1>3. PICK x \in s : m = n - x
  OBVIOUS
<1>4. \A y \in s : x >= y
  <2>1. TAKE y \in s
  <2>2. n - y \in T
    OBVIOUS
  <2>3. n - x <= n - y
    BY <1>2, <1>3, <2>2
  <2>4. QED
    BY <2>3
<1>5. Max(s) = CHOOSE z \in s : \A y \in s : z >= y
  BY DEF Max
<1>6. QED
  BY <1>4, <1>5

(* A set with the empty sequence and with whatever one element more makes of  *)
(* a sequence in it has all sequences.                                        *)
LEMMA SequenceInduction ==
  ASSUME NEW A, NEW T, <<>> \in T, \A s \in Seq(A) : \A x \in A : s \in T => Append(s, x) \in T
  PROVE  Seq(A) \subseteq T
<1> DEFINE N == {n \in Nat : \A s \in Seq(A) : Len(s) = n => s \in T}
<1>1. 0 \in N
  <2>1. \A s \in Seq(A) : Len(s) = 0 => s = <<>>
    OBVIOUS
  <2>2. QED
    BY <2>1
<1>2. ASSUME NEW n \in Nat, n \in N PROVE n + 1 \in N
  <2>1. SUFFICES ASSUME NEW s \in Seq(A), Len(s) = n + 1 PROVE s \in T
    OBVIOUS
  <2> DEFINE r == SubSeq(s, 1, n)
  <2>2. r \in Seq(A) /\ Len(r) = n /\ s[n + 1] \in A
    BY <2>1
  <2>3. s = Append(r, s[n + 1])
    BY <2>1
  <2>4. r \in T
    BY <1>2, <2>2
  <2> HIDE DEF r
  <2>5. QED
    BY <2>2, <2>3, <2>4
<1>3. Nat \subseteq N
  <2> HIDE DEF N
  <2> QED BY <1>1, <1>2, SetInduction
<1>4. QED
  BY <1>3

(* Two sequences of steps that do the same end the same.                      *)
LEMMA SameSteps ==
  ASSUME NEW n \in Nat, NEW f, NEW g, f[0] = g[0],
         \A k \in 1..n : f[k - 1] = g[k - 1] => f[k] = g[k]
  PROVE  f[n] = g[n]
<1> DEFINE reach == [k \in Nat |-> {g[k]}]
<1>1. f[0] \in reach[0] /\ \A k \in 1..n : f[k - 1] \in reach[k - 1] => f[k] \in reach[k]
  OBVIOUS
<1>2. n \in 0..n /\ reach[n] = {g[n]}
  OBVIOUS
<1> HIDE DEF reach
<1>3. QED
  BY <1>1, <1>2, StepsReach

LEMMA AppendToWhole ==
  ASSUME NEW A, NEW r \in Seq(A), NEW q \in Seq(A), NEW c \in A
  PROVE  Append(r \o q, c) = r \o Append(q, c)
<1>1. <<c>> \in Seq(A) /\ r \o q \in Seq(A)
  BY ConcatProperties
<1>2. Append(r \o q, c) = (r \o q) \o <<c>> /\ Append(q, c) = q \o <<c>>
  BY <1>1, AppendIsConcat
<1>3. QED
  BY <1>1, <1>2, ConcatAssociative

(* A set of numbers that is not empty has the least one that Min chooses.     *)
LEMMA MinIn ==
  ASSUME NEW s \in SUBSET Nat, s # {}
  PROVE  Min(s) \in s /\ \A k \in s : Min(s) <= k
<1>1. \E x \in s : \A y \in s : x <= y
  BY LeastOf
<1>2. Min(s) = CHOOSE x \in s : \A y \in s : x <= y
  BY DEF Min
<1>3. QED
  BY <1>1, <1>2

LEMMA RemovedAt ==
  ASSUME NEW A, NEW s \in Seq(A), NEW i \in 1..Len(s)
  PROVE  RemoveAt(s, i) = [k \in 1..(Len(s) - 1) |-> IF k < i THEN s[k] ELSE s[k + 1]]
<1> DEFINE a == SubSeq(s, 1, i - 1)
           b == SubSeq(s, i + 1, Len(s))
           r == [k \in 1..(Len(s) - 1) |-> IF k < i THEN s[k] ELSE s[k + 1]]
<1>1. /\ a \in Seq(A) /\ Len(a) = i - 1 /\ \A k \in 1..(i - 1) : a[k] = s[k]
      /\ b \in Seq(A) /\ Len(b) = Len(s) - i /\ \A k \in 1..(Len(s) - i) : b[k] = s[i + k]
  OBVIOUS
<1> HIDE DEF a, b
<1>2. /\ a \o b \in Seq(A) /\ Len(a \o b) = Len(s) - 1
      /\ \A k \in 1..(Len(s) - 1) : (a \o b)[k] = IF k < i THEN s[k] ELSE s[k + 1]
  <2> HIDE DEF r
  <2>1. a \o b \in Seq(A) /\ Len(a \o b) = Len(s) - 1
    <3>1. a \o b \in Seq(A) /\ Len(a \o b) = Len(a) + Len(b)
      BY <1>1, ConcatProperties
    <3>2. Len(s) \in Nat /\ (i - 1) + (Len(s) - i) = Len(s) - 1
      OBVIOUS
    <3>3. QED
      BY <1>1, <3>1, <3>2
  <2>2. ASSUME NEW k \in 1..(Len(s) - 1) PROVE (a \o b)[k] = IF k < i THEN s[k] ELSE s[k + 1]
    <3>1. CASE k < i
      BY <1>1, <3>1
    <3>2. CASE ~(k < i)
      <4>1. k - (i - 1) \in 1..(Len(s) - i) /\ i + (k - (i - 1)) = k + 1
        BY <3>2
      <4>2. (a \o b)[k] = b[k - (i - 1)]
        BY <1>1, <3>2
      <4>3. QED
        BY <1>1, <3>2, <4>1, <4>2
    <3>3. QED
      BY <3>1, <3>2
  <2>3. QED
    BY <2>1, <2>2
<1>3. r \in Seq(A) /\ Len(r) = Len(s) - 1
  <2>1. r \in [1..(Len(s) - 1) -> A] /\ Len(s) - 1 \in Nat
    OBVIOUS
  <2> HIDE DEF r
  <2>2. QED
    BY <2>1
<1>4. a \o b = r
  <2>1. \A k \in 1..Len(a \o b) : (a \o b)[k] = r[k]
    BY <1>2
  <2> HIDE DEF r
  <2>2. QED
    BY <1>2, <1>3, <2>1, SeqEqual
<1>5. RemoveAt(s, i) = a \o b
  BY DEF RemoveAt, a, b
<1>6. QED
  BY <1>4, <1>5
=============================================================================
