-------------------------- MODULE BuddyManagerProofs --------------------------
(***************************************************************************)
(* Proofs about BuddyManager for every memory map and all calls.           *)
(***************************************************************************)
EXTENDS BuddyManager, FiniteSetTheorems, WellFoundedInduction, TLAPS

-----------------------------------------------------------------------------
(***************************************************************************)
(* Induction and recursion, for sets and functions                         *)
(***************************************************************************)
\* A set of numbers has a least one.
LEMMA LeastNumber ==
  ASSUME NEW S \in SUBSET Nat, S # {}
  PROVE  \E x \in S : \A y \in S : x <= y
<1>1. PICK x \in S : \A y \in S : ~(<<y, x>> \in OpToRel(<, Nat))
  BY NatLessThanWellFounded, WFMin
<1>2. ASSUME NEW y \in S PROVE x <= y
  <2>1. ~(y < x)
    BY <1>1 DEF OpToRel
  <2> QED BY <2>1
<1> QED BY <1>2

\* What holds of 0 and goes from a number to the next holds up to N.
LEMMA SetInduction ==
  ASSUME NEW N \in Nat, NEW S, 0 \in S, \A n \in 0 .. (N - 1) : n \in S => n + 1 \in S
  PROVE  \A n \in 0 .. N : n \in S
<1> SUFFICES ASSUME NEW z \in 0 .. N, z \notin S PROVE FALSE
  OBVIOUS
<1>1. PICK x \in { n \in 0 .. N : n \notin S } :
        \A y \in { n \in 0 .. N : n \notin S } : x <= y
  <2>1. /\ { n \in 0 .. N : n \notin S } \in SUBSET Nat
        /\ z \in { n \in 0 .. N : n \notin S }
    OBVIOUS
  <2> HIDE DEF SetInduction
  <2> QED BY <2>1, LeastNumber
<1>2. x # 0 /\ x - 1 \in 0 .. (N - 1) /\ (x - 1) + 1 = x
  BY <1>1
<1>3. x - 1 \in S
  BY <1>1, <1>2
<1> QED BY <1>1, <1>2, <1>3

\* A function is defined by its first value and by how each follows from the
\* one before it.
Steps(N, V) == [V \X (1 .. N) -> V]

Computed(f, N, V, b, step) == /\ f \in [0 .. N -> V]
                              /\ f[0] = b
                              /\ \A t \in 1 .. N : f[t] = step[<<f[t - 1], t>>]

LEMMA Recursion ==
  ASSUME NEW N \in Nat, NEW V, NEW b \in V, NEW step \in Steps(N, V)
  PROVE  \E f : Computed(f, N, V, b, step)
<1> DEFINE Good(n, f) == /\ f \in [0 .. n -> V]
                         /\ f[0] = b
                         /\ \A t \in 1 .. n : f[t] = step[<<f[t - 1], t>>]
           S == { n \in 0 .. N : \E f \in [0 .. n -> V] : Good(n, f) }
<1>1. 0 \in S
  <2>1. Good(0, [t \in 0 .. 0 |-> b])
    OBVIOUS
  <2>2. 0 \in 0 .. N /\ [t \in 0 .. 0 |-> b] \in [0 .. 0 -> V]
    OBVIOUS
  <2> HIDE DEF Good
  <2> QED BY <2>1, <2>2
<1>2. ASSUME NEW n \in 0 .. (N - 1), n \in S PROVE n + 1 \in S
  <2>1. PICK f \in [0 .. n -> V] : Good(n, f)
    BY <1>2
  <2> DEFINE g == [t \in 0 .. (n + 1) |-> IF t = n + 1 THEN step[<<f[n], n + 1>>] ELSE f[t]]
  <2>2. f[n] \in V /\ <<f[n], n + 1>> \in V \X (1 .. N)
    BY <2>1
  <2>3. step[<<f[n], n + 1>>] \in V
    BY <2>2 DEF Steps
  <2>4. g \in [0 .. (n + 1) -> V]
    BY <2>1, <2>3
  <2>5. g[0] = b
    BY <2>1
  <2>6. ASSUME NEW t \in 1 .. (n + 1) PROVE g[t] = step[<<g[t - 1], t>>]
    <3>1. CASE t = n + 1
      <4>1. g[t] = step[<<f[n], n + 1>>] /\ g[t - 1] = f[n]
        BY <3>1
      <4> QED BY <3>1, <4>1
    <3>2. CASE t # n + 1
      <4>1. t \in 1 .. n /\ t - 1 \in 0 .. n
        BY <3>2
      <4>2. g[t] = f[t] /\ g[t - 1] = f[t - 1]
        BY <3>2, <4>1
      <4> QED BY <2>1, <4>1, <4>2
    <3> QED BY <3>1, <3>2
  <2>7. Good(n + 1, g)
    BY <2>4, <2>5, <2>6
  <2> HIDE DEF Good, g
  <2> QED BY <2>4, <2>7
<1>3. N \in S
  <2> HIDE DEF S
  <2> QED BY <1>1, <1>2, SetInduction
<1>4. PICK f \in [0 .. N -> V] : Good(N, f)
  BY <1>3
<1> QED BY <1>4 DEF Computed

-----------------------------------------------------------------------------
(***************************************************************************)
(* Sorting                                                                 *)
(***************************************************************************)
\* Orders of n entries, and a map in any of them.
Orders(n) == { p \in [1 .. n -> 1 .. n] : \A i, j \in 1 .. n : p[i] = p[j] => i = j }
Arranged(m, n) == { [i \in 1 .. n |-> m[p[i]]] : p \in Orders(n) }

LEMMA ExchangedArranged ==
  ASSUME NEW n \in Nat, NEW m, NEW s \in Arranged(m, n), NEW i \in 1 .. n, NEW j \in 1 .. n
  PROVE  Exchanged(s, i, j) \in Arranged(m, n)
<1>1. PICK p \in Orders(n) : s = [a \in 1 .. n |-> m[p[a]]]
  BY DEF Arranged
<1> DEFINE q == [a \in 1 .. n |-> IF a = i THEN p[j] ELSE IF a = j THEN p[i] ELSE p[a]]
<1>2. q \in Orders(n)
  BY DEF Orders
<1>3. ASSUME i # j PROVE [s EXCEPT ![i] = s[j], ![j] = s[i]] = [a \in 1 .. n |-> m[q[a]]]
  BY <1>1, <1>3
<1> HIDE DEF q
<1>4. CASE i < j /\ s[j].pages > s[i].pages
  <2>1. Exchanged(s, i, j) = [a \in 1 .. n |-> m[q[a]]]
    BY <1>3, <1>4 DEF Exchanged
  <2> QED BY <1>2, <2>1 DEF Arranged
<1>5. CASE ~(i < j /\ s[j].pages > s[i].pages)
  BY <1>5 DEF Exchanged
<1> QED BY <1>4, <1>5

\* The pair of entries that is compared.
LEMMA Compared ==
  ASSUME NEW n \in Nat, NEW t \in 1 .. (n * n)
  PROVE  ((t - 1) \div n) + 1 \in 1 .. n /\ ((t - 1) % n) + 1 \in 1 .. n
<1>1. n * n \in Nat /\ t - 1 \in Nat /\ t - 1 < n * n
  OBVIOUS
<1>2. n # 0
  BY <1>1
<1> DEFINE q == (t - 1) \div n
<1>3. q \in Nat /\ (t - 1) % n \in 0 .. (n - 1) /\ t - 1 = (n * q) + ((t - 1) % n)
  BY <1>1, <1>2
<1> HIDE DEF q
<1>4. q < n
  <2> SUFFICES ASSUME q >= n PROVE FALSE
    BY <1>3
  <2>1. n * q >= n * n
    BY <1>3
  <2> QED BY <1>1, <1>3, <2>1
<1> QED BY <1>3, <1>4 DEF q

\* sort() rearranges the entries.
LEMMA SortedArranges ==
  ASSUME NEW m, NEW E, m \in Seq(E)
  PROVE  Sorted(m) \in Arranged(m, Len(m))
<1> DEFINE n == Len(m)
           N == n * n
           V == Arranged(m, n)
           A(t) == ((t - 1) \div n) + 1
           B(t) == ((t - 1) % n) + 1
           step == [x \in V \X (1 .. N) |-> Exchanged(x[1], A(x[2]), B(x[2]))]
<1>1. n \in Nat /\ N \in Nat /\ m = [i \in 1 .. n |-> m[i]]
  <2>1. n \in Nat /\ m = [i \in 1 .. n |-> m[i]]
    OBVIOUS
  <2>2. \A k \in Nat : k * k \in Nat
    OBVIOUS
  <2> QED BY <2>1, <2>2
<1>2. m \in V
  <2>1. [i \in 1 .. n |-> i] \in Orders(n)
    BY DEF Orders
  <2>2. m = [i \in 1 .. n |-> m[[k \in 1 .. n |-> k][i]]]
    BY <1>1
  <2> QED BY <2>1, <2>2 DEF Arranged
<1>3. ASSUME NEW s \in V, NEW t \in 1 .. N PROVE Exchanged(s, A(t), B(t)) \in V
  BY <1>1, Compared, ExchangedArranged
<1> HIDE DEF n, V, A, B
<1>4. step \in [V \X (1 .. N) -> V]
  BY <1>3
<1>5. PICK f \in [0 .. N -> V] : f[0] = m /\ \A t \in 1 .. N : f[t] = step[<<f[t - 1], t>>]
  <2> HIDE DEF N, step
  <2>1. step \in Steps(N, V)
    BY <1>4 DEF Steps
  <2>2. \E f : Computed(f, N, V, m, step)
    BY <1>1, <1>2, <2>1, Recursion
  <2> QED BY <2>2 DEF Computed
<1>6. f = [t \in 0 .. N |-> IF t = 0 THEN m ELSE Exchanged(f[t - 1], A(t), B(t))]
  <2>1. ASSUME NEW t \in 0 .. N, t # 0 PROVE f[t] = Exchanged(f[t - 1], A(t), B(t))
    <3>1. t - 1 \in 0 .. N /\ t \in 1 .. N
      BY <1>1, <2>1
    <3>2. <<f[t - 1], t>> \in V \X (1 .. N)
      BY <1>5, <3>1
    <3>3. step[<<f[t - 1], t>>] = Exchanged(f[t - 1], A(t), B(t))
      BY <3>2
    <3> HIDE DEF step
    <3> QED BY <1>5, <3>1, <3>3
  <2> QED BY <1>5, <2>1
<1> DEFINE s == Sorting(m)
<1>7. s = [t \in 0 .. N |-> IF t = 0 THEN m ELSE Exchanged(s[t - 1], A(t), B(t))]
  <2>1. f = [t \in 0 .. Len(m) * Len(m) |->
               IF t = 0 THEN m
               ELSE Exchanged(f[t - 1], ((t - 1) \div Len(m)) + 1, ((t - 1) % Len(m)) + 1)]
    BY Zenon, <1>6 DEF n, A, B
  <2>2. Sorting(m) = [t \in 0 .. Len(m) * Len(m) |->
               IF t = 0 THEN m
               ELSE Exchanged(Sorting(m)[t - 1], ((t - 1) \div Len(m)) + 1, ((t - 1) % Len(m)) + 1)]
    BY Zenon, <2>1 DEF Sorting
  <2> QED BY Zenon, <2>2 DEF n, A, B
<1> HIDE DEF s, N, step
<1>8. \A t \in 0 .. N : t \in { u \in 0 .. N : s[u] \in V }
  <2> DEFINE S == { u \in 0 .. N : s[u] \in V }
  <2>1. 0 \in S
    BY <1>1, <1>2, <1>7
  <2>2. ASSUME NEW t \in 0 .. (N - 1), t \in S PROVE t + 1 \in S
    <3>1. t + 1 \in 1 .. N /\ t + 1 \in 0 .. N /\ (t + 1) - 1 = t /\ t + 1 # 0
      BY <1>1
    <3>2. s[t + 1] = Exchanged(s[t], A(t + 1), B(t + 1))
      BY <1>7, <3>1
    <3> QED BY <1>3, <2>2, <3>1, <3>2
  <2> HIDE DEF S
  <2> QED BY <1>1, <2>1, <2>2, SetInduction DEF S
<1>9. s[N] \in V
  BY <1>1, <1>8
<1> QED BY <1>9 DEF s, N, n, V, Sorted

-----------------------------------------------------------------------------
(***************************************************************************)
(* The bits of a length                                                    *)
(***************************************************************************)
LEMMA Powers ==
  /\ MaxBit \in Nat /\ Pow2(0) = 1
  /\ \A j \in 0 .. (MaxBit + 1) : Pow2(j) \in Nat \ {0}
  /\ \A j \in 0 .. MaxBit : Pow2(j + 1) = 2 * Pow2(j)
<1>1. ASSUME NEW j \in 0 .. (MaxBit + 1) PROVE Pow2(j) \in Nat \ {0}
  <2>1. CASE j \in 0 .. MaxBit
    BY <2>1, PowerAssumption DEF PowerAssumption
  <2>2. CASE j = MaxBit + 1
    <3>1. MaxBit \in 0 .. MaxBit
      BY PowerAssumption DEF PowerAssumption
    <3>2. Pow2(MaxBit) \in Nat \ {0} /\ Pow2(MaxBit + 1) = 2 * Pow2(MaxBit)
      BY <3>1, PowerAssumption DEF PowerAssumption
    <3> QED BY <2>2, <3>2
  <2> QED BY <2>1, <2>2, PowerAssumption DEF PowerAssumption
<1> QED BY <1>1, PowerAssumption DEF PowerAssumption

\* Remainders by d and by 2d.
LEMMA Halving ==
  ASSUME NEW n \in Nat, NEW d \in Nat \ {0}
  PROVE  n % (2 * d) = (n % d) + (IF (n \div d) % 2 = 1 THEN d ELSE 0)
<1> DEFINE q == n \div d
           r == n % d
<1>1. q \in Nat /\ r \in 0 .. (d - 1) /\ n = (d * q) + r
  OBVIOUS
<1> HIDE DEF q, r
<1>2. PICK h \in Nat : q = 2 * h \/ q = (2 * h) + 1
  <2>1. q \div 2 \in Nat /\ (q = 2 * (q \div 2) \/ q = (2 * (q \div 2)) + 1)
    BY <1>1
  <2> QED BY <2>1
<1>3. d * (2 * h) = (2 * d) * h /\ d * ((2 * h) + 1) = ((2 * d) * h) + d
  OBVIOUS
<1>4. \A s \in 0 .. ((2 * d) - 1) : (((2 * d) * h) + s) % (2 * d) = s
  OBVIOUS
<1>5. CASE q = 2 * h
  <2>1. n = ((2 * d) * h) + r /\ r \in 0 .. ((2 * d) - 1)
    BY <1>1, <1>3, <1>5
  <2>2. q % 2 = 0
    BY <1>5
  <2> QED BY <1>4, <2>1, <2>2 DEF q, r
<1>6. CASE q = (2 * h) + 1
  <2>1. n = ((2 * d) * h) + (r + d) /\ r + d \in 0 .. ((2 * d) - 1)
    BY <1>1, <1>3, <1>6
  <2>2. q % 2 = 1
    BY <1>6
  <2> QED BY <1>4, <2>1, <2>2 DEF q, r
<1> QED BY <1>2, <1>5, <1>6

LEMMA BitStep ==
  ASSUME NEW n \in Nat, NEW j \in 0 .. MaxBit
  PROVE  n % Pow2(j + 1) = (n % Pow2(j)) + (IF HasBit(n, j) THEN Pow2(j) ELSE 0)
<1>1. Pow2(j) \in Nat \ {0} /\ Pow2(j + 1) = 2 * Pow2(j)
  BY Powers
<1> QED BY <1>1, Halving DEF HasBit

LEMMA Remainder ==
  ASSUME NEW n \in Nat, NEW j \in 0 .. (MaxBit + 1)
  PROVE  /\ Pow2(j) \in Nat \ {0} /\ n % Pow2(j) \in Nat
         /\ n % Pow2(j) < Pow2(j) /\ n % Pow2(j) <= n
<1>1. Pow2(j) \in Nat \ {0}
  BY Powers
<1>2. \A d \in Nat \ {0} : n % d \in Nat /\ n % d < d /\ n % d <= n
  OBVIOUS
<1> QED BY <1>1, <1>2

LEMMA RemaindersGrow ==
  ASSUME NEW n \in Nat, NEW l \in 0 .. (MaxBit + 1), NEW j \in l .. (MaxBit + 1)
  PROVE  n % Pow2(l) <= n % Pow2(j)
<1> DEFINE N == (MaxBit + 1) - l
           S == { i \in 0 .. N : n % Pow2(l) <= n % Pow2(l + i) }
<1>1. N \in Nat /\ MaxBit \in Nat /\ l \in Nat
  BY Powers
<1>2. 0 \in S
  BY <1>1, Remainder
<1>3. ASSUME NEW i \in 0 .. (N - 1), i \in S PROVE i + 1 \in S
  <2>1. l + i \in 0 .. MaxBit /\ l + (i + 1) = (l + i) + 1 /\ i + 1 \in 0 .. N
    BY <1>1
  <2>2. n % Pow2((l + i) + 1) >= n % Pow2(l + i)
    <3>1. l + i \in 0 .. (MaxBit + 1)
      BY <1>1, <2>1
    <3>2. Pow2(l + i) \in Nat /\ n % Pow2(l + i) \in Nat
      BY <3>1, Remainder
    <3> QED BY <2>1, <3>2, BitStep
  <2>3. n % Pow2(l) \in Int /\ n % Pow2(l + i) \in Int /\ n % Pow2((l + i) + 1) \in Int
    <3>1. l \in 0 .. (MaxBit + 1) /\ l + i \in 0 .. (MaxBit + 1)
          /\ (l + i) + 1 \in 0 .. (MaxBit + 1)
      BY <1>1, <2>1
    <3>2. ASSUME NEW x \in 0 .. (MaxBit + 1) PROVE n % Pow2(x) \in Int
      BY Remainder
    <3> HIDE DEF N, S
    <3> QED BY <3>1, <3>2
  <2> QED BY <1>3, <2>1, <2>2, <2>3
<1> HIDE DEF S
<1>4. \A i \in 0 .. N : i \in S
  BY <1>1, <1>2, <1>3, SetInduction
<1>5. j - l \in 0 .. N /\ l + (j - l) = j
  BY <1>1
<1> QED BY <1>4, <1>5 DEF S

\* What is cut off an entry for a bit of its length lies in the entry, and
\* before what is cut off for a higher bit.
LEMMA PieceEnds ==
  ASSUME NEW n \in Nat, NEW j \in 0 .. MaxBit, HasBit(n, j)
  PROVE  (n % Pow2(j)) + Pow2(j) <= n
<1>1. j + 1 \in 0 .. (MaxBit + 1)
  BY Powers
<1> QED BY <1>1, BitStep, Remainder

LEMMA PiecesFollow ==
  ASSUME NEW n \in Nat, NEW j \in 0 .. MaxBit, NEW l \in 0 .. (j - 1), HasBit(n, l)
  PROVE  (n % Pow2(l)) + Pow2(l) <= n % Pow2(j)
<1>1. l \in 0 .. MaxBit /\ l + 1 \in 0 .. (MaxBit + 1) /\ j \in (l + 1) .. (MaxBit + 1)
  BY Powers
<1> QED BY <1>1, BitStep, RemaindersGrow

\* Every page of an entry is in one of the pieces.
LEMMA PiecesCover ==
  ASSUME NEW n \in 0 .. (Pow2(MaxBit + 1) - 1), NEW o \in 0 .. (n - 1)
  PROVE  \E j \in 0 .. MaxBit :
           HasBit(n, j) /\ n % Pow2(j) <= o /\ o < (n % Pow2(j)) + Pow2(j)
<1> DEFINE S == { i \in 0 .. (MaxBit + 1) : o < n % Pow2(i) }
<1>1. MaxBit + 1 \in 0 .. (MaxBit + 1) /\ n \in Nat /\ Pow2(MaxBit + 1) \in Nat \ {0} /\ o \in Nat
  BY Powers
<1>2. n % Pow2(MaxBit + 1) = n
  BY <1>1
<1>3. PICK i \in S : \A y \in S : i <= y
  <2>1. S \in SUBSET Nat /\ MaxBit + 1 \in S
    BY <1>1, <1>2, Powers
  <2> HIDE DEF S
  <2> QED BY <2>1, LeastNumber
<1>4. i # 0
  <2>1. n % Pow2(0) = 0
    BY <1>1, Powers
  <2> QED BY <1>3, <2>1
<1>5. i - 1 \in 0 .. MaxBit /\ i - 1 \in 0 .. (MaxBit + 1) /\ (i - 1) + 1 = i
  BY <1>3, <1>4, Powers
<1>6. n % Pow2(i - 1) <= o
  <2>1. i - 1 \notin S
    BY <1>3, <1>5
  <2>2. n % Pow2(i - 1) \in Nat
    BY <1>1, <1>5, Remainder
  <2> QED BY <1>1, <1>5, <2>1, <2>2
<1>7. o < n % Pow2((i - 1) + 1)
  BY <1>3, <1>5
<1>8. HasBit(n, i - 1) /\ o < (n % Pow2(i - 1)) + Pow2(i - 1)
  <2>1. n % Pow2(i - 1) \in Nat
    BY <1>1, <1>5, Remainder
  <2> QED BY <1>1, <1>5, <1>6, <1>7, <2>1, BitStep
<1> QED BY <1>5, <1>6, <1>8

-----------------------------------------------------------------------------
(***************************************************************************)
(* Carving                                                                 *)
(***************************************************************************)
Entry == [base : Nat, pages : 0 .. (Pow2(MaxBit + 1) - 1), usable : BOOLEAN]
Instance == [base : Nat, k : 0 .. MaxBit]

\* What is carved: entries of which no two usable ones overlap.
Apart(b, n, c, l) == b + n <= c \/ c + l <= b

Separate(m) ==
  /\ m \in [1 .. Len(m) -> Entry] /\ Len(m) \in Nat
  /\ \A i, j \in DOMAIN m : i # j /\ m[i].usable /\ m[j].usable =>
       Apart(m[i].base, m[i].pages, m[j].base, m[j].pages)

\* Of what is not a map nothing is carved that would matter.
LEMMA CutFacts ==
  ASSUME NEW m, Separate(m), NEW c \in Cuts(m)
  PROVE  /\ c = <<c[1], c[2]>> /\ c[1] \in DOMAIN m /\ c[2] \in 0 .. MaxBit
         /\ m[c[1]] \in Entry /\ m[c[1]].usable /\ HasBit(m[c[1]].pages, c[2])
         /\ Piece(m, c) \in Instance /\ Piece(m, c).k = c[2]
         /\ Pow2(c[2]) \in Nat \ {0}
         /\ Piece(m, c).base >= m[c[1]].base
         /\ Piece(m, c).base + Pow2(c[2]) <= m[c[1]].base + m[c[1]].pages
<1>1. /\ c = <<c[1], c[2]>> /\ c[1] \in DOMAIN m /\ c[2] \in 0 .. MaxBit
      /\ m[c[1]].usable /\ HasBit(m[c[1]].pages, c[2])
  BY DEF Cuts, Carved
<1>2. m[c[1]] \in Entry /\ m[c[1]].base \in Nat /\ m[c[1]].pages \in Nat
  BY <1>1, Powers DEF Separate, Entry
<1>3. c[2] \in 0 .. (MaxBit + 1)
  BY <1>1, Powers
<1>4. Pow2(c[2]) \in Nat \ {0} /\ m[c[1]].pages % Pow2(c[2]) \in Nat
  BY <1>2, <1>3, Remainder
<1>5. (m[c[1]].pages % Pow2(c[2])) + Pow2(c[2]) <= m[c[1]].pages
  BY <1>1, <1>2, PieceEnds
<1>6. Piece(m, c).base = m[c[1]].base + (m[c[1]].pages % Pow2(c[2])) /\ Piece(m, c).k = c[2]
      /\ Piece(m, c) = [base |-> Piece(m, c).base, k |-> Piece(m, c).k]
  BY DEF Piece
<1>7. Piece(m, c) \in Instance
  BY <1>1, <1>2, <1>4, <1>6 DEF Instance
<1> QED BY <1>1, <1>2, <1>4, <1>5, <1>6, <1>7

LEMMA PiecesApart ==
  ASSUME NEW m, Separate(m), NEW c \in Cuts(m), NEW d \in Cuts(m), c # d
  PROVE  Apart(Piece(m, c).base, Pow2(c[2]), Piece(m, d).base, Pow2(d[2]))
<1>1. CASE c[1] # d[1]
  <2>1. Apart(m[c[1]].base, m[c[1]].pages, m[d[1]].base, m[d[1]].pages)
    BY <1>1, CutFacts DEF Separate
  <2>2. /\ m[c[1]].base \in Nat /\ m[c[1]].pages \in Nat /\ m[d[1]].base \in Nat /\ m[d[1]].pages \in Nat
        /\ Piece(m, c).base \in Nat /\ Piece(m, d).base \in Nat
        /\ Pow2(c[2]) \in Nat /\ Pow2(d[2]) \in Nat
    BY CutFacts, Powers DEF Entry, Instance
  <2>3. /\ Piece(m, c).base >= m[c[1]].base
        /\ Piece(m, c).base + Pow2(c[2]) <= m[c[1]].base + m[c[1]].pages
        /\ Piece(m, d).base >= m[d[1]].base
        /\ Piece(m, d).base + Pow2(d[2]) <= m[d[1]].base + m[d[1]].pages
    BY CutFacts
  <2> QED BY <2>1, <2>2, <2>3 DEF Apart
<1>2. ASSUME NEW a \in Cuts(m), NEW b \in Cuts(m), a[1] = b[1], a[2] < b[2]
      PROVE  Piece(m, a).base + Pow2(a[2]) <= Piece(m, b).base
  <2> DEFINE n == m[a[1]].pages
  <2>1. n \in Nat /\ m[a[1]].base \in Nat /\ a[2] \in 0 .. (b[2] - 1) /\ b[2] \in 0 .. MaxBit
        /\ HasBit(n, a[2])
    BY <1>2, CutFacts, Powers DEF Entry
  <2>2. (n % Pow2(a[2])) + Pow2(a[2]) <= n % Pow2(b[2])
    BY <2>1, PiecesFollow
  <2>3. /\ Piece(m, a).base = m[a[1]].base + (n % Pow2(a[2]))
        /\ Piece(m, b).base = m[a[1]].base + (n % Pow2(b[2]))
    BY <1>2 DEF Piece
  <2>4. n % Pow2(a[2]) \in Nat /\ Pow2(a[2]) \in Nat /\ n % Pow2(b[2]) \in Nat
    <3>1. a[2] \in 0 .. (MaxBit + 1) /\ b[2] \in 0 .. (MaxBit + 1)
      BY <2>1, Powers
    <3> QED BY <2>1, <3>1, Remainder
  <2> QED BY <2>1, <2>2, <2>3, <2>4
<1>3. CASE c[1] = d[1]
  <2>1. c[2] # d[2] /\ c[2] \in Int /\ d[2] \in Int
    BY <1>3, CutFacts, Powers
  <2> QED BY <1>2, <1>3, <2>1 DEF Apart
<1> QED BY <1>1, <1>3

\* The rounds take each entry and bit once.
LEMMA RoundFacts ==
  ASSUME NEW L \in Nat
  PROVE  /\ L * (MaxBit + 1) \in Nat
         /\ \A t, u \in 1 .. (L * (MaxBit + 1)) : Round(t) = Round(u) => t = u
         /\ \A i \in 1 .. L, j \in 0 .. MaxBit :
              \E t \in 1 .. (L * (MaxBit + 1)) : Round(t) = <<i, j>>
<1> DEFINE w == MaxBit + 1
<1>1. w \in Nat \ {0} /\ L * w \in Nat
  BY Powers
<1>2. ASSUME NEW t \in Nat, NEW u \in Nat, t \div w = u \div w, t % w = u % w
      PROVE  t = u
  <2>1. \A a \in Nat, d \in Nat \ {0} : a = (d * (a \div d)) + (a % d)
    OBVIOUS
  <2> HIDE DEF w
  <2>2. t = (w * (t \div w)) + (t % w) /\ u = (w * (u \div w)) + (u % w)
    BY <1>1, <2>1
  <2> QED BY <1>2, <2>2
<1>3. ASSUME NEW t \in 1 .. (L * w), NEW u \in 1 .. (L * w), Round(t) = Round(u)
      PROVE  t = u
  <2>1. t - 1 \in Nat /\ u - 1 \in Nat
    BY <1>1
  <2>2. ((t - 1) \div w) + 1 = ((u - 1) \div w) + 1 /\ (t - 1) % w = (u - 1) % w
    BY <1>3 DEF Round
  <2>3. (t - 1) \div w \in Int /\ (u - 1) \div w \in Int
    BY <1>1, <2>1
  <2>4. t - 1 = u - 1
    BY <1>2, <2>1, <2>2, <2>3
  <2> QED BY <2>4
<1>4. ASSUME NEW i \in 1 .. L, NEW j \in 0 .. MaxBit
      PROVE  \E t \in 1 .. (L * w) : Round(t) = <<i, j>>
  <2>0. j \in 0 .. (w - 1) /\ i - 1 \in Nat /\ L \in Nat /\ i \in Nat
    BY Powers
  <2> HIDE DEF w
  <2> DEFINE t == (w * (i - 1) + j) + 1
  <2>1. w * (i - 1) \in Nat /\ (w * (i - 1)) + w <= L * w
    <3>1. \A a \in Nat, b \in Nat, d \in Nat : a <= b => d * a <= b * d /\ d * a \in Nat
      OBVIOUS
    <3>2. w * (i - 1) \in Nat /\ w * i <= L * w
      BY <1>1, <2>0, <3>1
    <3>3. w * i = (w * (i - 1)) + w
      BY <1>1, <2>0
    <3> QED BY <3>2, <3>3
  <2>3. t \in 1 .. (L * w)
    BY <1>1, <2>0, <2>1
  <2>4. (t - 1) \div w = i - 1 /\ (t - 1) % w = j
    <3>1. t - 1 = w * (i - 1) + j
      BY <2>0, <2>1
    <3>2. \A a \in Nat, d \in Nat \ {0} : \A b \in 0 .. (d - 1) :
             (d * a + b) \div d = a /\ (d * a + b) % d = b
      OBVIOUS
    <3> HIDE DEF t
    <3> QED BY <1>1, <2>0, <3>1, <3>2
  <2>5. Round(t) = <<i, j>>
    BY <2>0, <2>4 DEF Round, w
  <2> QED BY <2>3, <2>5
<1> QED BY <1>1, <1>3, <1>4

LEMMA CarveDef ==
  ASSUME NEW m, NEW f, f = [t \in 0 .. Rounds(m) |->
           IF t = 0 THEN <<>>
           ELSE IF Round(t) \in Cuts(m) THEN Append(f[t - 1], Piece(m, Round(t)))
           ELSE f[t - 1]]
  PROVE  Carving(m) = [t \in 0 .. Rounds(m) |->
           IF t = 0 THEN <<>>
           ELSE IF Round(t) \in Cuts(m) THEN Append(Carving(m)[t - 1], Piece(m, Round(t)))
           ELSE Carving(m)[t - 1]]
  BY Zenon DEF Carving

LEMMA CarvingSteps ==
  ASSUME NEW m, Separate(m)
  PROVE  /\ Rounds(m) \in Nat
         /\ Carving(m)[0] = <<>>
         /\ \A t \in 1 .. Rounds(m) :
              Carving(m)[t] = IF Round(t) \in Cuts(m)
                              THEN Append(Carving(m)[t - 1], Piece(m, Round(t)))
                              ELSE Carving(m)[t - 1]
<1> DEFINE N == Rounds(m)
           V == Seq(Instance)
           Then(s, t) == IF Round(t) \in Cuts(m) THEN Append(s, Piece(m, Round(t))) ELSE s
           step == [x \in V \X (1 .. N) |-> Then(x[1], x[2])]
<1>1. N \in Nat
  BY RoundFacts DEF Rounds, Separate
<1>2. <<>> \in V
  OBVIOUS
<1>3. ASSUME NEW s \in V, NEW t \in 1 .. N PROVE Then(s, t) \in V
  BY CutFacts
<1> HIDE DEF V, Then
<1>4. step \in Steps(N, V)
  BY <1>3 DEF Steps
<1>5. PICK f : Computed(f, N, V, <<>>, step)
  <2> HIDE DEF N, step
  <2> QED BY <1>1, <1>2, <1>4, Recursion
<1>6. f = [t \in 0 .. N |-> IF t = 0 THEN <<>> ELSE Then(f[t - 1], t)]
  <2>1. ASSUME NEW t \in 0 .. N, t # 0 PROVE f[t] = Then(f[t - 1], t)
    <3>1. t - 1 \in 0 .. N /\ t \in 1 .. N
      BY <1>1, <2>1
    <3>2. <<f[t - 1], t>> \in V \X (1 .. N)
      BY <1>5, <3>1 DEF Computed
    <3>3. step[<<f[t - 1], t>>] = Then(f[t - 1], t)
      BY <3>2
    <3> HIDE DEF step
    <3> QED BY <1>5, <3>1, <3>3 DEF Computed
  <2> HIDE DEF step
  <2>2. f \in [0 .. N -> V] /\ f[0] = <<>>
    BY <1>5 DEF Computed
  <2> HIDE DEF N
  <2> QED BY <2>1, <2>2
<1>7. Carving(m) = [t \in 0 .. N |-> IF t = 0 THEN <<>> ELSE Then(Carving(m)[t - 1], t)]
  BY <1>6, CarveDef DEF Then
<1>8. ASSUME NEW t \in 1 .. N PROVE Carving(m)[t] = Then(Carving(m)[t - 1], t)
  <2>1. t \in 0 .. N /\ t # 0
    BY <1>1
  <2> HIDE DEF N
  <2> QED BY <1>7, <2>1
<1>9. Carving(m)[0] = <<>>
  BY <1>1, <1>7
<1> QED BY <1>1, <1>8, <1>9 DEF Then

\* The instances are the pieces of the entries, each once.
LEMMA CarveFacts ==
  ASSUME NEW m, Separate(m)
  PROVE  /\ Carve(m) \in Seq(Instance)
         /\ \A n \in DOMAIN Carve(m) : \E c \in Cuts(m) : Carve(m)[n] = Piece(m, c)
         /\ \A c \in Cuts(m) : \E n \in DOMAIN Carve(m) : Carve(m)[n] = Piece(m, c)
         /\ \A n, o \in DOMAIN Carve(m) : n # o =>
              Apart(Carve(m)[n].base, Pow2(Carve(m)[n].k), Carve(m)[o].base, Pow2(Carve(m)[o].k))
<1> DEFINE N == Rounds(m)
           Done(t) == { c \in Cuts(m) : \E u \in 1 .. t : c = Round(u) }
           Good(s, t) ==
             /\ s \in Seq(Instance)
             /\ \A n \in 1 .. Len(s) : \E c \in Done(t) : s[n] = Piece(m, c)
             /\ \A c \in Done(t) : \E n \in 1 .. Len(s) : s[n] = Piece(m, c)
             /\ \A n, o \in 1 .. Len(s) : n # o =>
                  Apart(s[n].base, Pow2(s[n].k), s[o].base, Pow2(s[o].k))
           S == { t \in 0 .. N : Good(Carving(m)[t], t) }
<1>1. 0 \in S
  <2>1. Done(0) = {}
    OBVIOUS
  <2>2. <<>> \in Seq(Instance) /\ Len(<<>>) = 0
    OBVIOUS
  <2> HIDE DEF Done
  <2>3. Good(<<>>, 0)
    BY <2>1, <2>2
  <2>4. N \in Nat /\ Carving(m)[0] = <<>>
    BY CarvingSteps
  <2> HIDE DEF Good
  <2> QED BY <2>3, <2>4
<1>2. ASSUME NEW t \in 0 .. (N - 1), t \in S PROVE t + 1 \in S
  <2> DEFINE s == Carving(m)[t]
             r == Carving(m)[t + 1]
             d == Round(t + 1)
  <2>1. N \in Nat /\ t + 1 \in 1 .. N /\ t + 1 \in 0 .. N /\ (t + 1) - 1 = t /\ t \in Nat
    BY CarvingSteps
  <2>2. r = IF d \in Cuts(m) THEN Append(s, Piece(m, d)) ELSE s
    BY <2>1, CarvingSteps
  <2>3. Good(s, t)
    BY <1>2
  <2>4. d \notin Done(t)
    <3>1. \A u \in 1 .. t : u \in 1 .. N /\ u # t + 1
      BY <2>1
    <3>2. \A u \in 1 .. t : Round(u) # Round(t + 1)
      BY <2>1, <3>1, RoundFacts DEF Rounds, Separate
    <3> QED BY <3>2
  <2>5. \A c : c \in Done(t + 1) <=> c \in Done(t) \/ (c = d /\ d \in Cuts(m))
    <3>1. \A u : u \in 1 .. (t + 1) <=> u \in 1 .. t \/ u = t + 1
      BY <2>1
    <3> QED BY <3>1
  <2>6. Done(t) \subseteq Cuts(m)
    OBVIOUS
  <2> HIDE DEF s, r, d, Done
  <2>7. CASE d \notin Cuts(m)
    <3>1. r = s /\ Done(t + 1) = Done(t)
      BY <2>2, <2>5, <2>7
    <3> QED BY <2>1, <2>3, <3>1 DEF r, s
  <2>8. CASE d \in Cuts(m)
    <3> DEFINE L == Len(s)
    <3>1. /\ s \in Seq(Instance) /\ Piece(m, d) \in Instance /\ L \in Nat
          /\ r = Append(s, Piece(m, d))
      BY <2>2, <2>3, <2>8, CutFacts
    <3>2. /\ r \in Seq(Instance) /\ Len(r) = L + 1 /\ r[L + 1] = Piece(m, d)
          /\ \A n \in 1 .. L : r[n] = s[n]
      BY <3>1
    <3>3. \A n : n \in 1 .. (L + 1) <=> n \in 1 .. L \/ n = L + 1
      BY <3>1
    <3> HIDE DEF L
    <3>4. ASSUME NEW n \in 1 .. Len(r) PROVE \E c \in Done(t + 1) : r[n] = Piece(m, c)
      <4>1. CASE n \in 1 .. L
        BY <2>3, <2>5, <3>2, <4>1 DEF L
      <4>2. CASE n = L + 1
        BY <2>5, <2>8, <3>2, <4>2
      <4> QED BY <3>2, <3>3, <4>1, <4>2
    <3>5. ASSUME NEW c \in Done(t + 1) PROVE \E n \in 1 .. Len(r) : r[n] = Piece(m, c)
      <4>1. CASE c \in Done(t)
        BY <2>3, <3>2, <3>3, <4>1 DEF L
      <4>2. CASE c = d
        BY <3>2, <3>3, <4>2
      <4> QED BY <2>5, <4>1, <4>2
    <3>6. ASSUME NEW n \in 1 .. L
          PROVE  /\ Apart(s[n].base, Pow2(s[n].k), Piece(m, d).base, Pow2(Piece(m, d).k))
                 /\ Apart(Piece(m, d).base, Pow2(Piece(m, d).k), s[n].base, Pow2(s[n].k))
      <4>1. PICK c \in Done(t) : s[n] = Piece(m, c)
        BY <2>3 DEF L
      <4>2. c \in Cuts(m) /\ c # d
        BY <2>4, <2>6
      <4>3. Piece(m, c).k = c[2] /\ Piece(m, d).k = d[2]
        BY DEF Piece
      <4> QED BY <2>8, <4>1, <4>2, <4>3, PiecesApart
    <3>7. ASSUME NEW n \in 1 .. Len(r), NEW o \in 1 .. Len(r), n # o
          PROVE  Apart(r[n].base, Pow2(r[n].k), r[o].base, Pow2(r[o].k))
      <4>1. CASE n \in 1 .. L /\ o \in 1 .. L
        BY <2>3, <3>2, <3>7, <4>1 DEF L
      <4>2. CASE n = L + 1 /\ o \in 1 .. L
        BY <3>2, <3>6, <4>2
      <4>3. CASE n \in 1 .. L /\ o = L + 1
        BY <3>2, <3>6, <4>3
      <4> QED BY <3>2, <3>3, <3>7, <4>1, <4>2, <4>3
    <3>8. Good(r, t + 1)
      BY <3>2, <3>4, <3>5, <3>7
    <3> HIDE DEF Good
    <3> QED BY <2>1, <3>8 DEF r
  <2> QED BY <2>7, <2>8
<1>3. N \in S
  <2> HIDE DEF S
  <2>1. N \in Nat
    BY CarvingSteps
  <2> QED BY <1>1, <1>2, <2>1, SetInduction
<1>4. Good(Carve(m), N)
  BY <1>3 DEF Carve
<1>5. Done(N) = Cuts(m)
  <2>1. ASSUME NEW c \in Cuts(m) PROVE \E u \in 1 .. N : c = Round(u)
    <3>1. c = <<c[1], c[2]>> /\ c[1] \in 1 .. Len(m) /\ c[2] \in 0 .. MaxBit /\ Len(m) \in Nat
      BY CutFacts DEF Separate
    <3> QED BY <3>1, RoundFacts DEF Rounds
  <2> QED BY <2>1
<1>6. DOMAIN Carve(m) = 1 .. Len(Carve(m))
  BY <1>4
<1> HIDE DEF Done
<1> QED BY <1>4, <1>5, <1>6

-----------------------------------------------------------------------------
(***************************************************************************)
(* Memory for the array                                                    *)
(***************************************************************************)
LEMMA LeastOf ==
  ASSUME NEW S \in SUBSET Nat, S # {}
  PROVE  Min(S) \in S /\ \A y \in S : Min(S) <= y
<1>1. \E x \in S : \A y \in S : x <= y
  BY LeastNumber
<1> QED BY <1>1 DEF Min

LEMMA RequiredNat ==
  ASSUME NEW m, NEW n \in Nat, DOMAIN m = 1 .. n
  PROVE  Required(m) \in Nat
<1>1. IsFiniteSet(1 .. n) /\ IsFiniteSet(0 .. MaxBit)
  <2>1. 0 \in Int /\ 1 \in Int /\ n \in Int /\ MaxBit \in Int
    BY Powers
  <2> QED BY <2>1, FS_Interval
<1>2. IsFiniteSet((1 .. n) \X (0 .. MaxBit))
  BY <1>1, FS_Product
<1>3. Cuts(m) \subseteq (1 .. n) \X (0 .. MaxBit)
  BY DEF Cuts
<1>4. IsFiniteSet(Cuts(m))
  BY <1>2, <1>3, FS_Subset
<1> QED BY <1>4, FS_CardinalityType DEF Required

\* Pages that the array begins to use, and those it fills.
LEMMA Rounding ==
  ASSUME NEW size \in Nat, NEW pages \in Nat, pages * PageBytes >= size
  PROVE  /\ (size + PageBytes - 1) \div PageBytes \in Nat /\ size \div PageBytes \in Nat
         /\ (size + PageBytes - 1) \div PageBytes
              = (size \div PageBytes) + (IF size % PageBytes # 0 THEN 1 ELSE 0)
         /\ (size + PageBytes - 1) \div PageBytes <= pages
<1>1. size + PageBytes - 1 = size + 4095 /\ PageBytes = 4096
  BY DEF PageBytes
<1> QED BY <1>1

\* The map as boot() leaves it to the carving.
Bytes(m) == Required(Sorted(m)) * BuddyBytes
Full(m) == Bytes(m) \div PageBytes
HostOf(m) == Sorted(m)[Host(Sorted(m))]

LEMMA SortedFacts ==
  ASSUME NEW m, MemoryMap(m)
  PROVE  /\ Len(m) \in Nat /\ Sorted(m) \in [1 .. Len(m) -> Entry]
         /\ \E p \in Orders(Len(m)) : \A i \in 1 .. Len(m) : Sorted(m)[i] = m[p[i]]
         /\ Host(Sorted(m)) \in 1 .. Len(m) /\ HostOf(m).usable
         /\ Bytes(m) \in Nat /\ HostOf(m).pages * PageBytes >= Bytes(m)
<1>1. m \in Seq(Entry) /\ Len(m) \in Nat /\ \A i \in 1 .. Len(m) : m[i] \in Entry
  <2>1. m \in Seq(Entry)
    BY DEF MemoryMap, Entry
  <2> QED BY <2>1
<1>2. PICK p \in Orders(Len(m)) : Sorted(m) = [i \in 1 .. Len(m) |-> m[p[i]]]
  BY <1>1, SortedArranges DEF Arranged
<1>3. Sorted(m) \in [1 .. Len(m) -> Entry]
  BY <1>1, <1>2 DEF Orders
<1>4. DOMAIN Sorted(m) = 1 .. Len(m)
  BY <1>2
<1>5. Hosts(Sorted(m)) \in SUBSET Nat /\ Hosts(Sorted(m)) # {}
  BY <1>1, <1>4 DEF Hosts, MemoryMap
<1>6. Host(Sorted(m)) \in Hosts(Sorted(m))
  BY <1>5, LeastOf DEF Host
<1>7. Required(Sorted(m)) \in Nat
  BY <1>1, <1>4, RequiredNat
<1>8. Bytes(m) \in Nat
  <2>1. \A a \in Nat, b \in Nat : a * b \in Nat
    OBVIOUS
  <2> QED BY <1>7, <2>1, MapAssumption DEF Bytes, MapAssumption
<1>9. Host(Sorted(m)) \in 1 .. Len(m) /\ HostOf(m).usable /\ HostOf(m).pages * PageBytes >= Bytes(m)
  BY <1>4, <1>6 DEF Hosts, HostOf, Bytes
<1> QED BY <1>1, <1>2, <1>3, <1>8, <1>9

\* Of different entries that are usable, one ends before the other begins.
LEMMA SortedApart ==
  ASSUME NEW m, MemoryMap(m), NEW i \in 1 .. Len(m), NEW j \in 1 .. Len(m), i # j,
         Sorted(m)[i].usable, Sorted(m)[j].usable
  PROVE  \/ Sorted(m)[i].base + Sorted(m)[i].pages < Sorted(m)[j].base
         \/ Sorted(m)[j].base + Sorted(m)[j].pages < Sorted(m)[i].base
<1>1. PICK p \in Orders(Len(m)) : \A k \in 1 .. Len(m) : Sorted(m)[k] = m[p[k]]
  BY SortedFacts
<1>2. p[i] \in 1 .. Len(m) /\ p[j] \in 1 .. Len(m) /\ p[i] # p[j]
  BY DEF Orders
<1>3. DOMAIN m = 1 .. Len(m)
  BY DEF MemoryMap
<1>4. Sorted(m)[i] = m[p[i]] /\ Sorted(m)[j] = m[p[j]]
  BY <1>1
<1>5. \A k, l \in DOMAIN m : k # l /\ m[k].usable /\ m[l].usable =>
        m[k].base + m[k].pages < m[l].base \/ m[l].base + m[l].pages < m[k].base
  BY DEF MemoryMap
<1> HIDE DEF MemoryMap
<1> QED BY <1>2, <1>3, <1>4, <1>5

LEMMA EntryTypes ==
  ASSUME NEW e \in Entry
  PROVE  /\ e.base \in Nat /\ e.pages \in Nat /\ e.usable \in BOOLEAN
         /\ e.pages <= Pow2(MaxBit + 1) - 1 /\ Pow2(MaxBit + 1) \in Nat
<1>1. MaxBit + 1 \in 0 .. (MaxBit + 1)
  BY Powers
<1>2. Pow2(MaxBit + 1) \in Nat
  BY <1>1, Powers
<1> QED BY <1>2 DEF Entry

LEMMA ReservedFacts ==
  ASSUME NEW m, MemoryMap(m)
  PROVE  LET s == Sorted(m)
             r == Reserved(s)
             h == Host(s)
             surplus == IF Bytes(m) % PageBytes # 0 THEN 1 ELSE 0
         IN  /\ r \in [1 .. Len(m) -> Entry] /\ Len(r) = Len(m)
             /\ \A i \in 1 .. Len(m) : i # h => r[i] = s[i]
             /\ r[h].usable
             /\ ArrayPages(s) \in Nat /\ ArrayPages(s) <= HostOf(m).pages
             /\ r[h].base = HostOf(m).base + ArrayPages(s)
             /\ r[h].base + r[h].pages = HostOf(m).base + HostOf(m).pages + surplus
<1> DEFINE s == Sorted(m)
           r == Reserved(s)
           h == Host(s)
           e == HostOf(m)
           full == Full(m)
           surplus == IF Bytes(m) % PageBytes # 0 THEN 1 ELSE 0
<1>1. /\ Len(m) \in Nat /\ s \in [1 .. Len(m) -> Entry] /\ h \in 1 .. Len(m) /\ e = s[h]
      /\ e \in Entry /\ e.usable
  BY SortedFacts DEF HostOf
<1>2. e.base \in Nat /\ e.pages \in Nat /\ e.pages <= Pow2(MaxBit + 1) - 1
      /\ Pow2(MaxBit + 1) \in Nat
  BY <1>1, EntryTypes
<1>3. /\ ArrayPages(s) \in Nat /\ full \in Nat /\ ArrayPages(s) = full + surplus
      /\ ArrayPages(s) <= e.pages
  <2>1. /\ (Bytes(m) + PageBytes - 1) \div PageBytes \in Nat /\ Bytes(m) \div PageBytes \in Nat
        /\ (Bytes(m) + PageBytes - 1) \div PageBytes
              = (Bytes(m) \div PageBytes) + (IF Bytes(m) % PageBytes # 0 THEN 1 ELSE 0)
        /\ (Bytes(m) + PageBytes - 1) \div PageBytes <= e.pages
    BY <1>2, SortedFacts, Rounding
  <2>2. ArrayPages(s) = (Bytes(m) + PageBytes - 1) \div PageBytes
    BY DEF ArrayPages, Bytes
  <2> QED BY <2>1, <2>2 DEF Full
<1>4. r = [s EXCEPT ![h] = [e EXCEPT !.base = @ + ArrayPages(s), !.pages = @ - full]]
  <2>1. r = [s EXCEPT ![h].base = @ + ArrayPages(s), ![h].pages = @ - full]
    BY DEF Reserved, Full, Bytes
  <2> HIDE DEF r, s, h, full
  <2> QED BY <1>1, <2>1
<1>4a. surplus \in {0, 1}
  BY DEF surplus
<1> HIDE DEF r, s, h, e, full, surplus
<1>5. /\ r = [i \in 1 .. Len(m) |-> r[i]]
      /\ \A i \in 1 .. Len(m) : i # h => r[i] = s[i]
      /\ r[h] = [base |-> e.base + ArrayPages(s), pages |-> e.pages - full, usable |-> e.usable]
  BY <1>1, <1>4 DEF Entry
<1>6. r[h] \in Entry
  <2>1. e.pages - full \in 0 .. (Pow2(MaxBit + 1) - 1) /\ e.base + ArrayPages(s) \in Nat
    <3>1. e.pages - full \in Int /\ e.pages - full >= 0 /\ e.pages - full <= e.pages
      BY <1>2, <1>3, <1>4a
    <3> QED BY <1>2, <1>3, <3>1
  <2>2. e.usable \in BOOLEAN
    BY <1>1, EntryTypes
  <2> QED BY <1>5, <2>1, <2>2 DEF Entry
<1>7. r \in [1 .. Len(m) -> Entry]
  BY <1>1, <1>5, <1>6
<1>8. Len(r) = Len(m)
  BY <1>1, <1>7
<1>9. r[h].base + r[h].pages = e.base + e.pages + surplus
  <2>1. r[h].base = e.base + ArrayPages(s) /\ r[h].pages = e.pages - full
    BY <1>5
  <2> QED BY <1>2, <1>3, <1>4a, <2>1
<1> QED BY <1>1, <1>3, <1>5, <1>7, <1>8, <1>9 DEF r, s, h, e, surplus

LEMMA ReservedSeparate ==
  ASSUME NEW m, MemoryMap(m)
  PROVE  Separate(Reserved(Sorted(m)))
<1> DEFINE s == Sorted(m)
           r == Reserved(s)
           h == Host(s)
<1>1. /\ r \in [1 .. Len(m) -> Entry] /\ Len(r) = Len(m) /\ Len(m) \in Nat
      /\ s \in [1 .. Len(m) -> Entry] /\ h \in 1 .. Len(m) /\ s[h].usable /\ HostOf(m) = s[h]
  BY SortedFacts, ReservedFacts DEF HostOf
<1>2. ASSUME NEW i \in 1 .. Len(m), NEW j \in 1 .. Len(m), i # j, r[i].usable, r[j].usable
      PROVE  Apart(r[i].base, r[i].pages, r[j].base, r[j].pages)
  <2>1. s[i].usable /\ s[j].usable
    BY <1>1, <1>2, ReservedFacts
  <2>2. s[i].base + s[i].pages < s[j].base \/ s[j].base + s[j].pages < s[i].base
    BY <1>2, <2>1, SortedApart
  <2>3. ASSUME NEW k \in 1 .. Len(m)
        PROVE  /\ s[k].base \in Nat /\ s[k].pages \in Nat /\ r[k].base \in Nat /\ r[k].pages \in Nat
               /\ s[k].base <= r[k].base
               /\ r[k].base + r[k].pages <= s[k].base + s[k].pages + 1
    <3>1. s[k].base \in Nat /\ s[k].pages \in Nat /\ r[k].base \in Nat /\ r[k].pages \in Nat
      BY <1>1, EntryTypes
    <3>2. CASE k = h
      <4>1. /\ ArrayPages(s) \in Nat /\ r[h].base = s[h].base + ArrayPages(s)
            /\ r[h].base + r[h].pages
                 = s[h].base + s[h].pages + (IF Bytes(m) % PageBytes # 0 THEN 1 ELSE 0)
        BY <1>1, ReservedFacts
      <4>2. \A x, y, z, u, v \in Nat : u = x + z /\ u + v = x + y + (IF Bytes(m) % PageBytes # 0 THEN 1 ELSE 0)
                                     => x <= u /\ u + v <= x + y + 1
        OBVIOUS
      <4> HIDE DEF r, s, h
      <4> QED BY <3>1, <3>2, <4>1, <4>2
    <3>3. CASE k # h
      <4>1. r[k] = s[k]
        BY <3>3, ReservedFacts
      <4> HIDE DEF r, s
      <4> QED BY <3>1, <4>1
    <3> QED BY <3>2, <3>3
  <2> HIDE DEF r, s, h
  <2>4. s[i].base \in Nat /\ s[i].pages \in Nat /\ r[i].base \in Nat /\ r[i].pages \in Nat
        /\ s[j].base \in Nat /\ s[j].pages \in Nat /\ r[j].base \in Nat /\ r[j].pages \in Nat
        /\ s[i].base <= r[i].base /\ r[i].base + r[i].pages <= s[i].base + s[i].pages + 1
        /\ s[j].base <= r[j].base /\ r[j].base + r[j].pages <= s[j].base + s[j].pages + 1
    BY <2>3
  <2>5. \A a, b, c, d, e, f, g, k \in Nat :
          /\ a + b < c \/ c + d < a
          /\ a <= e /\ e + f <= a + b + 1
          /\ c <= g /\ g + k <= c + d + 1
          => e + f <= g \/ g + k <= e
    OBVIOUS
  <2> QED BY <2>2, <2>4, <2>5 DEF Apart
<1>3. DOMAIN r = 1 .. Len(m)
  BY <1>1
<1> HIDE DEF r
<1> QED BY <1>1, <1>2, <1>3 DEF Separate, r

-----------------------------------------------------------------------------
(***************************************************************************)
(* The instances                                                           *)
(***************************************************************************)
\* What init() leaves behind and no call changes.
Instances ==
  LET s == Carve(Reserved(Sorted(map)))
  IN  /\ map \in Maps
      /\ buddies = [i \in 0 .. (Len(s) - 1) |-> s[i + 1]]
      /\ topIdx = Len(s) - 1
      /\ Page = UNION { PagesOf(i) : i \in Index }

LEMMA SetupKept ==
  ASSUME [Next]_vars
  PROVE  map' = map /\ buddies' = buddies /\ topIdx' = topIdx /\ Page' = Page /\ Index' = Index
<1>1. UNCHANGED <<map, buddies, topIdx>>
  <2>1. CASE Next
    BY <2>1 DEF Next, CallAlloc, CallFree, Serve, Alloc, AllocFails, FreeIgnored, FreeAsserts,
                Free, setup
  <2>2. CASE UNCHANGED vars
    BY <2>2 DEF vars, setup
  <2> QED BY <2>1, <2>2
<1>2. Page' = Page
  <2>1. ASSUME NEW c \in CPU, Alloc(c) PROVE Page' = Page
    BY <2>1 DEF Alloc, Take, Page
  <2>2. ASSUME NEW c \in CPU, Free(c) PROVE Page' = Page
    <3>1. ASSUME NEW i, NEW k, NEW b, Give(i, k, b) PROVE Page' = Page
      BY <3>1 DEF Give, Page
    <3>2. ASSUME NEW p, NEW x, word' = [word EXCEPT ![p] = x] PROVE Page' = Page
      BY <3>2 DEF Page
    <3> QED BY <2>2, <3>1, <3>2 DEF Free
  <2>3. CASE UNCHANGED word
    BY <2>3 DEF Page
  <2>4. CASE Next
    BY <2>1, <2>2, <2>3, <2>4 DEF Next, CallAlloc, CallFree, Serve, AllocFails, FreeIgnored,
                                  FreeAsserts
  <2>5. CASE UNCHANGED vars
    BY <2>3, <2>5 DEF vars
  <2> QED BY <2>4, <2>5
<1> QED BY <1>1, <1>2 DEF Index

LEMMA InstancesInductive ==
  /\ Init => Instances
  /\ Instances /\ [Next]_vars => Instances'
<1>1. ASSUME Init PROVE Instances
  <2>1. PICK s \in {Carve(Reserved(Sorted(map)))} :
          /\ buddies = [i \in 0 .. (Len(s) - 1) |-> s[i + 1]]
          /\ topIdx = Len(s) - 1
    BY <1>1 DEF Init
  <2>2. Page = UNION { PagesOf(i) : i \in Index } /\ map \in Maps
    BY <1>1 DEF Init, Page
  <2> QED BY <2>1, <2>2 DEF Instances
<1>2. ASSUME Instances, [Next]_vars PROVE Instances'
  <2>1. map' = map /\ buddies' = buddies /\ topIdx' = topIdx /\ Page' = Page /\ Index' = Index
    BY <1>2, SetupKept
  <2>2. (UNION { PagesOf(i) : i \in Index })' = UNION { PagesOf(i) : i \in Index }
    BY <2>1 DEF PagesOf
  <2> QED BY <1>2, <2>1, <2>2 DEF Instances
<1> QED BY <1>1, <1>2

\* The entries after the array is taken off, and the instances cut off them.
LEMMA InstanceFacts ==
  ASSUME Instances
  PROVE  LET r == Reserved(Sorted(map))
         IN  /\ MemoryMap(map) /\ Separate(r)
             /\ topIdx \in Int /\ Index = 0 .. topIdx /\ buddies \in [Index -> Instance]
             /\ \A i \in Index : \E c \in Cuts(r) : buddies[i] = Piece(r, c)
             /\ \A c \in Cuts(r) : \E i \in Index : buddies[i] = Piece(r, c)
             /\ \A i, j \in Index : i # j =>
                  Apart(buddies[i].base, Pow2(buddies[i].k), buddies[j].base, Pow2(buddies[j].k))
<1> DEFINE r == Reserved(Sorted(map))
           s == Carve(r)
<1>1. MemoryMap(map)
  BY MapAssumption DEF Instances, MapAssumption
<1>2. Separate(r)
  BY <1>1, ReservedSeparate
<1>3. /\ s \in Seq(Instance)
      /\ \A n \in DOMAIN s : \E c \in Cuts(r) : s[n] = Piece(r, c)
      /\ \A c \in Cuts(r) : \E n \in DOMAIN s : s[n] = Piece(r, c)
      /\ \A n, o \in DOMAIN s : n # o =>
           Apart(s[n].base, Pow2(s[n].k), s[o].base, Pow2(s[o].k))
  <2> HIDE DEF r
  <2> QED BY <1>2, CarveFacts
<1>4. buddies = [i \in 0 .. (Len(s) - 1) |-> s[i + 1]] /\ topIdx = Len(s) - 1
  BY DEF Instances
<1> HIDE DEF s, r
<1>5. Len(s) \in Nat /\ DOMAIN s = 1 .. Len(s) /\ \A n \in DOMAIN s : s[n] \in Instance
  BY <1>3
<1>6. topIdx \in Int /\ Index = 0 .. topIdx
  BY <1>4, <1>5 DEF Index
<1>7. ASSUME NEW i \in Index PROVE buddies[i] = s[i + 1] /\ i + 1 \in DOMAIN s /\ i \in Int
  BY <1>4, <1>5 DEF Index
<1>8. ASSUME NEW n \in DOMAIN s PROVE n - 1 \in Index /\ buddies[n - 1] = s[n]
  BY <1>4, <1>5 DEF Index
<1>9. buddies \in [Index -> Instance]
  BY <1>4, <1>5, <1>7 DEF Index
<1>10. ASSUME NEW i \in Index PROVE \E c \in Cuts(r) : buddies[i] = Piece(r, c)
  BY <1>3, <1>7
<1>11. ASSUME NEW c \in Cuts(r) PROVE \E i \in Index : buddies[i] = Piece(r, c)
  BY <1>3, <1>8
<1>12. ASSUME NEW i \in Index, NEW j \in Index, i # j
       PROVE  Apart(buddies[i].base, Pow2(buddies[i].k), buddies[j].base, Pow2(buddies[j].k))
  <2>1. i + 1 # j + 1
    BY <1>7, <1>12
  <2> QED BY <1>3, <1>7, <2>1
<1> QED BY <1>1, <1>2, <1>6, <1>9, <1>10, <1>11, <1>12 DEF r

LEMMA InstanceTypes ==
  ASSUME Instances, NEW i \in Index
  PROVE  /\ buddies[i].base \in Nat /\ buddies[i].k \in 0 .. MaxBit /\ Pow2(buddies[i].k) \in Nat \ {0}
<1>1. buddies[i] \in Instance
  BY InstanceFacts
<1> QED BY <1>1, Powers DEF Instance

LEMMA InstancesApart ==
  ASSUME Instances, NEW i \in Index, NEW j \in Index, i # j
  PROVE  PagesOf(i) \cap PagesOf(j) = {}
<1>1. Apart(buddies[i].base, Pow2(buddies[i].k), buddies[j].base, Pow2(buddies[j].k))
  BY InstanceFacts
<1>2. /\ buddies[i].base \in Nat /\ Pow2(buddies[i].k) \in Nat
      /\ buddies[j].base \in Nat /\ Pow2(buddies[j].k) \in Nat
  BY InstanceTypes
<1> QED BY <1>1, <1>2 DEF Apart, PagesOf

\* The entries after init() took the array off, in numbers.
LEMMA HostFacts ==
  ASSUME Instances
  PROVE  LET s == Sorted(map)
             r == Reserved(s)
             h == Host(s)
             e == s[h]
             surplus == IF Bytes(map) % PageBytes # 0 THEN 1 ELSE 0
         IN  /\ h \in 1 .. Len(map) /\ DOMAIN r = 1 .. Len(map) /\ e.usable /\ r[h].usable
             /\ e.base \in Nat /\ e.pages \in Nat /\ ArrayPages(s) \in Nat
             /\ ArrayPages(s) <= e.pages
             /\ r[h].base \in Nat /\ r[h].pages \in Nat /\ r[h].pages <= Pow2(MaxBit + 1) - 1
             /\ r[h].base = e.base + ArrayPages(s)
             /\ r[h].base + r[h].pages = e.base + e.pages + surplus
             /\ \A i \in 1 .. Len(map) :
                  /\ s[i].base \in Nat /\ s[i].pages \in Nat
                  /\ i # h => r[i] = s[i]
                  /\ i # h /\ s[i].usable => \/ e.base + e.pages < s[i].base
                                             \/ s[i].base + s[i].pages < e.base
<1> DEFINE s == Sorted(map)
           r == Reserved(s)
           h == Host(s)
<1>1. MemoryMap(map)
  BY InstanceFacts
<1>2. /\ h \in 1 .. Len(map) /\ s[h].usable /\ s \in [1 .. Len(map) -> Entry]
  BY <1>1, SortedFacts DEF HostOf
<1>3. /\ r \in [1 .. Len(map) -> Entry] /\ r[h].usable
      /\ \A i \in 1 .. Len(map) : i # h => r[i] = s[i]
      /\ ArrayPages(s) \in Nat /\ ArrayPages(s) <= s[h].pages
      /\ r[h].base = s[h].base + ArrayPages(s)
      /\ r[h].base + r[h].pages
           = s[h].base + s[h].pages + (IF Bytes(map) % PageBytes # 0 THEN 1 ELSE 0)
  BY <1>1, ReservedFacts DEF HostOf
<1>4. ASSUME NEW i \in 1 .. Len(map)
      PROVE  /\ s[i].base \in Nat /\ s[i].pages \in Nat
             /\ i # h /\ s[i].usable => \/ s[h].base + s[h].pages < s[i].base
                                        \/ s[i].base + s[i].pages < s[h].base
  <2>1. s[i].base \in Nat /\ s[i].pages \in Nat
    BY <1>2, EntryTypes
  <2> QED BY <1>1, <1>2, <2>1, SortedApart
<1>5. r[h].base \in Nat /\ r[h].pages \in Nat /\ r[h].pages <= Pow2(MaxBit + 1) - 1
  BY <1>2, <1>3, EntryTypes
<1> HIDE DEF s, r, h
<1> QED BY <1>2, <1>3, <1>4, <1>5 DEF s, r, h

\* The page after the host is not usable.
LEMMA NotUsable ==
  ASSUME Instances
  PROVE  HostOf(map).base + HostOf(map).pages \notin Usable
<1> DEFINE e == HostOf(map)
           x == e.base + e.pages
<1>1. MemoryMap(map)
  BY InstanceFacts
<1>2. PICK p \in Orders(Len(map)) : \A k \in 1 .. Len(map) : Sorted(map)[k] = map[p[k]]
  BY <1>1, SortedFacts
<1>3. PICK q \in 1 .. Len(map) : e = map[q]
  <2>1. Host(Sorted(map)) \in 1 .. Len(map)
    BY <1>1, SortedFacts
  <2> QED BY <1>2, <2>1 DEF HostOf, Orders
<1>4. e.base \in Nat /\ e.pages \in Nat /\ e.usable
  BY HostFacts DEF HostOf
<1>5. DOMAIN map = 1 .. Len(map) /\ \A i \in DOMAIN map : map[i] \in Entry
  <2>1. map \in Seq(Entry)
    BY <1>1 DEF MemoryMap, Entry
  <2> QED BY <2>1
<1>6. \A i, j \in DOMAIN map : i # j /\ map[i].usable /\ map[j].usable =>
        map[i].base + map[i].pages < map[j].base \/ map[j].base + map[j].pages < map[i].base
  BY <1>1 DEF MemoryMap
<1> HIDE DEF e
<1>7. ASSUME NEW i \in DOMAIN map, map[i].usable
      PROVE  x \notin map[i].base .. (map[i].base + map[i].pages - 1)
  <2>1. map[i].base \in Nat /\ map[i].pages \in Nat
    BY <1>5, EntryTypes
  <2>2. CASE i = q
    BY <1>3, <1>4, <2>1, <2>2
  <2>3. CASE i # q
    <3>1. e.base + e.pages < map[i].base \/ map[i].base + map[i].pages < e.base
      BY <1>3, <1>4, <1>5, <1>6, <1>7, <2>3
    <3>2. \A a, n, b, l \in Nat : a + n < b \/ b + l < a => a + n \notin b .. (b + l - 1)
      OBVIOUS
    <3> QED BY <1>4, <2>1, <3>1, <3>2
  <2> QED BY <2>2, <2>3
<1> QED BY <1>7 DEF Usable, e

\* The entry a page of an instance comes from, and the instances an entry's
\* pages go to.
LEMMA PageOrigin ==
  ASSUME Instances, NEW p \in Page
  PROVE  \E i \in 1 .. Len(map) :
           LET e == Reserved(Sorted(map))[i]
           IN  Carved(e) /\ p \in Int /\ e.base <= p /\ p < e.base + e.pages
<1> DEFINE r == Reserved(Sorted(map))
<1>1. PICK n \in Index : p \in PagesOf(n)
  BY DEF Instances
<1>2. PICK c \in Cuts(r) : buddies[n] = Piece(r, c)
  BY InstanceFacts
<1>3. /\ Separate(r) /\ DOMAIN r = 1 .. Len(map)
  BY InstanceFacts, HostFacts
<1> HIDE DEF r
<1>4. /\ c[1] \in DOMAIN r /\ r[c[1]] \in Entry
      /\ Piece(r, c) \in Instance /\ Piece(r, c).k = c[2] /\ Pow2(c[2]) \in Nat
      /\ Piece(r, c).base >= r[c[1]].base
      /\ Piece(r, c).base + Pow2(c[2]) <= r[c[1]].base + r[c[1]].pages
  BY <1>3, CutFacts
<1>5. Carved(r[c[1]])
  BY DEF Cuts
<1>6. p \in Piece(r, c).base .. (Piece(r, c).base + Pow2(c[2]) - 1)
  BY <1>1, <1>2, <1>4 DEF PagesOf
<1>7. Piece(r, c).base \in Int /\ r[c[1]].base \in Int /\ r[c[1]].pages \in Int
  BY <1>4, EntryTypes DEF Instance
<1>8. p \in Int /\ r[c[1]].base <= p /\ p < r[c[1]].base + r[c[1]].pages
  BY <1>4, <1>6, <1>7
<1> QED BY <1>3, <1>4, <1>5, <1>8 DEF r

LEMMA PagesServed ==
  ASSUME Instances, NEW i \in 1 .. Len(map),
         Carved(Reserved(Sorted(map))[i]), NEW o \in 0 .. (Reserved(Sorted(map))[i].pages - 1)
  PROVE  Reserved(Sorted(map))[i].base + o \in Page
<1> DEFINE r == Reserved(Sorted(map))
           e == r[i]
<1>1. Separate(r) /\ DOMAIN r = 1 .. Len(map)
  BY InstanceFacts, HostFacts
<1> HIDE DEF r
<1>2. e \in Entry /\ e.base \in Nat /\ e.pages \in 0 .. (Pow2(MaxBit + 1) - 1)
  BY <1>1 DEF Separate, Entry
<1>3. PICK j \in 0 .. MaxBit :
        HasBit(e.pages, j) /\ e.pages % Pow2(j) <= o /\ o < (e.pages % Pow2(j)) + Pow2(j)
  BY <1>2, PiecesCover DEF r
<1>4. <<i, j>> \in Cuts(r)
  BY <1>1, <1>3 DEF Cuts, r
<1>5. PICK n \in Index : buddies[n] = Piece(r, <<i, j>>)
  BY <1>4, InstanceFacts DEF r
<1>6. Piece(r, <<i, j>>).base = e.base + (e.pages % Pow2(j)) /\ Piece(r, <<i, j>>).k = j
  BY DEF Piece
<1>7. Pow2(j) \in Nat /\ e.pages % Pow2(j) \in Nat
  <2>1. j \in 0 .. (MaxBit + 1)
    BY Powers
  <2>2. e.pages \in Nat
    BY <1>2, EntryTypes
  <2> QED BY <2>1, <2>2, Remainder
<1>8. e.base + o \in PagesOf(n)
  <2>1. o \in Int
    BY DEF r
  <2>2. \A b, d, f, q \in Nat : d <= q /\ q < d + f => b + q \in (b + d) .. ((b + d) + f - 1)
    OBVIOUS
  <2>3. e.base + o \in (e.base + (e.pages % Pow2(j))) .. ((e.base + (e.pages % Pow2(j))) + Pow2(j) - 1)
    <3>1. o \in Nat
      BY <1>3, <1>7, <2>1
    <3> HIDE DEF e
    <3> QED BY <1>2, <1>3, <1>7, <2>2, <3>1 DEF e, r
  <2> QED BY <1>5, <1>6, <2>3 DEF PagesOf
<1> QED BY <1>8 DEF Instances, r

\* The instances manage usable pages, no page twice, and not the pages of the
\* array that describes them: the property of every memory map, and after any
\* calls.
LEMMA InstancesOwn == Instances => MemoryOwned
<1> SUFFICES ASSUME Instances PROVE MemoryOwned
  OBVIOUS
<1> DEFINE s == Sorted(map)
           r == Reserved(s)
           h == Host(s)
           e == s[h]
           rest == Bytes(map) % PageBytes # 0
           surplus == rest /\ Carved(r[h])
<1>1. /\ h \in 1 .. Len(map) /\ e.usable /\ e.base \in Nat /\ e.pages \in Nat
      /\ ArrayPages(s) \in Nat /\ ArrayPages(s) <= e.pages
      /\ r[h].base \in Nat /\ r[h].pages \in Nat
      /\ r[h].base = e.base + ArrayPages(s)
      /\ r[h].base + r[h].pages = e.base + e.pages + (IF rest THEN 1 ELSE 0)
      /\ \A i \in 1 .. Len(map) :
           /\ s[i].base \in Nat /\ s[i].pages \in Nat
           /\ i # h => r[i] = s[i]
           /\ i # h /\ s[i].usable => \/ e.base + e.pages < s[i].base
                                      \/ s[i].base + s[i].pages < e.base
  BY HostFacts
<1>2. \A p \in Page : \E i \in 1 .. Len(map) :
        Carved(r[i]) /\ p \in Int /\ r[i].base <= p /\ p < r[i].base + r[i].pages
  BY PageOrigin
<1>3. e.base + e.pages \notin Usable
  BY NotUsable DEF HostOf
<1>4. surplus => e.base + e.pages \in Page
  <2> SUFFICES ASSUME surplus PROVE e.base + e.pages \in Page
    OBVIOUS
  <2> DEFINE o == r[h].pages - 1
  <2>1. r[h].base + o = e.base + e.pages /\ o \in 0 .. (r[h].pages - 1)
    <3>1. r[h].base + r[h].pages = e.base + e.pages + 1 /\ r[h].pages > 1
      BY <1>1 DEF Carved
    <3>2. r[h].base \in Nat /\ r[h].pages \in Nat /\ e.base \in Nat /\ e.pages \in Nat
      BY <1>1
    <3> HIDE DEF s, r, h, e
    <3> QED BY <3>1, <3>2
  <2> HIDE DEF o
  <2>2. r[h].base + o \in Page
    BY <1>1, <2>1, PagesServed
  <2> HIDE DEF s, r, h
  <2> QED BY <2>1, <2>2
<1>5. ASSUME NEW i \in 1 .. Len(map), s[i].usable, NEW p \in s[i].base .. (s[i].base + s[i].pages - 1)
      PROVE  p \in Usable
  <2>1. PICK q \in Orders(Len(map)) : \A k \in 1 .. Len(map) : s[k] = map[q[k]]
    BY InstanceFacts, SortedFacts
  <2>2. DOMAIN map = 1 .. Len(map)
    BY InstanceFacts DEF MemoryMap
  <2> HIDE DEF s
  <2>3. q[i] \in DOMAIN map /\ s[i] = map[q[i]]
    BY <2>1, <2>2 DEF Orders
  <2> QED BY <1>5, <2>3 DEF Usable
<1> HIDE DEF s, r, h, rest
<1>6. \A i, j \in Index : i # j => PagesOf(i) \cap PagesOf(j) = {}
  BY InstancesApart
<1>7. Page \cap (e.base .. (e.base + ArrayPages(s) - 1)) = {}
  <2> SUFFICES ASSUME NEW p \in Page, p \in e.base .. (e.base + ArrayPages(s) - 1) PROVE FALSE
    OBVIOUS
  <2>1. PICK i \in 1 .. Len(map) :
          Carved(r[i]) /\ p \in Int /\ r[i].base <= p /\ p < r[i].base + r[i].pages
    BY <1>2
  <2>2. CASE i = h
    <3>1. r[h].base = e.base + ArrayPages(s) /\ e.base \in Nat /\ ArrayPages(s) \in Nat
      BY <1>1
    <3>2. p \in Int /\ r[h].base <= p
      BY <2>1, <2>2
    <3> HIDE DEF e
    <3> QED BY <3>1, <3>2
  <2>3. CASE i # h
    <3>1. r[i] = s[i] /\ s[i].usable
      BY <1>1, <2>1, <2>3 DEF Carved
    <3>2. /\ s[i].base \in Nat /\ s[i].pages \in Nat
          /\ e.base + e.pages < s[i].base \/ s[i].base + s[i].pages < e.base
      BY <1>1, <2>3, <3>1
    <3>3. s[i].base <= p /\ p < s[i].base + s[i].pages /\ p \in Int
      BY <2>1, <3>1
    <3>4. e.base \in Nat /\ e.pages \in Nat /\ ArrayPages(s) \in Nat /\ ArrayPages(s) <= e.pages
      BY <1>1
    <3>5. p <= e.base + ArrayPages(s) - 1 /\ e.base <= p
      BY <3>3, <3>4
    <3>6. \A a, n, x, l, y \in Nat, q \in Int :
            /\ x + l < a \/ a + n < x
            /\ a <= q /\ q < a + n
            /\ y <= l /\ q <= x + y - 1 /\ x <= q
            => FALSE
      OBVIOUS
    <3> HIDE DEF e
    <3> QED BY <3>2, <3>3, <3>4, <3>5, <3>6
  <2> QED BY <2>2, <2>3
<1>8. ASSUME NEW p \in Page, p \notin Usable PROVE p = e.base + e.pages /\ surplus
  <2>1. PICK i \in 1 .. Len(map) :
          Carved(r[i]) /\ p \in Int /\ r[i].base <= p /\ p < r[i].base + r[i].pages
    BY <1>2
  <2>2. i = h
    <3> SUFFICES ASSUME i # h PROVE FALSE
      OBVIOUS
    <3>1. r[i] = s[i] /\ s[i].usable
      BY <1>1, <2>1 DEF Carved
    <3>2. p \in s[i].base .. (s[i].base + s[i].pages - 1)
      <4>1. s[i].base \in Nat /\ s[i].pages \in Nat
        BY <1>1
      <4>2. s[i].base <= p /\ p < s[i].base + s[i].pages /\ p \in Int
        BY <2>1, <3>1
      <4> QED BY <4>1, <4>2
    <3> QED BY <1>5, <1>8, <3>1, <3>2
  <2>3. p \notin e.base .. (e.base + e.pages - 1)
    BY <1>1, <1>5, <1>8
  <2>4. e.base <= p /\ p < e.base + e.pages + (IF rest THEN 1 ELSE 0)
    <3>1. r[h].base = e.base + ArrayPages(s) /\ e.base \in Nat /\ ArrayPages(s) \in Nat
          /\ r[h].base + r[h].pages = e.base + e.pages + (IF rest THEN 1 ELSE 0)
      BY <1>1
    <3>2. p \in Int /\ r[h].base <= p /\ p < r[h].base + r[h].pages
      BY <2>1, <2>2
    <3> HIDE DEF e
    <3> QED BY <3>1, <3>2
  <2>5. rest /\ p = e.base + e.pages
    <3>1. e.base \in Nat /\ e.pages \in Nat /\ p \in Int
      BY <1>1, <2>1
    <3> HIDE DEF e
    <3> QED BY <2>3, <2>4, <3>1
  <2> QED BY <2>1, <2>2, <2>5
<1>9. Page \ Usable = { p \in {e.base + e.pages} : surplus }
  BY <1>3, <1>4, <1>8
<1>10. surplus <=> (Required(s) * BuddyBytes) % PageBytes # 0 /\ Carved(Reserved(s)[Host(s)])
  BY DEF s, r, h, rest, Bytes
<1> HIDE DEF surplus
<1> QED BY <1>6, <1>7, <1>9, <1>10 DEF MemoryOwned, s, h

\* The instances manage distinct usable memory, apart from the surplus page.
THEOREM MemoryStaysOwned == Spec => []MemoryOwned
<1>1. Spec => []Instances
  BY InstancesInductive, PTL DEF Spec
<1> QED BY <1>1, InstancesOwn, PTL

-----------------------------------------------------------------------------
(***************************************************************************)
(* Blocks of an instance                                                   *)
(***************************************************************************)
LEMMA PowersGrow ==
  ASSUME NEW l \in 0 .. (MaxBit + 1), NEW j \in l .. (MaxBit + 1)
  PROVE  Pow2(l) <= Pow2(j)
<1> DEFINE N == (MaxBit + 1) - l
           S == { i \in 0 .. N : Pow2(l) <= Pow2(l + i) }
<1>1. N \in Nat /\ MaxBit \in Nat /\ l \in Nat
  BY Powers
<1>2. 0 \in S
  BY <1>1, Powers
<1>3. ASSUME NEW i \in 0 .. (N - 1), i \in S PROVE i + 1 \in S
  <2>1. l + i \in 0 .. MaxBit /\ l + i \in 0 .. (MaxBit + 1) /\ l + (i + 1) = (l + i) + 1
        /\ i + 1 \in 0 .. N
    BY <1>1
  <2>2. Pow2(l) \in Nat /\ Pow2(l + i) \in Nat /\ Pow2((l + i) + 1) = 2 * Pow2(l + i)
    BY <2>1, Powers
  <2> QED BY <1>3, <2>1, <2>2
<1> HIDE DEF S
<1>4. \A i \in 0 .. N : i \in S
  BY <1>1, <1>2, <1>3, SetInduction
<1>5. j - l \in 0 .. N /\ l + (j - l) = j
  BY <1>1
<1> QED BY <1>4, <1>5 DEF S

LEMMA PlaceFacts ==
  ASSUME Instances, NEW i \in Index, NEW b, NEW k, InPlace(i, b, k)
  PROVE  /\ b \in Nat /\ k \in 0 .. MaxBit /\ Pow2(k) \in Nat \ {0}
         /\ Span(b, k) \subseteq PagesOf(i) /\ PagesOf(i) \subseteq Page
         /\ b \in Span(b, k) /\ b - buddies[i].base \in Nat
<1>1. buddies[i].base \in Nat /\ buddies[i].k \in 0 .. MaxBit /\ Pow2(buddies[i].k) \in Nat
  BY InstanceTypes
<1>2. k \in 0 .. MaxBit /\ k \in 0 .. (MaxBit + 1)
  BY <1>1, Powers DEF InPlace
<1>3. Pow2(k) \in Nat \ {0}
  BY <1>2, Powers
<1>4. b \in buddies[i].base .. (buddies[i].base + Pow2(buddies[i].k) - Pow2(k))
  BY DEF InPlace
<1>5. PagesOf(i) \subseteq Page
  BY DEF Instances
<1> HIDE DEF InPlace, Instances
<1> QED BY <1>1, <1>2, <1>3, <1>4, <1>5 DEF Span, PagesOf

\* The lower half of a block, and the halves split off it.
LEMMA Lowering ==
  ASSUME Instances, NEW i \in Index, NEW b, NEW j, InPlace(i, b, j), NEW k \in 0 .. j
  PROVE  InPlace(i, b, k) /\ Span(b, k) \subseteq Span(b, j)
<1>1. /\ b \in Nat /\ j \in 0 .. MaxBit /\ Pow2(j) \in Nat \ {0} /\ b - buddies[i].base \in Nat
  BY PlaceFacts
<1>2. /\ buddies[i].base \in Nat /\ buddies[i].k \in 0 .. MaxBit /\ Pow2(buddies[i].k) \in Nat
  BY InstanceTypes
<1>3. k \in 0 .. MaxBit /\ k \in 0 .. (MaxBit + 1) /\ j \in k .. (MaxBit + 1) /\ k <= j
  BY <1>1, Powers
<1>4. Pow2(k) \in Nat \ {0} /\ Pow2(k) <= Pow2(j)
  BY <1>3, Powers, PowersGrow
<1>5. (b - buddies[i].base) % Pow2(k) = 0
  <2>1. (b - buddies[i].base) % Pow2(k) <= (b - buddies[i].base) % Pow2(j)
    BY <1>1, <1>3, RemaindersGrow
  <2>2. (b - buddies[i].base) % Pow2(j) = 0
    BY DEF InPlace
  <2>3. (b - buddies[i].base) % Pow2(k) \in Nat
    BY <1>1, <1>3, Remainder
  <2> QED BY <2>1, <2>2, <2>3
<1>6. j \in 0 .. buddies[i].k
      /\ b \in buddies[i].base .. (buddies[i].base + Pow2(buddies[i].k) - Pow2(j))
  BY DEF InPlace
<1>7. k \in 0 .. buddies[i].k
      /\ b \in buddies[i].base .. (buddies[i].base + Pow2(buddies[i].k) - Pow2(k))
  BY <1>1, <1>2, <1>3, <1>4, <1>6
<1>8. Span(b, k) \subseteq Span(b, j)
  BY <1>1, <1>4 DEF Span
<1> QED BY <1>5, <1>7, <1>8 DEF InPlace

LEMMA Splitting ==
  ASSUME Instances, NEW i \in Index, NEW b, NEW j, InPlace(i, b, j), NEW l \in 0 .. (j - 1)
  PROVE  /\ BuddyOf(i, b, l) = b + Pow2(l)
         /\ InPlace(i, b + Pow2(l), l)
         /\ Span(b + Pow2(l), l) \subseteq Span(b, j)
<1> DEFINE o == b - buddies[i].base
<1>1. /\ b \in Nat /\ j \in 0 .. MaxBit /\ Pow2(j) \in Nat \ {0} /\ o \in Nat
  BY PlaceFacts
<1>2. /\ buddies[i].base \in Nat /\ buddies[i].k \in 0 .. MaxBit /\ Pow2(buddies[i].k) \in Nat
  BY InstanceTypes
<1>3. /\ l \in 0 .. MaxBit /\ l + 1 \in 0 .. (MaxBit + 1) /\ j \in (l + 1) .. (MaxBit + 1)
      /\ l + 1 \in 0 .. j /\ l \in 0 .. j /\ l \in 0 .. (MaxBit + 1)
  BY <1>1, Powers
<1>4. Pow2(l) \in Nat \ {0} /\ Pow2(l + 1) = 2 * Pow2(l) /\ Pow2(l + 1) <= Pow2(j)
  BY <1>3, Powers, PowersGrow
<1>5. InPlace(i, b, l + 1) /\ InPlace(i, b, l)
  BY <1>3, Lowering
<1>6. o % Pow2(l + 1) = 0 /\ o % Pow2(l) = 0
  BY <1>5 DEF InPlace
<1>7. ~ HasBit(o, l)
  <2>1. o % Pow2(l + 1) = (o % Pow2(l)) + (IF HasBit(o, l) THEN Pow2(l) ELSE 0)
    BY <1>1, <1>3, BitStep
  <2> HIDE DEF o
  <2> QED BY <1>4, <1>6, <2>1
<1>8. (o \div Pow2(l)) % 2 = 0
  <2>1. \A a \in Nat, d \in Nat \ {0} : (a \div d) % 2 = 0 \/ (a \div d) % 2 = 1
    OBVIOUS
  <2> HIDE DEF o
  <2> QED BY <1>1, <1>4, <1>7, <2>1 DEF HasBit
<1>9. BuddyOf(i, b, l) = b + Pow2(l)
  BY <1>8 DEF BuddyOf
<1>10. InPlace(i, b + Pow2(l), l)
  <2>1. ((b + Pow2(l)) - buddies[i].base) % Pow2(l) = 0
    <3>1. ASSUME NEW a \in Nat, NEW d \in Nat \ {0}, a % d = 0 PROVE (a + d) % d = 0
      <4>1. PICK q \in Nat : a = d * q
        <5> DEFINE x == a \div d
                   r == a % d
        <5>1. x \in Nat /\ a = (d * x) + r
          OBVIOUS
        <5>2. r = 0 /\ d * x \in Int
          BY <3>1, <5>1
        <5> HIDE DEF x, r
        <5>3. a = d * x
          BY <5>1, <5>2
        <5> QED BY <5>1, <5>3
      <4>2. a + d = d * (q + 1) + 0 /\ q + 1 \in Nat
        BY <4>1
      <4>3. \A x \in Nat : (d * x + 0) % d = 0
        OBVIOUS
      <4> QED BY <4>2, <4>3
    <3>2. (o + Pow2(l)) % Pow2(l) = 0
      <4> HIDE DEF o
      <4> QED BY <1>1, <1>4, <1>6, <3>1
    <3>3. (b + Pow2(l)) - buddies[i].base = o + Pow2(l)
      BY <1>1, <1>2, <1>4
    <3> QED BY <3>2, <3>3
  <2>2. b \in buddies[i].base .. (buddies[i].base + Pow2(buddies[i].k) - Pow2(l + 1))
        /\ l \in 0 .. buddies[i].k
    BY <1>5 DEF InPlace
  <2>3. b + Pow2(l) \in buddies[i].base .. (buddies[i].base + Pow2(buddies[i].k) - Pow2(l))
    BY <1>1, <1>2, <1>4, <2>2
  <2> QED BY <2>1, <2>2, <2>3 DEF InPlace
<1>11. Span(b + Pow2(l), l) \subseteq Span(b, j)
  <2>1. \A x \in Span(b + Pow2(l), l) : x \in Int /\ b <= x /\ x <= b + Pow2(j) - 1
    BY <1>1, <1>4 DEF Span
  <2> QED BY <1>1, <2>1 DEF Span
<1> QED BY <1>9, <1>10, <1>11

\* The halves and what is left are apart.
LEMMA HalvesApart ==
  ASSUME NEW b \in Nat, NEW l \in 0 .. MaxBit, NEW k \in 0 .. MaxBit, k < l \/ k = l
  PROVE  /\ Span(b + Pow2(l), l) \cap Span(b, k) = {}
         /\ k < l => Span(b + Pow2(l), l) \cap Span(b + Pow2(k), k) = {}
<1>1. /\ Pow2(l) \in Nat \ {0} /\ Pow2(k) \in Nat \ {0} /\ Pow2(k) <= Pow2(l)
  <2>1. l \in 0 .. (MaxBit + 1) /\ k \in 0 .. (MaxBit + 1) /\ l \in k .. (MaxBit + 1)
    BY Powers
  <2> QED BY <2>1, Powers, PowersGrow
<1>2. ASSUME k < l PROVE Pow2(k) + Pow2(k) <= Pow2(l)
  <2>1. k + 1 \in 0 .. (MaxBit + 1) /\ l \in (k + 1) .. (MaxBit + 1)
    BY <1>2, Powers
  <2>2. Pow2(k + 1) = 2 * Pow2(k) /\ Pow2(k + 1) <= Pow2(l)
    BY <2>1, Powers, PowersGrow
  <2> QED BY <1>1, <2>2
<1>3. Span(b + Pow2(l), l) \cap Span(b, k) = {}
  BY <1>1 DEF Span
<1>4. ASSUME k < l PROVE Span(b + Pow2(l), l) \cap Span(b + Pow2(k), k) = {}
  BY <1>1, <1>2, <1>4 DEF Span
<1> QED BY <1>3, <1>4

-----------------------------------------------------------------------------
(***************************************************************************)
(* The calls: which instance, which order, which block                     *)
(***************************************************************************)
LEMMA GreatestOf ==
  ASSUME NEW n \in Int, NEW S \in SUBSET (0 .. n), S # {}
  PROVE  Max(S) \in S
<1> DEFINE T == { n - x : x \in S }
<1>1. T \in SUBSET Nat /\ T # {}
  <2>1. \A x \in S : n - x \in Nat
    OBVIOUS
  <2> QED BY <2>1
<1>2. PICK y \in T : \A z \in T : y <= z
  <2> HIDE DEF T
  <2> QED BY <1>1, LeastNumber
<1>3. PICK x \in S : y = n - x
  BY <1>2
<1>4. \A z \in S : x >= z
  <2>1. \A z \in S : n - z \in T /\ z \in Int
    OBVIOUS
  <2> HIDE DEF T
  <2>2. \A z \in S : n - x <= n - z
    BY <1>2, <1>3, <2>1
  <2> QED BY <2>1, <2>2
<1> QED BY <1>4 DEF Max

LEMMA SuitableIndex ==
  ASSUME Instances, NEW order, NEW i \in 1 .. Suitable(order)
  PROVE  i \in Index
<1> DEFINE J(n) == { j \in (n + 1) .. (topIdx - 1) :
                       buddies[j].k < buddies[n].k /\ buddies[j].k + MinOrder >= order }
           I == { n \in 0 .. (topIdx - 1) : J(n) # {} }
<1>1. topIdx \in Int /\ Index = 0 .. topIdx /\ topIdx - 1 \in Int
  BY InstanceFacts
<1>2. Suitable(order) = IF I = {} THEN 0 ELSE Max(J(Max(I)))
  BY DEF Suitable
<1>3. CASE I = {}
  BY <1>2, <1>3
<1>4. CASE I # {}
  <2>1. Max(I) \in I
    <3>1. I \in SUBSET (0 .. (topIdx - 1))
      OBVIOUS
    <3> HIDE DEF I
    <3> QED BY <1>1, <1>4, <3>1, GreatestOf
  <2>2. J(Max(I)) \in SUBSET (0 .. (topIdx - 1)) /\ J(Max(I)) # {}
    <3>1. \A n \in I : n \in Nat /\ J(n) # {}
      OBVIOUS
    <3>2. \A n \in Nat : J(n) \in SUBSET (0 .. (topIdx - 1))
      BY <1>1
    <3> HIDE DEF I, J
    <3> QED BY <2>1, <3>1, <3>2
  <2>3. Max(J(Max(I))) \in 0 .. (topIdx - 1)
    <3> HIDE DEF I, J
    <3> QED BY <1>1, <2>2, GreatestOf
  <2> HIDE DEF I, J
  <2> QED BY <1>1, <1>2, <1>4, <2>3
<1> QED BY <1>3, <1>4

LEMMA OrderNat ==
  ASSUME NEW s \in Sizes
  PROVE  OrderOf(s) \in Nat
<1> DEFINE S == { r \in 0 .. 30 : Pow2(r) >= s \div 8 }
<1>1. S \in SUBSET Nat /\ S # {}
  BY SizesAssumption DEF SizesAssumption
<1>2. Min(S) \in Nat
  <2> HIDE DEF S
  <2> QED BY <1>1, LeastOf
<1>3. OrderOf(s) = IF Min(S) <= MinOrder THEN 0 ELSE Min(S) - MinOrder
  BY DEF OrderOf
<1> HIDE DEF S
<1> QED BY <1>2, <1>3 DEF MinOrder

\* The instance that serves a call, and the order of the block it takes.
LEMMA Choice ==
  ASSUME Instances, NEW s \in Sizes, Willing(s) # {}
  PROVE  LET i == Max(Willing(s))
             k == OrderOf(s)
             j == Min(Serving(i, k))
         IN  i \in Index /\ k \in Nat /\ j \in k .. buddies[i].k /\ list[i][j] # Null
<1> DEFINE i == Max(Willing(s))
           k == OrderOf(s)
<1>1. Willing(s) \subseteq Index /\ Willing(s) \in SUBSET (0 .. topIdx) /\ topIdx \in Int
  BY SuitableIndex, InstanceFacts DEF Willing, Tried
<1>2. i \in Willing(s)
  BY <1>1, GreatestOf
<1>3. i \in Index /\ Serving(i, k) # {}
  BY <1>1, <1>2 DEF Willing
<1>4. k \in Nat
  BY OrderNat
<1> HIDE DEF i, k
<1>5. buddies[i].k \in Nat
  BY <1>3, InstanceTypes, Powers
<1>6. Serving(i, k) \in SUBSET Nat
  BY <1>4, <1>5 DEF Serving
<1>7. Min(Serving(i, k)) \in Serving(i, k)
  BY <1>3, <1>6, LeastOf
<1> QED BY <1>3, <1>4, <1>7 DEF Serving, i, k

\* The first activation of coalesce() has the block that is given back, those
\* above it what After() tells.
After(i, k, x, n) == LET y == BuddyOf(i, x, n)
                  IN  IF x = Null THEN Null
                      ELSE IF y \in Meets(i, k, n) THEN Min({x, y}) ELSE Null

LEMMA ChainStart ==
  ASSUME Instances, NEW i \in Index, NEW k \in 0 .. buddies[i].k, NEW b \in Int
  PROVE  DOMAIN Chain(i, k, b) = k .. buddies[i].k /\ Chain(i, k, b)[k] = b
<1> DEFINE K == buddies[i].k
           N == K - k
           V == Int \cup {Null}
           Then(x, n) == After(i, k, x, n - 1)
           step == [z \in V \X (1 .. N) |-> Then(z[1], z[2] + k)]
<1>1. K \in 0 .. MaxBit /\ K \in Nat /\ k \in Nat /\ N \in Nat /\ buddies[i].base \in Nat
      /\ MaxBit \in Nat
  BY InstanceTypes, Powers
<1>2. ASSUME NEW x \in V, NEW n \in (k + 1) .. K PROVE Then(x, n) \in V
  <2>1. CASE x # Null
    <3> DEFINE y == BuddyOf(i, x, n - 1)
    <3>1. n - 1 \in 0 .. (MaxBit + 1)
      BY <1>1
    <3>2. Pow2(n - 1) \in Nat \ {0} /\ x \in Int
      BY <2>1, <3>1, Powers
    <3>3. y \in Int
      BY <1>1, <3>2 DEF BuddyOf
    <3> HIDE DEF y
    <3>4. Min({x, y}) \in Int
      <4>1. \E a \in {x, y} : \A c \in {x, y} : a <= c
        BY <3>2, <3>3
      <4>2. Min({x, y}) \in {x, y}
        BY <4>1 DEF Min
      <4> QED BY <3>2, <3>3, <4>2
    <3> QED BY <3>4 DEF y, After
  <2>2. CASE x = Null
    BY <2>2 DEF After
  <2> QED BY <2>1, <2>2
<1> HIDE DEF Then, V
<1>3. step \in Steps(N, V)
  <2>1. \A t \in 1 .. N : t + k \in (k + 1) .. K
    BY <1>1
  <2> QED BY <1>2, <2>1 DEF Steps
<1>4. b \in V
  BY DEF V
<1>5. PICK f : Computed(f, N, V, b, step)
  <2> HIDE DEF N, step
  <2> QED BY <1>1, <1>3, <1>4, Recursion
<1>6. ASSUME NEW t \in 1 .. N PROVE f[t] = Then(f[t - 1], t + k)
  <2>1. t - 1 \in 0 .. N
    BY <1>1
  <2>2. <<f[t - 1], t>> \in V \X (1 .. N)
    BY <1>5, <2>1 DEF Computed
  <2>3. step[<<f[t - 1], t>>] = Then(f[t - 1], t + k)
    BY <2>2
  <2> HIDE DEF step
  <2> QED BY <1>5, <2>3 DEF Computed
<1> DEFINE at == [j \in k .. K |-> f[j - k]]
<1>7. at = [j \in k .. K |-> IF j = k THEN b ELSE Then(at[j - 1], j)]
  <2>1. ASSUME NEW j \in k .. K, j # k PROVE at[j] = Then(at[j - 1], j)
    <3>1. j - k \in 1 .. N /\ (j - k) + k = j /\ (j - k) - 1 = (j - 1) - k /\ j - 1 \in k .. K
      BY <1>1, <2>1
    <3>2. at[j] = f[j - k] /\ at[j - 1] = f[(j - 1) - k]
      BY <3>1
    <3> HIDE DEF N, at
    <3> QED BY <1>6, <3>1, <3>2
  <2>2. at[k] = b
    <3>1. k \in k .. K /\ k - k = 0
      BY <1>1
    <3> QED BY <1>5, <3>1 DEF Computed
  <2> QED BY <2>1, <2>2
<1>8. Chain(i, k, b) = [j \in k .. K |-> IF j = k THEN b ELSE Then(Chain(i, k, b)[j - 1], j)]
  <2> HIDE DEF at
  <2>1. at = [j \in k .. buddies[i].k |-> IF j = k THEN b ELSE After(i, k, at[j - 1], j - 1)]
    BY <1>7 DEF Then
  <2>2. Chain(i, k, b) = [j \in k .. buddies[i].k |->
                             IF j = k THEN b ELSE After(i, k, Chain(i, k, b)[j - 1], j - 1)]
    <3> HIDE DEF K
    <3> QED BY Zenon, <2>1 DEF Chain, After
  <2> QED BY <2>2 DEF Then
<1>9. k \in k .. K
  BY <1>1
<1> HIDE DEF K
<1> QED BY <1>8, <1>9 DEF K

\* A block that is given back and not merged is put on the list of its order.
LEMMA GivenAlone ==
  ASSUME Instances, NEW i \in Index, NEW k \in 0 .. (buddies[i].k - 1), NEW b \in Int,
         Give(i, k, b), ~ merged'
  PROVE  list' = [list EXCEPT ![i] = [j \in DOMAIN @ |-> IF j = k THEN b ELSE @[j]]]
<1> DEFINE chain == Chain(i, k, b)
           A == Active(chain)
           K == buddies[i].k
<1>1. K \in Nat /\ k \in Nat /\ k # K /\ k \in k .. K /\ k \in 0 .. K
  BY InstanceTypes, Powers
<1>2. DOMAIN chain = k .. K /\ chain[k] = b
  BY <1>1, ChainStart
<1>3. ~ (Cardinality(A) > 1)
  BY DEF Give
<1> DEFINE M == { j \in DOMAIN chain : j + 1 \in A }
           left == [j \in DOMAIN list[i] |-> IF j - MinOrder \in M THEN Null ELSE list[i][j]]
<1>4. M = {} => list' = [list EXCEPT ![i] = [j \in DOMAIN @ |-> IF j \in A \ {K} THEN chain[j] ELSE left[j]]]
  BY DEF Give
<1> HIDE DEF chain
<1>5. IsFiniteSet(A)
  <2>1. IsFiniteSet(k .. K)
    BY <1>1, FS_Interval
  <2>2. A \subseteq k .. K
    BY <1>2 DEF Active
  <2> QED BY <2>1, <2>2, FS_Subset
<1>6. k \in A
  <2>1. Null \notin Int
    BY MapAssumption DEF MapAssumption
  <2>2. k \in DOMAIN chain /\ chain[k] # Null
    BY <1>1, <1>2, <2>1
  <2> QED BY <2>2 DEF Active
<1> HIDE DEF A
<1>7. A = {k}
  <2> SUFFICES ASSUME NEW j \in A, j # k PROVE FALSE
    BY <1>6
  <2>1. IsFiniteSet({k}) /\ Cardinality({k}) = 1
    BY FS_Singleton
  <2>2. Cardinality({k} \cup {j}) = 2
    BY <2>1, FS_AddElement
  <2>3. {k} \cup {j} \subseteq A
    BY <1>6
  <2>4. Cardinality({k} \cup {j}) <= Cardinality(A)
    BY <1>5, <2>3, FS_Subset
  <2>5. Cardinality(A) \in Nat
    BY <1>5, FS_CardinalityType
  <2> QED BY <1>3, <2>2, <2>4, <2>5
<1>8. \A j : j \in A \ {K} <=> j = k
  BY <1>1, <1>7
<1>9. M = {}
  <2>1. \A j \in k .. K : j + 1 # k
    BY <1>1
  <2> QED BY <1>2, <1>7, <2>1
<1>10. left = [j \in DOMAIN list[i] |-> list[i][j]]
  BY <1>9
<1>11. [j \in DOMAIN list[i] |-> IF j \in A \ {K} THEN chain[j] ELSE left[j]]
         = [j \in DOMAIN list[i] |-> IF j = k THEN b ELSE list[i][j]]
  BY <1>2, <1>8, <1>10
<1> HIDE DEF left, M
<1> QED BY <1>4, <1>9, <1>11

-----------------------------------------------------------------------------
(***************************************************************************)
(* Tickets and holders                                                     *)
(***************************************************************************)
LEMMA TicketDrawn ==
  ASSUME NEW q \in Seq(CPU), NEW c \in CPU
  PROVE  /\ Append(q, c) \in Seq(CPU) /\ Append(q, c) # <<>>
         /\ \E n \in DOMAIN Append(q, c) : Append(q, c)[n] = c
         /\ \A d : (\E n \in DOMAIN q : q[n] = d) =>
                     \E n \in DOMAIN Append(q, c) : Append(q, c)[n] = d
         /\ Head(Append(q, c)) = IF q = <<>> THEN c ELSE Head(q)
<1> DEFINE r == Append(q, c)
           N == Len(q)
<1>1. /\ r \in Seq(CPU) /\ N \in Nat /\ DOMAIN q = 1 .. N /\ DOMAIN r = 1 .. (N + 1)
      /\ r[N + 1] = c /\ \A n \in 1 .. N : r[n] = q[n]
  OBVIOUS
<1>2. r # <<>> /\ Head(r) = IF q = <<>> THEN c ELSE Head(q)
  <2>1. Len(r) = N + 1 /\ (q = <<>> <=> N = 0)
    OBVIOUS
  <2>2. r # <<>> /\ Head(r) = r[1]
    BY <1>1, <2>1
  <2>3. q # <<>> => Head(q) = q[1] /\ 1 \in 1 .. N
    BY <1>1, <2>1
  <2> HIDE DEF r, N
  <2> QED BY <1>1, <2>1, <2>2, <2>3
<1> HIDE DEF r, N
<1>3. \A n \in 1 .. N : n \in 1 .. (N + 1)
  BY <1>1
<1>4. N + 1 \in 1 .. (N + 1)
  BY <1>1
<1> QED BY <1>1, <1>2, <1>3, <1>4 DEF r

LEMMA TicketServed ==
  ASSUME NEW q \in Seq(CPU), q # <<>>
  PROVE  /\ Tail(q) \in Seq(CPU)
         /\ \A d : d # Head(q) /\ (\E n \in DOMAIN q : q[n] = d) =>
                     \E n \in DOMAIN Tail(q) : Tail(q)[n] = d
<1> DEFINE r == Tail(q)
           N == Len(q)
<1>1. /\ r \in Seq(CPU) /\ N \in Nat \ {0} /\ DOMAIN q = 1 .. N /\ DOMAIN r = 1 .. (N - 1)
      /\ Head(q) = q[1] /\ \A n \in 1 .. (N - 1) : r[n] = q[n + 1]
  OBVIOUS
<1> HIDE DEF r, N
<1>2. ASSUME NEW d, d # q[1], NEW n \in 1 .. N, q[n] = d
      PROVE  \E m \in 1 .. (N - 1) : r[m] = d
  <2>1. n - 1 \in 1 .. (N - 1) /\ (n - 1) + 1 = n
    BY <1>1, <1>2
  <2> QED BY <1>1, <1>2, <2>1
<1> QED BY <1>1, <1>2 DEF r

\* A block passes to other holders, whole or in parts.
LEMMA Passed ==
  ASSUME NEW A, NEW B, NEW N, NEW x \in A,
         \A y, z \in A : y # z => Held(y) \cap Held(z) = {},
         \A y, z \in N : y # z => Held(y) \cap Held(z) = {},
         \A y \in N : Held(y) \subseteq Held(x),
         B \subseteq (A \ {x}) \cup N
  PROVE  \A y, z \in B : y # z => Held(y) \cap Held(z) = {}
<1> SUFFICES ASSUME NEW y \in B, NEW z \in B, y # z PROVE Held(y) \cap Held(z) = {}
  OBVIOUS
<1> HIDE DEF Held
<1>1. CASE y \in A \ {x} /\ z \in A \ {x}
  BY <1>1
<1>2. CASE y \in N /\ z \in N
  BY <1>2
<1>3. CASE y \in A \ {x} /\ z \in N
  BY <1>3
<1>4. CASE y \in N /\ z \in A \ {x}
  BY <1>4
<1> QED BY <1>1, <1>2, <1>3, <1>4

LEMMA TakenFacts ==
  ASSUME Instances, Marked, NEW x \in Taken
  PROVE  /\ x[3] \in Held(x) /\ Held(x) \subseteq Page /\ x[3] \in Nat /\ x[4] \in 0 .. MaxBit
         /\ \A p \in Held(x) : /\ meta[p].order = x[4] + MinOrder
                               /\ p \in unset \/ meta[p].refcount = 1
<1>1. PICK i \in Index : InPlace(i, x[3], x[4]) /\ \A p \in Held(x) : Right(p, x[4], i)
  BY DEF Marked
<1>2. /\ x[3] \in Nat /\ x[4] \in 0 .. MaxBit /\ x[3] \in Span(x[3], x[4])
      /\ Span(x[3], x[4]) \subseteq PagesOf(i) /\ PagesOf(i) \subseteq Page
  BY <1>1, PlaceFacts
<1> QED BY <1>1, <1>2 DEF Held, Right

LEMMA ListedFacts ==
  ASSUME Instances, Accounted, NEW i \in Index, NEW k \in 0 .. buddies[i].k, list[i][k] # Null
  PROVE  /\ InPlace(i, list[i][k], k) /\ <<"list", i, list[i][k], k>> \in Listed
<1>1. <<"list", i, list[i][k], k>> \in Listed
  BY DEF Listed
<1> QED BY <1>1 DEF Accounted

\* Nothing changes hands.
LEMMA Unmoved ==
  ASSUME Instances, Marked, Accounted, [Next]_vars, UNCHANGED <<list, meta, unset, owned>>,
         Leaving' = Leaving
  PROVE  Marked' /\ Accounted'
<1>1. map' = map /\ buddies' = buddies /\ Page' = Page /\ Index' = Index
  BY SetupKept
<1>2. Taken' = Taken /\ Listed' = Listed
  BY <1>1 DEF Taken, Owned, Listed
<1>3. \A i, b, k : InPlace(i, b, k)' <=> InPlace(i, b, k)
  BY <1>1 DEF InPlace
<1>4. Marked'
  <2>1. \A p, k, i : Right(p, k, i)' <=> Right(p, k, i)
    BY DEF Right
  <2>2. \A x : Held(x)' = Held(x)
    BY DEF Held
  <2> QED BY <1>1, <1>2, <1>3, <2>1, <2>2 DEF Marked
<1>5. Accounted'
  BY <1>1, <1>2, <1>3 DEF Accounted
<1> QED BY <1>4, <1>5

LEMMA Entered ==
  ASSUME Waiting, NEW c \in CPU, NEW what \in Calls, Enter(c, what), Page' = Page, UNCHANGED meta,
         what[1] = "free" /\ ~ IsBuddyPage(what[2]) => queue = <<>>
  PROVE  Waiting'
<1>1. /\ queue \in Seq(CPU) /\ call \in [CPU -> Calls] /\ queue' = Append(queue, c)
      /\ call' = [call EXCEPT ![c] = what]
  BY DEF Waiting, Enter
<1>2. Calls' = Calls /\ call' \in [CPU -> Calls]
  BY <1>1 DEF Calls
<1>3. queue' \in Seq(CPU)
  BY <1>1, TicketDrawn
<1>4. ASSUME NEW d \in CPU, call'[d] # <<"none">> PROVE \E n \in DOMAIN queue' : queue'[n] = d
  <2>1. CASE d = c
    BY <1>1, <2>1, TicketDrawn
  <2>2. CASE d # c
    <3>1. \E n \in DOMAIN queue : queue[n] = d
      BY <1>1, <1>4, <2>2 DEF Waiting
    <3> QED BY <1>1, <3>1, TicketDrawn
  <2> QED BY <2>1, <2>2
<1>5. ASSUME NEW d \in CPU, call'[d][1] = "free", ~ (meta[call'[d][2]].order >= MinOrder)
      PROVE  queue' # <<>> /\ Head(queue') = d
  <2>1. queue' # <<>> /\ Head(queue') = IF queue = <<>> THEN c ELSE Head(queue)
    BY <1>1, TicketDrawn
  <2>2. CASE d = c
    <3>1. queue = <<>>
      BY <1>1, <1>5, <2>2 DEF IsBuddyPage
    <3> QED BY <2>1, <2>2, <3>1
  <2>3. CASE d # c
    <3>1. queue # <<>> /\ Head(queue) = d
      BY <1>1, <1>5, <2>3 DEF Waiting, IsBuddyPage
    <3> QED BY <2>1, <3>1
  <2> QED BY <2>2, <2>3
<1> QED BY <1>2, <1>3, <1>4, <1>5 DEF Waiting, IsBuddyPage

\* The step changes the order of no page that another call frees.
SameOrders(c) == \A d \in CPU : d # c /\ call[d][1] = "free" =>
                                  meta'[call[d][2]].order = meta[call[d][2]].order

LEMMA Returned ==
  ASSUME Waiting, NEW c \in CPU, HasLock(c), Return(c), Page' = Page, SameOrders(c)
  PROVE  Waiting'
<1>1. /\ queue \in Seq(CPU) /\ call \in [CPU -> Calls] /\ queue' = Tail(queue)
      /\ call' = [call EXCEPT ![c] = <<"none">>] /\ queue # <<>> /\ Head(queue) = c
  BY DEF Waiting, Return, HasLock
<1>2. Calls' = Calls /\ call' \in [CPU -> Calls]
  BY <1>1 DEF Calls
<1>3. queue' \in Seq(CPU)
  BY <1>1, TicketServed
<1>4. ASSUME NEW d \in CPU, call'[d] # <<"none">> PROVE \E n \in DOMAIN queue' : queue'[n] = d
  <2>1. d # c /\ call[d] # <<"none">>
    BY <1>1, <1>4
  <2>2. \E n \in DOMAIN queue : queue[n] = d
    BY <2>1 DEF Waiting
  <2> QED BY <1>1, <2>1, <2>2, TicketServed
<1>5. ASSUME NEW d \in CPU, call'[d][1] = "free", ~ (meta'[call'[d][2]].order >= MinOrder)
      PROVE  FALSE
  <2>1. d # c /\ call'[d] = call[d]
    BY <1>1, <1>5
  <2>2. call[d][1] = "free" /\ ~ IsBuddyPage(call[d][2])
    BY <1>5, <2>1 DEF IsBuddyPage, SameOrders
  <2>3. Head(queue) = d
    BY <2>2 DEF Waiting
  <2> QED BY <1>1, <2>1, <2>3
<1> QED BY <1>2, <1>3, <1>4, <1>5 DEF Waiting, IsBuddyPage

\* The blocks in calls to free(), that of c and the others.
LeavingBy(c, p, order) == { <<"call", c, p, order - MinOrder>> : n \in { m \in {order} : m >= MinOrder } }
LeavingBut(c) == { <<"call", d, call[d][2], meta[call[d][2]].order - MinOrder>> :
                     d \in { e \in CPU : e # c /\ call[e][1] = "free" /\ IsBuddyPage(call[e][2]) } }

LEMMA Leavers ==
  ASSUME NEW c \in CPU
  PROVE  /\ call[c][1] # "free" => Leaving = LeavingBut(c)
         /\ call[c][1] = "free" =>
              Leaving = LeavingBut(c) \cup LeavingBy(c, call[c][2], meta[call[c][2]].order)
  BY DEF Leaving, LeavingBut, LeavingBy, IsBuddyPage

LEMMA LeaversNext ==
  ASSUME NEW c \in CPU, NEW what, call \in [CPU -> Calls], call' = [call EXCEPT ![c] = what],
         SameOrders(c)
  PROVE  /\ what[1] # "free" => Leaving' = LeavingBut(c)
         /\ what[1] = "free" =>
              Leaving' = LeavingBut(c) \cup LeavingBy(c, what[2], meta'[what[2]].order)
<1>1. \A d \in CPU : call'[d] = IF d = c THEN what ELSE call[d]
  OBVIOUS
<1>2. /\ what[1] # "free" => \A x : x \in Leaving' <=> x \in LeavingBut(c)
      /\ what[1] = "free" => \A x : x \in Leaving' <=>
           x \in LeavingBut(c) \/ x \in LeavingBy(c, what[2], meta'[what[2]].order)
  BY <1>1 DEF Leaving, LeavingBut, LeavingBy, IsBuddyPage, SameOrders
<1> QED BY <1>2

-----------------------------------------------------------------------------
(***************************************************************************)
(* One step                                                                *)
(***************************************************************************)
LEMMA AllocCalled ==
  ASSUME Instances, Waiting, Marked, Accounted, [Next]_vars, NEW c \in CPU, CallAlloc(c)
  PROVE  Waiting' /\ Marked' /\ Accounted'
<1>1. PICK s \in Sizes : Enter(c, <<"alloc", s>>)
  BY DEF CallAlloc
<1>2. UNCHANGED <<list, meta, unset, owned>> /\ Page' = Page
  BY SetupKept DEF CallAlloc
<1>3. <<"alloc", s>> \in Calls
  BY DEF Calls
<1>4. Waiting'
  BY <1>1, <1>2, <1>3, Entered
<1>5. call \in [CPU -> Calls] /\ call' = [call EXCEPT ![c] = <<"alloc", s>>] /\ call[c] = <<"none">>
  BY <1>1 DEF Enter, Waiting
<1>6. Leaving' = Leaving
  <2>1. SameOrders(c)
    BY <1>2 DEF SameOrders
  <2>2. <<"alloc", s>>[1] # "free" /\ call[c][1] # "free"
    BY <1>5
  <2> QED BY <1>5, <2>1, <2>2, Leavers, LeaversNext
<1> QED BY <1>2, <1>4, <1>6, Unmoved

\* A second free(): the page is not marked.
LEMMA FreeCalledLate ==
  ASSUME Instances, Waiting, Marked, Accounted, [Next]_vars, NEW c \in CPU, NEW p \in Page \ unset,
         Enter(c, <<"free", p>>), queue = <<>>, UNCHANGED <<list, meta, unset, owned>>,
         \A x \in owned : p \notin Span(x[1], x[2])
  PROVE  Waiting' /\ Marked' /\ Accounted'
<1>1. Page' = Page /\ <<"free", p>> \in Calls
  BY SetupKept DEF Calls
<1>2. Waiting'
  BY <1>1, Entered
<1>3. \A d \in CPU : call[d] = <<"none">>
  BY DEF Waiting
<1>4. Leaving = {}
  BY <1>3 DEF Leaving
<1>5. \A x \in Taken : p \notin Held(x)
  BY <1>4 DEF Taken, Owned, Held
<1>6. meta[p].order = 0
  BY <1>5 DEF Marked
<1>7. ~ (meta[p].order >= MinOrder)
  BY <1>6 DEF MinOrder
<1>8. call \in [CPU -> Calls] /\ call' = [call EXCEPT ![c] = <<"free", p>>]
  BY DEF Enter, Waiting
<1>9. Leaving' = {}
  <2>1. SameOrders(c)
    BY DEF SameOrders
  <2>2. <<"free", p>>[1] = "free" /\ <<"free", p>>[2] = p
    OBVIOUS
  <2>3. Leaving' = LeavingBut(c) \cup LeavingBy(c, p, meta[p].order)
    BY <1>8, <2>1, <2>2, LeaversNext
  <2>4. LeavingBut(c) = {} /\ LeavingBy(c, p, meta[p].order) = {}
    BY <1>3, <1>7 DEF LeavingBut, LeavingBy
  <2> QED BY <2>3, <2>4
<1> QED BY <1>2, <1>4, <1>9, Unmoved

\* An owner's free(): the block is in the hands of the call.
LEMMA FreeCalled ==
  ASSUME Instances, Waiting, Marked, Accounted, [Next]_vars, NEW c \in CPU, NEW z \in owned,
         Enter(c, <<"free", z[1]>>), owned' = owned \ {z}, UNCHANGED <<list, meta, unset>>
  PROVE  Waiting' /\ Marked' /\ Accounted'
<1> DEFINE x == <<"owned", Null, z[1], z[2]>>
           y == <<"call", c, z[1], z[2]>>
<1>1. map' = map /\ buddies' = buddies /\ Page' = Page /\ Index' = Index
  BY SetupKept
<1>2. x \in Taken /\ x[3] = z[1] /\ x[4] = z[2] /\ Held(x) = Held(y)
  BY DEF Taken, Owned, Held
<1>3. z[1] \in Held(x) /\ Held(x) \subseteq Page /\ meta[z[1]].order = z[2] + MinOrder /\ z[2] \in Nat
      /\ z = <<z[1], z[2]>>
  <2>1. z = <<z[1], z[2]>>
    BY DEF Accounted
  <2>2. z[1] \in Held(x) /\ Held(x) \subseteq Page /\ z[2] \in 0 .. MaxBit
        /\ \A p \in Held(x) : meta[p].order = z[2] + MinOrder
    BY <1>2, TakenFacts
  <2> QED BY <2>1, <2>2, Powers
<1>4. meta[z[1]].order >= MinOrder /\ meta[z[1]].order - MinOrder = z[2]
  BY <1>3 DEF MinOrder
<1>5. Waiting'
  <2>1. <<"free", z[1]>> \in Calls
    BY <1>3 DEF Calls
  <2>2. IsBuddyPage(z[1])
    BY <1>4 DEF IsBuddyPage
  <2> QED BY <1>1, <2>1, <2>2, Entered
<1>6. call \in [CPU -> Calls] /\ call' = [call EXCEPT ![c] = <<"free", z[1]>>]
      /\ call[c] = <<"none">>
  BY DEF Enter, Waiting
<1>7. \A w : w \in Leaving' <=> w \in Leaving \/ w = y
  <2>1. SameOrders(c)
    BY DEF SameOrders
  <2>2. <<"free", z[1]>>[1] = "free" /\ <<"free", z[1]>>[2] = z[1] /\ call[c][1] # "free"
    BY <1>6
  <2>3. Leaving' = LeavingBut(c) \cup LeavingBy(c, z[1], meta[z[1]].order) /\ Leaving = LeavingBut(c)
    BY <1>6, <2>1, <2>2, Leavers, LeaversNext
  <2>4. LeavingBy(c, z[1], meta[z[1]].order) = {y}
    BY <1>4 DEF LeavingBy
  <2> QED BY <2>3, <2>4
<1>8. Listed' = Listed
  BY <1>1 DEF Listed
<1>9. \A w : w \in Owned' <=> w \in Owned /\ w # x
  <2>1. \A v \in owned : v = <<v[1], v[2]>>
    BY DEF Accounted
  <2>2. \A v \in owned : <<"owned", Null, v[1], v[2]>> = x => v = z
    BY <1>3, <2>1
  <2> QED BY <2>2 DEF Owned
<1>10. /\ \A w \in Taken' : w \in Taken \ {x} \/ w = y
       /\ y \in Taken' /\ \A w \in Taken : w # x => w \in Taken'
  <2>1. x \notin Leaving
    BY DEF Leaving
  <2> HIDE DEF x, y
  <2> QED BY <1>7, <1>9, <2>1 DEF Taken
<1> HIDE DEF x
<1>11. \A i, b, k : InPlace(i, b, k)' <=> InPlace(i, b, k)
  BY <1>1 DEF InPlace
<1>12. Marked'
  <2>1. ASSUME NEW w \in Taken'
        PROVE  \E i \in Index : InPlace(i, w[3], w[4]) /\ \A p \in Held(w) : Right(p, w[4], i)
    <3>1. CASE w \in Taken
      BY <3>1 DEF Marked
    <3>2. CASE w = y
      <4>1. w[3] = x[3] /\ w[4] = x[4] /\ Held(w) = Held(x)
        BY <1>2, <3>2
      <4>2. \E i \in Index : InPlace(i, x[3], x[4]) /\ \A p \in Held(x) : Right(p, x[4], i)
        BY <1>2 DEF Marked
      <4> QED BY <4>1, <4>2
    <3> QED BY <1>10, <3>1, <3>2
  <2>2. ASSUME NEW p \in Page \ unset, \A w \in Taken' : p \notin Held(w)
        PROVE  meta[p].refcount = 0 /\ meta[p].order = 0
    <3>1. \A w \in Taken : p \notin Held(w)
      BY <1>2, <1>10, <2>2
    <3> QED BY <3>1 DEF Marked
  <2>3. meta' = meta /\ unset' = unset /\ \A w : Held(w)' = Held(w)
    BY DEF Held
  <2>4. \A p, k, i : Right(p, k, i)' <=> Right(p, k, i)
    BY <2>3 DEF Right
  <2> QED BY <1>1, <1>11, <2>1, <2>2, <2>3, <2>4 DEF Marked
<1>13. Accounted'
  <2>1. \A v, w \in Taken \cup Listed : v # w => Held(v) \cap Held(w) = {}
    BY DEF Accounted
  <2>2. (Taken \cup Listed)' \subseteq ((Taken \cup Listed) \ {x}) \cup {y}
    <3>1. x \notin Listed
      BY DEF x, Listed
    <3> QED BY <1>8, <1>10, <3>1
  <2>3. x \in Taken \cup Listed /\ \A w \in {y} : Held(w) \subseteq Held(x)
    BY <1>2
  <2>4. \A v, w \in {y} : v # w => Held(v) \cap Held(w) = {}
    OBVIOUS
  <2> HIDE DEF y
  <2>5. \A v, w \in (Taken \cup Listed)' : v # w => Held(v) \cap Held(w) = {}
    BY <2>1, <2>2, <2>3, <2>4, Passed
  <2>6. \A v, w \in Taken' \cup Listed' : v # w => Held(v)' \cap Held(w)' = {}
    BY <2>5 DEF Held
  <2> QED BY <1>1, <1>8, <1>11, <2>6 DEF Accounted
<1> QED BY <1>5, <1>12, <1>13

\* A call that finds nothing to do, or nothing left.
LEMMA ReturnedUnserved ==
  ASSUME Instances, Waiting, Marked, Accounted, [Next]_vars, NEW c \in CPU, HasLock(c), Return(c),
         UNCHANGED <<list, meta, unset, owned>>, call[c][1] = "free" => ~ IsBuddyPage(call[c][2])
  PROVE  Waiting' /\ Marked' /\ Accounted'
<1>1. SameOrders(c) /\ Page' = Page
  BY SetupKept DEF SameOrders
<1>2. Waiting'
  BY <1>1, Returned
<1>3. call \in [CPU -> Calls] /\ call' = [call EXCEPT ![c] = <<"none">>]
  BY DEF Return, Waiting
<1>4. Leaving' = LeavingBut(c)
  <2>1. <<"none">>[1] # "free"
    OBVIOUS
  <2> QED BY <1>1, <1>3, <2>1, LeaversNext
<1>5. Leaving = LeavingBut(c)
  BY Leavers DEF LeavingBy, IsBuddyPage
<1> QED BY <1>2, <1>4, <1>5, Unmoved

\* The block that a call takes, and the blocks that are split off it.
LEMMA TakeFacts ==
  ASSUME Instances, Accounted, NEW i \in Index, NEW k \in Nat, Take(i, k), Serving(i, k) # {},
         NEW j, j = Min(Serving(i, k)), j \in k .. buddies[i].k, list[i][j] # Null,
         NEW b, b = list[i][j]
  PROVE  /\ InPlace(i, b, j) /\ InPlace(i, b, k) /\ Span(b, k) \subseteq Span(b, j)
         /\ \A l \in k .. (j - 1) : InPlace(i, b + Pow2(l), l) /\ Span(b + Pow2(l), l) \subseteq Span(b, j)
         /\ DOMAIN list' = DOMAIN list /\ DOMAIN list'[i] = DOMAIN list[i]
         /\ \A n \in Index : n # i => list'[n] = list[n]
         /\ \A l \in 0 .. buddies[i].k :
              list'[i][l] = IF l \in k .. (j - 1) THEN b + Pow2(l)
                            ELSE IF l = j THEN Null ELSE list[i][l]
<1>1. j \in 0 .. buddies[i].k /\ buddies[i].k \in Nat
  BY InstanceTypes, Powers
<1>2. InPlace(i, b, j)
  BY <1>1, ListedFacts
<1>3. k \in 0 .. j /\ j \in Nat
  BY <1>1
<1>4. InPlace(i, b, k) /\ Span(b, k) \subseteq Span(b, j)
  BY <1>2, <1>3, Lowering
<1>5. ASSUME NEW l \in k .. (j - 1)
      PROVE  /\ BuddyOf(i, b, l) = b + Pow2(l) /\ InPlace(i, b + Pow2(l), l)
             /\ Span(b + Pow2(l), l) \subseteq Span(b, j)
  <2>1. l \in 0 .. (j - 1)
    BY <1>3
  <2> QED BY <1>2, <2>1, Splitting
<1> DEFINE half == [l \in k .. (j - 1) |-> BuddyOf(i, b, l)]
<1>6. list' = [list EXCEPT ![i] = [l \in DOMAIN @ |-> CASE l \in DOMAIN half -> half[l]
                                                       [] l = j -> Null
                                                       [] OTHER -> @[l]]]
  BY DEF Take
<1>7. DOMAIN half = k .. (j - 1) /\ \A l \in k .. (j - 1) : half[l] = b + Pow2(l) /\ l # j
  BY <1>3, <1>5
<1> HIDE DEF half
<1>8. i \in DOMAIN list /\ DOMAIN list[i] = 0 .. buddies[i].k /\ DOMAIN list = Index
  BY DEF Accounted
<1>9. list'[i] = [l \in DOMAIN list[i] |-> CASE l \in DOMAIN half -> half[l]
                                           [] l = j -> Null
                                           [] OTHER -> list[i][l]]
  BY <1>6, <1>8
<1>10. DOMAIN list' = DOMAIN list /\ DOMAIN list'[i] = DOMAIN list[i]
  BY <1>6, <1>9
<1>11. \A n \in Index : n # i => list'[n] = list[n]
  BY <1>6, <1>8
<1>12. ASSUME NEW l \in 0 .. buddies[i].k
       PROVE  list'[i][l] = IF l \in k .. (j - 1) THEN b + Pow2(l)
                            ELSE IF l = j THEN Null ELSE list[i][l]
  <2>1. CASE l \in k .. (j - 1)
    BY <1>7, <1>8, <1>9, <2>1
  <2>2. CASE l \notin k .. (j - 1) /\ l = j
    BY <1>7, <1>8, <1>9, <2>2
  <2>3. CASE l \notin k .. (j - 1) /\ l # j
    BY <1>7, <1>8, <1>9, <2>3
  <2> QED BY <2>1, <2>2, <2>3
<1> QED BY <1>2, <1>4, <1>5, <1>10, <1>11, <1>12

\* The step leaves the page marked.
Noted(p, k, i) == /\ meta'[p].order = k + MinOrder
                  /\ meta'[p].index = i
                  /\ p \in unset' \/ meta'[p].refcount = 1

LEMMA AllocServed ==
  ASSUME Instances, Waiting, Marked, Accounted, [Next]_vars, NEW c \in CPU, Alloc(c)
  PROVE  Waiting' /\ Marked' /\ Accounted'
<1> DEFINE s == call[c][2]
           k == OrderOf(s)
           i == Max(Willing(s))
           j == Min(Serving(i, k))
           b == list[i][j]
           x == <<"list", i, b, j>>
           o == <<"owned", Null, b, k>>
           halves == { <<"list", i, b + Pow2(l), l>> : l \in k .. (j - 1) }
<1>1. map' = map /\ buddies' = buddies /\ Page' = Page /\ Index' = Index
  BY SetupKept
<1>2. /\ call \in [CPU -> Calls] /\ call[c][1] = "alloc" /\ HasLock(c) /\ Return(c)
      /\ call' = [call EXCEPT ![c] = <<"none">>] /\ Head(queue) = c
      /\ Willing(s) # {} /\ Take(i, k) /\ Mark(b, k, i) /\ owned' = owned \cup {<<b, k>>}
      /\ unset' = unset
  BY DEF Alloc, Return, Waiting, HasLock
<1>3. s \in Sizes
  <2>1. call[c] \in Calls
    BY <1>2
  <2> QED BY <1>2, <2>1 DEF Calls
<1>4. i \in Index /\ k \in Nat /\ j \in k .. buddies[i].k /\ b # Null
  BY <1>2, <1>3, Choice
<1>5. Serving(i, k) # {}
  BY <1>4 DEF Serving
<1> HIDE DEF s, k, i
<1>6. /\ InPlace(i, b, j) /\ InPlace(i, b, k) /\ Span(b, k) \subseteq Span(b, j)
      /\ \A l \in k .. (j - 1) : InPlace(i, b + Pow2(l), l) /\ Span(b + Pow2(l), l) \subseteq Span(b, j)
      /\ DOMAIN list' = DOMAIN list /\ DOMAIN list'[i] = DOMAIN list[i]
      /\ \A n \in Index : n # i => list'[n] = list[n]
      /\ \A l \in 0 .. buddies[i].k :
           list'[i][l] = IF l \in k .. (j - 1) THEN b + Pow2(l)
                         ELSE IF l = j THEN Null ELSE list[i][l]
  BY <1>2, <1>4, <1>5, TakeFacts
<1> HIDE DEF j, b
<1>7. /\ j \in 0 .. buddies[i].k /\ buddies[i].k \in 0 .. MaxBit /\ j \in 0 .. MaxBit /\ k \in 0 .. MaxBit
      /\ b \in Nat /\ b \in Span(b, k) /\ Span(b, k) \subseteq Page
  BY <1>4, <1>6, PlaceFacts, InstanceTypes
<1>8. x \in Listed /\ Held(x) = Span(b, j) /\ Held(o) = Span(b, k)
  BY <1>4, <1>7 DEF Listed, Held, b
<1>9. \A y \in Taken : Held(y) \cap Span(b, j) = {}
  <2>1. \A y \in Taken : y # x
    BY DEF Taken, Owned, Leaving
  <2> QED BY <1>8, <2>1 DEF Accounted
<1>10. \A p \in Span(b, k) : p \notin unset => meta[p].refcount = 0
  <2>1. \A p \in Span(b, k) : \A y \in Taken : p \notin Held(y)
    BY <1>6, <1>9
  <2> QED BY <1>7, <2>1 DEF Marked
<1>11. /\ \A p \in Span(b, k) : Noted(p, k, i)
       /\ \A p \in Page : p \notin Span(b, k) => meta'[p] = meta[p]
  <2>1. meta' = [p \in Page |-> IF p \in Span(b, k) THEN [refcount |-> meta[p].refcount + 1,
                                                        order |-> k + MinOrder, index |-> i]
                                ELSE meta[p]]
    BY <1>2 DEF Mark
  <2>2. ASSUME NEW p \in Span(b, k) PROVE Noted(p, k, i)
    <3>1. meta'[p] = [refcount |-> meta[p].refcount + 1, order |-> k + MinOrder, index |-> i]
      BY <1>7, <2>1, <2>2
    <3>2. p \notin unset' => meta[p].refcount = 0
      BY <1>2, <1>10, <2>2
    <3> QED BY <3>1, <3>2 DEF Noted
  <2> QED BY <1>7, <2>1, <2>2
<1>12. ASSUME NEW d \in CPU, d # c, call[d][1] = "free"
       PROVE  call[d][2] \in Page /\ call[d][2] \notin Span(b, k)
  <2>1. IsBuddyPage(call[d][2])
    BY <1>2, <1>12 DEF Waiting
  <2> DEFINE y == <<"call", d, call[d][2], meta[call[d][2]].order - MinOrder>>
  <2>2. y \in Taken
    BY <1>12, <2>1 DEF Taken, Leaving
  <2>3. call[d][2] = y[3]
    OBVIOUS
  <2> HIDE DEF y
  <2>4. y[3] \in Held(y) /\ y[3] \in Page
    BY <2>2, TakenFacts
  <2> QED BY <1>6, <1>9, <2>2, <2>3, <2>4
<1>13. SameOrders(c)
  BY <1>11, <1>12 DEF SameOrders
<1>14. Waiting'
  BY <1>1, <1>2, <1>13, Returned
<1>15. Leaving' = Leaving
  <2>1. <<"none">>[1] # "free" /\ call[c][1] # "free"
    BY <1>2
  <2>2. Leaving' = LeavingBut(c)
    BY <1>2, <1>13, <2>1, LeaversNext
  <2> QED BY <2>1, <2>2, Leavers
<1>16. Taken' = Taken \cup {o}
  <2>1. \A y : y \in Owned' <=> y \in Owned \/ y = o
    <3> DEFINE v == <<b, k>>
    <3>1. o = <<"owned", Null, v[1], v[2]>>
      OBVIOUS
    <3>2. \A u : u \in owned' <=> u \in owned \/ u = v
      BY <1>2
    <3> HIDE DEF v, o
    <3> QED BY <3>1, <3>2 DEF Owned
  <2> QED BY <1>15, <2>1 DEF Taken
<1>17. ASSUME NEW y \in Listed'
       PROVE  ((y \in Listed /\ y # x) \/ y \in halves) /\ InPlace(y[2], y[3], y[4])
  <2>0. PICK n \in Index :
          \E l \in 0 .. buddies[n].k : list'[n][l] # Null /\ y = <<"list", n, list'[n][l], l>>
    BY <1>1 DEF Listed
  <2>1. PICK l \in 0 .. buddies[n].k : list'[n][l] # Null /\ y = <<"list", n, list'[n][l], l>>
    BY <2>0
  <2>2. y[2] = n /\ y[3] = list'[n][l] /\ y[4] = l
    BY <2>1
  <2>3. CASE n # i
    <3>1. list'[n] = list[n]
      BY <1>6, <2>3
    <3>2. y \in Listed /\ InPlace(n, list[n][l], l)
      BY <2>1, <3>1, ListedFacts
    <3> QED BY <2>1, <2>2, <2>3, <3>1, <3>2
  <2>4. CASE n = i /\ l \in k .. (j - 1)
    <3>1. list'[n][l] = b + Pow2(l)
      BY <1>6, <2>1, <2>4
    <3> QED BY <1>6, <2>1, <2>2, <2>4, <3>1
  <2>5. CASE n = i /\ l \notin k .. (j - 1)
    <3>1. l # j /\ list'[n][l] = list[n][l]
      BY <1>6, <2>1, <2>5
    <3>2. y \in Listed /\ InPlace(n, list[n][l], l)
      BY <2>1, <3>1, ListedFacts
    <3> QED BY <2>1, <2>2, <2>5, <3>1, <3>2
  <2> QED BY <2>3, <2>4, <2>5
<1>18. \A n, m, l : InPlace(n, m, l)' <=> InPlace(n, m, l)
  BY <1>1 DEF InPlace
<1>19. Marked'
  <2>1. ASSUME NEW y \in Taken'
        PROVE  \E n \in Index : InPlace(n, y[3], y[4]) /\ \A p \in Held(y) : Noted(p, y[4], n)
    <3>1. CASE y \in Taken
      <4>1. PICK n \in Index : InPlace(n, y[3], y[4]) /\ \A p \in Held(y) : Right(p, y[4], n)
        BY <3>1 DEF Marked
      <4>2. \A p \in Held(y) : p \in Page /\ p \notin Span(b, k)
        BY <1>6, <1>9, <3>1, TakenFacts
      <4>3. \A p \in Held(y) : meta'[p] = meta[p] /\ unset' = unset
        BY <1>2, <1>11, <4>2
      <4> QED BY <4>1, <4>3 DEF Right, Noted
    <3>2. CASE y = o
      <4>1. y[3] = b /\ y[4] = k
        BY <3>2
      <4> HIDE DEF o
      <4> QED BY <1>4, <1>6, <1>8, <1>11, <3>2, <4>1
    <3> QED BY <1>16, <3>1, <3>2
  <2>2. ASSUME NEW p \in Page \ unset, \A y \in Taken' : p \notin Held(y)
        PROVE  meta'[p].refcount = 0 /\ meta'[p].order = 0
    <3>1. p \notin Span(b, k) /\ \A y \in Taken : p \notin Held(y)
      BY <1>8, <1>16, <2>2
    <3> QED BY <1>11, <3>1 DEF Marked
  <2>3. unset' = unset /\ \A y : Held(y)' = Held(y)
    BY <1>2 DEF Held
  <2>4. \A p, l, n : Right(p, l, n)' <=> Noted(p, l, n)
    BY DEF Right, Noted
  <2> QED BY <1>1, <1>18, <2>1, <2>2, <2>3, <2>4 DEF Marked
<1>20. Accounted'
  <2> DEFINE N == halves \cup {o}
  <2>1. \A y, z \in Taken \cup Listed : y # z => Held(y) \cap Held(z) = {}
    BY DEF Accounted
  <2>2. Taken' \cup Listed' \subseteq ((Taken \cup Listed) \ {x}) \cup N
    <3>1. x \notin Taken
      BY DEF Taken, Owned, Leaving
    <3> HIDE DEF x, o, halves
    <3> QED BY <1>16, <1>17, <3>1
  <2>3. \A y \in N : Held(y) \subseteq Held(x)
    BY <1>6, <1>8 DEF Held
  <2>4. ASSUME NEW y \in N, NEW z \in N, y # z PROVE Held(y) \cap Held(z) = {}
    <3>1. ASSUME NEW l \in k .. (j - 1), NEW u, u = <<"list", i, b + Pow2(l), l>>
          PROVE  /\ l \in 0 .. MaxBit /\ Held(u) = Span(b + Pow2(l), l)
                 /\ Held(u) \cap Held(o) = {}
                 /\ \A m \in k .. (j - 1) : m < l => Held(u) \cap Span(b + Pow2(m), m) = {}
      <4>1. l \in 0 .. MaxBit /\ (k < l \/ k = l) /\ \A m \in k .. (j - 1) : m \in 0 .. MaxBit
        <5>1. MaxBit \in Nat
          BY Powers
        <5>2. j \in Nat /\ k \in Nat /\ j <= MaxBit
          BY <1>7, <5>1
        <5> QED BY <5>1, <5>2
      <4>2. Held(u) = Span(b + Pow2(l), l)
        BY <3>1 DEF Held
      <4>3. Span(b + Pow2(l), l) \cap Span(b, k) = {}
        BY <1>7, <4>1, HalvesApart
      <4>4. \A m \in k .. (j - 1) : m < l => Span(b + Pow2(l), l) \cap Span(b + Pow2(m), m) = {}
        BY <1>7, <4>1, HalvesApart
      <4> HIDE DEF o
      <4> QED BY <1>8, <4>1, <4>2, <4>3, <4>4
    <3>2. CASE y \in halves /\ z \in halves
      <4>1. PICK l \in k .. (j - 1) : y = <<"list", i, b + Pow2(l), l>>
        BY <3>2
      <4>2. PICK m \in k .. (j - 1) : z = <<"list", i, b + Pow2(m), m>>
        BY <3>2
      <4>3. l # m /\ l \in Int /\ m \in Int
        BY <1>7, <2>4, <4>1, <4>2
      <4>4. l < m \/ m < l
        BY <4>3
      <4> HIDE DEF Held
      <4> QED BY <3>1, <4>1, <4>2, <4>4
    <3>3. CASE y \in halves /\ z = o
      BY <3>1, <3>3
    <3>4. CASE y = o /\ z \in halves
      BY <3>1, <3>4
    <3> QED BY <2>4, <3>2, <3>3, <3>4
  <2>5. x \in Taken \cup Listed
    BY <1>8
  <2> HIDE DEF N, x
  <2>6. \A y, z \in Taken' \cup Listed' : y # z => Held(y) \cap Held(z) = {}
    BY <2>1, <2>2, <2>3, <2>4, <2>5, Passed
  <2>7. owned' \subseteq Int \X Int
    BY <1>2, <1>7, <1>4 DEF Accounted
  <2>8. DOMAIN list' = Index /\ \A n \in Index : DOMAIN list'[n] = 0 .. buddies[n].k
    <3>1. DOMAIN list = Index /\ \A n \in Index : DOMAIN list[n] = 0 .. buddies[n].k
      BY DEF Accounted
    <3> QED BY <1>6, <3>1
  <2>9. \A y \in Listed' : InPlace(y[2], y[3], y[4])
    BY <1>17
  <2>10. \A y : Held(y)' = Held(y)
    BY DEF Held
  <2> QED BY <1>1, <1>18, <2>6, <2>7, <2>8, <2>9, <2>10 DEF Accounted
<1> QED BY <1>14, <1>19, <1>20

\* The lists after a block goes back.
LEMMA Relisted ==
  ASSUME Instances, Accounted, NEW i \in Index, NEW p, NEW k \in 0 .. buddies[i].k, buddies' = buddies,
         Index' = Index,
         \/ list' = [list EXCEPT ![i] = [l \in DOMAIN @ |-> IF l = k THEN p ELSE @[l]]]
         \/ list' = [list EXCEPT ![i][k] = p],
         InPlace(i, p, k)
  PROVE  /\ DOMAIN list' = Index /\ \A n \in Index : DOMAIN list'[n] = 0 .. buddies[n].k
         /\ \A y \in Listed' : /\ y \in Listed \/ y = <<"list", i, p, k>>
                               /\ InPlace(y[2], y[3], y[4])
<1>1. DOMAIN list = Index /\ \A n \in Index : DOMAIN list[n] = 0 .. buddies[n].k
  BY DEF Accounted
<1>2. /\ DOMAIN list' = Index
      /\ \A n \in Index : DOMAIN list'[n] = 0 .. buddies[n].k
      /\ \A n \in Index : n # i => list'[n] = list[n]
      /\ \A l \in 0 .. buddies[i].k : list'[i][l] = IF l = k THEN p ELSE list[i][l]
  <2>1. CASE list' = [list EXCEPT ![i] = [l \in DOMAIN @ |-> IF l = k THEN p ELSE @[l]]]
    <3>1. list'[i] = [l \in DOMAIN list[i] |-> IF l = k THEN p ELSE list[i][l]]
      BY <1>1, <2>1
    <3>2. DOMAIN list' = DOMAIN list /\ \A n \in Index : n # i => list'[n] = list[n]
      BY <1>1, <2>1
    <3> QED BY <1>1, <3>1, <3>2
  <2>2. CASE list' = [list EXCEPT ![i][k] = p]
    <3>1. list'[i] = [list[i] EXCEPT ![k] = p]
      BY <1>1, <2>2
    <3>2. DOMAIN list' = DOMAIN list /\ \A n \in Index : n # i => list'[n] = list[n]
      BY <1>1, <2>2
    <3>3. DOMAIN list'[i] = DOMAIN list[i]
      BY <3>1
    <3>4. \A l \in DOMAIN list[i] : list'[i][l] = IF l = k THEN p ELSE list[i][l]
      BY <3>1
    <3> QED BY <1>1, <3>2, <3>3, <3>4
  <2> QED BY <2>1, <2>2
<1>3. ASSUME NEW y \in Listed'
      PROVE  (y \in Listed \/ y = <<"list", i, p, k>>) /\ InPlace(y[2], y[3], y[4])
  <2>0. PICK n \in Index :
          \E l \in 0 .. buddies[n].k : list'[n][l] # Null /\ y = <<"list", n, list'[n][l], l>>
    BY DEF Listed
  <2>1. PICK l \in 0 .. buddies[n].k : list'[n][l] # Null /\ y = <<"list", n, list'[n][l], l>>
    BY <2>0
  <2>2. y[2] = n /\ y[3] = list'[n][l] /\ y[4] = l
    BY <2>1
  <2>3. CASE n = i /\ l = k
    <3>1. list'[n][l] = p
      BY <1>2, <2>1, <2>3
    <3> QED BY <2>1, <2>2, <2>3, <3>1
  <2>4. CASE ~(n = i /\ l = k)
    <3>1. list'[n][l] = list[n][l]
      BY <1>2, <2>1, <2>4
    <3>2. y \in Listed /\ InPlace(n, list[n][l], l)
      BY <2>1, <3>1, ListedFacts
    <3> QED BY <2>1, <2>2, <3>1, <3>2
  <2> QED BY <2>3, <2>4
<1> QED BY <1>2, <1>3

LEMMA FreeServed ==
  ASSUME Instances, Waiting, Marked, Accounted, [Next]_vars, NEW c \in CPU, Free(c), ~ merged'
  PROVE  Waiting' /\ Marked' /\ Accounted'
<1> DEFINE p == call[c][2]
           k == meta[p].order - MinOrder
           i == meta[p].index
           x == <<"call", c, p, k>>
           y == <<"list", i, p, k>>
<1>1. map' = map /\ buddies' = buddies /\ Page' = Page /\ Index' = Index
  BY SetupKept
<1>2. /\ call \in [CPU -> Calls] /\ call[c][1] = "free" /\ HasLock(c) /\ Return(c)
      /\ call' = [call EXCEPT ![c] = <<"none">>] /\ Head(queue) = c
      /\ IsBuddyPage(p) /\ Reset(p, k) /\ owned' = owned
  BY DEF Free, Return, Waiting, HasLock
<1>3. x \in Leaving /\ x \in Taken /\ x[3] = p /\ x[4] = k /\ Held(x) = Span(p, k) /\ Held(y) = Span(p, k)
  BY <1>2 DEF Leaving, Taken, Held
<1>4. i \in Index /\ InPlace(i, p, k) /\ p \in Span(p, k) /\ Span(p, k) \subseteq Page /\ p \in Nat
      /\ k \in 0 .. buddies[i].k
  <2>1. PICK n \in Index :
          /\ InPlace(n, p, k)
          /\ \A q \in Span(p, k) : Right(q, k, n)
    <3> HIDE DEF p, k, x
    <3> QED BY <1>3 DEF Marked
  <2>2. p \in Span(p, k) /\ Span(p, k) \subseteq Page /\ p \in Nat
    <3> HIDE DEF p, k
    <3> QED BY <2>1, PlaceFacts
  <2>3. i = n
    <3>1. meta[p].index = n
      BY <2>1, <2>2 DEF Right
    <3> HIDE DEF p, k
    <3> QED BY <3>1
  <2> QED BY <2>1, <2>2, <2>3 DEF InPlace
<1>5. \/ list' = [list EXCEPT ![i] = [l \in DOMAIN @ |-> IF l = k THEN p ELSE @[l]]]
      \/ list' = [list EXCEPT ![i][k] = p]
  <2>1. CASE k = buddies[i].k
    BY <2>1 DEF Free
  <2>2. CASE k # buddies[i].k
    <3>1. Give(i, k, p)
      BY <2>2 DEF Free
    <3>2. buddies[i].k \in Nat
      BY <1>4, InstanceTypes, Powers
    <3> HIDE DEF i, k, p
    <3>3. k \in 0 .. (buddies[i].k - 1) /\ p \in Int
      BY <1>4, <2>2, <3>2
    <3> QED BY <1>4, <3>1, <3>3, GivenAlone
  <2> QED BY <2>1, <2>2
<1> HIDE DEF p, k, i
<1>6. /\ \A q \in Span(p, k) : meta'[q].refcount = 0 /\ meta'[q].order = 0
      /\ \A q \in Page : q \notin Span(p, k) => meta'[q] = meta[q]
      /\ unset' = unset \ Span(p, k)
  <2>1. meta' = [q \in Page |-> IF q \in Span(p, k)
                                THEN [NoPage EXCEPT !.index = meta[q].index] ELSE meta[q]]
    BY <1>2 DEF Reset
  <2>2. unset' = unset \ Span(p, k)
    BY DEF Free, p, k
  <2> QED BY <1>4, <2>1, <2>2 DEF NoPage
<1>7. \A z \in Taken : z # x => Held(z) \cap Span(p, k) = {}
  BY <1>3 DEF Accounted
<1>8. ASSUME NEW d \in CPU, d # c, call[d][1] = "free"
      PROVE  call[d][2] \in Page /\ call[d][2] \notin Span(p, k)
  <2>1. IsBuddyPage(call[d][2])
    BY <1>2, <1>8 DEF Waiting
  <2> DEFINE z == <<"call", d, call[d][2], meta[call[d][2]].order - MinOrder>>
  <2>2. z \in Taken
    BY <1>8, <2>1 DEF Taken, Leaving
  <2>3. call[d][2] = z[3] /\ z # x
    BY <1>8
  <2> HIDE DEF z, x
  <2>4. z[3] \in Held(z) /\ z[3] \in Page
    BY <2>2, TakenFacts
  <2> QED BY <1>7, <2>2, <2>3, <2>4
<1>9. SameOrders(c)
  BY <1>6, <1>8 DEF SameOrders
<1>10. Waiting'
  BY <1>1, <1>2, <1>9, Returned
<1>11. Taken' = Taken \ {x}
  <2>1. <<"none">>[1] # "free"
    OBVIOUS
  <2>2. Leaving' = LeavingBut(c)
    BY <1>2, <1>9, <2>1, LeaversNext
  <2>3. Leaving = LeavingBut(c) \cup LeavingBy(c, p, meta[p].order)
    BY <1>2, Leavers DEF p
  <2>4. LeavingBy(c, p, meta[p].order) = {x}
    BY <1>2 DEF LeavingBy, IsBuddyPage, k
  <2>5. x \notin LeavingBut(c)
    BY DEF LeavingBut
  <2>6. x \notin Owned
    BY DEF Owned
  <2>7. Owned' = Owned
    BY <1>2 DEF Owned
  <2> HIDE DEF x
  <2> QED BY <2>2, <2>3, <2>4, <2>5, <2>6, <2>7 DEF Taken
<1>12. /\ DOMAIN list' = Index /\ \A n \in Index : DOMAIN list'[n] = 0 .. buddies[n].k
       /\ \A z \in Listed' : (z \in Listed \/ z = y) /\ InPlace(z[2], z[3], z[4])
  BY <1>1, <1>4, <1>5, Relisted
<1>13. \A n, m, l : InPlace(n, m, l)' <=> InPlace(n, m, l)
  BY <1>1 DEF InPlace
<1>14. Marked'
  <2>1. ASSUME NEW z \in Taken'
        PROVE  \E n \in Index : InPlace(n, z[3], z[4]) /\ \A q \in Held(z) : Right(q, z[4], n)'
    <3>1. z \in Taken /\ z # x
      BY <1>11
    <3>2. PICK n \in Index : InPlace(n, z[3], z[4]) /\ \A q \in Held(z) : Right(q, z[4], n)
      BY <3>1 DEF Marked
    <3>3. \A q \in Held(z) : q \in Page /\ q \notin Span(p, k)
      BY <1>7, <3>1, TakenFacts
    <3>4. \A q \in Held(z) : meta'[q] = meta[q] /\ (q \in unset' <=> q \in unset)
      BY <1>6, <3>3
    <3> QED BY <3>2, <3>4 DEF Right
  <2>2. ASSUME NEW q \in Page \ unset', \A z \in Taken' : q \notin Held(z)
        PROVE  meta'[q].refcount = 0 /\ meta'[q].order = 0
    <3>1. CASE q \in Span(p, k)
      BY <1>6, <3>1
    <3>2. CASE q \notin Span(p, k)
      <4>1. \A z \in Taken : q \notin Held(z)
        BY <1>3, <1>11, <2>2, <3>2
      <4>2. q \in Page \ unset
        BY <1>6, <2>2, <3>2
      <4> QED BY <1>6, <3>2, <4>1, <4>2 DEF Marked
    <3> QED BY <3>1, <3>2
  <2>3. \A z : Held(z)' = Held(z)
    BY DEF Held
  <2> QED BY <1>1, <1>13, <2>1, <2>2, <2>3 DEF Marked
<1>15. Accounted'
  <2>1. \A v, w \in Taken \cup Listed : v # w => Held(v) \cap Held(w) = {}
    BY DEF Accounted
  <2>2. x \in Taken \cup Listed /\ \A w \in {y} : Held(w) \subseteq Held(x)
    BY <1>3
  <2>3. Taken' \cup Listed' \subseteq ((Taken \cup Listed) \ {x}) \cup {y}
    <3>1. x \notin Listed
      BY DEF Listed
    <3> HIDE DEF x, y
    <3> QED BY <1>11, <1>12, <3>1
  <2> HIDE DEF x, y
  <2>4. \A v, w \in Taken' \cup Listed' : v # w => Held(v) \cap Held(w) = {}
    BY <2>1, <2>2, <2>3, Passed
  <2>5. \A w : Held(w)' = Held(w)
    BY DEF Held
  <2>6. owned' \subseteq Int \X Int
    BY <1>2 DEF Accounted
  <2> QED BY <1>1, <1>12, <1>13, <2>4, <2>5, <2>6 DEF Accounted
<1> QED BY <1>10, <1>14, <1>15

LEMMA Stuttered ==
  ASSUME Instances, Waiting, Marked, Accounted, [Next]_vars,
         UNCHANGED <<list, meta, unset, owned, queue, call>>
  PROVE  Waiting' /\ Marked' /\ Accounted'
<1>1. Page' = Page
  BY SetupKept
<1>2. Waiting'
  BY <1>1 DEF Waiting, IsBuddyPage, Calls
<1>3. Leaving' = Leaving
  BY DEF Leaving, IsBuddyPage
<1> QED BY <1>2, <1>3, Unmoved

LEMMA FreeCalls ==
  ASSUME Instances, Waiting, Marked, Accounted, [Next]_vars, NEW c \in CPU, CallFree(c)
  PROVE  Waiting' /\ Marked' /\ Accounted'
<1>1. UNCHANGED <<list, meta, unset>>
  BY DEF CallFree
<1>2. CASE \E x \in owned : Enter(c, <<"free", x[1]>>) /\ owned' = owned \ {x}
  BY <1>1, <1>2, FreeCalled
<1>3. CASE \E i \in Index : LET p == buddies[i].base
                            IN  /\ p \notin unset
                                /\ \A x \in owned : p \notin Span(x[1], x[2])
                                /\ queue = <<>>
                                /\ Enter(c, <<"free", p>>)
                                /\ UNCHANGED owned
  <2>1. PICK i \in Index : /\ buddies[i].base \notin unset
                           /\ \A x \in owned : buddies[i].base \notin Span(x[1], x[2])
                           /\ queue = <<>>
                           /\ Enter(c, <<"free", buddies[i].base>>)
                           /\ UNCHANGED owned
    BY <1>3
  <2>2. buddies[i].base \in Page
    <3>1. buddies[i].base \in Nat /\ Pow2(buddies[i].k) \in Nat \ {0}
      BY InstanceTypes
    <3>2. buddies[i].base \in PagesOf(i)
      BY <3>1 DEF PagesOf
    <3> QED BY <3>2 DEF Instances
  <2> QED BY <1>1, <2>1, <2>2, FreeCalledLate
<1> QED BY <1>2, <1>3 DEF CallFree

LEMMA UnmergedInductive ==
  ASSUME Instances, UnmergedInv, [Next]_vars
  PROVE  UnmergedInv'
<1> SUFFICES ASSUME ~ merged' PROVE Waiting' /\ Marked' /\ Accounted'
  BY DEF UnmergedInv
<1>1. ~ merged
  <2>1. ASSUME NEW c \in CPU, Free(c) PROVE ~ merged
    BY <2>1 DEF Free, Give
  <2>2. CASE UNCHANGED merged
    BY <2>2
  <2> QED BY <2>1, <2>2 DEF Next, CallAlloc, CallFree, Serve, Alloc, AllocFails, FreeIgnored,
                            FreeAsserts, vars
<1>2. Waiting /\ Marked /\ Accounted
  BY <1>1 DEF UnmergedInv
<1>3. ASSUME NEW c \in CPU, CallAlloc(c) PROVE Waiting' /\ Marked' /\ Accounted'
  BY <1>2, <1>3, AllocCalled
<1>4. ASSUME NEW c \in CPU, CallFree(c) PROVE Waiting' /\ Marked' /\ Accounted'
  BY <1>2, <1>4, FreeCalls
<1>5. ASSUME NEW c \in CPU, Alloc(c) PROVE Waiting' /\ Marked' /\ Accounted'
  BY <1>2, <1>5, AllocServed
<1>6. ASSUME NEW c \in CPU, AllocFails(c) PROVE Waiting' /\ Marked' /\ Accounted'
  <2>1. HasLock(c) /\ Return(c) /\ UNCHANGED <<list, meta, unset, owned>> /\ call[c][1] # "free"
    BY <1>6 DEF AllocFails
  <2> QED BY <1>2, <2>1, ReturnedUnserved
<1>7. ASSUME NEW c \in CPU, FreeIgnored(c) PROVE Waiting' /\ Marked' /\ Accounted'
  <2>1. HasLock(c) /\ Return(c) /\ UNCHANGED <<list, meta, unset, owned>> /\ ~ IsBuddyPage(call[c][2])
    BY <1>7 DEF FreeIgnored
  <2> QED BY <1>2, <2>1, ReturnedUnserved
<1>8. ASSUME NEW c \in CPU, FreeAsserts(c) PROVE Waiting' /\ Marked' /\ Accounted'
  <2>1. UNCHANGED <<list, meta, unset, owned, queue, call>>
    BY <1>8 DEF FreeAsserts, callVars
  <2> QED BY <1>2, <2>1, Stuttered
<1>9. ASSUME NEW c \in CPU, Free(c) PROVE Waiting' /\ Marked' /\ Accounted'
  BY <1>2, <1>9, FreeServed
<1>10. CASE UNCHANGED vars
  <2>1. UNCHANGED <<list, meta, unset, owned, queue, call>>
    BY <1>10 DEF vars, callVars
  <2> QED BY <1>2, <2>1, Stuttered
<1> QED BY <1>3, <1>4, <1>5, <1>6, <1>7, <1>8, <1>9, <1>10 DEF Next, Serve

LEMMA UnmergedInit ==
  ASSUME Init
  PROVE  UnmergedInv
<1>1. Instances
  BY InstancesInductive
<1>2. /\ owned = {} /\ call = [c \in CPU |-> <<"none">>] /\ queue = <<>>
      /\ \A p \in Page \ unset : meta[p] = NoPage
      /\ list = [i \in Index |-> [k \in 0 .. buddies[i].k |->
                                    IF k = buddies[i].k THEN buddies[i].base ELSE Null]]
  BY DEF Init
<1>3. Taken = {}
  BY <1>2 DEF Taken, Owned, Leaving
<1>4. Waiting
  <2>1. queue \in Seq(CPU)
    BY <1>2
  <2>2. call \in [CPU -> Calls]
    BY <1>2 DEF Calls
  <2> QED BY <1>2, <2>1, <2>2 DEF Waiting
<1>5. Marked
  BY <1>2, <1>3 DEF Marked, NoPage
<1>6. ASSUME NEW x \in Listed
      PROVE  \E i \in Index : /\ x = <<"list", i, buddies[i].base, buddies[i].k>>
                              /\ Held(x) = PagesOf(i) /\ InPlace(x[2], x[3], x[4])
  <2>1. PICK i \in Index :
          \E l \in 0 .. buddies[i].k : list[i][l] # Null /\ x = <<"list", i, list[i][l], l>>
    BY DEF Listed
  <2>2. PICK l \in 0 .. buddies[i].k : list[i][l] # Null /\ x = <<"list", i, list[i][l], l>>
    BY <2>1
  <2>3. list[i][l] = IF l = buddies[i].k THEN buddies[i].base ELSE Null
    BY <1>2
  <2>4. x = <<"list", i, buddies[i].base, buddies[i].k>>
    BY <2>2, <2>3
  <2>5. Held(x) = PagesOf(i)
    BY <2>4 DEF Held, Span, PagesOf
  <2>6. /\ buddies[i].base \in Nat /\ buddies[i].k \in 0 .. MaxBit
        /\ Pow2(buddies[i].k) \in Nat \ {0}
    BY <1>1, InstanceTypes
  <2>7. InPlace(i, buddies[i].base, buddies[i].k)
    <3>1. \A d \in Nat \ {0} : 0 % d = 0
      OBVIOUS
    <3>2. (buddies[i].base - buddies[i].base) % Pow2(buddies[i].k) = 0
      BY <2>6, <3>1
    <3>3. buddies[i].k \in 0 .. buddies[i].k
      BY <2>2, <2>6
    <3> QED BY <2>6, <3>2, <3>3 DEF InPlace
  <2> QED BY <2>4, <2>5, <2>7
<1>7. Accounted
  <2>1. ASSUME NEW x \in Listed, NEW y \in Listed, x # y PROVE Held(x) \cap Held(y) = {}
    <3>1. PICK i \in Index : x = <<"list", i, buddies[i].base, buddies[i].k>> /\ Held(x) = PagesOf(i)
      BY <1>6
    <3>2. PICK j \in Index : y = <<"list", j, buddies[j].base, buddies[j].k>> /\ Held(y) = PagesOf(j)
      BY <1>6
    <3>3. i # j
      BY <2>1, <3>1, <3>2
    <3> QED BY <1>1, <3>1, <3>2, <3>3, InstancesApart
  <2> QED BY <1>2, <1>3, <1>6, <2>1 DEF Accounted
<1> QED BY <1>4, <1>5, <1>7 DEF UnmergedInv

\* Until blocks are merged every block has one holder, and the page list knows
\* the blocks in the hands of callers.
THEOREM UnmergedInvariance == Spec => [](Instances /\ UnmergedInv)
<1>1. Init => Instances /\ UnmergedInv
  BY InstancesInductive, UnmergedInit
<1>2. Instances /\ UnmergedInv /\ [Next]_vars => (Instances /\ UnmergedInv)'
  BY InstancesInductive, UnmergedInductive
<1> QED BY <1>1, <1>2, PTL DEF Spec

\* Until blocks are merged the page list says of each block what free() relies
\* on, whatever it held at first, and of no other page that was ever set up.
THEOREM PageListStaysRight == Spec => []PageListAgrees
<1>1. ASSUME Instances, UnmergedInv PROVE PageListAgrees
  <2> SUFFICES ASSUME ~ merged
               PROVE  /\ \A x, y \in owned : x # y => Span(x[1], x[2]) \cap Span(y[1], y[2]) = {}
                      /\ \A x \in owned : \A p \in Span(x[1], x[2]) :
                           Right(p, x[2], meta[p].index) /\ p \in PagesOf(meta[p].index)
                      /\ \A p \in Page \ unset : IsBuddyPage(p) => \E x \in Taken : p \in Held(x)
    BY DEF PageListAgrees
  <2>1. Marked /\ Accounted
    BY <1>1 DEF UnmergedInv
  <2> DEFINE O(x) == <<"owned", Null, x[1], x[2]>>
  <2>2. \A x \in owned : O(x) \in Taken /\ Held(O(x)) = Span(x[1], x[2])
    BY DEF Taken, Owned, Held
  <2>3. ASSUME NEW x \in owned, NEW y \in owned, x # y
        PROVE  Span(x[1], x[2]) \cap Span(y[1], y[2]) = {}
    <3>1. x = <<x[1], x[2]>> /\ y = <<y[1], y[2]>>
      BY <2>1 DEF Accounted
    <3>2. O(x) # O(y)
      BY <2>3, <3>1
    <3> HIDE DEF O
    <3> QED BY <2>1, <2>2, <3>2 DEF Accounted
  <2>4. ASSUME NEW x \in owned, NEW p \in Span(x[1], x[2])
        PROVE  Right(p, x[2], meta[p].index) /\ p \in PagesOf(meta[p].index)
    <3>1. PICK i \in Index :
            InPlace(i, O(x)[3], O(x)[4]) /\ \A q \in Held(O(x)) : Right(q, O(x)[4], i)
      <4> HIDE DEF O
      <4> QED BY <2>1, <2>2 DEF Marked
    <3>2. O(x)[3] = x[1] /\ O(x)[4] = x[2]
      OBVIOUS
    <3> HIDE DEF O
    <3>3. Right(p, x[2], i)
      BY <2>2, <3>1, <3>2
    <3>4. p \in PagesOf(i)
      BY <1>1, <3>1, <3>2, PlaceFacts
    <3> QED BY <3>3, <3>4 DEF Right
  <2>5. ASSUME NEW p \in Page \ unset, IsBuddyPage(p) PROVE \E x \in Taken : p \in Held(x)
    <3>1. meta[p].order # 0
      BY <2>5 DEF IsBuddyPage, MinOrder
    <3> QED BY <2>1, <3>1 DEF Marked
  <2> QED BY <2>3, <2>4, <2>5
<1> QED BY <1>1, UnmergedInvariance, PTL

\* No free() fails its assertion before blocks are merged, unless nobody ever set
\* up the page list for one of the pages.
THEOREM AssertionStaysTrue == Spec => AssertionHolds
<1> DEFINE Block(c) == Span(call[c][2], meta[call[c][2]].order - MinOrder)
<1>1. ASSUME Instances, UnmergedInv, NEW c \in CPU, FreeAsserts(c)
      PROVE  merged \/ unset \cap Block(c) # {}
  <2> SUFFICES ASSUME ~ merged, unset \cap Block(c) = {} PROVE FALSE
    OBVIOUS
  <2> DEFINE p == call[c][2]
             k == meta[p].order - MinOrder
             x == <<"call", c, p, k>>
  <2>1. call[c][1] = "free" /\ IsBuddyPage(p) /\ ~ Referenced(p, k)
    BY <1>1 DEF FreeAsserts
  <2>2. x \in Taken /\ Held(x) = Span(p, k) /\ unset \cap Span(p, k) = {}
    BY <2>1 DEF Taken, Leaving, Held
  <2>3. Marked
    BY <1>1 DEF UnmergedInv
  <2> HIDE DEF p, k, x
  <2>4. Held(x) \subseteq Page /\ \A q \in Held(x) : q \in unset \/ meta[q].refcount = 1
    BY <1>1, <2>2, <2>3, TakenFacts
  <2> QED BY <2>1, <2>2, <2>4 DEF Referenced
<1>2. Instances /\ UnmergedInv =>
        (\A c \in CPU : FreeAsserts(c) =>
           \/ merged
           \/ LET p == call[c][2]
              IN  unset \cap Span(p, meta[p].order - MinOrder) # {})
  BY <1>1
<1> QED BY <1>2, UnmergedInvariance, PTL DEF AssertionHolds
===============================================================================
