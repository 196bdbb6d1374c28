-------------------------------- MODULE Facts --------------------------------
(***************************************************************************)
(* Facts that several proofs need.                                         *)
(*                                                                         *)
(* Integer division by a variable divisor: the provers do not reason about *)
(* % with a divisor that is not a number, so the proofs about ring indices *)
(* go through these lemmas.  And what is in a sequence: a queue or a ring, *)
(* seen as a set, when an element is appended or taken.                    *)
(***************************************************************************)
EXTENDS Integers, SequencesExt, TLAPS, FiniteSetTheorems, SequenceTheorems

\* Division leaves a remainder below the divisor.
LEMMA DivMod ==
  ASSUME NEW n \in Int, NEW N \in Nat \ {0}
  PROVE  /\ n = N * (n \div N) + (n % N)
         /\ n % N \in 0 .. N - 1
         /\ n \div N \in Int
  BY SMT

\* Products with a positive and with a negative factor, and distributivity: the
\* only nonlinear facts needed.
LEMMA MulGe ==
  ASSUME NEW q \in Int, NEW N \in Nat \ {0}, q >= 1
  PROVE  N * q >= N
  BY SMT

LEMMA MulLe ==
  ASSUME NEW q \in Int, NEW N \in Nat \ {0}, q <= -1
  PROVE  N * q <= -N
  BY SMT

LEMMA MulSub ==
  ASSUME NEW q \in Int, NEW p \in Int, NEW N \in Nat \ {0}
  PROVE  N * (q - p) = N * q - N * p
  BY SMT

\* Quotient and remainder are unique.
LEMMA ModUnique ==
  ASSUME NEW n \in Int, NEW N \in Nat \ {0}, NEW q \in Int, NEW r \in 0 .. N - 1,
         n = N * q + r
  PROVE  n % N = r
<1> DEFINE p == n \div N
           s == n % N
<1>1. n = N * p + s /\ s \in 0 .. N - 1 /\ p \in Int
  BY DivMod
<1> HIDE DEF p, s
<1>2. N * (q - p) = s - r
  BY <1>1, MulSub
<1>3. q - p < 1
  BY <1>1, <1>2, MulGe
<1>4. q - p > -1
  BY <1>1, <1>2, MulLe
<1>5. q = p
  BY <1>1, <1>3, <1>4
<1>6. s = r
  BY <1>1, <1>5
<1> QED
  BY <1>6 DEF s

LEMMA ModSmall ==
  ASSUME NEW N \in Nat \ {0}, NEW r \in 0 .. N - 1
  PROVE  r % N = r
<1>1. r = N * 0 + r
  OBVIOUS
<1> QED
  BY <1>1, ModUnique

\* Adding the divisor changes nothing.
LEMMA ModAdd ==
  ASSUME NEW n \in Int, NEW N \in Nat \ {0}
  PROVE  (n + N) % N = n % N
<1> DEFINE p == n \div N
           s == n % N
<1>1. n = N * p + s /\ s \in 0 .. N - 1 /\ p \in Int
  BY DivMod
<1> HIDE DEF p, s
<1>2. N * (p + 1) = N * p + N
  BY <1>1
<1>3. n + N = N * (p + 1) + s /\ p + 1 \in Int /\ n + N \in Int
  BY <1>1, <1>2
<1>4. (n + N) % N = s
  BY <1>1, <1>3, ModUnique
<1> QED
  BY <1>4 DEF s

\* An increment may be reduced before or after.
LEMMA ModInc ==
  ASSUME NEW n \in Int, NEW N \in Nat \ {0}
  PROVE  ((n % N) + 1) % N = (n + 1) % N
<1> DEFINE p == n \div N
           s == n % N
<1>1. n = N * p + s /\ s \in 0 .. N - 1 /\ p \in Int
  BY DivMod
<1> HIDE DEF p, s
<1>2. CASE s + 1 < N
  <2>1. n + 1 = N * p + (s + 1) /\ s + 1 \in 0 .. N - 1
    BY <1>1, <1>2
  <2>2. (n + 1) % N = s + 1
    BY <2>1, <1>1, ModUnique
  <2>3. (s + 1) % N = s + 1
    BY <2>1, ModSmall
  <2> QED
    BY <2>2, <2>3 DEF s
<1>3. CASE s + 1 = N
  <2>1. N * (p + 1) = N * p + N
    BY <1>1
  <2>2. n + 1 = N * (p + 1) + 0 /\ p + 1 \in Int /\ n + 1 \in Int /\ 0 \in 0 .. N - 1
    BY <1>1, <1>3, <2>1
  <2>3. (n + 1) % N = 0
    BY <2>2, ModUnique
  <2>4. s + 1 = N * 1 + 0 /\ s + 1 \in Int /\ 0 \in 0 .. N - 1
    BY <1>1, <1>3
  <2>5. (s + 1) % N = 0
    BY <2>4, ModUnique
  <2> QED
    BY <2>3, <2>5 DEF s
<1> QED
  BY <1>1, <1>2, <1>3

\* Two numbers closer than the divisor have different remainders.
LEMMA ModApart ==
  ASSUME NEW a \in Int, NEW b \in Int, NEW N \in Nat \ {0}, a < b, b - a < N
  PROVE  a % N # b % N
<1> SUFFICES ASSUME a % N = b % N PROVE FALSE
  OBVIOUS
<1> DEFINE p == a \div N
           q == b \div N
           s == a % N
<1>1. a = N * p + s /\ b = N * q + s /\ p \in Int /\ q \in Int /\ s \in 0 .. N - 1
  BY DivMod
<1> HIDE DEF p, q, s
<1>2. N * (q - p) = b - a
  BY <1>1, MulSub
<1> QED
  BY <1>1, <1>2, MulGe, MulLe

\* The difference of two remainders, reduced, is the true difference if that is small.
LEMMA ModDiff ==
  ASSUME NEW a \in Int, NEW b \in Int, NEW N \in Nat \ {0}, a <= b, b - a < N
  PROVE  ((b % N) - (a % N)) % N = b - a
<1> DEFINE p == a \div N
           q == b \div N
           r == a % N
           s == b % N
<1>1. /\ a = N * p + r /\ b = N * q + s /\ p \in Int /\ q \in Int
      /\ r \in 0 .. N - 1 /\ s \in 0 .. N - 1
  BY DivMod
<1> HIDE DEF p, q, r, s
<1>2. N * (p - q) = N * p - N * q
  BY <1>1, MulSub
<1>3. s - r = N * (p - q) + (b - a) /\ s - r \in Int /\ p - q \in Int /\ b - a \in 0 .. N - 1
  BY <1>1, <1>2
<1>4. (s - r) % N = b - a
  BY <1>3, ModUnique
<1> QED
  BY <1>4 DEF r, s

-----------------------------------------------------------------------------
(* Sequences and what is in them. *)

LEMMA SetOfSeq ==
  ASSUME NEW S, NEW s \in Seq(S)
  PROVE  /\ ToSet(s) \subseteq S /\ IsFiniteSet(ToSet(s)) /\ Len(s) \in Nat
         /\ IsInjective(s) => Cardinality(ToSet(s)) = Len(s)
<1>1. Len(s) \in Nat /\ DOMAIN s = 1 .. Len(s) /\ s \in [1 .. Len(s) -> S]
  BY LenProperties
<1>2. ToSet(s) \subseteq S
  BY <1>1 DEF ToSet
<1>3. s \in Surjection(1 .. Len(s), ToSet(s))
  BY <1>1 DEF ToSet, Surjection
<1>4. IsFiniteSet(1 .. Len(s)) /\ Cardinality(1 .. Len(s)) = Len(s)
  BY <1>1, FS_Interval
<1>5. IsFiniteSet(ToSet(s))
  BY <1>3, <1>4, FS_Surjection
<1>6. ASSUME IsInjective(s) PROVE Cardinality(ToSet(s)) = Len(s)
  <2>1. s \in Injection(1 .. Len(s), ToSet(s))
    BY <1>3, <1>6 DEF Injection, Surjection
  <2> QED  BY <1>3, <1>4, <2>1, FS_Surjection
<1> QED  BY <1>1, <1>2, <1>5, <1>6

LEMMA SetOfAppend ==
  ASSUME NEW S, NEW s \in Seq(S), NEW x \in S
  PROVE  /\ Append(s, x) \in Seq(S) /\ Len(s) \in Nat /\ Len(Append(s, x)) = Len(s) + 1
         /\ ToSet(Append(s, x)) = ToSet(s) \cup {x}
         /\ IsInjective(s) /\ x \notin ToSet(s) => IsInjective(Append(s, x))
<1> DEFINE r == Append(s, x)
           n == Len(s)
<1>1. /\ r \in Seq(S) /\ n \in Nat /\ Len(r) = n + 1
      /\ \A i \in 1 .. n : r[i] = s[i]
      /\ r[n + 1] = x /\ DOMAIN s = 1 .. n /\ DOMAIN r = 1 .. n + 1
  BY AppendProperties, LenProperties
<1> HIDE DEF r
<1>2. ToSet(r) = ToSet(s) \cup {x}
  <2>1. \A i \in 1 .. n + 1 : i \in 1 .. n \/ i = n + 1
    BY <1>1
  <2>2. \A i \in 1 .. n : i \in 1 .. n + 1
    BY <1>1
  <2>3. n + 1 \in 1 .. n + 1
    BY <1>1
  <2> QED  BY <1>1, <2>1, <2>2, <2>3, Zenon DEF ToSet
<1>3. ASSUME IsInjective(s), x \notin ToSet(s) PROVE IsInjective(r)
  <2> SUFFICES ASSUME NEW i \in 1 .. n + 1, NEW j \in 1 .. n + 1, r[i] = r[j] PROVE i = j
    BY <1>1 DEF IsInjective
  <2>1. CASE i \in 1 .. n /\ j \in 1 .. n
    BY <1>1, <1>3, <2>1 DEF IsInjective
  <2>2. \A k \in 1 .. n : r[k] # x
    BY <1>1, <1>3 DEF ToSet
  <2>3. (i \in 1 .. n \/ i = n + 1) /\ (j \in 1 .. n \/ j = n + 1)
    BY <1>1
  <2> QED  BY <1>1, <2>1, <2>2, <2>3
<1> QED  BY <1>1, <1>2, <1>3 DEF r

LEMMA SetOfTail ==
  ASSUME NEW S, NEW s \in Seq(S), s # <<>>
  PROVE  /\ Head(s) \in S /\ Tail(s) \in Seq(S)
         /\ Len(s) \in Nat /\ Len(s) > 0 /\ Len(Tail(s)) = Len(s) - 1
         /\ ToSet(s) = ToSet(Tail(s)) \cup {Head(s)}
         /\ IsInjective(s) => IsInjective(Tail(s)) /\ Head(s) \notin ToSet(Tail(s))
<1> DEFINE r == Tail(s)
           n == Len(s)
<1>1. n \in Nat /\ n > 0 /\ DOMAIN s = 1 .. n
  BY EmptySeq, LenProperties
<1>2. /\ Head(s) \in S /\ r \in Seq(S) /\ Len(r) = n - 1
      /\ \A i \in 1 .. n - 1 : r[i] = s[i + 1]
  BY HeadTailProperties
<1>3. Head(s) = s[1] /\ DOMAIN r = 1 .. n - 1
  BY <1>1, <1>2, LenProperties
<1> HIDE DEF r
<1>4. \A i \in 1 .. n - 1 : i + 1 \in 1 .. n /\ i + 1 # 1
  BY <1>1
<1>5. ToSet(s) = ToSet(r) \cup {Head(s)}
  <2>1. ToSet(r) \subseteq ToSet(s) /\ Head(s) \in ToSet(s)
    <3>1. 1 \in 1 .. n
      BY <1>1
    <3>2. Head(s) \in ToSet(s)
      BY <1>1, <1>3, <3>1 DEF ToSet
    <3>3. ASSUME NEW i \in 1 .. n - 1 PROVE r[i] \in ToSet(s)
      <4>1. r[i] = s[i + 1] /\ i + 1 \in DOMAIN s
        BY <1>1, <1>2, <1>4
      <4> QED  BY <4>1 DEF ToSet
    <3> QED  BY <1>3, <3>2, <3>3 DEF ToSet
  <2>2. ASSUME NEW i \in 1 .. n PROVE s[i] \in ToSet(r) \cup {Head(s)}
    <3>1. CASE i = 1
      BY <1>3, <3>1
    <3>2. CASE i # 1
      <4>1. i - 1 \in 1 .. n - 1 /\ (i - 1) + 1 = i
        BY <1>1, <3>2
      <4>2. r[i - 1] = s[i]
        BY <1>2, <4>1
      <4> QED  BY <1>3, <4>1, <4>2 DEF ToSet
    <3> QED  BY <3>1, <3>2
  <2> QED  BY <1>1, <2>1, <2>2 DEF ToSet
<1>6. ASSUME IsInjective(s) PROVE IsInjective(r) /\ Head(s) \notin ToSet(r)
  <2>1. IsInjective(r)
    <3> SUFFICES ASSUME NEW i \in 1 .. n - 1, NEW j \in 1 .. n - 1, r[i] = r[j] PROVE i = j
      BY <1>3 DEF IsInjective
    <3>1. i + 1 = j + 1
      BY <1>1, <1>2, <1>4, <1>6 DEF IsInjective
    <3> QED  BY <3>1
  <2>2. \A i \in 1 .. n - 1 : r[i] # s[1]
    BY <1>1, <1>2, <1>4, <1>6 DEF IsInjective
  <2> QED  BY <1>3, <2>1, <2>2 DEF ToSet
<1> QED  BY <1>1, <1>2, <1>5, <1>6 DEF r
=============================================================================
