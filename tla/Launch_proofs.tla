--------------------------- MODULE Launch_proofs ---------------------------
(***************************************************************************)
(* Theorems about Launch, for secrets over any characters and of any       *)
(* length, and for output of any length that is read in any chunks.        *)
(*                                                                         *)
(* What the redacting writer does is a recursion over positions.  It is    *)
(* reasoned about from the end of a sequence to its beginning (Downward):  *)
(* the set of positions where a claim fails would have an element that is  *)
(* nearest to the end.  The lemma the rest needs is Chunk: a chunk taken   *)
(* by Drained, and then whatever comes, is redacted as the whole is.       *)
(***************************************************************************)
EXTENDS Launch, TLAPS, SequenceTheorems, WellFoundedInduction

-----------------------------------------------------------------------------
(* Numbers *)

LEMMA LeastNumber ==
    ASSUME NEW S, S \subseteq Nat, S # {}
    PROVE  \E m \in S : \A n \in S : m <= n
<1>1. IsWellFoundedOn(OpToRel(<, Nat), Nat)
  BY NatLessThanWellFounded
<1>2. PICK m \in S : \A n \in S : <<n, m>> \notin OpToRel(<, Nat)
  BY <1>1, WFMin
<1>3. \A n \in S : ~(n < m)
  BY <1>2 DEF OpToRel
<1>4. QED
  BY <1>3

LEMMA MinOf ==
    ASSUME NEW S, S \subseteq Nat, S # {}
    PROVE  Min(S) \in S /\ \A n \in S : Min(S) <= n
BY LeastNumber DEF Min

LEMMA MaxOf ==
    ASSUME NEW b \in Nat, NEW S, S \subseteq 0..b, S # {}
    PROVE  Max(S) \in S /\ \A n \in S : n <= Max(S)
<1> DEFINE T == {b - n : n \in S}
<1>0. \A n \in S : n \in 0..b
  OBVIOUS
<1>1. T \subseteq Nat /\ T # {}
  <2>1. \A n \in S : b - n \in Nat
    BY <1>0
  <2>2. QED
    BY <2>1
<1>2. PICK t \in T : \A n \in T : t <= n
  BY <1>1, LeastNumber
<1>3. \A n \in S : n <= b - t
  BY <1>0, <1>2
<1>4. b - t \in S
  <2>1. PICK n \in S : t = b - n
    OBVIOUS
  <2>2. QED
    BY <1>0, <2>1
<1>5. \E m \in S : \A n \in S : m >= n
  BY <1>3, <1>4
<1>6. QED
  BY <1>5 DEF Max

\* Induction from the end of a sequence to its beginning.
LEMMA Downward ==
    ASSUME NEW n \in Nat, NEW S,
           \A i \in 1..n : (\A j \in (i + 1)..n : j \in S) => i \in S
    PROVE  \A i \in 1..n : i \in S
<1> DEFINE T == {d \in 0..(n - 1) : n - d \notin S}
<1>1. SUFFICES ASSUME T # {} PROVE FALSE
  <2>1. \A i \in 1..n : n - (n - i) = i /\ n - i \in 0..(n - 1)
    OBVIOUS
  <2>2. QED
    BY <1>1, <2>1
<1>2. PICK d \in T : \A e \in T : d <= e
  <2>1. T \subseteq Nat
    OBVIOUS
  <2>2. QED
    BY <1>1, <2>1, LeastNumber
<1>3. n - d \in 1..n /\ n - d \notin S
  OBVIOUS
<1>4. ASSUME NEW j \in (n - d + 1)..n PROVE j \in S
  <2>1. n - j \in 0..(n - 1) /\ n - j < d /\ n - (n - j) = j
    BY <1>4
  <2>2. n - j \notin T
    BY <1>2, <2>1
  <2>3. QED
    BY <2>1, <2>2
<1>5. QED
  BY <1>3, <1>4

-----------------------------------------------------------------------------
(* Where a secret is, or may begin *)

Associates(a, b, c) == (a \o b) \o c = a \o (b \o c)

LEMMA Association ==
    ASSUME NEW S, NEW a \in Seq(S), NEW b \in Seq(S), NEW c \in Seq(S)
    PROVE  Associates(a, b, c)
BY ConcatAssociative DEF Associates

LEMMA Occurs ==
    ASSUME NEW C, NEW secret \in Seq(C), NEW s \in Seq(C), NEW i \in Nat \ {0}
    PROVE  OccursAt(secret, s, i) <=>
               /\ i + Len(secret) <= Len(s) + 1
               /\ \A q \in 1..Len(secret) : s[i + q - 1] = secret[q]
<1>1. CASE i + Len(secret) <= Len(s) + 1
  <2> DEFINE t == SubSeq(s, i, i + Len(secret) - 1)
  <2>1. \A j \in i..(i + Len(secret) - 1) : s[j] \in C
    BY <1>1, ElementOfSeq
  <2>2. /\ t \in Seq(C)
        /\ Len(t) = Len(secret)
        /\ \A q \in 1..Len(secret) : t[q] = s[i + q - 1]
    BY <2>1, SubSeqProperties
  <2>3. t = secret <=> \A q \in 1..Len(secret) : t[q] = secret[q]
    BY <2>2, SeqEqual
  <2>4. QED
    BY <1>1, <2>2, <2>3 DEF OccursAt
<1>2. QED
  BY <1>1 DEF OccursAt

LEMMA Suffix ==
    ASSUME NEW C, NEW s \in Seq(C), NEW i \in Nat \ {0}, i <= Len(s) + 1
    PROVE  /\ SubSeq(s, i, Len(s)) \in Seq(C)
           /\ Len(SubSeq(s, i, Len(s))) = Len(s) - i + 1
           /\ \A q \in 1..(Len(s) - i + 1) : SubSeq(s, i, Len(s))[q] = s[i + q - 1]
<1>1. \A j \in i..Len(s) : s[j] \in C
  BY ElementOfSeq
<1>2. Len(s) \in Nat
  BY LenProperties
<1>3. QED
  BY <1>1, <1>2, SubSeqProperties

LEMMA PrefixOf ==
    ASSUME NEW C, NEW s \in Seq(C), NEW t \in Seq(C)
    PROVE  IsPrefix(s, t) <=>
               Len(s) <= Len(t) /\ \A q \in 1..Len(s) : s[q] = t[q]
<1>1. CASE Len(s) <= Len(t)
  <2>1. SubSeq(s, 1, Len(s)) = s
    BY SubSeqFull
  <2>2. \A j \in 1..Len(s) : t[j] \in C
    BY <1>1, ElementOfSeq
  <2>3. /\ SubSeq(t, 1, Len(s)) \in Seq(C)
        /\ Len(SubSeq(t, 1, Len(s))) = Len(s)
        /\ \A q \in 1..Len(s) : SubSeq(t, 1, Len(s))[q] = t[q]
    BY <2>2, SubSeqProperties, LenProperties
  <2>4. s = SubSeq(t, 1, Len(s)) <=> \A q \in 1..Len(s) : s[q] = SubSeq(t, 1, Len(s))[q]
    BY <2>3, SeqEqual
  <2>5. QED
    BY <1>1, <2>1, <2>3, <2>4 DEF IsPrefix
<1>2. QED
  BY <1>1 DEF IsPrefix

\* What is at i cannot be told from a secret.
Begins(secret, s, i) ==
    \A q \in 1..Len(secret) : i + q - 1 <= Len(s) => s[i + q - 1] = secret[q]

LEMMA BeginsOrNot ==
    ASSUME NEW C, NEW secret \in Seq(C), NEW s \in Seq(C), NEW i \in 1..Len(s)
    PROVE  /\ Begins(secret, s, i) <=>
                 \/ OccursAt(secret, s, i)
                 \/ IsPrefix(SubSeq(s, i, Len(s)), secret)
           /\ IsPrefix(SubSeq(s, i, Len(s)), secret) <=>
                 Begins(secret, s, i) /\ Len(s) - i + 1 <= Len(secret)
<1> DEFINE t == SubSeq(s, i, Len(s))
<1>1. Len(s) \in Nat /\ Len(secret) \in Nat
  BY LenProperties
<1>2. /\ t \in Seq(C)
      /\ Len(t) = Len(s) - i + 1
      /\ \A q \in 1..(Len(s) - i + 1) : t[q] = s[i + q - 1]
  BY Suffix
<1>3. IsPrefix(t, secret) <=>
        /\ Len(s) - i + 1 <= Len(secret)
        /\ \A q \in 1..(Len(s) - i + 1) : s[i + q - 1] = secret[q]
  <2>0. t \in Seq(C)
    BY <1>2
  <2> HIDE DEF t
  <2>1. IsPrefix(t, secret) <=>
          Len(t) <= Len(secret) /\ \A q \in 1..Len(t) : t[q] = secret[q]
    BY <2>0, PrefixOf
  <2>2. QED
    BY <1>2, <2>1
<1>4. OccursAt(secret, s, i) <=>
        /\ i + Len(secret) <= Len(s) + 1
        /\ \A q \in 1..Len(secret) : s[i + q - 1] = secret[q]
  BY Occurs
<1>5. CASE i + Len(secret) <= Len(s) + 1
  <2>1. OccursAt(secret, s, i) <=> Begins(secret, s, i)
    BY <1>1, <1>4, <1>5 DEF Begins
  <2>2. IsPrefix(t, secret) <=> Begins(secret, s, i) /\ Len(s) - i + 1 <= Len(secret)
    BY <1>1, <1>3, <1>5 DEF Begins
  <2>3. QED
    BY <2>1, <2>2
<1>6. CASE ~(i + Len(secret) <= Len(s) + 1)
  <2>1. Len(s) - i + 1 <= Len(secret)
    BY <1>1, <1>6
  <2>2. IsPrefix(t, secret) <=> Begins(secret, s, i)
    BY <1>1, <1>3, <1>6 DEF Begins
  <2>3. QED
    BY <1>4, <1>6, <2>1, <2>2
<1>7. QED
  BY <1>5, <1>6
-----------------------------------------------------------------------------
(* The reference *)

\* What Scan makes of a position if it makes sequences of the later ones.
LEMMA ScanType ==
    ASSUME NEW C, NEW secret \in Seq(C) \ {<<>>}, NEW s \in Seq(C), NEW f,
           NEW i \in 1..(Len(s) + 1),
           \A j \in (i + 1)..(Len(s) + 1) : f[j] \in Seq(C \cup {Mark})
    PROVE  Scan(secret, s, f, i) \in Seq(C \cup {Mark})
<1> DEFINE T == C \cup {Mark}
<1>1. Len(s) \in Nat /\ Len(secret) \in Nat \ {0}
  BY EmptySeq, LenProperties
<1>2. <<Mark>> \in Seq(T) /\ <<>> \in Seq(T)
  OBVIOUS
<1>3. CASE i > Len(s)
  BY <1>2, <1>3 DEF Scan
<1>4. CASE i <= Len(s) /\ OccursAt(secret, s, i)
  <2>1. i + Len(secret) \in (i + 1)..(Len(s) + 1)
    BY <1>1, <1>4, Occurs
  <2>2. f[i + Len(secret)] \in Seq(T)
    BY <2>1
  <2>3. <<Mark>> \o f[i + Len(secret)] \in Seq(T)
    BY <1>2, <2>2, ConcatProperties
  <2>4. ~(i > Len(s))
    BY <1>1, <1>4
  <2>5. QED
    BY <1>4, <2>2, <2>3, <2>4 DEF Scan
<1>5. CASE i <= Len(s) /\ ~OccursAt(secret, s, i)
  <2>1. f[i + 1] \in Seq(T)
    BY <1>1, <1>5
  <2>2. <<s[i]>> \in Seq(T)
    <3>1. s[i] \in T
      BY <1>5, ElementOfSeq
    <3>2. QED
      BY <3>1
  <2>3. <<s[i]>> \o f[i + 1] \in Seq(T)
    BY <2>1, <2>2, ConcatProperties
  <2>4. ~(i > Len(s))
    BY <1>1, <1>5
  <2>5. QED
    BY <1>2, <1>5, <2>1, <2>3, <2>4 DEF Scan
<1>6. QED
  BY <1>1, <1>3, <1>4, <1>5

\* The recursion of Redaction defines a function.
LEMMA RedactionIsScan ==
    ASSUME NEW C, NEW secret \in Seq(C) \ {<<>>}, NEW s \in Seq(C)
    PROVE  \A i \in 1..(Len(s) + 1) :
               /\ Redaction(secret, s)[i] = Scan(secret, s, Redaction(secret, s), i)
               /\ Redaction(secret, s)[i] \in Seq(C \cup {Mark})
<1> DEFINE T == C \cup {Mark}
           n == Len(s) + 1
           D == 1..n
           From(k) == \E f \in [D -> Seq(T)] :
                          \A i \in k..n : f[i] = Scan(secret, s, f, i)
           S == {k \in D : From(k)}
           R == Redaction(secret, s)
<1>0. Len(secret) \in Nat \ {0}
  BY EmptySeq
<1>1. Len(s) \in Nat /\ n \in Nat
  BY LenProperties
<1>2. ASSUME NEW i \in 1..n, \A j \in (i + 1)..n : j \in S
      PROVE  i \in S
  <2>1. PICK f \in [D -> Seq(T)] : \A j \in (i + 1)..n : f[j] = Scan(secret, s, f, j)
    <3>1. CASE i < n
      <4>1. i + 1 \in S
        <5>1. i + 1 \in (i + 1)..n
          BY <1>1, <3>1
        <5> HIDE DEF S
        <5>2. QED
          BY <1>2, <5>1
      <4>2. QED
        BY <4>1
    <3>2. CASE i = n
      <4>1. [j \in D |-> <<>>] \in [D -> Seq(T)]
        OBVIOUS
      <4>2. \A j \in (i + 1)..n : FALSE
        BY <1>1, <3>2
      <4>3. QED
        BY <4>1, <4>2
    <3>3. QED
      BY <1>1, <3>1, <3>2
  <2> DEFINE v == Scan(secret, s, f, i)
  <2>2. v \in Seq(T)
    <3>1. \A j \in (i + 1)..n : f[j] \in Seq(T)
      BY <1>1
    <3>2. QED
      BY <3>1, ScanType
  <2>3. PICK g \in [D -> Seq(T)] : g[i] = v /\ \A j \in D : j # i => g[j] = f[j]
    <3>1. [f EXCEPT ![i] = v] \in [D -> Seq(T)]
      BY <2>2
    <3>2. QED
      BY <3>1
  <2>4. ASSUME NEW j \in i..n PROVE g[j] = Scan(secret, s, g, j)
    <3>1. \A m \in (j + 1)..(Len(s) + 1) : f[m] = g[m] /\ f[m] \in Seq(C \cup {Mark})
      <4>1. \A m \in (j + 1)..(Len(s) + 1) : m \in D /\ m # i
        BY <1>1
      <4> HIDE DEF D, v
      <4>2. QED
        BY <2>3, <4>1
    <3>2. Scan(secret, s, f, j) = Scan(secret, s, g, j)
      <4>1. j \in 1..(Len(s) + 1)
        BY <1>1
      <4>2. j <= Len(s) /\ OccursAt(secret, s, j) => f[j + Len(secret)] = g[j + Len(secret)]
        <5>1. j <= Len(s) /\ OccursAt(secret, s, j) =>
                j + Len(secret) \in (j + 1)..(Len(s) + 1)
          BY <1>0, <1>1, <4>1, Occurs
        <5>2. QED
          BY <3>1, <5>1
      <4>3. ~(j > Len(s)) => f[j + 1] = g[j + 1] /\ j <= Len(s)
        BY <1>1, <3>1, <4>1
      <4>4. QED
        BY <4>2, <4>3 DEF Scan
    <3>3. CASE j = i
      BY <2>3, <3>2, <3>3
    <3>4. CASE j # i
      <4>1. j \in (i + 1)..n
        BY <1>1, <3>4
      <4>2. QED
        BY <2>1, <2>3, <3>2, <4>1
    <3>5. QED
      BY <3>3, <3>4
  <2>5. From(i)
    BY <2>3, <2>4
  <2>6. QED
    BY <2>5
<1>3. From(1)
  <2>1. 1 \in S
    <3> HIDE DEF S
    <3>1. \A i \in 1..n : i \in S
      BY <1>1, <1>2, Downward
    <3>2. QED
      BY <1>1, <3>1
  <2>2. QED
    BY <2>1
<1>4. PICK f \in [D -> Seq(T)] : f = [i \in D |-> Scan(secret, s, f, i)]
  <2>1. PICK f \in [D -> Seq(T)] : \A i \in 1..n : f[i] = Scan(secret, s, f, i)
    BY <1>3
  <2>2. f = [i \in D |-> Scan(secret, s, f, i)]
    BY <2>1
  <2>3. QED
    BY <2>2
<1>5. R = [i \in D |-> Scan(secret, s, R, i)]
  <2>1. R = CHOOSE r : r = [i \in 1..(Len(s) + 1) |-> Scan(secret, s, r, i)]
    BY DEF Redaction
  <2>2. QED
    BY <1>4, <2>1
<1>6. \A i \in D : R[i] = Scan(secret, s, R, i)
  BY <1>5
<1>7. \A i \in D : R[i] \in Seq(T)
  <2> DEFINE U == {i \in D : R[i] \in Seq(T)}
  <2>1. ASSUME NEW i \in 1..n, \A j \in (i + 1)..n : j \in U
        PROVE  i \in U
    <3>1. \A j \in (i + 1)..n : R[j] \in Seq(T)
      BY <2>1
    <3>2. Scan(secret, s, R, i) \in Seq(T)
      <4> HIDE DEF R
      <4>1. QED
        BY <3>1, ScanType
    <3>3. QED
      BY <1>6, <3>2
  <2>2. \A i \in 1..n : i \in U
    <3> HIDE DEF U
    <3>1. QED
      BY <1>1, <2>1, Downward
  <2>3. QED
    BY <2>2
<1>8. QED
  BY <1>6, <1>7
\* What R says of position i, by what is there.
ScansAt(secret, s, R, i) ==
    /\ i > Len(s) => R[i] = <<>>
    /\ i <= Len(s) /\ OccursAt(secret, s, i) =>
           /\ i + Len(secret) \in (i + 1)..(Len(s) + 1)
           /\ R[i] = <<Mark>> \o R[i + Len(secret)]
    /\ i <= Len(s) /\ ~OccursAt(secret, s, i) /\ Begins(secret, s, i) =>
           R[i] = <<Mark>>
    /\ i <= Len(s) /\ ~Begins(secret, s, i) =>
           ~OccursAt(secret, s, i) /\ R[i] = <<s[i]>> \o R[i + 1]

LEMMA Scanned ==
    ASSUME NEW C, NEW secret \in Seq(C) \ {<<>>}, NEW s \in Seq(C)
    PROVE  \A i \in 1..(Len(s) + 1) :
               /\ Redaction(secret, s)[i] \in Seq(C \cup {Mark})
               /\ ScansAt(secret, s, Redaction(secret, s), i)
<1> DEFINE R == Redaction(secret, s)
<1>1. Len(secret) \in Nat \ {0} /\ Len(s) \in Nat
  BY EmptySeq, LenProperties
<1> SUFFICES ASSUME NEW i \in 1..(Len(s) + 1)
             PROVE  R[i] \in Seq(C \cup {Mark}) /\ ScansAt(secret, s, R, i)
  OBVIOUS
<1>2. R[i] = Scan(secret, s, R, i) /\ R[i] \in Seq(C \cup {Mark})
  BY RedactionIsScan
<1> HIDE DEF R
<1>3. CASE i > Len(s)
  BY <1>1, <1>2, <1>3 DEF Scan, ScansAt
<1>4. CASE i <= Len(s)
  <2>1. i \in 1..Len(s) /\ ~(i > Len(s))
    BY <1>1, <1>4
  <2>2. /\ Begins(secret, s, i) <=>
              \/ OccursAt(secret, s, i)
              \/ IsPrefix(SubSeq(s, i, Len(s)), secret)
    BY <2>1, BeginsOrNot
  <2>3. OccursAt(secret, s, i) => i + Len(secret) \in (i + 1)..(Len(s) + 1)
    BY <1>1, Occurs
  <2>4. QED
    BY <1>2, <2>1, <2>2, <2>3 DEF Scan, ScansAt
<1>5. QED
  BY <1>1, <1>3, <1>4

\* From i up to j, nothing may begin a secret: all of it stays.
Plain(secret, s, i, j) == \A k \in i..(j - 1) : ~Begins(secret, s, k)
Stays(s, R, i, j) == R[i] = SubSeq(s, i, j - 1) \o R[j]

LEMMA Literal ==
    ASSUME NEW C, NEW secret \in Seq(C) \ {<<>>}, NEW s \in Seq(C),
           NEW i \in 1..(Len(s) + 1), NEW j \in i..(Len(s) + 1), Plain(secret, s, i, j)
    PROVE  Stays(s, Redaction(secret, s), i, j)
<1> DEFINE T == C \cup {Mark}
           R == Redaction(secret, s)
           S == {k \in i..j : R[k] = SubSeq(s, k, j - 1) \o R[j]}
           U == S \cup 1..(i - 1)
<1>1. Len(s) \in Nat /\ i \in Nat /\ j \in Nat
  BY LenProperties
<1>2. \A k \in 1..(Len(s) + 1) : R[k] \in Seq(T) /\ ScansAt(secret, s, R, k)
  BY Scanned
<1>3. s \in Seq(T)
  BY SeqMonotonic
<1>4. ASSUME NEW k \in 1..j, \A m \in (k + 1)..j : m \in U
      PROVE  k \in U
  <2>1. CASE k < i
    <3> HIDE DEF S
    <3>1. k \in 1..(i - 1)
      BY <1>1, <2>1
    <3>2. QED
      BY <3>1
  <2>2. CASE k = j
    <3>1. SubSeq(s, j, j - 1) = <<>>
      BY <1>1, SubSeqEmpty
    <3>2. <<>> \o R[j] = R[j]
      <4>1. R[j] \in Seq(T)
        BY <1>2
      <4>2. QED
        BY <4>1, ConcatEmptySeq
    <3>3. QED
      <4>1. R[k] = SubSeq(s, k, j - 1) \o R[j]
        BY <2>2, <3>1, <3>2
      <4>2. k \in i..j
        BY <1>1, <2>2
      <4>3. QED
        BY <4>1, <4>2
  <2>3. CASE k \in i..(j - 1)
    <3>1. R[k + 1] = SubSeq(s, k + 1, j - 1) \o R[j]
      <4>1. k + 1 \in (k + 1)..j /\ k + 1 \notin 1..(i - 1)
        BY <1>1, <2>3
      <4>2. k + 1 \in S
        <5> HIDE DEF S
        <5>1. QED
          BY <1>4, <4>1
      <4>3. QED
        BY <4>2
    <3>2. R[k] = <<s[k]>> \o R[k + 1]
      <4>1. k \in 1..(Len(s) + 1) /\ k <= Len(s) /\ ~Begins(secret, s, k)
        BY <1>1, <2>3 DEF Plain
      <4>2. QED
        BY <1>2, <4>1 DEF ScansAt
    <3>3. SubSeq(s, k, j - 1) = <<s[k]>> \o SubSeq(s, k + 1, j - 1)
      <4>1. k \in 1..Len(s) /\ j - 1 \in k..Len(s)
        BY <1>1, <2>3
      <4>2. QED
        BY <4>1, SubSeqRecursiveFirst
    <3>4. /\ <<s[k]>> \in Seq(T)
          /\ SubSeq(s, k + 1, j - 1) \in Seq(T)
          /\ R[j] \in Seq(T)
      <4>1. \A m \in k..(j - 1) : s[m] \in T
        BY <1>1, <1>3, <2>3, ElementOfSeq
      <4>2. SubSeq(s, k + 1, j - 1) \in Seq(T)
        BY <1>1, <2>3, <4>1, SubSeqProperties
      <4>3. s[k] \in T
        BY <2>3, <4>1
      <4>4. R[j] \in Seq(T)
        BY <1>2
      <4>5. QED
        BY <4>2, <4>3, <4>4
    <3>5. R[k] = SubSeq(s, k, j - 1) \o R[j]
      <4> DEFINE a == <<s[k]>>
                 b == SubSeq(s, k + 1, j - 1)
                 c == R[j]
      <4>1. (a \o b) \o c = a \o (b \o c)
        <5>1. a \in Seq(T) /\ b \in Seq(T) /\ c \in Seq(T)
          BY <3>4
        <5> HIDE DEF T, a, b, c
        <5>2. Associates(a, b, c)
          BY <5>1, Association
        <5>3. QED
          BY <5>2 DEF Associates
      <4>2. QED
        BY <3>1, <3>2, <3>3, <4>1
    <3>6. QED
      BY <1>1, <2>3, <3>5
  <2>4. QED
    <3>1. k < i \/ k = j \/ k \in i..(j - 1)
      BY <1>1
    <3> HIDE DEF U
    <3>2. QED
      BY <2>1, <2>2, <2>3, <3>1
<1>5. i \in U
  <2> HIDE DEF U
  <2>1. \A k \in 1..j : k \in U
    BY <1>1, <1>4, Downward
  <2>2. QED
    BY <1>1, <2>1
<1>6. i \notin 1..(i - 1)
  OBVIOUS
<1>7. QED
  BY <1>5, <1>6 DEF Stays

\* What is made of the end of a stream does not depend on its beginning.
LEMMA Shift ==
    ASSUME NEW C, NEW secret \in Seq(C) \ {<<>>}, NEW s \in Seq(C),
           NEW k \in 1..(Len(s) + 1)
    PROVE  Redaction(secret, s)[k] = Redacted(secret, SubSeq(s, k, Len(s)))
<1> DEFINE t == SubSeq(s, k, Len(s))
           Q == Redaction(secret, t)
           R == Redaction(secret, s)
           n == Len(s) - k + 2
           S == {i \in 1..n : Q[i] = R[k + i - 1]}
<1>1. Len(s) \in Nat /\ n \in Nat /\ Len(secret) \in Nat \ {0}
  BY LenProperties, EmptySeq
<1>2. /\ t \in Seq(C)
      /\ Len(t) = Len(s) - k + 1
      /\ \A i \in 1..(Len(s) - k + 1) : t[i] = s[k + i - 1]
  BY Suffix
<1>0. /\ \A i \in 1..(Len(t) + 1) : ScansAt(secret, t, Q, i)
      /\ \A i \in 1..(Len(s) + 1) : ScansAt(secret, s, R, i)
  <2> HIDE DEF t
  <2>1. QED
    BY <1>2, Scanned
<1>3. ASSUME NEW i \in 1..n, \A j \in (i + 1)..n : j \in S
      PROVE  i \in S
  <2> DEFINE m == k + i - 1
  <2>0. /\ i \in 1..(Len(t) + 1) /\ m \in 1..(Len(s) + 1)
        /\ i > Len(t) <=> m > Len(s)
    BY <1>1, <1>2
  <2>1. \A j \in (i + 1)..n : Q[j] = R[k + j - 1]
    BY <1>3
  <2> HIDE DEF t, Q, R
  <2>6. ScansAt(secret, t, Q, i) /\ ScansAt(secret, s, R, m)
    BY <1>0, <2>0
  <2>2. CASE i > Len(t)
    BY <2>0, <2>2, <2>6 DEF ScansAt
  <2>3. CASE i <= Len(t)
    <3>0. i <= Len(t) /\ m <= Len(s)
      BY <1>1, <1>2, <2>0, <2>3
    <3>1. OccursAt(secret, t, i) <=> OccursAt(secret, s, m)
      <4>1. OccursAt(secret, t, i) <=>
              /\ i + Len(secret) <= Len(t) + 1
              /\ \A q \in 1..Len(secret) : t[i + q - 1] = secret[q]
        <5>1. t \in Seq(C) /\ i \in Nat \ {0}
          BY <1>1, <1>2
        <5>2. QED
          BY <5>1, Occurs
      <4>2. OccursAt(secret, s, m) <=>
              /\ m + Len(secret) <= Len(s) + 1
              /\ \A q \in 1..Len(secret) : s[m + q - 1] = secret[q]
        BY <2>0, Occurs
      <4>3. i + Len(secret) <= Len(t) + 1 <=> m + Len(secret) <= Len(s) + 1
        BY <1>1, <1>2
      <4>4. i + Len(secret) <= Len(t) + 1 =>
              \A q \in 1..Len(secret) : t[i + q - 1] = s[m + q - 1]
        BY <1>1, <1>2
      <4>5. QED
        BY <4>1, <4>2, <4>3, <4>4
    <3>2. Begins(secret, t, i) <=> Begins(secret, s, m)
      <4>1. \A q \in 1..Len(secret) :
              /\ i + q - 1 <= Len(t) <=> m + q - 1 <= Len(s)
              /\ i + q - 1 <= Len(t) => t[i + q - 1] = s[m + q - 1]
        BY <1>1, <1>2
      <4>2. QED
        BY <4>1 DEF Begins
    <3>3. t[i] = s[m] /\ i + 1 \in (i + 1)..n /\ k + (i + 1) - 1 = m + 1
      BY <1>1, <1>2, <3>0
    <3>4. Q[i + 1] = R[m + 1]
      BY <2>1, <3>3
    <3>5. CASE OccursAt(secret, s, m)
      <4>1. i + Len(secret) \in (i + 1)..n
        <5>1. i + Len(secret) \in (i + 1)..(Len(t) + 1)
          BY <2>6, <3>0, <3>1, <3>5 DEF ScansAt
        <5>2. QED
          BY <1>1, <1>2, <5>1
      <4>2. Q[i + Len(secret)] = R[m + Len(secret)]
        BY <1>1, <2>1, <4>1
      <4>3. Q[i] = <<Mark>> \o Q[i + Len(secret)]
        BY <2>6, <3>0, <3>1, <3>2, <3>5 DEF ScansAt
      <4>4. R[m] = <<Mark>> \o R[m + Len(secret)]
        BY <2>6, <3>0, <3>1, <3>2, <3>5 DEF ScansAt
      <4>5. QED
        BY <4>2, <4>3, <4>4
    <3>6. CASE ~OccursAt(secret, s, m) /\ Begins(secret, s, m)
      <4>1. Q[i] = <<Mark>>
        BY <2>6, <3>0, <3>1, <3>2, <3>6 DEF ScansAt
      <4>2. R[m] = <<Mark>>
        BY <2>6, <3>0, <3>1, <3>2, <3>6 DEF ScansAt
      <4>3. QED
        BY <4>1, <4>2
    <3>7. CASE ~Begins(secret, s, m)
      <4>1. Q[i] = <<t[i]>> \o Q[i + 1]
        BY <2>6, <3>0, <3>1, <3>2, <3>7 DEF ScansAt
      <4>2. R[m] = <<s[m]>> \o R[m + 1]
        BY <2>6, <3>0, <3>1, <3>2, <3>7 DEF ScansAt
      <4>3. QED
        BY <3>3, <3>4, <4>1, <4>2
    <3>8. QED
      BY <3>5, <3>6, <3>7
  <2>4. QED
    BY <1>1, <1>2, <2>0, <2>2, <2>3
<1>4. 1 \in S
  <2>1. 1 \in 1..n
    BY <1>1
  <2> HIDE DEF S
  <2>2. QED
    BY <1>1, <1>3, <2>1, Downward
<1>5. QED
  BY <1>4 DEF Redacted
-----------------------------------------------------------------------------
(* The writer *)

\* The occurrences from i on that are all in s, and the first of them.
Hits(secret, s, i) == {j \in i..Len(s) : OccursAt(secret, s, j)}

LEMMA FirstHit ==
    ASSUME NEW C, NEW secret \in Seq(C) \ {<<>>}, NEW s \in Seq(C), NEW i \in 1..(Len(s) + 1),
           Hits(secret, s, i) # {}
    PROVE  LET j == Min(Hits(secret, s, i)) IN
           /\ j \in i..Len(s) /\ OccursAt(secret, s, j)
           /\ \A k \in i..(j - 1) : ~OccursAt(secret, s, k)
           /\ j + Len(secret) \in (i + 1)..(Len(s) + 1)
<1> DEFINE j == Min(Hits(secret, s, i))
<1>1. Len(s) \in Nat /\ Len(secret) \in Nat \ {0}
  BY LenProperties, EmptySeq
<1>2. Hits(secret, s, i) \subseteq Nat
  BY <1>1 DEF Hits
<1>3. j \in Hits(secret, s, i) /\ \A k \in Hits(secret, s, i) : j <= k
  BY <1>2, MinOf
<1> HIDE DEF j
<1>4. j \in i..Len(s) /\ OccursAt(secret, s, j)
  BY <1>3 DEF Hits
<1>5. \A k \in i..(j - 1) : ~OccursAt(secret, s, k)
  BY <1>1, <1>3, <1>4 DEF Hits
<1>6. j + Len(secret) \in (i + 1)..(Len(s) + 1)
  <2>1. j \in Nat \ {0}
    BY <1>1, <1>4
  <2>2. j + Len(secret) <= Len(s) + 1
    BY <1>4, <2>1, Occurs
  <2>3. QED
    BY <1>1, <1>4, <2>1, <2>2
<1>7. QED
  BY <1>4, <1>5, <1>6 DEF j

\* The longest end of s that is the beginning of a secret, and not all of it.
LEMMA RetainedIsLongest ==
    ASSUME NEW C, NEW secret \in Seq(C) \ {<<>>}, NEW s \in Seq(C)
    PROVE  LET r == Retained(secret, s) IN
           /\ r \in 0..Len(s) /\ r < Len(secret)
           /\ \A q \in 1..r : s[Len(s) - r + q] = secret[q]
           /\ \A n \in 1..Len(s) :
                  n < Len(secret) /\ (\A q \in 1..n : s[Len(s) - n + q] = secret[q]) => n <= r
<1> DEFINE b == Min({Len(s), Len(secret) - 1})
           N == {n \in 1..b : SubSeq(s, Len(s) - n + 1, Len(s)) = SubSeq(secret, 1, n)}
           r == Retained(secret, s)
<1>1. Len(s) \in Nat /\ Len(secret) \in Nat \ {0}
  BY LenProperties, EmptySeq
<1>2. b \in Nat /\ b <= Len(s) /\ b < Len(secret)
      /\ \A n \in Nat : n <= Len(s) /\ n < Len(secret) => n <= b
  <2>1. {Len(s), Len(secret) - 1} \subseteq Nat
    BY <1>1
  <2>2. b \in {Len(s), Len(secret) - 1} /\ b <= Len(s) /\ b <= Len(secret) - 1
    BY <2>1, MinOf
  <2> HIDE DEF b
  <2>3. QED
    BY <1>1, <2>2
<1> HIDE DEF b
<1>3. ASSUME NEW n \in 1..b
      PROVE  n \in N <=> \A q \in 1..n : s[Len(s) - n + q] = secret[q]
  <2> DEFINE x == SubSeq(s, Len(s) - n + 1, Len(s))
             y == SubSeq(secret, 1, n)
  <2>1. /\ Len(s) - n + 1 \in Nat \ {0} /\ Len(s) - n + 1 <= Len(s) + 1
        /\ n \in 0..Len(secret) /\ n \in Nat
    BY <1>1, <1>2
  <2>2. /\ x \in Seq(C) /\ Len(x) = n
        /\ \A q \in 1..n : x[q] = s[Len(s) - n + q]
    <3>1. /\ x \in Seq(C) /\ Len(x) = Len(s) - (Len(s) - n + 1) + 1
          /\ \A q \in 1..(Len(s) - (Len(s) - n + 1) + 1) :
                x[q] = s[(Len(s) - n + 1) + q - 1]
      BY <2>1, Suffix
    <3> HIDE DEF x
    <3>2. QED
      BY <1>1, <2>1, <3>1
  <2>3. /\ y \in Seq(C) /\ Len(y) = n
        /\ \A q \in 1..n : y[q] = secret[q]
    <3>1. \A q \in 1..n : secret[q] \in C
      BY <1>1, <2>1, ElementOfSeq
    <3>2. QED
      BY <2>1, <3>1, SubSeqProperties
  <2> HIDE DEF x, y
  <2>4. x = y <=> \A q \in 1..n : x[q] = y[q]
    BY <2>2, <2>3, SeqEqual
  <2>5. QED
    BY <2>2, <2>3, <2>4 DEF x, y
<1>4. r = Max({0} \cup N)
  BY DEF Retained, b
<1>5. r \in {0} \cup N /\ \A n \in {0} \cup N : n <= r
  <2>1. {0} \cup N \subseteq 0..b
    BY <1>2
  <2> HIDE DEF N, r
  <2>2. QED
    BY <1>2, <1>4, <2>1, MaxOf
<1>6. r \in 0..Len(s) /\ r < Len(secret)
  <2>1. \A n \in {0} \cup N : n \in 0..b
    BY <1>2
  <2> HIDE DEF N, r
  <2>2. QED
    BY <1>1, <1>2, <1>5, <2>1
<1>7. \A q \in 1..r : s[Len(s) - r + q] = secret[q]
  <2>1. CASE r \in N
    <3>1. r \in 1..b
      BY <2>1
    <3> HIDE DEF N, r
    <3>2. QED
      BY <1>3, <2>1, <3>1
  <2>2. CASE r = 0
    <3> HIDE DEF r
    <3>1. QED
      BY <2>2
  <2> HIDE DEF N, r
  <2>3. QED
    BY <1>5, <2>1, <2>2
<1>8. \A n \in 1..Len(s) :
         n < Len(secret) /\ (\A q \in 1..n : s[Len(s) - n + q] = secret[q]) => n <= r
  <2> HIDE DEF N, r
  <2>1. \A n \in 1..Len(s) : n < Len(secret) => n \in 1..b
    BY <1>1, <1>2
  <2>2. QED
    BY <1>3, <1>5, <2>1
<1>9. QED
  BY <1>6, <1>7, <1>8

\* What the writer forwards and keeps.
Drain(C) == [out : Seq(C \cup {Mark}), kept : Seq(C)]

LEMMA TurnType ==
    ASSUME NEW C, NEW secret \in Seq(C) \ {<<>>}, NEW s \in Seq(C), NEW final \in BOOLEAN,
           NEW f, NEW i \in 1..(Len(s) + 1),
           \A j \in (i + 1)..(Len(s) + 1) : f[j] \in Drain(C)
    PROVE  Turn(secret, s, final, f, i) \in Drain(C)
<1> DEFINE T == C \cup {Mark}
           tail == SubSeq(s, i, Len(s))
           emit == Len(s) - Retained(secret, tail)
<1>1. Len(s) \in Nat /\ Len(secret) \in Nat \ {0} /\ i \in Nat \ {0} /\ i <= Len(s) + 1
  BY LenProperties, EmptySeq
<1>2. <<Mark>> \in Seq(T) /\ <<>> \in Seq(C)
  OBVIOUS
<1>3. \A x \in Seq(C) : x \in Seq(T)
  BY SeqMonotonic
<1>4. tail \in Seq(C) /\ Len(tail) = Len(s) - i + 1
  BY <1>1, Suffix
<1>5. \A a \in 1..(Len(s) + 1), b \in 0..Len(s) : SubSeq(s, a, b) \in Seq(C)
  <2> SUFFICES ASSUME NEW a \in 1..(Len(s) + 1), NEW b \in 0..Len(s)
               PROVE  SubSeq(s, a, b) \in Seq(C)
    OBVIOUS
  <2>1. a \in Int /\ b \in Int /\ \A k \in a..b : s[k] \in C
    BY <1>1, ElementOfSeq
  <2>2. QED
    BY <2>1, SubSeqProperties
<1>6. CASE Hits(secret, s, i) # {}
  <2> DEFINE j == Min(Hits(secret, s, i))
             next == f[j + Len(secret)]
  <2>1. j \in i..Len(s) /\ j + Len(secret) \in (i + 1)..(Len(s) + 1)
    BY <1>6, FirstHit
  <2>2. next \in Drain(C)
    BY <2>1
  <2>3. SubSeq(s, i, j - 1) \in Seq(T)
    <3> HIDE DEF j
    <3>1. j - 1 \in 0..Len(s)
      BY <1>1, <2>1
    <3>2. QED
      BY <1>3, <1>5, <3>1
  <2>4. Turn(secret, s, final, f, i) =
          [out |-> SubSeq(s, i, j - 1) \o <<Mark>> \o next.out, kept |-> next.kept]
    BY <1>6 DEF Turn, Hits
  <2> HIDE DEF j, next
  <2>5. next.out \in Seq(T) /\ next.kept \in Seq(C)
    BY <2>2 DEF Drain
  <2>6. SubSeq(s, i, j - 1) \o <<Mark>> \in Seq(T)
    BY <1>2, <2>3, ConcatProperties
  <2>7. SubSeq(s, i, j - 1) \o <<Mark>> \o next.out \in Seq(T)
    BY <2>5, <2>6, ConcatProperties
  <2>8. QED
    BY <2>4, <2>5, <2>7 DEF Drain
<1>7. CASE Hits(secret, s, i) = {} /\ final
  <2>1. Turn(secret, s, final, f, i) =
          [out |-> IF tail # <<>> /\ IsPrefix(tail, secret) THEN <<Mark>> ELSE tail,
           kept |-> <<>>]
    BY <1>7 DEF Turn, Hits
  <2> HIDE DEF tail
  <2>2. (IF tail # <<>> /\ IsPrefix(tail, secret) THEN <<Mark>> ELSE tail) \in Seq(T)
    BY <1>2, <1>3, <1>4
  <2>3. QED
    BY <1>2, <2>1, <2>2 DEF Drain
<1>8. CASE Hits(secret, s, i) = {} /\ ~final
  <2>1. Turn(secret, s, final, f, i) =
          [out |-> SubSeq(s, i, emit), kept |-> SubSeq(s, emit + 1, Len(s))]
    BY <1>8 DEF Turn, Hits
  <2>2. emit \in (i - 1)..Len(s)
    <3>1. Retained(secret, tail) \in 0..Len(tail)
      <4> HIDE DEF tail
      <4>1. QED
        BY <1>4, RetainedIsLongest
    <3> HIDE DEF tail
    <3>2. QED
      BY <1>1, <1>4, <3>1
  <2> HIDE DEF emit
  <2>3. SubSeq(s, i, emit) \in Seq(C) /\ SubSeq(s, emit + 1, Len(s)) \in Seq(C)
    BY <1>1, <1>5, <2>2
  <2>4. QED
    BY <1>3, <2>1, <2>3 DEF Drain
<1>9. QED
  BY <1>6, <1>7, <1>8
\* The recursion of Turns defines a function.
LEMMA TurnsIsTurn ==
    ASSUME NEW C, NEW secret \in Seq(C) \ {<<>>}, NEW s \in Seq(C), NEW final \in BOOLEAN
    PROVE  \A i \in 1..(Len(s) + 1) :
               /\ Turns(secret, s, final)[i] =
                      Turn(secret, s, final, Turns(secret, s, final), i)
               /\ Turns(secret, s, final)[i] \in Drain(C)
<1> DEFINE n == Len(s) + 1
           D == 1..n
           From(k) == \E f \in [D -> Drain(C)] :
                          \A i \in k..n : f[i] = Turn(secret, s, final, f, i)
           S == {k \in D : From(k)}
           R == Turns(secret, s, final)
<1>0. Len(secret) \in Nat \ {0}
  BY EmptySeq
<1>1. Len(s) \in Nat /\ n \in Nat
  BY LenProperties
<1>2. ASSUME NEW i \in 1..n, \A j \in (i + 1)..n : j \in S
      PROVE  i \in S
  <2>1. PICK f \in [D -> Drain(C)] : \A j \in (i + 1)..n : f[j] = Turn(secret, s, final, f, j)
    <3>1. CASE i < n
      <4>1. i + 1 \in S
        <5>1. i + 1 \in (i + 1)..n
          BY <1>1, <3>1
        <5> HIDE DEF S
        <5>2. QED
          BY <1>2, <5>1
      <4>2. QED
        BY <4>1
    <3>2. CASE i = n
      <4>1. [out |-> <<>>, kept |-> <<>>] \in Drain(C)
        BY DEF Drain
      <4>2. [j \in D |-> [out |-> <<>>, kept |-> <<>>]] \in [D -> Drain(C)]
        BY <4>1
      <4>3. \A j \in (i + 1)..n : FALSE
        BY <1>1, <3>2
      <4>4. QED
        BY <4>2, <4>3
    <3>3. QED
      BY <1>1, <3>1, <3>2
  <2> DEFINE v == Turn(secret, s, final, f, i)
  <2>2. v \in Drain(C)
    <3>1. \A j \in (i + 1)..n : f[j] \in Drain(C)
      BY <1>1
    <3>2. QED
      BY <3>1, TurnType
  <2>3. PICK g \in [D -> Drain(C)] : g[i] = v /\ \A j \in D : j # i => g[j] = f[j]
    <3>1. [f EXCEPT ![i] = v] \in [D -> Drain(C)]
      BY <2>2
    <3>2. QED
      BY <3>1
  <2>4. ASSUME NEW j \in i..n PROVE g[j] = Turn(secret, s, final, g, j)
    <3>1. \A m \in (j + 1)..(Len(s) + 1) : f[m] = g[m]
      BY <1>1, <2>3
    <3>2. Turn(secret, s, final, f, j) = Turn(secret, s, final, g, j)
      <4>1. j \in 1..(Len(s) + 1)
        BY <1>1
      <4> HIDE DEF n, D, From, S, R, v
      <4>2. CASE Hits(secret, s, j) # {}
        <5>1. Min(Hits(secret, s, j)) + Len(secret) \in (j + 1)..(Len(s) + 1)
          BY <4>1, <4>2, FirstHit
        <5>2. f[Min(Hits(secret, s, j)) + Len(secret)] = g[Min(Hits(secret, s, j)) + Len(secret)]
          BY <3>1, <5>1
        <5>3. QED
          BY <5>2 DEF Turn, Hits
      <4>3. CASE Hits(secret, s, j) = {}
        BY <4>3 DEF Turn, Hits
      <4>4. QED
        BY <4>2, <4>3
    <3>3. CASE j = i
      BY <2>3, <3>2, <3>3
    <3>4. CASE j # i
      <4>1. j \in (i + 1)..n
        BY <1>1, <3>4
      <4>2. QED
        BY <2>1, <2>3, <3>2, <4>1
    <3>5. QED
      BY <3>3, <3>4
  <2>5. From(i)
    BY <2>3, <2>4
  <2>6. QED
    BY <2>5
<1>3. From(1)
  <2>1. 1 \in S
    <3> HIDE DEF S
    <3>1. \A i \in 1..n : i \in S
      BY <1>1, <1>2, Downward
    <3>2. QED
      BY <1>1, <3>1
  <2>2. QED
    BY <2>1
<1>4. PICK f \in [D -> Drain(C)] : f = [i \in D |-> Turn(secret, s, final, f, i)]
  <2>1. PICK f \in [D -> Drain(C)] : \A i \in 1..n : f[i] = Turn(secret, s, final, f, i)
    BY <1>3
  <2>2. f = [i \in D |-> Turn(secret, s, final, f, i)]
    BY <2>1
  <2>3. QED
    BY <2>2
<1>5. R = [i \in D |-> Turn(secret, s, final, R, i)]
  <2>1. R = CHOOSE r : r = [i \in 1..(Len(s) + 1) |-> Turn(secret, s, final, r, i)]
    BY DEF Turns
  <2>2. QED
    BY <1>4, <2>1
<1>6. \A i \in D : R[i] = Turn(secret, s, final, R, i)
  BY <1>5
<1>7. \A i \in D : R[i] \in Drain(C)
  <2> DEFINE U == {i \in D : R[i] \in Drain(C)}
  <2>1. ASSUME NEW i \in 1..n, \A j \in (i + 1)..n : j \in U
        PROVE  i \in U
    <3>1. \A j \in (i + 1)..n : R[j] \in Drain(C)
      BY <2>1
    <3>2. Turn(secret, s, final, R, i) \in Drain(C)
      <4> HIDE DEF R
      <4>1. QED
        BY <3>1, TurnType
    <3>3. QED
      BY <1>6, <3>2
  <2>2. \A i \in 1..n : i \in U
    <3> HIDE DEF U
    <3>1. QED
      BY <1>1, <2>1, Downward
  <2>3. QED
    BY <2>2
<1>8. QED
  BY <1>6, <1>7

\* What a turn makes of position i.
TurnsAt(secret, s, final, L, i) ==
    /\ Hits(secret, s, i) # {} =>
           LET j == Min(Hits(secret, s, i)) IN
           /\ L[i].out = SubSeq(s, i, j - 1) \o <<Mark>> \o L[j + Len(secret)].out
           /\ L[i].kept = L[j + Len(secret)].kept
    /\ Hits(secret, s, i) = {} /\ final =>
           LET tail == SubSeq(s, i, Len(s)) IN
           L[i].out = IF tail # <<>> /\ IsPrefix(tail, secret) THEN <<Mark>> ELSE tail
    /\ Hits(secret, s, i) = {} /\ ~final =>
           LET emit == Len(s) - Retained(secret, SubSeq(s, i, Len(s))) IN
           /\ L[i].out = SubSeq(s, i, emit)
           /\ L[i].kept = SubSeq(s, emit + 1, Len(s))

LEMMA Turned ==
    ASSUME NEW C, NEW secret \in Seq(C) \ {<<>>}, NEW s \in Seq(C), NEW final \in BOOLEAN
    PROVE  \A i \in 1..(Len(s) + 1) :
               /\ Turns(secret, s, final)[i] \in Drain(C)
               /\ TurnsAt(secret, s, final, Turns(secret, s, final), i)
<1> DEFINE L == Turns(secret, s, final)
<1> SUFFICES ASSUME NEW i \in 1..(Len(s) + 1)
             PROVE  L[i] \in Drain(C) /\ TurnsAt(secret, s, final, L, i)
  OBVIOUS
<1>1. L[i] = Turn(secret, s, final, L, i) /\ L[i] \in Drain(C)
  BY TurnsIsTurn
<1> HIDE DEF L
<1>2. CASE Hits(secret, s, i) # {}
  <2> DEFINE j == Min(Hits(secret, s, i))
             next == L[j + Len(secret)]
  <2>1. L[i] = [out |-> SubSeq(s, i, j - 1) \o <<Mark>> \o next.out, kept |-> next.kept]
    BY <1>1, <1>2 DEF Turn, Hits
  <2>2. /\ L[i].out = SubSeq(s, i, j - 1) \o <<Mark>> \o next.out
        /\ L[i].kept = next.kept
    <3> DEFINE a == SubSeq(s, i, j - 1) \o <<Mark>> \o next.out
               b == next.kept
               r == L[i]
    <3>1. r = [out |-> a, kept |-> b]
      BY <2>1
    <3>2. r.out = a /\ r.kept = b
      <4> HIDE DEF a, b, r
      <4>1. QED
        BY <3>1
    <3>3. QED
      BY <3>2
  <2>3. QED
    BY <1>1, <1>2, <2>2 DEF TurnsAt
<1>3. CASE Hits(secret, s, i) = {} /\ final
  BY <1>1, <1>3 DEF Turn, TurnsAt, Hits
<1>4. CASE Hits(secret, s, i) = {} /\ ~final
  <2> DEFINE emit == Len(s) - Retained(secret, SubSeq(s, i, Len(s)))
  <2>1. L[i] = [out |-> SubSeq(s, i, emit), kept |-> SubSeq(s, emit + 1, Len(s))]
    BY <1>1, <1>4 DEF Turn, Hits
  <2>2. /\ L[i].out = SubSeq(s, i, emit)
        /\ L[i].kept = SubSeq(s, emit + 1, Len(s))
    <3> DEFINE a == SubSeq(s, i, emit)
               b == SubSeq(s, emit + 1, Len(s))
               r == L[i]
    <3>1. r = [out |-> a, kept |-> b]
      BY <2>1
    <3>2. r.out = a /\ r.kept = b
      <4> HIDE DEF a, b, r
      <4>1. QED
        BY <3>1
    <3>3. QED
      BY <3>2
  <2>3. QED
    BY <1>1, <1>4, <2>2 DEF TurnsAt
<1>5. QED
  BY <1>1, <1>2, <1>3, <1>4
-----------------------------------------------------------------------------
(* A stream in chunks *)

LEMMA CutConcat ==
    ASSUME NEW C, NEW x \in Seq(C), NEW y \in Seq(C), NEW a \in 1..(Len(x) + 1)
    PROVE  /\ SubSeq(x \o y, a, Len(x \o y)) = SubSeq(x, a, Len(x)) \o y
           /\ \A b \in (a - 1)..Len(x) : SubSeq(x \o y, a, b) = SubSeq(x, a, b)
<1> DEFINE z == x \o y
           t == SubSeq(z, a, Len(z))
           u == SubSeq(x, a, Len(x))
<1>1. Len(x) \in Nat /\ Len(y) \in Nat /\ a \in Nat \ {0} /\ a <= Len(x) + 1
  BY LenProperties
<1>2. /\ z \in Seq(C) /\ Len(z) = Len(x) + Len(y)
      /\ \A k \in 1..(Len(x) + Len(y)) : z[k] = IF k <= Len(x) THEN x[k] ELSE y[k - Len(x)]
  BY ConcatProperties
<1> HIDE DEF z
<1>3. t = u \o y
  <2>1. /\ t \in Seq(C) /\ Len(t) = Len(z) - a + 1
        /\ \A q \in 1..(Len(z) - a + 1) : t[q] = z[a + q - 1]
    <3>1. z \in Seq(C) /\ a <= Len(z) + 1
      BY <1>1, <1>2
    <3>2. QED
      BY <1>1, <3>1, Suffix
  <2>2. /\ u \in Seq(C) /\ Len(u) = Len(x) - a + 1
        /\ \A q \in 1..(Len(x) - a + 1) : u[q] = x[a + q - 1]
    BY <1>1, Suffix
  <2> HIDE DEF t, u
  <2>3. /\ u \o y \in Seq(C) /\ Len(u \o y) = Len(u) + Len(y)
        /\ \A k \in 1..(Len(u) + Len(y)) : (u \o y)[k] = IF k <= Len(u) THEN u[k] ELSE y[k - Len(u)]
    BY <2>2, ConcatProperties
  <2>4. Len(t) = Len(u \o y)
    BY <1>1, <1>2, <2>1, <2>2, <2>3
  <2>5. ASSUME NEW q \in 1..Len(t) PROVE t[q] = (u \o y)[q]
    <3>1. t[q] = z[a + q - 1] /\ a + q - 1 \in 1..(Len(x) + Len(y))
      BY <1>1, <1>2, <2>1
    <3>2. CASE q <= Len(u)
      <4>1. a + q - 1 <= Len(x) /\ q \in 1..(Len(x) - a + 1)
        BY <1>1, <2>2, <3>2
      <4>2. t[q] = x[a + q - 1]
        BY <1>2, <3>1, <4>1
      <4>3. q \in 1..(Len(u) + Len(y))
        BY <1>1, <2>1, <2>3, <2>4
      <4>4. QED
        BY <2>2, <2>3, <3>2, <4>1, <4>2, <4>3
    <3>3. CASE ~(q <= Len(u))
      <4>1. ~(a + q - 1 <= Len(x)) /\ (a + q - 1) - Len(x) = q - Len(u)
        BY <1>1, <2>2, <3>3
      <4>2. t[q] = y[q - Len(u)]
        BY <1>2, <3>1, <4>1
      <4>3. q \in 1..(Len(u) + Len(y))
        BY <1>1, <2>1, <2>3, <2>4
      <4>4. QED
        BY <2>3, <3>3, <4>2, <4>3
    <3>4. QED
      BY <3>2, <3>3
  <2>6. QED
    BY <2>1, <2>3, <2>4, <2>5, SeqEqual
<1>4. ASSUME NEW b \in (a - 1)..Len(x) PROVE SubSeq(z, a, b) = SubSeq(x, a, b)
  <2>1. b \in Int /\ \A k \in a..b : z[k] = x[k] /\ x[k] \in C
    BY <1>1, <1>2, ElementOfSeq
  <2>2. /\ SubSeq(z, a, b) \in Seq(C)
        /\ Len(SubSeq(z, a, b)) = IF a <= b THEN b - a + 1 ELSE 0
        /\ \A q \in 1..(b - a + 1) : SubSeq(z, a, b)[q] = z[a + q - 1]
    BY <1>1, <2>1, SubSeqProperties
  <2>3. /\ SubSeq(x, a, b) \in Seq(C)
        /\ Len(SubSeq(x, a, b)) = IF a <= b THEN b - a + 1 ELSE 0
        /\ \A q \in 1..(b - a + 1) : SubSeq(x, a, b)[q] = x[a + q - 1]
    BY <1>1, <2>1, SubSeqProperties
  <2> DEFINE v == SubSeq(z, a, b)
             w == SubSeq(x, a, b)
  <2>4. ASSUME NEW q \in 1..Len(v) PROVE v[q] = w[q]
    <3>1. q \in 1..(b - a + 1) /\ a + q - 1 \in a..b
      BY <1>1, <2>1, <2>2
    <3>2. QED
      BY <2>1, <2>2, <2>3, <3>1
  <2> HIDE DEF v, w
  <2>5. v \in Seq(C) /\ w \in Seq(C) /\ Len(v) = Len(w)
    BY <2>2, <2>3 DEF v, w
  <2>6. v = w
    BY <2>4, <2>5, SeqEqual
  <2>7. QED
    BY <2>6 DEF v, w
<1>5. QED
  BY <1>3, <1>4 DEF z

\* It does not matter how four parts are put together.
FourParts(a, b, c, d) == a \o (b \o (c \o d)) = ((a \o b) \o c) \o d

LEMMA FourPartsConcat ==
    ASSUME NEW S, NEW a \in Seq(S), NEW b \in Seq(S), NEW c \in Seq(S), NEW d \in Seq(S)
    PROVE  FourParts(a, b, c, d)
<1>1. PICK ab \in Seq(S) : ab = a \o b
  BY ConcatProperties
<1>2. PICK cd \in Seq(S) : cd = c \o d
  BY ConcatProperties
<1>3. (ab \o c) \o d = ab \o cd
  <2>1. Associates(ab, c, d)
    BY Association
  <2>2. QED
    BY <1>2, <2>1 DEF Associates
<1>4. ab \o cd = a \o (b \o cd)
  <2>1. Associates(a, b, cd)
    BY Association
  <2>2. QED
    BY <1>1, <2>1 DEF Associates
<1>5. QED
  BY <1>1, <1>2, <1>3, <1>4 DEF FourParts

\* What is kept may be the beginning of a secret, and is not all of it.
ProperPrefix(p, secret) ==
    Len(p) < Len(secret) /\ \A q \in 1..Len(p) : p[q] = secret[q]

\* Of x, d.out is settled whatever y follows, and d.kept is open.
Settled(secret, x, d, y) ==
    Redacted(secret, x \o y) = d.out \o Redacted(secret, d.kept \o y)

\* One chunk: what is forwarded of x is what becomes of it whatever follows, as
\* far as that is settled.
LEMMA Chunk ==
    ASSUME NEW C, NEW secret \in Seq(C) \ {<<>>}, NEW x \in Seq(C), NEW y \in Seq(C)
    PROVE  LET d == Drained(secret, x, FALSE) IN
           /\ d \in Drain(C)
           /\ ProperPrefix(d.kept, secret)
           /\ Settled(secret, x, d, y)
<1> DEFINE T == C \cup {Mark}
           z == x \o y
           L == Turns(secret, x, FALSE)
           R == Redaction(secret, z)
           n == Len(x) + 1
           S == {i \in 1..n : /\ ProperPrefix(L[i].kept, secret)
                              /\ R[i] = L[i].out \o Redacted(secret, L[i].kept \o y)}
<1>1. /\ Len(x) \in Nat /\ Len(y) \in Nat /\ n \in Nat /\ Len(secret) \in Nat \ {0}
  BY LenProperties, EmptySeq
<1>2. /\ z \in Seq(C) /\ Len(z) = Len(x) + Len(y)
      /\ \A k \in 1..Len(x) : z[k] = x[k]
  BY <1>1, ConcatProperties
<1>3. \A i \in 1..n : L[i] \in Drain(C) /\ TurnsAt(secret, x, FALSE, L, i)
  BY Turned
<1>4. /\ \A a \in 1..n : SubSeq(z, a, Len(z)) = SubSeq(x, a, Len(x)) \o y
      /\ \A a \in 1..n : \A b \in (a - 1)..Len(x) : SubSeq(z, a, b) = SubSeq(x, a, b)
  BY CutConcat
<1> HIDE DEF z
<1>5. \A k \in 1..(Len(z) + 1) : R[k] \in Seq(T) /\ ScansAt(secret, z, R, k)
  BY <1>2, Scanned
<1>6. \A k \in 1..(Len(z) + 1) : R[k] = Redacted(secret, SubSeq(z, k, Len(z)))
  BY <1>2, Shift
<1>7. \A i \in 1..(Len(z) + 1) : \A j \in i..(Len(z) + 1) :
          Plain(secret, z, i, j) => Stays(z, R, i, j)
  <2> SUFFICES ASSUME NEW i \in 1..(Len(z) + 1), NEW j \in i..(Len(z) + 1),
                      Plain(secret, z, i, j)
               PROVE  Stays(z, R, i, j)
    OBVIOUS
  <2>1. z \in Seq(C)
    BY <1>2
  <2> HIDE DEF L, T, S, n
  <2>2. QED
    BY <2>1, Literal
<1> HIDE DEF L, R
\* An occurrence in x is one in z, and what may be one in z and is not in x ends after x.
<1>8. ASSUME NEW k \in 1..Len(x), k + Len(secret) <= Len(x) + 1, Begins(secret, z, k)
      PROVE  OccursAt(secret, x, k)
  <2>1. \A q \in 1..Len(secret) :
          k + q - 1 \in 1..Len(x) /\ k + q - 1 <= Len(z)
    BY <1>1, <1>2, <1>8
  <2>2. \A q \in 1..Len(secret) : z[k + q - 1] = secret[q]
    BY <1>8, <2>1 DEF Begins
  <2>3. \A q \in 1..Len(secret) : x[k + q - 1] = secret[q]
    BY <1>2, <2>1, <2>2
  <2>4. k \in Nat \ {0}
    BY <1>1
  <2>5. QED
    BY <1>8, <2>3, <2>4, Occurs
<1>9. ASSUME NEW k \in 1..Len(x), OccursAt(secret, x, k)
      PROVE  OccursAt(secret, z, k)
  <2>1. k \in Nat \ {0}
    BY <1>1
  <2>2. k + Len(secret) <= Len(x) + 1 /\ \A q \in 1..Len(secret) : x[k + q - 1] = secret[q]
    BY <1>9, <2>1, Occurs
  <2>3. \A q \in 1..Len(secret) : k + q - 1 \in 1..Len(x)
    BY <1>1, <2>1, <2>2
  <2>4. \A q \in 1..Len(secret) : z[k + q - 1] = secret[q]
    BY <1>2, <2>2, <2>3
  <2>5. k + Len(secret) <= Len(z) + 1
    BY <1>1, <1>2, <2>1, <2>2
  <2>6. QED
    BY <1>2, <2>1, <2>4, <2>5, Occurs
<1>10. ASSUME NEW i \in 1..n, \A j \in (i + 1)..n : j \in S
       PROVE  i \in S
  <2>0. i \in Nat \ {0} /\ i <= Len(x) + 1 /\ i \in 1..(Len(z) + 1)
    BY <1>1, <1>2
  <2>1. CASE Hits(secret, x, i) # {}
    <3> DEFINE j == Min(Hits(secret, x, i))
               m == j + Len(secret)
    <3>1. /\ j \in i..Len(x) /\ OccursAt(secret, x, j)
          /\ \A k \in i..(j - 1) : ~OccursAt(secret, x, k)
          /\ m \in (i + 1)..n
      BY <2>1, FirstHit
    <3>2. L[i].out = SubSeq(x, i, j - 1) \o <<Mark>> \o L[m].out /\ L[i].kept = L[m].kept
      BY <1>3, <2>1 DEF TurnsAt
    <3> HIDE DEF j
    <3>3. m \in S
      <4> HIDE DEF S
      <4>1. QED
        BY <1>10, <3>1
    <3>4. /\ ProperPrefix(L[m].kept, secret)
          /\ R[m] = L[m].out \o Redacted(secret, L[m].kept \o y)
      BY <3>3
    <3>5. Plain(secret, z, i, j)
      <4>1. \A k \in i..(j - 1) : k \in 1..Len(x) /\ k + Len(secret) <= Len(x) + 1
        BY <1>1, <2>0, <3>1
      <4>2. QED
        BY <1>8, <3>1, <4>1 DEF Plain
    <3>6. j \in i..(Len(z) + 1) /\ j <= Len(z) /\ j \in 1..(Len(z) + 1) /\ j - 1 \in (i - 1)..Len(x)
          /\ j \in 1..Len(x)
      BY <1>1, <1>2, <2>0, <3>1
    <3>7. R[i] = SubSeq(x, i, j - 1) \o R[j]
      BY <1>4, <1>7, <2>0, <3>5, <3>6 DEF Stays
    <3>8. R[j] = <<Mark>> \o R[m]
      <4>1. OccursAt(secret, z, j)
        BY <1>9, <3>1, <3>6
      <4>2. QED
        BY <1>5, <3>6, <4>1 DEF ScansAt
    <3> DEFINE a == SubSeq(x, i, j - 1)
               b == <<Mark>>
               c == L[m].out
               e == Redacted(secret, L[m].kept \o y)
    <3>9. a \in Seq(T) /\ b \in Seq(T) /\ c \in Seq(T) /\ e \in Seq(T)
      <4>1. a \in Seq(T)
        <5>1. \A k \in i..(j - 1) : x[k] \in T
          BY <1>1, <2>0, <3>1, ElementOfSeq
        <5>2. i \in Int /\ j - 1 \in Int
          BY <1>1, <2>0, <3>6
        <5>3. QED
          BY <5>1, <5>2, SubSeqProperties
      <4>2. L[m] \in Drain(C)
        <5>1. m \in 1..n
          BY <1>1, <2>0, <3>1
        <5> HIDE DEF m, n
        <5>2. QED
          BY <1>3, <5>1
      <4>3. c \in Seq(T) /\ L[m].kept \in Seq(C)
        BY <4>2 DEF Drain
      <4>4. L[m].kept \o y \in Seq(C)
        BY <4>3, ConcatProperties
      <4>5. e \in Seq(T)
        <5> DEFINE w == L[m].kept \o y
        <5>1. 1 \in 1..(Len(w) + 1)
          BY <4>4, LenProperties
        <5> HIDE DEF w
        <5>2. Redaction(secret, w)[1] \in Seq(T)
          BY <4>4, <5>1, RedactionIsScan DEF w
        <5>3. QED
          BY <5>2 DEF Redacted, w
      <4>6. QED
        BY <4>1, <4>3, <4>5
    <3>10. a \o (b \o (c \o e)) = ((a \o b) \o c) \o e
      <4> HIDE DEF a, b, c, e, T, S, n, m
      <4>1. FourParts(a, b, c, e)
        BY <3>9, FourPartsConcat
      <4>2. QED
        BY <4>1 DEF FourParts
    <3>11. R[i] = L[i].out \o Redacted(secret, L[i].kept \o y)
      BY <3>2, <3>4, <3>7, <3>8, <3>10
    <3>12. QED
      BY <3>2, <3>4, <3>11
  <2>2. CASE Hits(secret, x, i) = {}
    <3> DEFINE tail == SubSeq(x, i, Len(x))
               r == Retained(secret, tail)
               emit == Len(x) - r
    <3>1. L[i].out = SubSeq(x, i, emit) /\ L[i].kept = SubSeq(x, emit + 1, Len(x))
      BY <1>3, <2>2 DEF TurnsAt
    <3>2. /\ tail \in Seq(C) /\ Len(tail) = Len(x) - i + 1
          /\ \A q \in 1..(Len(x) - i + 1) : tail[q] = x[i + q - 1]
      BY <2>0, Suffix
    <3> HIDE DEF tail
    <3>3. /\ r \in 0..Len(tail) /\ r < Len(secret)
          /\ \A q \in 1..r : tail[Len(tail) - r + q] = secret[q]
          /\ \A k \in 1..Len(tail) :
                 k < Len(secret) /\ (\A q \in 1..k : tail[Len(tail) - k + q] = secret[q]) => k <= r
      BY <3>2, RetainedIsLongest
    <3> HIDE DEF r
    <3>4. r \in Nat /\ emit \in (i - 1)..Len(x) /\ emit + 1 \in 1..n /\ emit \in Nat
      BY <1>1, <2>0, <3>2, <3>3
    <3>5. ASSUME NEW k \in i..emit PROVE ~Begins(secret, z, k)
      <4>1. k \in 1..Len(x) /\ k \in Nat \ {0}
        BY <1>1, <2>0, <3>4
      <4>2. SUFFICES ASSUME Begins(secret, z, k) PROVE FALSE
        OBVIOUS
      <4>3. CASE k + Len(secret) <= Len(x) + 1
        <5>1. OccursAt(secret, x, k)
          BY <1>8, <4>1, <4>2, <4>3
        <5>2. k \in i..Len(x)
          BY <1>1, <2>0, <4>1
        <5>3. QED
          BY <2>2, <5>1, <5>2 DEF Hits
      <4>4. CASE ~(k + Len(secret) <= Len(x) + 1)
        <5> DEFINE h == Len(x) - k + 1
        <5>1. h \in 1..Len(tail) /\ h < Len(secret) /\ h > r
          BY <1>1, <2>0, <3>2, <3>4, <4>1, <4>4
        <5>2. ASSUME NEW q \in 1..h PROVE tail[Len(tail) - h + q] = secret[q]
          <6>0. /\ Len(tail) = Len(x) - i + 1 /\ i \in 1..Len(x)
                /\ Len(z) = Len(x) + Len(y) /\ k \in i..Len(x) /\ h < Len(secret)
            BY <1>1, <1>2, <2>0, <3>2, <3>4, <4>1, <5>1
          <6>1. /\ Len(tail) - h + q = k - i + q /\ k - i + q \in 1..(Len(x) - i + 1)
                /\ i + (k - i + q) - 1 = k + q - 1
                /\ k + q - 1 \in 1..Len(x) /\ k + q - 1 <= Len(z) /\ q \in 1..Len(secret)
            BY <1>1, <6>0
          <6>2. tail[Len(tail) - h + q] = x[k + q - 1]
            BY <3>2, <6>1
          <6>3. z[k + q - 1] = secret[q]
            BY <4>2, <6>1 DEF Begins
          <6>4. QED
            BY <1>2, <6>1, <6>2, <6>3
        <5> HIDE DEF h
        <5>3. h <= r
          BY <3>3, <5>1, <5>2
        <5>4. QED
          BY <1>1, <3>4, <5>1, <5>3 DEF h
      <4>5. QED
        BY <4>3, <4>4
    <3>6. R[i] = SubSeq(x, i, emit) \o R[emit + 1]
      <4> DEFINE j == emit + 1
      <4>1. j \in i..(Len(z) + 1) /\ j - 1 = emit /\ Plain(secret, z, i, j)
        BY <1>1, <1>2, <2>0, <3>4, <3>5 DEF Plain
      <4>2. SubSeq(z, i, emit) = SubSeq(x, i, emit)
        BY <1>4, <3>4
      <4> HIDE DEF emit, j
      <4>3. R[i] = SubSeq(z, i, j - 1) \o R[j]
        BY <1>7, <2>0, <4>1 DEF Stays
      <4>4. QED
        BY <4>1, <4>2, <4>3 DEF j
    <3>7. R[emit + 1] = Redacted(secret, L[i].kept \o y)
      <4>1. emit + 1 \in 1..(Len(z) + 1)
        BY <1>1, <1>2, <3>4
      <4> HIDE DEF emit
      <4>2. QED
        BY <1>4, <1>6, <3>1, <3>4, <4>1
    <3>8. ProperPrefix(L[i].kept, secret)
      <4> DEFINE kept == SubSeq(x, emit + 1, Len(x))
      <4>1. /\ Len(kept) = Len(x) - (emit + 1) + 1
            /\ \A q \in 1..(Len(x) - (emit + 1) + 1) : kept[q] = x[(emit + 1) + q - 1]
        <5>1. emit + 1 \in Nat \ {0} /\ emit + 1 <= Len(x) + 1
          BY <1>1, <3>4
        <5> HIDE DEF emit
        <5>2. QED
          BY <5>1, Suffix
      <4> HIDE DEF kept
      <4>2. Len(kept) = r
        BY <1>1, <3>4, <4>1
      <4>3. ASSUME NEW q \in 1..r PROVE kept[q] = secret[q]
        <5>1. kept[q] = x[emit + q]
          BY <1>1, <3>4, <4>1
        <5>2. /\ Len(tail) - r + q \in 1..(Len(x) - i + 1)
              /\ i + (Len(tail) - r + q) - 1 = emit + q
          BY <1>1, <2>0, <3>2, <3>3, <3>4
        <5>3. tail[Len(tail) - r + q] = x[emit + q]
          BY <3>2, <5>2
        <5>4. QED
          BY <3>3, <5>1, <5>3
      <4>4. QED
        BY <3>1, <3>3, <4>2, <4>3 DEF ProperPrefix, kept
    <3>9. QED
      BY <3>1, <3>6, <3>7, <3>8
  <2>3. QED
    BY <2>1, <2>2
<1>11. 1 \in S
  <2>1. 1 \in 1..n
    BY <1>1
  <2> HIDE DEF S
  <2>2. QED
    BY <1>1, <1>10, <2>1, Downward
<1>12. L[1] \in Drain(C)
  <2>1. 1 \in 1..n
    BY <1>1
  <2>2. QED
    BY <1>3, <2>1
<1>13. QED
  BY <1>11, <1>12 DEF Settled, Drained, Redacted, L, R, z
LEMMA RedactedType ==
    ASSUME NEW C, NEW secret \in Seq(C) \ {<<>>}, NEW s \in Seq(C)
    PROVE  Redacted(secret, s) \in Seq(C \cup {Mark})
<1>1. 1 \in 1..(Len(s) + 1)
  BY LenProperties
<1>2. QED
  BY <1>1, RedactionIsScan DEF Redacted

\* The end of the stream: what was kept is all there is left to redact.
LEMMA Flushed ==
    ASSUME NEW C, NEW secret \in Seq(C) \ {<<>>}, NEW p \in Seq(C), ProperPrefix(p, secret)
    PROVE  Drained(secret, p, TRUE).out = Redacted(secret, p)
<1> DEFINE L == Turns(secret, p, TRUE)
           R == Redaction(secret, p)
<1>1. Len(p) \in Nat /\ Len(secret) \in Nat \ {0} /\ Len(p) < Len(secret)
      /\ 1 \in 1..(Len(p) + 1)
  BY LenProperties, EmptySeq DEF ProperPrefix
<1>2. \A j \in Nat \ {0} : ~OccursAt(secret, p, j)
  BY <1>1, Occurs
<1>3. Hits(secret, p, 1) = {}
  BY <1>1, <1>2 DEF Hits
<1>4. SubSeq(p, 1, Len(p)) = p
  BY SubSeqFull
<1>5. L[1].out = IF p # <<>> /\ IsPrefix(p, secret) THEN <<Mark>> ELSE p
  <2>1. TurnsAt(secret, p, TRUE, L, 1)
    BY <1>1, Turned
  <2>2. QED
    BY <1>3, <1>4, <2>1 DEF TurnsAt
<1>6. ScansAt(secret, p, R, 1)
  BY <1>1, Scanned
<1> HIDE DEF L, R
<1>7. CASE p = <<>>
  <2>1. R[1] = <<>>
    BY <1>1, <1>6, <1>7, EmptySeq DEF ScansAt
  <2>2. QED
    BY <1>5, <1>7, <2>1 DEF Drained, Redacted, L, R
<1>8. CASE p # <<>>
  <2>1. Len(p) >= 1
    BY <1>1, <1>8, EmptySeq
  <2>2. IsPrefix(p, secret)
    BY <1>1, PrefixOf DEF ProperPrefix
  <2>3. Begins(secret, p, 1)
    BY <1>1 DEF ProperPrefix, Begins
  <2>4. R[1] = <<Mark>>
    BY <1>1, <1>2, <1>6, <2>1, <2>3 DEF ScansAt
  <2>5. QED
    BY <1>5, <1>8, <2>2, <2>4 DEF Drained, Redacted, L, R
<1>9. QED
  BY <1>7, <1>8

\* The positions of a sequence with one more element in front.
LEMMA Consed ==
    ASSUME NEW T, NEW a \in T, NEW r \in Seq(T)
    PROVE  /\ <<a>> \o r \in Seq(T)
           /\ Len(<<a>> \o r) = Len(r) + 1
           /\ (<<a>> \o r)[1] = a
           /\ \A k \in 2..(Len(r) + 1) : (<<a>> \o r)[k] = r[k - 1]
<1>1. <<a>> \in Seq(T) /\ Len(<<a>>) = 1 /\ <<a>>[1] = a
  OBVIOUS
<1>2. Len(r) \in Nat
  BY LenProperties
<1>3. /\ <<a>> \o r \in Seq(T)
      /\ Len(<<a>> \o r) = 1 + Len(r)
      /\ \A k \in 1..(1 + Len(r)) :
            (<<a>> \o r)[k] = IF k <= 1 THEN <<a>>[k] ELSE r[k - 1]
  BY <1>1, ConcatProperties
<1>4. QED
  BY <1>1, <1>2, <1>3

\* Characters that are no mark were there, in the same order.
Literally(s, r, i) ==
    \A m \in 0..Len(r) :
        (\A q \in 1..m : r[q] # Mark) =>
            i + m <= Len(s) + 1 /\ \A q \in 1..m : r[q] = s[i + q - 1]

\* Nothing of what becomes of a stream is the secret.
LEMMA SecretsAreMarked ==
    ASSUME NEW C, Mark \notin C, NEW secret \in Seq(C) \ {<<>>}, NEW s \in Seq(C)
    PROVE  \A k \in Nat \ {0} : ~OccursAt(secret, Redacted(secret, s), k)
<1> DEFINE T == C \cup {Mark}
           R == Redaction(secret, s)
           n == Len(s) + 1
           S == {i \in 1..n : /\ Literally(s, R[i], i)
                              /\ \A k \in Nat \ {0} : ~OccursAt(secret, R[i], k)}
<1>1. Len(s) \in Nat /\ n \in Nat /\ Len(secret) \in Nat \ {0}
  BY LenProperties, EmptySeq
<1>2. \A i \in 1..n : R[i] \in Seq(T) /\ Len(R[i]) \in Nat /\ ScansAt(secret, s, R, i)
  BY Scanned, LenProperties
<1>3. secret \in Seq(T) /\ \A q \in 1..Len(secret) : secret[q] \in C /\ secret[q] # Mark
  BY SeqMonotonic, ElementOfSeq
<1> HIDE DEF R
<1>4. ASSUME NEW r \in Seq(T), NEW k \in Nat \ {0}
      PROVE  OccursAt(secret, r, k) <=>
               /\ k + Len(secret) <= Len(r) + 1
               /\ \A q \in 1..Len(secret) : r[k + q - 1] = secret[q]
  <2> HIDE DEF T
  <2>1. QED
    BY <1>3, Occurs
<1>5. ASSUME NEW i \in 1..n, \A j \in (i + 1)..n : j \in S
      PROVE  i \in S
  <2>1. CASE R[i] = <<>>
    <3>1. Len(R[i]) = 0
      BY <2>1
    <3>2. Literally(s, R[i], i)
      BY <1>1, <3>1 DEF Literally
    <3>3. \A k \in Nat \ {0} : ~OccursAt(secret, R[i], k)
      <4> SUFFICES ASSUME NEW k \in Nat \ {0} PROVE ~OccursAt(secret, R[i], k)
        OBVIOUS
      <4>1. R[i] \in Seq(T) /\ ~(k + Len(secret) <= Len(R[i]) + 1)
        BY <1>1, <1>2, <3>1
      <4>2. QED
        BY <1>4, <4>1
    <3>4. QED
      BY <3>2, <3>3
  <2>2. ASSUME NEW r \in Seq(T), R[i] = <<Mark>> \o r,
               \A k \in Nat \ {0} : ~OccursAt(secret, r, k)
        PROVE  i \in S
    <3>1. Mark \in T /\ Len(r) \in Nat
      BY LenProperties
    <3>2. /\ R[i] \in Seq(T) /\ Len(R[i]) = Len(r) + 1 /\ R[i][1] = Mark
          /\ \A k \in 2..(Len(r) + 1) : R[i][k] = r[k - 1]
      BY <2>2, <3>1, Consed
    <3>3. Literally(s, R[i], i)
      <4> SUFFICES ASSUME NEW m \in 0..Len(R[i]), \A q \in 1..m : R[i][q] # Mark
                   PROVE  i + m <= Len(s) + 1 /\ \A q \in 1..m : R[i][q] = s[i + q - 1]
        BY DEF Literally
      <4>1. m \in Nat /\ (m # 0 => 1 \in 1..m)
        BY <3>1, <3>2
      <4>2. m = 0
        BY <3>2, <4>1
      <4>3. QED
        BY <1>1, <4>2
    <3>4. ASSUME NEW k \in Nat \ {0} PROVE ~OccursAt(secret, R[i], k)
      <4>1. SUFFICES ASSUME k + Len(secret) <= Len(R[i]) + 1,
                            \A q \in 1..Len(secret) : R[i][k + q - 1] = secret[q]
                     PROVE  FALSE
        BY <1>4, <3>2
      <4>2. CASE k = 1
        <5>1. 1 \in 1..Len(secret) /\ R[i][k + 1 - 1] = Mark
          BY <1>1, <3>2, <4>2
        <5>2. QED
          BY <1>3, <4>1, <5>1
      <4>3. CASE k # 1
        <5>1. k - 1 \in Nat \ {0} /\ (k - 1) + Len(secret) <= Len(r) + 1
          BY <1>1, <3>1, <3>2, <4>1, <4>3
        <5>2. ASSUME NEW q \in 1..Len(secret) PROVE r[(k - 1) + q - 1] = secret[q]
          <6>1. k + q - 1 \in 2..(Len(r) + 1) /\ (k + q - 1) - 1 = (k - 1) + q - 1
            BY <1>1, <3>1, <5>1
          <6>2. QED
            BY <3>2, <4>1, <6>1
        <5>3. OccursAt(secret, r, k - 1)
          BY <1>4, <5>1, <5>2
        <5>4. QED
          BY <2>2, <5>1, <5>3
      <4>4. QED
        BY <4>2, <4>3
    <3>5. QED
      BY <3>3, <3>4
  <2>3. CASE i <= Len(s) /\ OccursAt(secret, s, i)
    <3> DEFINE m == i + Len(secret)
    <3>1. m \in (i + 1)..n /\ R[i] = <<Mark>> \o R[m]
      BY <1>2, <2>3 DEF ScansAt
    <3>2. m \in 1..n /\ m \in S
      <4>1. m \in 1..n
        BY <1>1, <3>1
      <4> HIDE DEF S, m
      <4>2. QED
        BY <1>5, <3>1, <4>1
    <3>3. R[m] \in Seq(T) /\ \A k \in Nat \ {0} : ~OccursAt(secret, R[m], k)
      BY <1>2, <3>2
    <3> HIDE DEF S, m
    <3>4. QED
      BY <2>2, <3>1, <3>3
  <2>4. CASE i <= Len(s) /\ ~OccursAt(secret, s, i) /\ Begins(secret, s, i)
    <3>1. R[i] = <<Mark>>
      BY <1>2, <2>4 DEF ScansAt
    <3>2. <<Mark>> = <<Mark>> \o <<>> /\ <<>> \in Seq(T) /\ Len(<<>>) = 0
      OBVIOUS
    <3>3. \A k \in Nat \ {0} : ~OccursAt(secret, <<>>, k)
      <4> SUFFICES ASSUME NEW k \in Nat \ {0} PROVE ~OccursAt(secret, <<>>, k)
        OBVIOUS
      <4>1. ~(k + Len(secret) <= Len(<<>>) + 1)
        BY <1>1, <3>2
      <4>2. QED
        BY <1>4, <3>2, <4>1
    <3> HIDE DEF S
    <3>4. QED
      BY <2>2, <3>1, <3>2, <3>3
  <2>5. CASE i <= Len(s) /\ ~Begins(secret, s, i)
    <3> DEFINE r == R[i + 1]
    <3>1. i + 1 \in (i + 1)..n /\ i + 1 \in 1..n
      BY <1>1, <2>5
    <3>2. i + 1 \in S
      <4> HIDE DEF S
      <4>1. QED
        BY <1>5, <3>1
    <3>3. /\ r \in Seq(T) /\ Len(r) \in Nat
          /\ Literally(s, r, i + 1)
          /\ \A k \in Nat \ {0} : ~OccursAt(secret, r, k)
      BY <1>2, <3>1, <3>2
    <3>4. R[i] = <<s[i]>> \o r
      BY <1>2, <2>5 DEF ScansAt
    <3> HIDE DEF r
    <3>5. s[i] \in T
      BY <1>1, <2>5, ElementOfSeq
    <3>6. /\ R[i] \in Seq(T) /\ Len(R[i]) = Len(r) + 1 /\ R[i][1] = s[i]
          /\ \A k \in 2..(Len(r) + 1) : R[i][k] = r[k - 1]
      BY <3>3, <3>4, <3>5, Consed
    <3>7. Literally(s, R[i], i)
      <4> SUFFICES ASSUME NEW m \in 0..Len(R[i]), \A q \in 1..m : R[i][q] # Mark
                   PROVE  i + m <= Len(s) + 1 /\ \A q \in 1..m : R[i][q] = s[i + q - 1]
        BY DEF Literally
      <4>1. CASE m = 0
        BY <1>1, <4>1
      <4>2. CASE m # 0
        <5>1. m - 1 \in 0..Len(r)
          BY <3>3, <3>6, <4>2
        <5>2. ASSUME NEW q \in 1..(m - 1) PROVE r[q] # Mark
          <6>1. q + 1 \in 2..(Len(r) + 1) /\ q + 1 \in 1..m /\ (q + 1) - 1 = q
            BY <3>3, <3>6, <5>1
          <6>2. R[i][q + 1] = r[q]
            BY <3>6, <6>1
          <6>3. QED
            BY <6>1, <6>2
        <5>3. /\ (i + 1) + (m - 1) <= Len(s) + 1
              /\ \A q \in 1..(m - 1) : r[q] = s[(i + 1) + q - 1]
          BY <3>3, <5>1, <5>2 DEF Literally
        <5>4. ASSUME NEW q \in 1..m PROVE R[i][q] = s[i + q - 1]
          <6>1. CASE q = 1
            BY <1>1, <3>6, <6>1
          <6>2. CASE q # 1
            <7>1. /\ q \in 2..(Len(r) + 1) /\ q - 1 \in 1..(m - 1)
                  /\ (i + 1) + (q - 1) - 1 = i + q - 1
              BY <1>1, <3>3, <3>6, <5>1, <6>2
            <7>2. QED
              BY <3>6, <5>3, <7>1
          <6>3. QED
            BY <6>1, <6>2
        <5>5. i + m <= Len(s) + 1
          BY <1>1, <3>3, <5>1, <5>3
        <5>6. QED
          BY <5>4, <5>5
      <4>3. QED
        BY <4>1, <4>2
    <3>8. ASSUME NEW k \in Nat \ {0} PROVE ~OccursAt(secret, R[i], k)
      <4>1. SUFFICES ASSUME k + Len(secret) <= Len(R[i]) + 1,
                            \A q \in 1..Len(secret) : R[i][k + q - 1] = secret[q]
                     PROVE  FALSE
        BY <1>4, <3>6
      <4>2. CASE k = 1
        <5>1. Len(secret) \in 0..Len(R[i])
          BY <1>1, <3>3, <3>6, <4>1, <4>2
        <5>2. \A q \in 1..Len(secret) : R[i][q] = secret[q] /\ R[i][q] # Mark
          BY <1>1, <1>3, <4>1, <4>2
        <5>3. \A q \in 1..Len(secret) : s[i + q - 1] = secret[q]
          BY <3>7, <5>1, <5>2 DEF Literally
        <5>4. QED
          BY <2>5, <5>3 DEF Begins
      <4>3. CASE k # 1
        <5>1. k - 1 \in Nat \ {0} /\ (k - 1) + Len(secret) <= Len(r) + 1
          BY <1>1, <3>3, <3>6, <4>1, <4>3
        <5>2. ASSUME NEW q \in 1..Len(secret) PROVE r[(k - 1) + q - 1] = secret[q]
          <6>1. k + q - 1 \in 2..(Len(r) + 1) /\ (k + q - 1) - 1 = (k - 1) + q - 1
            BY <1>1, <3>3, <5>1
          <6>2. QED
            BY <3>6, <4>1, <6>1
        <5>3. OccursAt(secret, r, k - 1)
          BY <1>4, <3>3, <5>1, <5>2
        <5>4. QED
          BY <3>3, <5>1, <5>3
      <4>4. QED
        BY <4>2, <4>3
    <3>9. QED
      BY <3>7, <3>8
  <2>6. CASE i > Len(s)
    <3>1. R[i] = <<>>
      BY <1>2, <2>6 DEF ScansAt
    <3>2. QED
      BY <2>1, <3>1
  <2>7. QED
    BY <1>1, <2>3, <2>4, <2>5, <2>6
<1>6. 1 \in S
  <2>1. 1 \in 1..n
    BY <1>1
  <2> HIDE DEF S
  <2>2. QED
    BY <1>1, <1>5, <2>1, Downward
<1>7. QED
  BY <1>6 DEF Redacted, R
-----------------------------------------------------------------------------
(* Prefixes *)

LEMMA PrefixOfConcat ==
    ASSUME NEW T, NEW a \in Seq(T), NEW b \in Seq(T)
    PROVE  IsPrefix(a, a \o b)
<1>1. /\ a \o b \in Seq(T) /\ Len(a \o b) = Len(a) + Len(b)
      /\ \A k \in 1..(Len(a) + Len(b)) : (a \o b)[k] = IF k <= Len(a) THEN a[k] ELSE b[k - Len(a)]
  BY ConcatProperties
<1>2. Len(a) \in Nat /\ Len(b) \in Nat
  BY LenProperties
<1> DEFINE c == a \o b
<1>3. Len(a) <= Len(c) /\ \A q \in 1..Len(a) : a[q] = c[q]
  BY <1>1, <1>2
<1>4. c \in Seq(T)
  BY <1>1
<1> HIDE DEF c
<1>5. IsPrefix(a, c)
  BY <1>3, <1>4, PrefixOf
<1>6. QED
  BY <1>5 DEF c

LEMMA PrefixTransitive ==
    ASSUME NEW T, NEW a \in Seq(T), NEW b \in Seq(T), NEW c \in Seq(T),
           IsPrefix(a, b), IsPrefix(b, c)
    PROVE  IsPrefix(a, c)
<1>1. Len(a) \in Nat /\ Len(b) \in Nat /\ Len(c) \in Nat
  BY LenProperties
<1>2. Len(a) <= Len(b) /\ \A q \in 1..Len(a) : a[q] = b[q]
  BY PrefixOf
<1>3. Len(b) <= Len(c) /\ \A q \in 1..Len(b) : b[q] = c[q]
  BY PrefixOf
<1>4. Len(a) <= Len(c) /\ \A q \in 1..Len(a) : a[q] = c[q]
  BY <1>1, <1>2, <1>3
<1>5. QED
  BY <1>4, PrefixOf

LEMMA PartOfConcat ==
    ASSUME NEW T, NEW a \in Seq(T), NEW b \in Seq(T), NEW n \in 0..Len(b)
    PROVE  /\ a \o SubSeq(b, 1, n) \in Seq(T)
           /\ IsPrefix(a \o SubSeq(b, 1, n), a \o b)
<1> DEFINE c == SubSeq(b, 1, n)
           d == SubSeq(b, n + 1, Len(b))
<1>1. Len(b) \in Nat /\ n \in Nat
  BY LenProperties
<1>2. c \in Seq(T)
  <2>1. \A k \in 1..n : b[k] \in T
    BY <1>1, ElementOfSeq
  <2>2. QED
    BY <1>1, <2>1, SubSeqProperties
<1>3. d \in Seq(T)
  BY <1>1, Suffix
<1>4. b = c \o d
  <2>1. c \o d = SubSeq(b, 1, Len(b))
    <3>1. /\ 1 \in 1..(Len(b) + 1) /\ n \in (1 - 1)..Len(b) /\ Len(b) \in n..Len(b)
      BY <1>1
    <3>2. QED
      BY <3>1, ConcatAdjacentSubSeq
  <2>2. QED
    BY <2>1, SubSeqFull
<1> HIDE DEF c, d
<1> DEFINE e == a \o c
<1>5. e \in Seq(T)
  BY <1>2, ConcatProperties
<1>6. e \o d = a \o b
  <2>1. (a \o c) \o d = a \o (c \o d)
    <3>1. a \in Seq(T) /\ c \in Seq(T) /\ d \in Seq(T)
      BY <1>2, <1>3
    <3> HIDE DEF e
    <3>2. Associates(a, c, d)
      BY <3>1, Association
    <3>3. QED
      BY <3>2 DEF Associates
  <2>2. QED
    BY <1>4, <2>1
<1> HIDE DEF e
<1>7. IsPrefix(e, e \o d)
  BY <1>3, <1>5, PrefixOfConcat
<1>8. QED
  BY <1>5, <1>6, <1>7 DEF e, c
-----------------------------------------------------------------------------
(* Types *)

LEMMA Secrets == TypeOK => runner.secret \in Seq(Char) \ {<<>>}
BY ConstantsAssumption DEF TypeOK

\* Forward: some of text follows, and all of it unless the destination fails.
LEMMA Forwarded ==
    ASSUME NEW text \in Seq(Char \cup {Mark}), out \in Seq(Char \cup {Mark}), broken \in BOOLEAN,
           Forward(text)
    PROVE  /\ out' \in Seq(Char \cup {Mark}) /\ broken' \in BOOLEAN
           /\ IsPrefix(out', out \o text)
           /\ ~broken' => ~broken /\ out' = out \o text
           /\ broken => out' = out
<1> DEFINE T == Char \cup {Mark}
<1>1. Len(text) \in Nat /\ out \o text \in Seq(T)
  BY LenProperties, ConcatProperties
<1>2. CASE ~broken /\ out' = out \o text /\ UNCHANGED broken
  <2>1. text = SubSeq(text, 1, Len(text)) /\ Len(text) \in 0..Len(text)
    BY <1>1, SubSeqFull
  <2>2. IsPrefix(out \o SubSeq(text, 1, Len(text)), out \o text)
    <3> HIDE DEF T
    <3>1. QED
      BY <2>1, PartOfConcat
  <2>3. QED
    BY <1>1, <1>2, <2>1, <2>2
<1>3. ASSUME text # <<>>, broken' = TRUE,
             NEW n \in 0..(IF broken THEN 0 ELSE Len(text) - 1),
             out' = out \o SubSeq(text, 1, n)
      PROVE  /\ out' \in Seq(T) /\ broken' \in BOOLEAN
             /\ IsPrefix(out', out \o text)
             /\ broken => out' = out
  <2>1. Len(text) >= 1
    BY <1>1, <1>3, EmptySeq
  <2>2. n \in 0..Len(text) /\ n \in Nat
    BY <1>1, <2>1
  <2>3. out' \in Seq(T) /\ IsPrefix(out', out \o text)
    <3> HIDE DEF T
    <3>1. QED
      BY <1>3, <2>2, PartOfConcat DEF T
  <2>4. broken => out' = out
    <3>1. broken => SubSeq(text, 1, n) = <<>>
      BY SubSeqEmpty
    <3>2. QED
      BY <1>3, <3>1, ConcatEmptySeq
  <2>5. QED
    BY <1>3, <2>3, <2>4
<1>4. QED
  BY <1>2, <1>3 DEF Forward
RunnerPc == {"none", "prepare", "auth", "start", "running", "flushing", "ended"}
RunnerState == [pc : RunnerPc, secret : {Token, ProxySecret}, copying : BOOLEAN,
                code : Exit \cup {None, Killed}]

\* n is r with these fields.
IsRunner(n, pc, secret, copying, code) ==
    /\ n \in RunnerState
    /\ n.pc = pc /\ n.secret = secret /\ n.copying = copying /\ n.code = code

LEMMA RunnerUpdates ==
    ASSUME NEW r \in RunnerState
    PROVE  /\ \A pc \in RunnerPc, code \in Exit \cup {None, Killed} :
                 IsRunner([r EXCEPT !.pc = pc, !.code = code], pc, r.secret, r.copying, code)
           /\ \A pc \in RunnerPc, secret \in {Token, ProxySecret} :
                 IsRunner([r EXCEPT !.pc = pc, !.secret = secret], pc, secret, r.copying, r.code)
           /\ \A pc \in RunnerPc :
                 IsRunner([r EXCEPT !.pc = pc], pc, r.secret, r.copying, r.code)
           /\ \A copying \in BOOLEAN :
                 IsRunner([r EXCEPT !.copying = copying], r.pc, r.secret, copying, r.code)
<1>1. ASSUME NEW pc \in RunnerPc, NEW code \in Exit \cup {None, Killed}
      PROVE  IsRunner([r EXCEPT !.pc = pc, !.code = code], pc, r.secret, r.copying, code)
  BY DEF IsRunner, RunnerState
<1>2. ASSUME NEW pc \in RunnerPc, NEW secret \in {Token, ProxySecret}
      PROVE  IsRunner([r EXCEPT !.pc = pc, !.secret = secret], pc, secret, r.copying, r.code)
  BY DEF IsRunner, RunnerState
<1>3. ASSUME NEW pc \in RunnerPc
      PROVE  IsRunner([r EXCEPT !.pc = pc], pc, r.secret, r.copying, r.code)
  BY DEF IsRunner, RunnerState
<1>4. ASSUME NEW copying \in BOOLEAN
      PROVE  IsRunner([r EXCEPT !.copying = copying], r.pc, r.secret, copying, r.code)
  BY DEF IsRunner, RunnerState
<1>5. QED
  BY <1>1, <1>2, <1>3, <1>4

\* One chunk, as the runner copies it.
LEMMA Copied ==
    ASSUME TypeOK, NEW n \in (copied + 1)..Len(written)
    PROVE  LET text == pending \o SubSeq(written, copied + 1, n)
               d    == Drained(runner.secret, text, FALSE)
           IN  /\ SubSeq(written, copied + 1, n) \in Seq(Char)
               /\ text \in Seq(Char) /\ d \in Drain(Char)
               /\ d.out \in Seq(Char \cup {Mark}) /\ d.kept \in Seq(Char)
<1> DEFINE chunk == SubSeq(written, copied + 1, n)
           text == pending \o chunk
<1>1. /\ written \in Seq(Char) /\ pending \in Seq(Char) /\ copied \in 0..Len(written)
      /\ runner.secret \in Seq(Char) \ {<<>>} /\ Len(written) \in Nat
  BY Secrets, LenProperties DEF TypeOK
<1>2. chunk \in Seq(Char)
  <2>1. \A k \in (copied + 1)..n : written[k] \in Char
    BY <1>1, ElementOfSeq
  <2>2. copied + 1 \in Int /\ n \in Int
    BY <1>1
  <2>3. QED
    BY <2>1, <2>2, SubSeqProperties
<1>3. text \in Seq(Char)
  BY <1>1, <1>2, ConcatProperties
<1>4. Drained(runner.secret, text, FALSE) \in Drain(Char)
  <2> HIDE DEF text
  <2>1. <<>> \in Seq(Char)
    OBVIOUS
  <2>2. QED
    BY <1>1, <1>3, <2>1, Chunk
<1>5. QED
  BY <1>2, <1>3, <1>4 DEF Drain

LEMMA FlushedType ==
    ASSUME TypeOK
    PROVE  LET d == Drained(runner.secret, pending, TRUE) IN
           d \in Drain(Char) /\ d.out \in Seq(Char \cup {Mark})
<1>1. pending \in Seq(Char) /\ runner.secret \in Seq(Char) \ {<<>>}
  BY Secrets DEF TypeOK
<1>2. 1 \in 1..(Len(pending) + 1)
  BY <1>1, LenProperties
<1>3. Drained(runner.secret, pending, TRUE) \in Drain(Char)
  BY <1>1, <1>2, Turned DEF Drained
<1>4. QED
  BY <1>3 DEF Drain

\* What the steps make of the runner.
RunnerIs(pc, secret, copying, code) == IsRunner(runner', pc, secret, copying, code)
Moved(pc) == RunnerIs(pc, runner.secret, runner.copying, runner.code)
Ended(code) == RunnerIs("ended", runner.secret, runner.copying, code)

LEMMA RunnerTyped == TypeOK <=>
    /\ delegate \in [pc : {"starting", "waiting", "killing", "returned"}, code : Exit \cup {None}]
    /\ runner \in RunnerState
    /\ client \in Exit \cup {None, Killed}
    /\ alive \subseteq Process
    /\ stray \in Stray
    /\ fed \in BOOLEAN
    /\ written \in Seq(Char) /\ Len(written) <= MaxOutput
    /\ copied \in 0..Len(written)
    /\ pending \in Seq(Char)
    /\ out \in Seq(Char \cup {Mark})
    /\ broken \in BOOLEAN
BY DEF TypeOK, RunnerState, RunnerPc

LEMMA RunnerEffects ==
    ASSUME TypeOK
    PROVE  /\ \A code \in Exit \cup {None, Killed} :
                 Ends(code) => Ended(code) /\ alive' = alive \ {"runner"}
           /\ Prepare =>
                 \/ /\ \E secret \in {Token, ProxySecret} :
                          RunnerIs("auth", secret, runner.copying, runner.code)
                    /\ alive' = alive \cup {"probe"}
                 \/ Ended(1) /\ alive' = alive \ {"runner"}
           /\ ProbeEnds =>
                 \/ Moved("start") /\ alive' = alive \ {"probe"}
                 \/ Ended(1) /\ alive' = alive \ {"probe", "runner"}
           /\ StartClient =>
                 \/ Moved("running") /\ alive' = alive \cup {"client"}
                 \/ Ended(1) /\ alive' = alive \ {"runner"}
           /\ Copy /\ broken' \in BOOLEAN =>
                 RunnerIs(runner.pc, runner.secret, ~broken', runner.code)
           /\ Wait => Moved("flushing")
           /\ Start => \/ Moved("prepare") /\ alive' = {"runner"}
                       \/ UNCHANGED <<runner, alive>>
           /\ Kill => /\ alive' = alive \ Group
                      /\ "runner" \in alive => Ended(Killed)
                      /\ "runner" \notin alive => runner' = runner
<1> USE DEF RunnerIs, Moved, Ended
<1>1. runner \in RunnerState
  BY RunnerTyped
<1>2. Killed \in Exit \cup {None, Killed} /\ 1 \in Exit \cup {None, Killed}
  BY DEF Exit
<1>3. "auth" \in RunnerPc /\ "start" \in RunnerPc /\ "running" \in RunnerPc
      /\ "flushing" \in RunnerPc /\ "ended" \in RunnerPc /\ "prepare" \in RunnerPc
  BY DEF RunnerPc
<1>4. ASSUME NEW code \in Exit \cup {None, Killed}, Ends(code)
      PROVE  Ended(code) /\ alive' = alive \ {"runner"}
  BY <1>1, <1>3, <1>4, RunnerUpdates DEF Ends
<1>5. Prepare =>
         \/ /\ \E secret \in {Token, ProxySecret} :
                  RunnerIs("auth", secret, runner.copying, runner.code)
            /\ alive' = alive \cup {"probe"}
         \/ Ended(1) /\ alive' = alive \ {"runner"}
  <2>1. ASSUME NEW secret \in {Token, ProxySecret},
               runner' = [runner EXCEPT !.pc = "auth", !.secret = secret]
        PROVE  RunnerIs("auth", secret, runner.copying, runner.code)
    BY <1>1, <1>3, <2>1, RunnerUpdates
  <2>2. Ends(1) => Ended(1) /\ alive' = alive \ {"runner"}
    BY <1>2, <1>4
  <2>3. QED
    BY <2>1, <2>2 DEF Prepare
<1>6. ProbeEnds =>
         \/ Moved("start") /\ alive' = alive \ {"probe"}
         \/ Ended(1) /\ alive' = alive \ {"probe", "runner"}
  <2>1. ASSUME runner' = [runner EXCEPT !.pc = "start"] PROVE Moved("start")
    BY <1>1, <1>3, <2>1, RunnerUpdates
  <2>2. ASSUME runner' = [runner EXCEPT !.pc = "ended", !.code = 1] PROVE Ended(1)
    BY <1>1, <1>2, <1>3, <2>2, RunnerUpdates
  <2>3. QED
    BY <2>1, <2>2 DEF ProbeEnds
<1>7. StartClient =>
         \/ Moved("running") /\ alive' = alive \cup {"client"}
         \/ Ended(1) /\ alive' = alive \ {"runner"}
  <2>1. Ends(1) => Ended(1) /\ alive' = alive \ {"runner"}
    BY <1>2, <1>4
  <2>2. runner' = [runner EXCEPT !.pc = "running"] => Moved("running")
    BY <1>1, <1>3, RunnerUpdates
  <2>3. QED
    BY <2>1, <2>2 DEF StartClient
<1>8. Copy /\ broken' \in BOOLEAN =>
         RunnerIs(runner.pc, runner.secret, ~broken', runner.code)
  <2>1. ASSUME NEW c \in BOOLEAN, runner' = [runner EXCEPT !.copying = c]
        PROVE  RunnerIs(runner.pc, runner.secret, c, runner.code)
    BY <1>1, <2>1, RunnerUpdates
  <2>2. (~broken') \in BOOLEAN
    OBVIOUS
  <2>3. Copy => runner' = [runner EXCEPT !.copying = ~broken']
    BY DEF Copy
  <2>4. QED
    BY <2>1, <2>2, <2>3
<1>9. Wait => Moved("flushing")
  BY <1>1, <1>3, RunnerUpdates DEF Wait
<1>10. Start => \/ Moved("prepare") /\ alive' = {"runner"}
                \/ UNCHANGED <<runner, alive>>
  BY <1>1, <1>3, RunnerUpdates DEF Start
<1>11. Kill => /\ alive' = alive \ Group
               /\ "runner" \in alive => Ended(Killed)
               /\ "runner" \notin alive => runner' = runner
  BY <1>1, <1>2, <1>3, RunnerUpdates DEF Kill
<1>12. QED
  BY <1>4, <1>5, <1>6, <1>7, <1>8, <1>9, <1>10, <1>11

LEMMA TypeInit == Init => TypeOK
<1> SUFFICES ASSUME Init PROVE TypeOK
  OBVIOUS
<1>1. runner \in RunnerState
  BY DEF Init, RunnerState, RunnerPc
<1>2. delegate \in [pc : {"starting", "waiting", "killing", "returned"}, code : Exit \cup {None}]
  BY DEF Init
<1>3. written \in Seq(Char) /\ Len(written) <= MaxOutput /\ copied \in 0..Len(written)
      /\ pending \in Seq(Char) /\ out \in Seq(Char \cup {Mark})
  BY ConstantsAssumption, EmptySeq DEF Init
<1>4. client \in Exit \cup {None, Killed} /\ alive \subseteq Process /\ stray \in Stray
      /\ fed \in BOOLEAN /\ broken \in BOOLEAN
  BY DEF Init, Stray
<1>5. QED
  BY <1>1, <1>2, <1>3, <1>4, RunnerTyped

\* The same of the next state.
LEMMA RunnerTypedNext == TypeOK' <=>
    /\ delegate' \in [pc : {"starting", "waiting", "killing", "returned"}, code : Exit \cup {None}]
    /\ runner' \in RunnerState
    /\ client' \in Exit \cup {None, Killed}
    /\ alive' \subseteq Process
    /\ stray' \in Stray
    /\ fed' \in BOOLEAN
    /\ written' \in Seq(Char) /\ Len(written') <= MaxOutput
    /\ copied' \in 0..Len(written')
    /\ pending' \in Seq(Char)
    /\ out' \in Seq(Char \cup {Mark})
    /\ broken' \in BOOLEAN
BY DEF TypeOK, RunnerState, RunnerPc

LEMMA TypeStep == ASSUME TypeOK, [Next]_vars PROVE TypeOK'
<1> USE RunnerTyped, RunnerTypedNext
<1> USE DEF output, RunnerIs, IsRunner, Moved, Ended
<1>0. "runner" \in Process /\ "probe" \in Process /\ "client" \in Process /\ "stray" \in Process
  BY DEF Process
<1>1. CASE UNCHANGED vars
  BY <1>1 DEF vars
<1>2. CASE Prepare
  <2>1. alive' \subseteq Process /\ runner' \in RunnerState
    BY <1>0, <1>2, RunnerEffects
  <2>2. QED
    BY <1>2, <2>1 DEF Prepare
<1>3. CASE ProbeEnds
  <2>1. alive' \subseteq Process /\ runner' \in RunnerState
    BY <1>3, RunnerEffects
  <2>2. QED
    BY <1>3, <2>1 DEF ProbeEnds
<1>4. CASE StartClient
  <2>1. alive' \subseteq Process /\ runner' \in RunnerState
    BY <1>0, <1>4, RunnerEffects
  <2>2. QED
    BY <1>4, <2>1 DEF StartClient
<1>5. CASE Copy
  <2>1. PICK n \in (copied + 1)..Len(written) :
          LET text == pending \o SubSeq(written, copied + 1, n)
              d    == Drained(runner.secret, text, FALSE)
          IN Forward(d.out) /\ copied' = n /\ pending' = IF broken' THEN text ELSE d.kept
    BY <1>5 DEF Copy
  <2> DEFINE text == pending \o SubSeq(written, copied + 1, n)
             d == Drained(runner.secret, text, FALSE)
  <2>2. text \in Seq(Char) /\ d.out \in Seq(Char \cup {Mark}) /\ d.kept \in Seq(Char)
    BY Copied
  <2> HIDE DEF text, d
  <2>3. Forward(d.out) /\ copied' = n /\ pending' = IF broken' THEN text ELSE d.kept
    BY <2>1 DEF text, d
  <2>4. out' \in Seq(Char \cup {Mark}) /\ broken' \in BOOLEAN
    BY <2>2, <2>3, Forwarded
  <2>5. pending' \in Seq(Char)
    BY <2>2, <2>3
  <2>6. UNCHANGED <<delegate, client, alive, stray, fed, written>>
    BY <1>5 DEF Copy
  <2>7. copied' \in 0..Len(written')
    BY <2>3, <2>6, LenProperties
  <2>8. runner' \in RunnerState
    BY <1>5, <2>4, RunnerEffects
  <2>9. QED
    BY <2>4, <2>5, <2>6, <2>7, <2>8
<1>6. CASE Wait
  <2>1. runner' \in RunnerState
    BY <1>6, RunnerEffects
  <2>2. QED
    BY <1>6, <2>1 DEF Wait
<1>7. CASE Flush
  <2> DEFINE d == Drained(runner.secret, pending, TRUE)
  <2>1. d.out \in Seq(Char \cup {Mark})
    BY FlushedType
  <2> HIDE DEF d
  <2>2. Forward(d.out)
    BY <1>7 DEF Flush, d
  <2>3. out' \in Seq(Char \cup {Mark}) /\ broken' \in BOOLEAN
    BY <2>1, <2>2, Forwarded
  <2>4. /\ Ends(IF broken' THEN 1 ELSE ExitCode(client)) /\ pending' = <<>>
        /\ UNCHANGED <<delegate, client, stray, fed, written, copied>>
    BY <1>7 DEF Flush
  <2>5. (IF broken' THEN 1 ELSE ExitCode(client)) \in Exit \cup {None, Killed}
    BY DEF ExitCode, Exit, None, Killed
  <2>6. runner' \in RunnerState /\ alive' \subseteq Process
    BY <2>4, <2>5, RunnerEffects
  <2>7. pending' \in Seq(Char)
    BY <2>4
  <2>8. QED
    BY <2>3, <2>4, <2>6, <2>7
<1>8. CASE ReadTask
  BY <1>8 DEF ReadTask
<1>9. CASE Write
  <2>1. PICK c \in Char : written' = Append(written, c)
    BY <1>9 DEF Write
  <2>2. /\ Len(written) < MaxOutput /\ Len(written) \in Nat
        /\ UNCHANGED <<delegate, runner, client, alive, stray, fed, copied, pending, out, broken>>
    BY <1>9, LenProperties DEF Write
  <2>3. written' \in Seq(Char) /\ Len(written') = Len(written) + 1
    BY <2>1, AppendProperties
  <2>4. copied' \in 0..Len(written') /\ Len(written') <= MaxOutput
    BY <2>2, <2>3, ConstantsAssumption
  <2>5. QED
    BY <2>2, <2>3, <2>4
<1>10. CASE Fork
  BY <1>0, <1>10 DEF Fork
<1>11. CASE StrayEnds
  BY <1>11 DEF StrayEnds
<1>12. CASE ClientEnds
  <2>1. client' \in Exit \cup {None, Killed}
    BY <1>12 DEF ClientEnds, Exit
  <2>2. QED
    BY <1>12, <2>1 DEF ClientEnds
<1>13. CASE RunnerDies
  <2>1. runner' \in RunnerState /\ alive' \subseteq Process
    BY <1>13, RunnerEffects DEF RunnerDies
  <2>2. QED
    BY <1>13, <2>1 DEF RunnerDies
<1>14. CASE Start
  <2>1. runner' \in RunnerState /\ alive' \subseteq Process
    BY <1>0, <1>14, RunnerEffects
  <2>2. delegate' \in [pc : {"starting", "waiting", "killing", "returned"}, code : Exit \cup {None}]
    BY <1>14 DEF Start, Exit
  <2>3. QED
    BY <1>14, <2>1, <2>2 DEF Start
<1>15. ASSUME Kill
       PROVE  /\ alive' \subseteq Process /\ client' \in Exit \cup {None, Killed}
              /\ runner' \in RunnerState
  <2>1. client' \in Exit \cup {None, Killed}
    BY <1>15 DEF Kill
  <2>2. QED
    BY <1>15, <2>1, RunnerEffects
<1>16. CASE Done
  <2>1. Result \in Exit \cup {None}
    <3>1. runner.code \in Exit \cup {None, Killed}
      BY DEF RunnerState
    <3>2. QED
      BY <3>1 DEF Result, ExitCode, Exit, None, Killed
  <2>2. delegate' \in [pc : {"starting", "waiting", "killing", "returned"}, code : Exit \cup {None}]
    BY <1>16, <2>1 DEF Done
  <2>3. QED
    BY <1>15, <1>16, <2>2 DEF Done
<1>17. ASSUME NEW code \in Exit, Stop(code) PROVE TypeOK'
  <2>1. delegate' \in [pc : {"starting", "waiting", "killing", "returned"}, code : Exit \cup {None}]
    BY <1>17 DEF Stop
  <2>2. QED
    BY <1>15, <1>17, <2>1 DEF Stop
<1>18. CASE TimeOut \/ Cancel
  BY <1>17, <1>18 DEF TimeOut, Cancel, Exit
<1>19. CASE Return
  <2>1. delegate' \in [pc : {"starting", "waiting", "killing", "returned"}, code : Exit \cup {None}]
    BY <1>19 DEF Return
  <2>2. QED
    BY <1>15, <1>19, <2>1 DEF Return
<1>20. QED
  BY <1>1, <1>2, <1>3, <1>4, <1>5, <1>6, <1>7, <1>8, <1>9, <1>10, <1>11, <1>12, <1>13, <1>14,
     <1>16, <1>18, <1>19 DEF Next

\* The variables keep their types; the runner's buffer and what it forwards
\* are sequences, whatever the chunks are.
THEOREM TypeCorrect == Spec => []TypeOK
<1>1. TypeOK /\ [Next]_vars => TypeOK'
  BY TypeStep
<1>2. QED
  BY <1>1, TypeInit, PTL DEF Spec
-----------------------------------------------------------------------------
(* Who is there *)

LEMMA InGroup ==
    /\ Group = {x \in Process : x = "stray" => stray.group}
    /\ "runner" \in Group /\ "probe" \in Group /\ "client" \in Group
    /\ UNCHANGED stray => Group' = Group
BY DEF Group, Process

LEMMA ProcessStep == ASSUME TypeOK, ProcessInv, [Next]_vars PROVE ProcessInv'
<1> USE DEF output, RunnerIs, IsRunner, Moved, Ended
<1>1. /\ alive \subseteq Process
      /\ delegate.pc \in {"starting", "waiting", "killing", "returned"}
      /\ runner \in RunnerState
  BY RunnerTyped
<1>2. alive \cap {"runner", "probe", "client"} # {} => delegate.pc = "waiting"
  BY <1>1, InGroup DEF ProcessInv
<1>3. CASE UNCHANGED vars
  BY <1>3, InGroup DEF vars, ProcessInv
<1>4. CASE Prepare
  <2>1. UNCHANGED delegate /\ Runs("prepare")
    BY <1>4 DEF Prepare
  <2>2. \/ runner'.pc = "auth" /\ alive' = alive \cup {"probe"}
        \/ runner'.pc = "ended" /\ alive' = alive \ {"runner"}
    BY <1>4, RunnerEffects
  <2>3. QED
    BY <1>2, <2>1, <2>2 DEF Runs, ProcessInv
<1>5. CASE ProbeEnds
  <2>1. UNCHANGED delegate /\ Runs("auth")
    BY <1>5 DEF ProbeEnds
  <2>2. \/ runner'.pc = "start" /\ alive' = alive \ {"probe"}
        \/ runner'.pc = "ended" /\ alive' = alive \ {"probe", "runner"}
    BY <1>5, RunnerEffects
  <2>3. QED
    BY <1>2, <2>1, <2>2 DEF Runs, ProcessInv
<1>6. CASE StartClient
  <2>1. UNCHANGED delegate /\ Runs("start")
    BY <1>6 DEF StartClient
  <2>2. \/ runner'.pc = "running" /\ alive' = alive \cup {"client"}
        \/ runner'.pc = "ended" /\ alive' = alive \ {"runner"}
    BY <1>6, RunnerEffects
  <2>3. QED
    BY <1>2, <2>1, <2>2 DEF Runs, ProcessInv
<1>7. CASE Copy
  <2>1. UNCHANGED <<delegate, alive>> /\ Runs("running")
    BY <1>7 DEF Copy
  <2>2. runner'.pc = runner.pc
    <3>1. runner' = [runner EXCEPT !.copying = ~broken']
      BY <1>7 DEF Copy
    <3>2. QED
      BY <1>1, <3>1 DEF RunnerState
  <2>3. QED
    BY <1>2, <2>1, <2>2 DEF Runs, ProcessInv
<1>8. CASE Wait
  <2>1. UNCHANGED <<delegate, alive>> /\ Runs("running") /\ "client" \notin alive
    BY <1>8 DEF Wait
  <2>2. runner'.pc = "flushing"
    BY <1>8, RunnerEffects
  <2>3. QED
    BY <1>2, <2>1, <2>2 DEF Runs, ProcessInv
<1>9. CASE Flush
  <2>1. UNCHANGED delegate /\ Runs("flushing")
    BY <1>9 DEF Flush
  <2>2. runner'.pc = "ended" /\ alive' = alive \ {"runner"}
    <3>1. PICK code : Ends(code)
      BY <1>9 DEF Flush
    <3>2. QED
      BY <1>1, <3>1 DEF Ends, RunnerState
  <2>3. QED
    BY <1>2, <2>1, <2>2 DEF Runs, ProcessInv
<1>10. CASE ReadTask \/ Write
  <2>1. UNCHANGED <<delegate, runner, alive, stray>>
    BY <1>10 DEF ReadTask, Write
  <2>2. QED
    BY <2>1, InGroup DEF ProcessInv
<1>11. CASE Fork
  <2>1. UNCHANGED <<delegate, runner>> /\ alive' = alive \cup {"stray"}
        /\ delegate.pc = "waiting"
    BY <1>2, <1>11 DEF Fork
  <2>2. QED
    BY <2>1 DEF ProcessInv
<1>12. CASE StrayEnds \/ ClientEnds
  <2>1. UNCHANGED <<delegate, runner, stray>> /\ alive' \subseteq alive
        /\ ("runner" \in alive <=> "runner" \in alive')
    BY <1>12 DEF StrayEnds, ClientEnds
  <2>2. Group' = Group
    BY <2>1, InGroup
  <2>3. QED
    BY <2>1, <2>2 DEF ProcessInv
<1>13. CASE RunnerDies
  <2>1. UNCHANGED delegate /\ "runner" \in alive
    BY <1>13 DEF RunnerDies
  <2>2. runner'.pc = "ended" /\ alive' = alive \ {"runner"}
    BY <1>13, RunnerEffects DEF RunnerDies
  <2>3. QED
    BY <1>2, <2>1, <2>2 DEF ProcessInv
<1>14. CASE Start
  <2>1. alive = {} /\ runner.pc = "none" /\ delegate'.pc \in {"waiting", "returned"}
    BY <1>1, <1>14, RunnerTyped DEF Start, ProcessInv
  <2>2. \/ delegate'.pc = "waiting" /\ runner'.pc = "prepare" /\ alive' = {"runner"}
        \/ delegate'.pc = "returned" /\ UNCHANGED <<runner, alive>>
    <3>1. \/ delegate'.pc = "waiting" /\ runner' = [runner EXCEPT !.pc = "prepare"]
             /\ alive' = {"runner"}
          \/ delegate'.pc = "returned" /\ UNCHANGED <<runner, alive>>
      BY <1>14, RunnerTyped DEF Start
    <3>2. QED
      BY <1>1, <3>1 DEF RunnerState
  <2>3. QED
    BY <2>1, <2>2 DEF ProcessInv
<1>15. ASSUME Kill, UNCHANGED stray, delegate'.pc \in {"killing", "returned"}
       PROVE  ProcessInv'
  <2>1. alive' = alive \ Group /\ Group' = Group
    BY <1>15, InGroup, RunnerEffects
  <2>2. "runner" \notin alive' /\ "probe" \notin alive' /\ "client" \notin alive'
    BY <2>1, InGroup
  <2>3. runner'.pc \in {"none", "ended"}
    <3>1. CASE "runner" \in alive
      BY <1>15, <3>1, RunnerEffects
    <3>2. CASE "runner" \notin alive
      <4>1. runner' = runner
        BY <1>15, <3>2, RunnerEffects
      <4>2. QED
        BY <3>2, <4>1 DEF ProcessInv
    <3>3. QED
      BY <3>1, <3>2
  <2>4. QED
    BY <1>15, <2>1, <2>2, <2>3 DEF ProcessInv
<1>16. CASE Done
  BY <1>15, <1>16 DEF Done
<1>17. CASE TimeOut \/ Cancel
  <2>1. PICK code : Stop(code)
    BY <1>17 DEF TimeOut, Cancel
  <2>2. QED
    BY <1>15, <2>1 DEF Stop
<1>18. CASE Return
  <2>1. delegate'.pc = "returned"
    BY <1>18, RunnerTyped DEF Return
  <2>2. QED
    BY <1>15, <1>18, <2>1 DEF Return
<1>19. QED
  BY <1>3, <1>4, <1>5, <1>6, <1>7, <1>8, <1>9, <1>10, <1>11, <1>12, <1>13, <1>14, <1>16, <1>17,
     <1>18 DEF Next

-----------------------------------------------------------------------------
(* The pipe *)

LEMMA PipeStep ==
    ASSUME TypeOK, ProcessInv, PipeInv, [Next]_vars
    PROVE  PipeInv'
<1> USE DEF output, RunnerIs, IsRunner, Moved, Ended
<1>1. runner \in RunnerState /\ stray \in Stray /\ copied \in 0..Len(written)
  BY RunnerTyped
<1>2. CASE UNCHANGED vars
  BY <1>2 DEF vars, PipeInv, Open
<1>3. CASE Prepare
  <2>1. Runs("prepare") /\ UNCHANGED <<stray, output>>
    BY <1>3 DEF Prepare
  <2>2. runner'.pc \in {"auth", "ended"} /\ runner'.copying = runner.copying
    BY <1>3, RunnerEffects
  <2>3. QED
    BY <2>1, <2>2 DEF Runs, PipeInv
<1>4. CASE ProbeEnds
  <2>1. Runs("auth") /\ UNCHANGED <<stray, output>>
    BY <1>4 DEF ProbeEnds
  <2>2. runner'.pc \in {"start", "ended"} /\ runner'.copying = runner.copying
    BY <1>4, RunnerEffects
  <2>3. QED
    BY <2>1, <2>2 DEF Runs, PipeInv
<1>5. CASE StartClient
  <2>1. Runs("start") /\ UNCHANGED <<stray, output>>
    BY <1>5 DEF StartClient
  <2>2. runner'.pc \in {"running", "ended"} /\ runner'.copying = runner.copying
    BY <1>5, RunnerEffects
  <2>3. QED
    BY <2>1, <2>2 DEF Runs, PipeInv
<1>6. CASE Copy
  <2>1. Runs("running") /\ runner' = [runner EXCEPT !.copying = ~broken']
    BY <1>6 DEF Copy
  <2>2. runner'.pc = "running" /\ runner'.copying = ~broken'
    BY <1>1, <2>1 DEF RunnerState, Runs
  <2>3. QED
    BY <2>2 DEF PipeInv
<1>7. CASE Wait
  <2>1. /\ runner.pc = "running" /\ UNCHANGED <<alive, stray, output>>
        /\ runner.copying => ~Open /\ copied = Len(written)
    BY <1>7 DEF Wait, Runs
  <2>2. runner'.pc = "flushing" /\ runner'.copying = runner.copying
    BY <1>7, RunnerEffects
  <2>3. Open' <=> Open
    BY <2>1 DEF Open
  <2>4. QED
    BY <2>1, <2>2, <2>3 DEF PipeInv
<1>8. CASE Flush \/ RunnerDies
  <2>1. PICK code : Ends(code)
    BY <1>8 DEF Flush, RunnerDies
  <2>2. runner'.pc = "ended"
    BY <1>1, <2>1 DEF Ends, RunnerState
  <2>3. QED
    BY <2>2 DEF PipeInv
<1>9. CASE ReadTask
  BY <1>9 DEF ReadTask, PipeInv, Open
<1>10. CASE Write
  <2>1. Open /\ "runner" \in alive /\ runner.copying
        /\ UNCHANGED <<runner, alive, stray, copied, pending, out, broken>>
    BY <1>10 DEF Write
  <2>2. runner.pc # "ended" /\ ~broken
    BY <2>1 DEF ProcessInv, PipeInv
  <2>3. runner.pc \notin {"none", "prepare", "auth", "start", "flushing"}
    BY <2>1, <2>2 DEF ProcessInv, PipeInv, Open
  <2>4. QED
    BY <2>1, <2>2, <2>3 DEF PipeInv
<1>11. CASE Fork
  <2>1. /\ UNCHANGED <<runner, output>> /\ alive \cap {"probe", "client"} # {}
        /\ "probe" \in alive => ~stray'.pipe
    BY <1>11 DEF Fork
  <2>2. runner.pc \in {"auth", "running", "ended"} /\ ("probe" \notin alive => runner.pc # "auth")
    BY <2>1 DEF ProcessInv
  <2>3. QED
    BY <2>1, <2>2 DEF PipeInv
<1>12. CASE StrayEnds \/ ClientEnds
  <2>1. UNCHANGED <<runner, stray, output>> /\ alive' \subseteq alive
    BY <1>12 DEF StrayEnds, ClientEnds
  <2>2. Open' => Open
    BY <2>1 DEF Open
  <2>3. QED
    BY <2>1, <2>2 DEF PipeInv
<1>13. CASE Start
  <2>1. runner.pc = "none" /\ UNCHANGED <<stray, output>>
    BY <1>13 DEF Start, ProcessInv
  <2>2. runner'.pc \in {"none", "prepare"} /\ runner'.copying = runner.copying
    BY <1>13, <2>1, RunnerEffects
  <2>3. QED
    BY <2>1, <2>2 DEF PipeInv
<1>14. CASE Done \/ TimeOut \/ Cancel \/ Return
  <2>1. Kill /\ UNCHANGED <<stray, output>>
    BY <1>14 DEF Done, TimeOut, Cancel, Return, Stop
  <2>2. CASE "runner" \in alive
    <3>1. runner'.pc = "ended"
      BY <2>1, <2>2, RunnerEffects
    <3>2. QED
      BY <3>1 DEF PipeInv
  <2>3. CASE "runner" \notin alive
    <3>1. runner' = runner /\ runner.pc # "flushing"
      BY <2>1, <2>3, RunnerEffects DEF ProcessInv
    <3>2. QED
      BY <2>1, <3>1 DEF PipeInv
  <2>4. QED
    BY <2>2, <2>3
<1>15. QED
  BY <1>2, <1>3, <1>4, <1>5, <1>6, <1>7, <1>8, <1>9, <1>10, <1>11, <1>12, <1>13, <1>14 DEF Next
-----------------------------------------------------------------------------
(* The stream *)

LEMMA BoundedSequences ==
    ASSUME NEW k \in Nat, NEW C
    PROVE  SeqOf(C, k) = {s \in Seq(C) : Len(s) <= k}
<1>1. ASSUME NEW s \in SeqOf(C, k) PROVE s \in Seq(C) /\ Len(s) <= k
  <2>1. PICK m \in 0..k : s \in [1..m -> C]
    BY DEF SeqOf
  <2>2. s \in Seq(C)
    BY <2>1, SeqDef
  <2>3. 1..m = 1..Len(s) /\ Len(s) \in Nat
    BY <2>1, <2>2, LenProperties
  <2>4. Len(s) = m
    BY <2>3
  <2>5. QED
    BY <2>2, <2>4
<1>2. ASSUME NEW s \in Seq(C), Len(s) <= k PROVE s \in SeqOf(C, k)
  <2>1. Len(s) \in 0..k /\ s \in [1..Len(s) -> C]
    BY <1>2, LenProperties
  <2>2. QED
    BY <2>1 DEF SeqOf
<1>3. QED
  BY <1>1, <1>2

LEMMA StrictIsProper ==
    ASSUME NEW C, NEW p \in Seq(C), NEW secret \in Seq(C)
    PROVE  IsStrictPrefix(p, secret) <=> ProperPrefix(p, secret)
<1>1. Len(p) \in Nat /\ Len(secret) \in Nat
  BY LenProperties
<1>2. IsPrefix(p, secret) <=> Len(p) <= Len(secret) /\ \A q \in 1..Len(p) : p[q] = secret[q]
  BY PrefixOf
<1>3. Len(p) = Len(secret) /\ (\A q \in 1..Len(p) : p[q] = secret[q]) => p = secret
  BY SeqEqual
<1>4. QED
  BY <1>1, <1>2, <1>3 DEF IsStrictPrefix, ProperPrefix

\* w has been read up to c, o was forwarded of it and p is kept back.
Continues(secret, w, c, p, o, rest) ==
    Redacted(secret, SubSeq(w, 1, c) \o rest) = o \o Redacted(secret, p \o rest)
Streamed(secret, w, c, p, o) ==
    /\ IsStrictPrefix(p, secret)
    /\ \A rest \in SeqOf(Char, MaxOutput - c) : Continues(secret, w, c, p, o, rest)

LEMMA StreamInvIs ==
    StreamInv <=> (runner.pc # "ended" /\ ~broken =>
                       Streamed(runner.secret, written, copied, pending, out))
BY DEF StreamInv, Streamed, Continues

LEMMA StreamInvIsNext ==
    StreamInv' <=> (runner'.pc # "ended" /\ ~broken' =>
                        Streamed(runner'.secret, written', copied', pending', out'))
BY DEF StreamInv, Streamed, Continues

LEMMA Parts ==
    ASSUME NEW w \in Seq(Char), NEW c \in 0..Len(w), NEW n \in c..Len(w)
    PROVE  /\ SubSeq(w, 1, c) \in Seq(Char)
           /\ SubSeq(w, c + 1, n) \in Seq(Char)
           /\ Len(SubSeq(w, c + 1, n)) = n - c
           /\ SubSeq(w, 1, c) \o SubSeq(w, c + 1, n) = SubSeq(w, 1, n)
<1>1. Len(w) \in Nat
  BY LenProperties
<1>2. \A k \in 1..Len(w) : w[k] \in Char
  BY ElementOfSeq
<1>3. (\A k \in 1..c : w[k] \in Char) /\ (\A k \in (c + 1)..n : w[k] \in Char)
  BY <1>1, <1>2
<1>4. SubSeq(w, 1, c) \in Seq(Char)
  BY <1>1, <1>3, SubSeqProperties
<1>5. SubSeq(w, c + 1, n) \in Seq(Char) /\ Len(SubSeq(w, c + 1, n)) = n - c
  BY <1>1, <1>3, SubSeqProperties
<1>6. SubSeq(w, 1, c) \o SubSeq(w, c + 1, n) = SubSeq(w, 1, n)
  <2>1. 1 \in 1..(Len(w) + 1) /\ c \in (1 - 1)..Len(w) /\ n \in c..Len(w)
    BY <1>1
  <2>2. QED
    BY <2>1, ConcatAdjacentSubSeq
<1>7. QED
  BY <1>4, <1>5, <1>6

\* What was forwarded, and what is to come of what is not forwarded yet.
LEMMA StreamedWhole ==
    ASSUME NEW secret \in Seq(Char) \ {<<>>}, NEW w \in Seq(Char), Len(w) <= MaxOutput,
           NEW c \in 0..Len(w), NEW p \in Seq(Char), NEW o \in Seq(Char \cup {Mark}),
           Streamed(secret, w, c, p, o)
    PROVE  /\ Redacted(secret, w) = o \o Redacted(secret, p \o SubSeq(w, c + 1, Len(w)))
           /\ IsPrefix(o, Redacted(secret, w))
<1> DEFINE rest == SubSeq(w, c + 1, Len(w))
           T == Char \cup {Mark}
           y == Redacted(secret, p \o rest)
<1>1. Len(w) \in Nat /\ c \in Nat /\ MaxOutput - c \in Nat
  BY LenProperties, ConstantsAssumption
<1>2. rest \in Seq(Char) /\ Len(rest) = Len(w) - c /\ SubSeq(w, 1, c) \o rest = SubSeq(w, 1, Len(w))
  <2>1. Len(w) \in c..Len(w)
    BY <1>1
  <2>2. PICK n \in c..Len(w) : n = Len(w)
    BY <2>1
  <2>3. /\ SubSeq(w, c + 1, n) \in Seq(Char) /\ Len(SubSeq(w, c + 1, n)) = n - c
        /\ SubSeq(w, 1, c) \o SubSeq(w, c + 1, n) = SubSeq(w, 1, n)
    BY Parts
  <2>4. QED
    BY <2>2, <2>3
<1>3. SubSeq(w, 1, Len(w)) = w
  BY SubSeqFull
<1> HIDE DEF rest
<1>4. rest \in SeqOf(Char, MaxOutput - c)
  BY <1>1, <1>2, ConstantsAssumption, BoundedSequences
<1>5. Continues(secret, w, c, p, o, rest)
  BY <1>4 DEF Streamed
<1>6. Redacted(secret, w) = o \o y
  BY <1>2, <1>3, <1>5 DEF Continues
<1>7. p \o rest \in Seq(Char)
  BY <1>2, ConcatProperties
<1>8. y \in Seq(T)
  <2> DEFINE x == p \o rest
  <2>1. x \in Seq(Char)
    BY <1>7
  <2> HIDE DEF x
  <2>2. Redacted(secret, x) \in Seq(T)
    BY <2>1, RedactedType
  <2>3. QED
    BY <2>2 DEF x
<1>9. IsPrefix(o, o \o y)
  <2> HIDE DEF y
  <2>1. QED
    BY <1>8, PrefixOfConcat
<1>10. QED
  BY <1>6, <1>9 DEF rest

\* One more chunk.
LEMMA StreamedCopy ==
    ASSUME NEW secret \in Seq(Char) \ {<<>>}, NEW w \in Seq(Char), Len(w) <= MaxOutput,
           NEW c \in 0..Len(w), NEW p \in Seq(Char), NEW o \in Seq(Char \cup {Mark}),
           Streamed(secret, w, c, p, o), NEW n \in c..Len(w)
    PROVE  LET d == Drained(secret, p \o SubSeq(w, c + 1, n), FALSE) IN
           /\ Streamed(secret, w, n, d.kept, o \o d.out)
           /\ d \in Drain(Char)
<1> DEFINE chunk == SubSeq(w, c + 1, n)
           text == p \o chunk
           d == Drained(secret, text, FALSE)
           T == Char \cup {Mark}
           a == SubSeq(w, 1, c)
<1>1. /\ Len(w) \in Nat /\ c \in Nat /\ n \in Nat /\ MaxOutput \in Nat
      /\ MaxOutput - c \in Nat /\ MaxOutput - n \in Nat
  BY LenProperties, ConstantsAssumption
<1>2. /\ a \in Seq(Char) /\ chunk \in Seq(Char) /\ Len(chunk) = n - c
      /\ a \o chunk = SubSeq(w, 1, n)
  BY Parts
<1> HIDE DEF a, chunk
<1>3. text \in Seq(Char)
  BY <1>2, ConcatProperties
<1> HIDE DEF text
<1>4. ASSUME NEW rest \in Seq(Char)
      PROVE  /\ d \in Drain(Char) /\ ProperPrefix(d.kept, secret)
             /\ Settled(secret, text, d, rest)
  BY <1>3, Chunk
<1>5. d \in Drain(Char) /\ ProperPrefix(d.kept, secret) /\ d.out \in Seq(T) /\ d.kept \in Seq(Char)
  <2>1. <<>> \in Seq(Char)
    OBVIOUS
  <2>2. d \in Drain(Char) /\ ProperPrefix(d.kept, secret)
    BY <1>4, <2>1
  <2>3. QED
    BY <2>2 DEF Drain
<1>6. IsStrictPrefix(d.kept, secret)
  <2> HIDE DEF d
  <2>1. QED
    BY <1>5, StrictIsProper
<1>7. ASSUME NEW rest \in SeqOf(Char, MaxOutput - n)
      PROVE  Continues(secret, w, n, d.kept, o \o d.out, rest)
  <2>1. rest \in Seq(Char) /\ Len(rest) <= MaxOutput - n /\ Len(rest) \in Nat
    BY <1>1, BoundedSequences, LenProperties
  <2> DEFINE more == chunk \o rest
             y == Redacted(secret, d.kept \o rest)
  <2>2. more \in Seq(Char) /\ Len(more) = (n - c) + Len(rest)
    BY <1>2, <2>1, ConcatProperties
  <2>3. more \in SeqOf(Char, MaxOutput - c)
    <3> HIDE DEF more
    <3>1. Len(more) <= MaxOutput - c
      BY <1>1, <2>1, <2>2
    <3>2. QED
      BY <1>1, <2>2, <3>1, BoundedSequences
  <2>4. Continues(secret, w, c, p, o, more)
    BY <2>3 DEF Streamed
  <2>5. Redacted(secret, a \o more) = o \o Redacted(secret, p \o more)
    BY <2>4 DEF Continues, a
  <2>6. a \o more = SubSeq(w, 1, n) \o rest
    <3>1. Associates(a, chunk, rest)
      BY <1>2, <2>1, Association
    <3>2. QED
      BY <1>2, <3>1 DEF Associates
  <2>7. p \o more = text \o rest
    <3>1. Associates(p, chunk, rest)
      BY <1>2, <2>1, Association
    <3>2. QED
      BY <3>1 DEF Associates, text
  <2>8. Redacted(secret, text \o rest) = d.out \o y
    BY <1>4, <2>1 DEF Settled
  <2>9. y \in Seq(T)
    <3> DEFINE x == d.kept \o rest
    <3>1. x \in Seq(Char)
      <4> HIDE DEF d
      <4>1. QED
        BY <1>5, <2>1, ConcatProperties
    <3> HIDE DEF x
    <3>2. Redacted(secret, x) \in Seq(T)
      BY <3>1, RedactedType
    <3>3. QED
      BY <3>2 DEF x
  <2>10. (o \o d.out) \o y = o \o (d.out \o y)
    <3>1. Associates(o, d.out, y)
      <4> HIDE DEF d, y
      <4>1. QED
        BY <1>5, <2>9, Association
    <3>2. QED
      BY <3>1 DEF Associates
  <2>11. Redacted(secret, SubSeq(w, 1, n) \o rest) = (o \o d.out) \o y
    BY <2>5, <2>6, <2>7, <2>8, <2>10
  <2>12. QED
    BY <2>11 DEF Continues
<1>8. QED
  BY <1>5, <1>6, <1>7 DEF Streamed, text, chunk

\* One more character is written.
LEMMA StreamedWrite ==
    ASSUME NEW secret, NEW w \in Seq(Char), NEW c \in 0..Len(w), NEW p, NEW o, NEW x \in Char,
           Streamed(secret, w, c, p, o)
    PROVE  Streamed(secret, Append(w, x), c, p, o)
<1>1. SubSeq(Append(w, x), 1, c) = SubSeq(w, 1, c)
  <2> DEFINE v == Append(w, x)
             a == SubSeq(v, 1, c)
             b == SubSeq(w, 1, c)
  <2>1. v \in Seq(Char) /\ Len(w) \in Nat /\ \A i \in 1..Len(w) : v[i] = w[i]
    BY AppendProperties, LenProperties
  <2>2. \A i \in 1..c : v[i] = w[i] /\ w[i] \in Char
    BY <2>1, ElementOfSeq
  <2>3. c \in Int /\ 1 \in Int /\ (c - 1 + 1 = c)
    BY <2>1
  <2> HIDE DEF v
  <2>4. /\ a \in Seq(Char) /\ Len(a) = (IF 1 <= c THEN c - 1 + 1 ELSE 0)
        /\ \A i \in 1..(c - 1 + 1) : a[i] = v[1 + i - 1]
    BY <2>2, <2>3, SubSeqProperties
  <2>5. /\ b \in Seq(Char) /\ Len(b) = (IF 1 <= c THEN c - 1 + 1 ELSE 0)
        /\ \A i \in 1..(c - 1 + 1) : b[i] = w[1 + i - 1]
    BY <2>2, <2>3, SubSeqProperties
  <2> HIDE DEF a, b
  <2>6. Len(a) = Len(b) /\ \A i \in 1..Len(a) : a[i] = b[i]
    BY <2>1, <2>2, <2>3, <2>4, <2>5
  <2>7. a = b
    BY <2>4, <2>5, <2>6, SeqEqual
  <2>8. QED
    BY <2>7 DEF a, b, v
<1>2. QED
  BY <1>1 DEF Streamed, Continues

\* Nothing is written yet.
LEMMA StreamedStart ==
    ASSUME NEW secret \in Seq(Char) \ {<<>>}
    PROVE  Streamed(secret, <<>>, 0, <<>>, <<>>)
<1>1. <<>> \in Seq(Char) /\ Len(<<>>) = 0 /\ Len(secret) \in Nat \ {0}
  BY EmptySeq
<1>2. IsStrictPrefix(<<>>, secret)
  <2>1. ProperPrefix(<<>>, secret)
    BY <1>1 DEF ProperPrefix
  <2>2. QED
    BY <1>1, <2>1, StrictIsProper
<1>3. ASSUME NEW rest \in SeqOf(Char, MaxOutput - 0)
      PROVE  Continues(secret, <<>>, 0, <<>>, <<>>, rest)
  <2>1. rest \in Seq(Char)
    BY ConstantsAssumption, BoundedSequences
  <2>2. SubSeq(<<>>, 1, 0) = <<>> /\ <<>> \o rest = rest
    BY <2>1, SubSeqEmpty, ConcatEmptySeq
  <2>3. <<>> \o Redacted(secret, rest) = Redacted(secret, rest)
    <3>1. Redacted(secret, rest) \in Seq(Char \cup {Mark})
      BY <2>1, RedactedType
    <3>2. QED
      BY <3>1, ConcatEmptySeq
  <2>4. QED
    BY <2>2, <2>3 DEF Continues
<1>4. QED
  BY <1>2, <1>3 DEF Streamed

\* All is read: the flush forwards what is left to redact.
LEMMA StreamedFlush ==
    ASSUME NEW secret \in Seq(Char) \ {<<>>}, NEW w \in Seq(Char), Len(w) <= MaxOutput,
           NEW p \in Seq(Char), NEW o \in Seq(Char \cup {Mark}),
           Streamed(secret, w, Len(w), p, o)
    PROVE  Redacted(secret, w) = o \o Drained(secret, p, TRUE).out
<1>1. Len(w) \in 0..Len(w) /\ Len(w) \in Nat
  BY LenProperties
<1>2. Redacted(secret, w) = o \o Redacted(secret, p \o SubSeq(w, Len(w) + 1, Len(w)))
  <2>1. PICK c \in 0..Len(w) : c = Len(w)
    BY <1>1
  <2>2. Streamed(secret, w, c, p, o)
    BY <2>1
  <2>3. Redacted(secret, w) = o \o Redacted(secret, p \o SubSeq(w, c + 1, Len(w)))
    BY <2>2, StreamedWhole
  <2>4. QED
    BY <2>1, <2>3
<1>3. SubSeq(w, Len(w) + 1, Len(w)) = <<>>
  BY <1>1, SubSeqEmpty
<1>4. p \o <<>> = p
  BY ConcatEmptySeq
<1>5. ProperPrefix(p, secret)
  BY StrictIsProper DEF Streamed
<1>6. Drained(secret, p, TRUE).out = Redacted(secret, p)
  BY <1>5, Flushed
<1>7. QED
  BY <1>2, <1>3, <1>4, <1>6
-----------------------------------------------------------------------------
(* What is forwarded *)

LEMMA StreamStep ==
    ASSUME TypeOK, TypeOK', ProcessInv, PipeInv, StreamInv, [Next]_vars
    PROVE  StreamInv'
<1> USE DEF output, RunnerIs, IsRunner, Moved, Ended
<1>1. /\ runner \in RunnerState /\ runner.secret \in Seq(Char) \ {<<>>}
      /\ written \in Seq(Char) /\ Len(written) <= MaxOutput /\ copied \in 0..Len(written)
      /\ pending \in Seq(Char) /\ out \in Seq(Char \cup {Mark}) /\ Len(written) \in Nat
      /\ copied \in Nat
  BY RunnerTyped, Secrets, LenProperties
\* Nothing that matters to the stream happens.
<1>2. ASSUME UNCHANGED output, runner'.secret = runner.secret,
             runner'.pc = "ended" \/ runner.pc # "ended"
      PROVE  StreamInv'
  BY <1>2, StreamInvIs, StreamInvIsNext
<1>3. ASSUME runner'.pc = "ended" PROVE StreamInv'
  BY <1>3, StreamInvIsNext
<1>4. CASE UNCHANGED vars
  BY <1>4, StreamInvIs, StreamInvIsNext DEF vars
<1>5. CASE Prepare
  <2>1. Runs("prepare") /\ UNCHANGED output
    BY <1>5 DEF Prepare
  <2>2. written' = <<>> /\ pending' = <<>> /\ out' = <<>>
    BY <2>1 DEF Runs, PipeInv
  <2>3. copied' = 0
    BY <2>1, <2>2, <1>1, EmptySeq
  <2>4. runner'.secret \in Seq(Char) \ {<<>>}
    <3>1. runner'.secret \in {Token, ProxySecret}
      BY RunnerTypedNext DEF RunnerState
    <3>2. QED
      BY <3>1, ConstantsAssumption
  <2>5. Streamed(runner'.secret, <<>>, 0, <<>>, <<>>)
    BY <2>4, StreamedStart
  <2>6. QED
    BY <2>2, <2>3, <2>5, StreamInvIsNext
<1>6. CASE ProbeEnds
  <2>1. Runs("auth") /\ UNCHANGED output
    BY <1>6 DEF ProbeEnds
  <2>2. runner'.secret = runner.secret
    BY <1>6, RunnerEffects
  <2>3. QED
    BY <1>2, <2>1, <2>2 DEF Runs
<1>7. CASE StartClient
  <2>1. Runs("start") /\ UNCHANGED output
    BY <1>7 DEF StartClient
  <2>2. runner'.secret = runner.secret
    BY <1>7, RunnerEffects
  <2>3. QED
    BY <1>2, <2>1, <2>2 DEF Runs
<1>8. CASE Copy
  <2>1. PICK n \in (copied + 1)..Len(written) :
          LET text == pending \o SubSeq(written, copied + 1, n)
              d    == Drained(runner.secret, text, FALSE)
          IN Forward(d.out) /\ copied' = n /\ pending' = IF broken' THEN text ELSE d.kept
    BY <1>8 DEF Copy
  <2> DEFINE d == Drained(runner.secret, pending \o SubSeq(written, copied + 1, n), FALSE)
  <2>2. Forward(d.out) /\ copied' = n /\ (~broken' => pending' = d.kept)
    BY <2>1
  <2>3. runner.pc # "ended" /\ ~broken
    BY <1>8 DEF Copy, Runs, PipeInv
  <2>4. Streamed(runner.secret, written, copied, pending, out)
    BY <2>3, StreamInvIs
  <2>5. n \in copied..Len(written)
    BY <1>1
  <2>6. Streamed(runner.secret, written, n, d.kept, out \o d.out)
    BY <1>1, <2>4, <2>5, StreamedCopy
  <2>7. d.out \in Seq(Char \cup {Mark})
    BY Copied
  <2> HIDE DEF d
  <2>8. ~broken' => out' = out \o d.out
    BY <1>1, <2>2, <2>7, Forwarded, RunnerTyped
  <2>9. runner'.secret = runner.secret /\ written' = written
    <3>1. broken' \in BOOLEAN
      BY RunnerTypedNext
    <3>2. QED
      BY <1>8, <3>1, RunnerEffects DEF Copy
  <2>10. QED
    BY <2>2, <2>6, <2>8, <2>9, StreamInvIsNext
<1>9. CASE Wait
  <2>1. Runs("running") /\ UNCHANGED output
    BY <1>9 DEF Wait
  <2>2. runner'.secret = runner.secret
    BY <1>9, RunnerEffects
  <2>3. QED
    BY <1>2, <2>1, <2>2 DEF Runs
<1>10. CASE Flush \/ RunnerDies
  <2>1. PICK code : Ends(code)
    BY <1>10 DEF Flush, RunnerDies
  <2>2. runner'.pc = "ended"
    BY <1>1, <2>1 DEF Ends, RunnerState
  <2>3. QED
    BY <1>3, <2>2
<1>11. CASE ReadTask \/ Fork \/ StrayEnds \/ ClientEnds
  <2>1. UNCHANGED <<runner, output>>
    BY <1>11 DEF ReadTask, Fork, StrayEnds, ClientEnds
  <2>2. QED
    BY <2>1, StreamInvIs, StreamInvIsNext
<1>12. CASE Write
  <2>1. PICK x \in Char : written' = Append(written, x)
    BY <1>12 DEF Write
  <2>2. UNCHANGED <<runner, copied, pending, out, broken>>
    BY <1>12 DEF Write
  <2>3. Streamed(runner.secret, written, copied, pending, out) =>
            Streamed(runner.secret, Append(written, x), copied, pending, out)
    BY <1>1, StreamedWrite
  <2>4. QED
    BY <2>1, <2>2, <2>3, StreamInvIs, StreamInvIsNext
<1>13. CASE Start
  <2>1. runner.pc = "none" /\ UNCHANGED output
    BY <1>13 DEF Start, ProcessInv
  <2>2. runner'.secret = runner.secret
    BY <1>13, RunnerEffects
  <2>3. QED
    BY <1>2, <2>1, <2>2
<1>14. CASE Done \/ TimeOut \/ Cancel \/ Return
  <2>1. Kill /\ UNCHANGED output
    BY <1>14 DEF Done, TimeOut, Cancel, Return, Stop
  <2>2. CASE "runner" \in alive
    <3>1. runner'.pc = "ended"
      BY <2>1, <2>2, RunnerEffects
    <3>2. QED
      BY <1>3, <3>1
  <2>3. CASE "runner" \notin alive
    <3>1. runner' = runner
      BY <2>1, <2>3, RunnerEffects
    <3>2. QED
      BY <2>1, <3>1, StreamInvIs, StreamInvIsNext
  <2>4. QED
    BY <2>2, <2>3
<1>15. QED
  BY <1>4, <1>5, <1>6, <1>7, <1>8, <1>9, <1>10, <1>11, <1>12, <1>13, <1>14 DEF Next

\* What a flush forwards, if it forwards all there is.
LEMMA FlushStep ==
    ASSUME TypeOK, ProcessInv, PipeInv, StreamInv, Flush
    PROVE  LET text == Drained(runner.secret, pending, TRUE).out IN
           /\ text \in Seq(Char \cup {Mark}) /\ Forward(text)
           /\ ~broken => Redacted(runner.secret, written) = out \o text
<1> DEFINE text == Drained(runner.secret, pending, TRUE).out
<1>1. text \in Seq(Char \cup {Mark})
  BY FlushedType
<1>2. Forward(text)
  BY DEF Flush
<1>3. ASSUME ~broken PROVE Redacted(runner.secret, written) = out \o text
  <2>1. copied = Len(written) /\ runner.pc = "flushing"
    BY <1>3 DEF Flush, Runs, PipeInv
  <2>2. Streamed(runner.secret, written, Len(written), pending, out)
    BY <1>3, <2>1, StreamInvIs
  <2>3. /\ runner.secret \in Seq(Char) \ {<<>>} /\ written \in Seq(Char)
        /\ Len(written) <= MaxOutput /\ pending \in Seq(Char) /\ out \in Seq(Char \cup {Mark})
    BY Secrets, RunnerTyped
  <2>4. QED
    BY <2>2, <2>3, StreamedFlush
<1>4. QED
  BY <1>1, <1>2, <1>3

LEMMA RedactedStep ==
    ASSUME TypeOK, TypeOK', ProcessInv, PipeInv, StreamInv, StreamInv', OutputIsRedacted,
           [Next]_vars
    PROVE  OutputIsRedacted'
<1> USE DEF output, RunnerIs, IsRunner, Moved, Ended
<1> DEFINE T == Char \cup {Mark}
<1>1. /\ runner \in RunnerState /\ runner.secret \in Seq(Char) \ {<<>>}
      /\ written \in Seq(Char) /\ Len(written) <= MaxOutput /\ copied \in 0..Len(written)
      /\ pending \in Seq(Char) /\ out \in Seq(T) /\ Len(written) \in Nat /\ copied \in Nat
      /\ broken \in BOOLEAN
  BY RunnerTyped, Secrets, LenProperties
<1>2. /\ runner'.secret \in Seq(Char) \ {<<>>}
      /\ written' \in Seq(Char) /\ Len(written') <= MaxOutput /\ copied' \in 0..Len(written')
      /\ pending' \in Seq(Char) /\ out' \in Seq(T)
  <2>1. runner'.secret \in {Token, ProxySecret}
    BY RunnerTypedNext DEF RunnerState
  <2>2. runner'.secret \in Seq(Char) \ {<<>>}
    BY <2>1, ConstantsAssumption
  <2>3. QED
    BY <2>2, RunnerTypedNext
<1>3. Redacted(runner.secret, written) \in Seq(T)
  BY <1>1, RedactedType
\* As long as the stream goes on, it says so itself.
<1>4. ASSUME runner'.pc # "ended", ~broken' PROVE OutputIsRedacted'
  <2>1. Streamed(runner'.secret, written', copied', pending', out')
    BY <1>4, StreamInvIsNext
  <2>2. IsPrefix(out', Redacted(runner'.secret, written'))
    BY <1>2, <2>1, StreamedWhole
  <2>3. QED
    BY <2>2 DEF OutputIsRedacted
<1>5. ASSUME UNCHANGED <<out, written>>, runner'.secret = runner.secret PROVE OutputIsRedacted'
  BY <1>5 DEF OutputIsRedacted
<1>6. CASE UNCHANGED vars
  BY <1>5, <1>6 DEF vars
<1>7. CASE Prepare
  <2>1. UNCHANGED output /\ Runs("prepare")
    BY <1>7 DEF Prepare
  <2>2. CASE runner'.pc # "ended"
    BY <1>4, <2>1, <2>2 DEF Runs, PipeInv
  <2>3. CASE runner'.pc = "ended"
    <3>1. runner'.secret = runner.secret
      BY <1>7, <2>3, RunnerEffects
    <3>2. QED
      BY <1>5, <2>1, <3>1
  <2>4. QED
    BY <2>2, <2>3
<1>8. CASE ProbeEnds \/ StartClient \/ Wait \/ Start
  <2>1. UNCHANGED <<out, written>>
    BY <1>8 DEF ProbeEnds, StartClient, Wait, Start
  <2>2. runner'.secret = runner.secret
    BY <1>8, RunnerEffects
  <2>3. QED
    BY <1>5, <2>1, <2>2
<1>9. CASE Copy
  <2>1. PICK n \in (copied + 1)..Len(written) :
          LET text == pending \o SubSeq(written, copied + 1, n)
              d    == Drained(runner.secret, text, FALSE)
          IN Forward(d.out) /\ copied' = n /\ pending' = IF broken' THEN text ELSE d.kept
    BY <1>9 DEF Copy
  <2> DEFINE d == Drained(runner.secret, pending \o SubSeq(written, copied + 1, n), FALSE)
  <2>2. Forward(d.out)
    BY <2>1
  <2>3. runner.pc # "ended" /\ ~broken
    BY <1>9 DEF Copy, Runs, PipeInv
  <2>4. Streamed(runner.secret, written, copied, pending, out)
    BY <2>3, StreamInvIs
  <2>5. n \in copied..Len(written) /\ n \in 0..Len(written)
    BY <1>1
  <2>6. Streamed(runner.secret, written, n, d.kept, out \o d.out)
    BY <1>1, <2>4, <2>5, StreamedCopy
  <2>7. d.out \in Seq(T) /\ d.kept \in Seq(Char)
    BY Copied
  <2> HIDE DEF d
  <2>8. IsPrefix(out', out \o d.out) /\ out \o d.out \in Seq(T)
    <3>1. IsPrefix(out', out \o d.out)
      BY <1>1, <2>2, <2>7, Forwarded
    <3>2. QED
      BY <1>1, <2>7, <3>1, ConcatProperties
  <2>9. IsPrefix(out \o d.out, Redacted(runner.secret, written))
    BY <1>1, <2>5, <2>6, <2>7, <2>8, StreamedWhole
  <2>10. IsPrefix(out', Redacted(runner.secret, written))
    <3> DEFINE all == out \o d.out
    <3>1. all \in Seq(T) /\ IsPrefix(out', all) /\ IsPrefix(all, Redacted(runner.secret, written))
      BY <2>8, <2>9
    <3> HIDE DEF all
    <3>2. QED
      BY <1>2, <1>3, <3>1, PrefixTransitive
  <2>11. runner'.secret = runner.secret /\ written' = written
    <3>1. broken' \in BOOLEAN
      BY RunnerTypedNext
    <3>2. QED
      BY <1>9, <3>1, RunnerEffects DEF Copy
  <2>12. QED
    BY <2>10, <2>11 DEF OutputIsRedacted
<1>10. CASE Flush
  <2> DEFINE text == Drained(runner.secret, pending, TRUE).out
  <2>1. text \in Seq(T) /\ Forward(text)
        /\ (~broken => Redacted(runner.secret, written) = out \o text)
    BY <1>10, FlushStep
  <2> HIDE DEF text
  <2>2. IsPrefix(out', out \o text) /\ (broken => out' = out)
    BY <1>1, <2>1, Forwarded
  <2>3. runner'.secret = runner.secret /\ written' = written
    <3>1. PICK code : Ends(code)
      BY <1>10 DEF Flush
    <3>2. runner'.secret = runner.secret
      BY <1>1, <3>1 DEF Ends, RunnerState
    <3>3. QED
      BY <1>10, <3>2 DEF Flush
  <2>4. CASE broken
    BY <2>2, <2>3, <2>4 DEF OutputIsRedacted
  <2>5. CASE ~broken
    BY <2>1, <2>2, <2>3, <2>5 DEF OutputIsRedacted
  <2>6. QED
    BY <1>1, <2>4, <2>5
<1>11. CASE ReadTask \/ Fork \/ StrayEnds \/ ClientEnds
  <2>1. UNCHANGED <<runner, out, written>>
    BY <1>11 DEF ReadTask, Fork, StrayEnds, ClientEnds
  <2>2. QED
    BY <1>5, <2>1
<1>12. CASE RunnerDies
  <2>1. UNCHANGED <<out, written>>
    BY <1>12 DEF RunnerDies
  <2>2. runner'.secret = runner.secret
    BY <1>12, RunnerEffects DEF RunnerDies
  <2>3. QED
    BY <1>5, <2>1, <2>2
<1>13. CASE Write
  <2>1. "runner" \in alive /\ runner.copying /\ UNCHANGED <<runner, broken>>
    BY <1>13 DEF Write
  <2>2. runner'.pc # "ended" /\ ~broken'
    BY <2>1 DEF ProcessInv, PipeInv
  <2>3. QED
    BY <1>4, <2>2
<1>14. CASE Done \/ TimeOut \/ Cancel \/ Return
  <2>1. Kill /\ UNCHANGED <<out, written>>
    BY <1>14 DEF Done, TimeOut, Cancel, Return, Stop
  <2>2. runner'.secret = runner.secret
    BY <2>1, RunnerEffects
  <2>3. QED
    BY <1>5, <2>1, <2>2
<1>15. QED
  BY <1>6, <1>7, <1>8, <1>9, <1>10, <1>11, <1>12, <1>13, <1>14 DEF Next

-----------------------------------------------------------------------------
(* Success *)

LEMMA SuccessStep ==
    ASSUME TypeOK, TypeOK', ProcessInv, PipeInv, StreamInv, SuccessInv, [Next]_vars
    PROVE  SuccessInv'
<1> USE DEF output, RunnerIs, IsRunner, Moved, Ended
<1>1. /\ runner \in RunnerState /\ client \in Exit \cup {None, Killed}
      /\ delegate \in [pc : {"starting", "waiting", "killing", "returned"}, code : Exit \cup {None}]
      /\ out \in Seq(Char \cup {Mark}) /\ broken \in BOOLEAN
  BY RunnerTyped
<1>2. "runner" \in alive => runner.code # 0 /\ delegate.code # 0
  BY DEF SuccessInv, ProcessInv
\* A step of the runner that reports no success.
<1>3. ASSUME "runner" \in alive, UNCHANGED delegate, runner'.code # 0
      PROVE  SuccessInv'
  BY <1>2, <1>3 DEF SuccessInv
\* A step of others.
<1>4. ASSUME UNCHANGED <<runner, out, written>>, "client" \in alive' => "client" \in alive,
             "client" \notin alive => UNCHANGED client,
             delegate'.code = 0 => runner.code = 0
      PROVE  SuccessInv'
  BY <1>4 DEF SuccessInv
<1>5. CASE UNCHANGED vars
  BY <1>4, <1>5 DEF vars, SuccessInv
<1>6. CASE Prepare
  <2>1. "runner" \in alive /\ UNCHANGED delegate
    BY <1>6 DEF Prepare, Runs
  <2>2. runner'.code \in {runner.code, 1}
    BY <1>6, RunnerEffects
  <2>3. QED
    BY <1>2, <1>3, <2>1, <2>2
<1>7. CASE ProbeEnds
  <2>1. "runner" \in alive /\ UNCHANGED delegate
    BY <1>7 DEF ProbeEnds, Runs
  <2>2. runner'.code \in {runner.code, 1}
    BY <1>7, RunnerEffects
  <2>3. QED
    BY <1>2, <1>3, <2>1, <2>2
<1>8. CASE StartClient
  <2>1. "runner" \in alive /\ UNCHANGED delegate
    BY <1>8 DEF StartClient, Runs
  <2>2. runner'.code \in {runner.code, 1}
    BY <1>8, RunnerEffects
  <2>3. QED
    BY <1>2, <1>3, <2>1, <2>2
<1>9. CASE Copy
  <2>1. "runner" \in alive /\ UNCHANGED delegate
    BY <1>9 DEF Copy, Runs
  <2>2. runner'.code = runner.code
    <3>1. broken' \in BOOLEAN
      BY RunnerTypedNext
    <3>2. QED
      BY <1>9, <3>1, RunnerEffects
  <2>3. QED
    BY <1>2, <1>3, <2>1, <2>2
<1>10. CASE Wait
  <2>1. "runner" \in alive /\ UNCHANGED delegate
    BY <1>10 DEF Wait, Runs
  <2>2. runner'.code = runner.code
    BY <1>10, RunnerEffects
  <2>3. QED
    BY <1>2, <1>3, <2>1, <2>2
<1>11. CASE Flush
  <2> DEFINE text == Drained(runner.secret, pending, TRUE).out
             code == IF broken' THEN 1 ELSE ExitCode(client)
  <2>1. text \in Seq(Char \cup {Mark}) /\ Forward(text)
        /\ (~broken => Redacted(runner.secret, written) = out \o text)
    BY <1>11, FlushStep
  <2> HIDE DEF text
  <2>2. broken' \in BOOLEAN /\ (~broken' => ~broken /\ out' = out \o text)
    BY <1>1, <2>1, Forwarded
  <2>3. Ends(code) /\ UNCHANGED <<delegate, client, written>> /\ Runs("flushing")
    BY <1>11 DEF Flush
  <2>4. code \in Exit \cup {None, Killed}
    BY <1>1 DEF ExitCode, Exit, None, Killed
  <2>5. /\ runner'.pc = "ended" /\ runner'.code = code /\ runner'.secret = runner.secret
        /\ alive' = alive \ {"runner"}
    <3> HIDE DEF code
    <3>1. QED
      BY <2>3, <2>4, RunnerEffects
  <2>6. "runner" \in alive /\ "client" \notin alive
    BY <2>3 DEF Runs, ProcessInv
  <2>7. CASE code = 0
    <3>1. ~broken' /\ client = 0
      BY <1>1, <2>2, <2>7 DEF ExitCode, Exit, None, Killed
    <3>2. out' = Redacted(runner'.secret, written')
      BY <2>1, <2>2, <2>3, <2>5, <3>1
    <3>3. delegate'.code # 0
      BY <1>2, <2>3, <2>6
    <3>4. client' = 0 /\ "client" \notin alive' /\ runner'.pc = "ended"
      BY <2>3, <2>5, <2>6, <3>1
    <3>5. QED
      BY <3>2, <3>3, <3>4 DEF SuccessInv
  <2>8. CASE code # 0
    BY <1>3, <2>3, <2>5, <2>6, <2>8
  <2>9. QED
    BY <2>7, <2>8
<1>12. CASE ReadTask \/ Fork \/ StrayEnds
  <2>1. UNCHANGED <<delegate, runner, client, out, written>>
        /\ ("client" \in alive' => "client" \in alive)
    BY <1>12 DEF ReadTask, Fork, StrayEnds
  <2>2. QED
    BY <1>4, <2>1 DEF SuccessInv
<1>13. CASE Write
  <2>1. "runner" \in alive /\ UNCHANGED <<delegate, runner>>
    BY <1>13 DEF Write
  <2>2. QED
    BY <1>2, <1>3, <2>1
<1>14. CASE ClientEnds
  <2>1. UNCHANGED <<delegate, runner, out, written>> /\ "client" \in alive
        /\ ("client" \in alive' => "client" \in alive)
    BY <1>14 DEF ClientEnds
  <2>2. QED
    BY <1>4, <2>1 DEF SuccessInv
<1>15. CASE RunnerDies
  <2>1. "runner" \in alive /\ UNCHANGED delegate
    BY <1>15 DEF RunnerDies
  <2>2. runner'.code = Killed
    BY <1>15, RunnerEffects DEF RunnerDies
  <2>3. Killed # 0
    BY DEF Killed
  <2>4. QED
    BY <1>3, <2>1, <2>2, <2>3
<1>16. CASE Start
  <2>1. runner.pc = "none" /\ alive = {} /\ UNCHANGED <<client, out, written>>
        /\ (delegate'.code = delegate.code \/ delegate'.code = 1)
    BY <1>1, <1>16 DEF Start, ProcessInv
  <2>2. runner'.code = runner.code
    BY <1>16, RunnerEffects
  <2>3. runner.code # 0 /\ delegate.code # 0
    BY <2>1 DEF SuccessInv
  <2>4. QED
    BY <2>1, <2>2, <2>3 DEF SuccessInv
\* The group is killed: a runner that was there reports no success.
<1>17. ASSUME Kill, UNCHANGED <<out, written>>,
              delegate'.code = 0 => runner.code = 0
       PROVE  SuccessInv'
  <2>1. alive' = alive \ Group
    BY <1>17, RunnerEffects
  <2>2. CASE "runner" \in alive
    <3>1. runner'.code = Killed /\ Killed # 0
      BY <1>17, <2>2, RunnerEffects DEF Killed
    <3>2. delegate'.code # 0
      BY <1>2, <1>17, <2>2
    <3>3. QED
      BY <3>1, <3>2 DEF SuccessInv
  <2>3. CASE "runner" \notin alive
    <3>1. runner' = runner /\ ("client" \notin alive => client' = client)
      BY <1>17, <2>3, RunnerEffects DEF Kill
    <3>2. QED
      BY <1>4, <1>17, <2>1, <3>1
  <2>4. QED
    BY <2>2, <2>3
<1>18. CASE Done
  <2>1. Kill /\ UNCHANGED <<out, written>> /\ delegate'.code = Result
    BY <1>18 DEF Done
  <2>2. Result = 0 => runner.code = 0
    BY <1>1 DEF Result, ExitCode
  <2>3. QED
    BY <1>17, <2>1, <2>2
<1>19. CASE TimeOut \/ Cancel
  <2>1. Kill /\ UNCHANGED <<out, written>> /\ delegate'.code \in {124, 130}
    BY <1>1, <1>19 DEF TimeOut, Cancel, Stop
  <2>2. QED
    BY <1>17, <2>1
<1>20. CASE Return
  <2>1. Kill /\ UNCHANGED <<out, written>> /\ delegate'.code = delegate.code
    BY <1>1, <1>20 DEF Return
  <2>2. QED
    BY <1>17, <2>1 DEF SuccessInv
<1>21. QED
  BY <1>5, <1>6, <1>7, <1>8, <1>9, <1>10, <1>11, <1>12, <1>13, <1>14, <1>15, <1>16, <1>18, <1>19,
     <1>20 DEF Next

-----------------------------------------------------------------------------
(* The theorems *)

LEMMA LaunchInit == Init => LaunchInv
<1> SUFFICES ASSUME Init PROVE LaunchInv
  OBVIOUS
<1>1. TypeOK
  BY TypeInit
<1>2. ProcessInv /\ PipeInv
  BY DEF Init, ProcessInv, PipeInv
<1>3. runner.secret = Token /\ written = <<>> /\ copied = 0 /\ pending = <<>> /\ out = <<>>
  BY DEF Init
<1>4. Streamed(Token, <<>>, 0, <<>>, <<>>)
  BY ConstantsAssumption, StreamedStart
<1>5. StreamInv
  BY <1>3, <1>4, StreamInvIs
<1>6. SuccessInv
  BY DEF Init, SuccessInv, None
<1>7. OutputIsRedacted
  <2>1. /\ <<>> \in Seq(Char) /\ Len(<<>>) = 0 /\ <<>> \in Seq(Char \cup {Mark})
        /\ Token \in Seq(Char) \ {<<>>}
    BY ConstantsAssumption, EmptySeq
  <2>2. Len(<<>>) <= MaxOutput /\ 0 \in 0..Len(<<>>)
    BY <2>1, ConstantsAssumption
  <2>3. IsPrefix(<<>>, Redacted(Token, <<>>))
    BY <1>4, <2>1, <2>2, StreamedWhole
  <2>4. QED
    BY <1>3, <2>3 DEF OutputIsRedacted
<1>8. QED
  BY <1>1, <1>2, <1>5, <1>6, <1>7 DEF LaunchInv

\* Every step keeps LaunchInv: processes, pipe, stream and exit codes agree.
THEOREM LaunchInvariant == Spec => []LaunchInv
<1>1. ASSUME LaunchInv, [Next]_vars PROVE LaunchInv'
  <2>1. TypeOK /\ ProcessInv /\ PipeInv /\ StreamInv /\ SuccessInv /\ OutputIsRedacted
    BY <1>1 DEF LaunchInv
  <2>2. TypeOK'
    BY <1>1, <2>1, TypeStep
  <2>3. ProcessInv' /\ PipeInv'
    BY <1>1, <2>1, ProcessStep, PipeStep
  <2>4. StreamInv'
    BY <1>1, <2>1, <2>2, StreamStep
  <2>5. OutputIsRedacted'
    BY <1>1, <2>1, <2>2, <2>4, RedactedStep
  <2>6. SuccessInv'
    BY <1>1, <2>1, <2>2, SuccessStep
  <2>7. QED
    BY <2>2, <2>3, <2>4, <2>5, <2>6 DEF LaunchInv
<1>2. LaunchInv /\ [Next]_vars => LaunchInv'
  BY <1>1
<1>3. QED
  BY <1>2, LaunchInit, PTL DEF Spec

\* Whichever way the delegate returns, no process of its group is left.
THEOREM GroupIsGone == Spec => []NoneIsLeftBehind
<1>1. LaunchInv => NoneIsLeftBehind
  BY DEF LaunchInv, ProcessInv, NoneIsLeftBehind
<1>2. QED
  BY <1>1, LaunchInvariant, PTL

\* A reported success is the client's, and all of its output was forwarded.
THEOREM SuccessesAreComplete == Spec => []SuccessIsComplete
<1>1. LaunchInv => SuccessIsComplete
  BY DEF LaunchInv, SuccessInv, SuccessIsComplete
<1>2. QED
  BY <1>1, LaunchInvariant, PTL

\* For every secret, every output and every way to cut it into chunks: what was
\* forwarded is the beginning of what the whole output should become.
THEOREM OutputRedacted == Spec => []OutputIsRedacted
<1>1. LaunchInv => OutputIsRedacted
  BY DEF LaunchInv
<1>2. QED
  BY <1>1, LaunchInvariant, PTL

\* The secret is nowhere in what was forwarded.
NoSecret == \A k \in 1..Len(out) : ~OccursAt(runner.secret, out, k)

\* And so the secret the client was given never leaves, whole, in pieces put
\* together by the chunks, or in a chunk the destination took only a part of.
THEOREM NoSecretLeaves == Spec => []NoSecret
<1>1. ASSUME LaunchInv PROVE NoSecret
  <2> DEFINE T == Char \cup {Mark}
             all == Redacted(runner.secret, written)
  <2>1. /\ runner.secret \in Seq(Char) \ {<<>>} /\ written \in Seq(Char) /\ out \in Seq(T)
    BY <1>1, Secrets, RunnerTyped DEF LaunchInv
  <2>2. all \in Seq(T)
    BY <2>1, RedactedType
  <2>3. runner.secret \in Seq(T)
    BY <2>1, SeqMonotonic
  <2>4. \A k \in Nat \ {0} : ~OccursAt(runner.secret, all, k)
    BY <2>1, ConstantsAssumption, SecretsAreMarked
  <2>5. IsPrefix(out, all)
    BY <1>1 DEF LaunchInv, OutputIsRedacted
  <2> HIDE DEF all, T
  <2>6. Len(out) <= Len(all) /\ \A q \in 1..Len(out) : out[q] = all[q]
    BY <2>1, <2>2, <2>5, PrefixOf
  <2>7. Len(out) \in Nat /\ Len(all) \in Nat /\ Len(runner.secret) \in Nat
    BY <2>1, <2>2, LenProperties
  <2>8. ASSUME NEW k \in 1..Len(out), OccursAt(runner.secret, out, k) PROVE FALSE
    <3>1. k \in Nat \ {0}
      BY <2>7
    <3>2. /\ k + Len(runner.secret) <= Len(out) + 1
          /\ \A q \in 1..Len(runner.secret) : out[k + q - 1] = runner.secret[q]
      BY <2>1, <2>3, <2>8, <3>1, Occurs
    <3>3. \A q \in 1..Len(runner.secret) : k + q - 1 \in 1..Len(out)
      BY <2>7, <3>1, <3>2
    <3>4. \A q \in 1..Len(runner.secret) : all[k + q - 1] = runner.secret[q]
      BY <2>6, <3>2, <3>3
    <3>5. k + Len(runner.secret) <= Len(all) + 1
      BY <2>6, <2>7, <3>1, <3>2
    <3>6. OccursAt(runner.secret, all, k)
      BY <2>2, <2>3, <3>1, <3>4, <3>5, Occurs
    <3>7. QED
      BY <2>4, <3>1, <3>6
  <2>9. QED
    BY <2>8 DEF NoSecret
<1>2. LaunchInv => NoSecret
  BY <1>1
<1>3. QED
  BY <1>2, LaunchInvariant, PTL
=============================================================================
