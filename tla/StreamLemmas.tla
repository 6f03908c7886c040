---------------------------- MODULE StreamLemmas ----------------------------
(***************************************************************************)
(* Lemmas about sequences of bytes and of packets that the proofs about    *)
(* the drivers rest on.  FlattenSeq is a recursive function: what it is    *)
(* for every sequence follows by induction, stated for sets of numbers.    *)
(***************************************************************************)
EXTENDS Pronto, SequencesExt, FiniteSetTheorems, SequenceTheorems, TLAPS

\* A set that holds 0 and the successor of each of its elements is Nat:
\* otherwise + 1 would map its part up to a number it lacks into that part
\* without 0, and no two numbers to the same one.
LEMMA SetInduction ==
    ASSUME NEW S \in SUBSET Nat, 0 \in S, \A k \in S : k + 1 \in S
    PROVE  S = Nat
<1>1. SUFFICES ASSUME NEW n \in Nat, n \notin S PROVE FALSE
  OBVIOUS
<1> DEFINE T == S \cap (0 .. n)
           f == [k \in T |-> k + 1]
<1>2. IsFiniteSet(T)
  <2>1. IsFiniteSet(0 .. n)
    BY FS_Interval
  <2>2. T \in SUBSET (0 .. n)
    OBVIOUS
  <2> HIDE DEF T
  <2> QED BY <2>1, <2>2, FS_Subset
<1>3. /\ IsFiniteSet(T \ {0})
      /\ Cardinality(T) \in Nat /\ Cardinality(T \ {0}) = Cardinality(T) - 1
  <2>1. 0 \in T
    OBVIOUS
  <2> HIDE DEF T
  <2>2. Cardinality(T) \in Nat
    BY <1>2, FS_CardinalityType
  <2> QED BY <2>1, <2>2, <1>2, FS_RemoveElement
<1>4. f \in [T -> T \ {0}]
  BY <1>1
<1>5. \E x, y \in T : x # y /\ f[x] = f[y]
  <2> HIDE DEF T, f
  <2> QED BY <1>2, <1>3, <1>4, FS_PigeonHole
<1> QED BY <1>5

\* A set of sequences over S that holds the empty one and, with a sequence,
\* what a member appended makes of it, holds all.
LEMMA AppendInduction ==
    ASSUME NEW S, NEW T \in SUBSET Seq(S), <<>> \in T,
           \A s \in T, x \in S : Append(s, x) \in T
    PROVE  T = Seq(S)
<1> DEFINE N == {n \in Nat : \A s \in Seq(S) : Len(s) = n => s \in T}
<1>1. 0 \in N
  OBVIOUS
<1>2. ASSUME NEW n \in N PROVE n + 1 \in N
  <2>1. SUFFICES ASSUME NEW s \in Seq(S), Len(s) = n + 1 PROVE s \in T
    OBVIOUS
  <2> DEFINE f == SubSeq(s, 1, n)
  <2>2. f \in Seq(S) /\ Len(f) = n /\ s[n + 1] \in S
    BY <2>1
  <2>4. s = Append(f, s[n + 1])
    <3>1. /\ Append(f, s[n + 1]) \in Seq(S) /\ Len(Append(f, s[n + 1])) = Len(s)
          /\ \A k \in 1 .. Len(s) : s[k] = Append(f, s[n + 1])[k]
      BY <2>1, <2>2, SMTT(30)
    <3> DEFINE t == Append(f, s[n + 1])
    <3> HIDE DEF t
    <3>2. s = t
      BY <3>1, SeqEqual DEF t
    <3> QED BY <3>2 DEF t
  <2>3. f \in T
    <3> HIDE DEF f
    <3> QED BY <2>2
  <2> HIDE DEF f
  <2> QED BY <2>2, <2>3, <2>4
<1>3. N = Nat
  <2>1. N \in SUBSET Nat
    OBVIOUS
  <2> HIDE DEF N
  <2> QED BY <1>1, <1>2, <2>1, SetInduction
<1>4. ASSUME NEW s \in Seq(S) PROVE s \in T
  <2>1. Len(s) \in N
    <3>1. Len(s) \in Nat
      OBVIOUS
    <3> HIDE DEF N
    <3> QED BY <1>3, <3>1
  <2> QED BY <2>1
<1> QED BY <1>4

-----------------------------------------------------------------------------
(* The ends of sequences *)

\* A sequence that is not empty has a last member.
LEMMA LastMember ==
    ASSUME NEW S, NEW s \in Seq(S), s # <<>>
    PROVE  s[Len(s)] \in S /\ Len(s) \in 1 .. Len(s)
OBVIOUS

\* A sequence with one member more.
LEMMA AppendMember ==
    ASSUME NEW S, NEW s \in Seq(S), NEW x \in S
    PROVE  LET t == Append(s, x)
           IN  /\ t \in Seq(S) /\ Len(t) = Len(s) + 1 /\ Len(s) \in Nat
               /\ t[Len(t)] = x /\ t # <<>>
               /\ \A k \in 1 .. Len(s) : t[k] = s[k]
               /\ DOMAIN t = 1 .. Len(s) + 1 /\ DOMAIN s = 1 .. Len(s)
OBVIOUS

\* One member more does not change the others.
LEMMA AppendKeeps ==
    ASSUME NEW S, NEW s \in Seq(S), NEW x \in S
    PROVE  /\ Len(s) \in Nat /\ Len(Append(s, x)) = Len(s) + 1
           /\ Append(s, x)[Len(s) + 1] = x
           /\ \A k \in 1 .. Len(s) : s[k] = Append(s, x)[k]
           /\ Append(s, x) \in Seq(S)
OBVIOUS

\* A member appended to the second of two sequences.
LEMMA ConcatAppend ==
    ASSUME NEW S, NEW a \in Seq(S), NEW b \in Seq(S), NEW x \in S
    PROVE  a \o Append(b, x) = Append(a \o b, x)
OBVIOUS

\* A sequence with its last member replaced.
LEMMA ReplaceLast ==
    ASSUME NEW S, NEW s \in Seq(S), s # <<>>, NEW x \in S
    PROVE  /\ [s EXCEPT ![Len(s)] = x] \in Seq(S)
           /\ Len([s EXCEPT ![Len(s)] = x]) = Len(s)
           /\ [s EXCEPT ![Len(s)] = x][Len(s)] = x
           /\ \A k \in 1 .. Len(s) - 1 : [s EXCEPT ![Len(s)] = x][k] = s[k]
OBVIOUS

\* Two sequences over a set, one after the other, are one over it.
LEMMA ConcatMember ==
    ASSUME NEW S, NEW a \in Seq(S), NEW b \in Seq(S)
    PROVE  a \o b \in Seq(S)
OBVIOUS

\* A function of the first n numbers is a sequence.
LEMMA FunctionSequence ==
    ASSUME NEW S, NEW n \in Nat, NEW f \in [1 .. n -> S]
    PROVE  f \in Seq(S) /\ Len(f) = n
OBVIOUS

\* A stream in three parts.  The two definitions stay unexpanded where the
\* lemmas about them are used.
IsStream(S, s) == s \in Seq(S)

Parts(all, a, b, c) == all = (a \o b) \o c

\* Streams one after the other are a stream,
LEMMA StreamConcat ==
    ASSUME NEW S, NEW a, NEW b, IsStream(S, a), IsStream(S, b)
    PROVE  IsStream(S, a \o b)
BY ConcatMember DEF IsStream

\* Three of them, however they are put together,
Regrouped(a, b, c) == (a \o b) \o c = a \o (b \o c)

\* are one.
LEMMA Regroup ==
    ASSUME NEW S, NEW a, NEW b, NEW c, IsStream(S, a), IsStream(S, b), IsStream(S, c)
    PROVE  Regrouped(a, b, c)
BY ConcatAssociative DEF IsStream, Regrouped

\* More comes at the end of a stream in three parts,
LEMMA StreamGrows ==
    ASSUME NEW S, NEW all, NEW a, NEW b, NEW c, NEW x, Parts(all, a, b, c),
           IsStream(S, a), IsStream(S, b), IsStream(S, c), IsStream(S, x)
    PROVE  Parts(all \o x, a, b, c \o x)
<1>1. a \o b \in Seq(S) /\ c \in Seq(S) /\ x \in Seq(S)
  BY ConcatMember DEF IsStream
<1> DEFINE d == a \o b
<1> HIDE DEF d
<1>2. (d \o c) \o x = d \o (c \o x)
  BY <1>1, ConcatAssociative, SMTT(30) DEF d
<1> QED BY <1>2 DEF Parts, d

\* the beginning of the last part becomes the middle one, which was empty,
LEMMA StreamTaken ==
    ASSUME NEW S, NEW all, NEW a, NEW x, NEW c, Parts(all, a, <<>>, x \o c),
           IsStream(S, a), IsStream(S, x), IsStream(S, c)
    PROVE  Parts(all, a, x, c)
<1>1. a \o <<>> = a
  BY DEF IsStream
<1>2. (a \o x) \o c = a \o (x \o c)
  BY ConcatAssociative DEF IsStream
<1> QED BY <1>1, <1>2 DEF Parts

\* the middle part is added to the first.
LEMMA StreamGiven ==
    ASSUME NEW S, NEW all, NEW a, NEW b, NEW c, Parts(all, a, b, c),
           IsStream(S, a), IsStream(S, b), IsStream(S, c)
    PROVE  Parts(all, a \o b, <<>>, c)
<1>1. (a \o b) \o <<>> = a \o b
  BY DEF IsStream
<1> QED BY <1>1 DEF Parts

\* A sequence is a beginning of what is appended to it.
LEMMA StreamPrefix ==
    ASSUME NEW S, NEW a \in Seq(S), NEW b \in Seq(S)
    PROVE  IsPrefix(a, a \o b) /\ (b # <<>> => IsStrictPrefix(a, a \o b))
<1>1. /\ Len(a) <= Len(a \o b)
      /\ SubSeq(a \o b, 1, Len(a)) = SubSeq(a, 1, Len(a))
      /\ b # <<>> => a # a \o b
  OBVIOUS
<1> QED BY <1>1 DEF IsPrefix, IsStrictPrefix

\* What has left the last part is a beginning of the whole.
LEMMA PartsPrefix ==
    ASSUME NEW S, NEW all, NEW a, NEW b, NEW c, Parts(all, a, b, c),
           IsStream(S, a), IsStream(S, b), IsStream(S, c)
    PROVE  IsPrefix(a, all) /\ IsPrefix(a \o b, all)
<1>1. a \in Seq(S) /\ b \in Seq(S) /\ c \in Seq(S) /\ b \o c \in Seq(S) /\ a \o b \in Seq(S)
  BY ConcatMember DEF IsStream
<1>2. all = a \o (b \o c)
  BY <1>1, ConcatAssociative DEF Parts
<1>3. IsPrefix(a, a \o (b \o c))
  BY <1>1, StreamPrefix
<1>4. IsPrefix(a \o b, (a \o b) \o c)
  BY <1>1, StreamPrefix
<1> QED BY <1>2, <1>3, <1>4 DEF Parts

\* All but the last member: after one was appended,
LEMMA FrontOfAppend ==
    ASSUME NEW S, NEW s \in Seq(S), NEW x \in S
    PROVE  SubSeq(Append(s, x), 1, Len(Append(s, x)) - 1) = s
OBVIOUS

\* and after the last one was replaced.
LEMMA FrontOfReplace ==
    ASSUME NEW S, NEW s \in Seq(S), s # <<>>, NEW x \in S
    PROVE  LET t == [s EXCEPT ![Len(s)] = x]
           IN  SubSeq(t, 1, Len(t) - 1) = SubSeq(s, 1, Len(s) - 1)
OBVIOUS

\* All but the last are a beginning of what the last one is replaced in.
LEMMA FrontPrefix ==
    ASSUME NEW S, NEW s \in Seq(S), NEW t \in Seq(S), s # <<>>, Len(t) = Len(s),
           \A k \in 1 .. Len(s) - 1 : t[k] = s[k]
    PROVE  LET f == SubSeq(s, 1, Len(s) - 1)
           IN  Len(t) = Len(f) + 1 /\ IsPrefix(f, t)
<1> DEFINE n == Len(s) - 1
           f == SubSeq(s, 1, n)
<1>1. n \in Nat /\ n <= Len(s) /\ Len(t) = n + 1 /\ Len(s) = n + 1
  OBVIOUS
<1>2. f \in Seq(S) /\ Len(f) = n
  OBVIOUS
<1>3. SubSeq(f, 1, n) = f
  <2> HIDE DEF f, n
  <2> QED BY <1>1, <1>2
<1>4. SubSeq(t, 1, n) = f
  OBVIOUS
<1> HIDE DEF f
<1> QED BY <1>1, <1>2, <1>3, <1>4 DEF IsPrefix, f

\* The first n members of a sequence.
LEMMA FirstMembers ==
    ASSUME NEW S, NEW s \in Seq(S), NEW n \in Nat, n <= Len(s)
    PROVE  /\ SubSeq(s, 1, n) \in Seq(S) /\ Len(SubSeq(s, 1, n)) = n
           /\ IsPrefix(SubSeq(s, 1, n), s)
           /\ SubSeq(s, 1, n) = s <=> n = Len(s)
<1>1. SubSeq(s, 1, n) \in Seq(S) /\ Len(SubSeq(s, 1, n)) = n
  OBVIOUS
<1>2. SubSeq(SubSeq(s, 1, n), 1, n) = SubSeq(s, 1, n)
  OBVIOUS
<1>3. SubSeq(s, 1, n) = s <=> n = Len(s)
  OBVIOUS
<1> QED BY <1>1, <1>2, <1>3 DEF IsPrefix

\* A beginning of a sequence is its first members, and all of it if it is as long.
LEMMA PrefixMembers ==
    ASSUME NEW S, NEW a \in Seq(S), NEW s \in Seq(S), IsPrefix(a, s)
    PROVE  /\ Len(a) <= Len(s) /\ a = SubSeq(s, 1, Len(a))
           /\ Len(a) = Len(s) => a = s
<1>1. Len(a) <= Len(s) /\ SubSeq(a, 1, Len(a)) = SubSeq(s, 1, Len(a))
  BY DEF IsPrefix
<1>2. SubSeq(a, 1, Len(a)) = a /\ SubSeq(s, 1, Len(s)) = s
  OBVIOUS
<1> QED BY <1>1, <1>2

\* The first m members and those up to the n-th are the first n.
LEMMA MoreMembers ==
    ASSUME NEW S, NEW s \in Seq(S), NEW m \in Nat, NEW n \in Nat, m <= n, n <= Len(s)
    PROVE  SubSeq(s, 1, m) \o SubSeq(s, m + 1, n) = SubSeq(s, 1, n)
OBVIOUS

\* Two sequences in three pieces: c members, those up to the f-th of the second
\* sequence, and the rest.
ThreePieces(a, b, c, f, x, y, z) ==
    /\ c \in Nat /\ f \in Nat /\ f <= Len(b) /\ c <= Len(a) + f
    /\ x = SubSeq(a \o b, 1, c)
    /\ y = SubSeq(a \o b, c + 1, Len(a) + f)
    /\ z = SubSeq(b, f + 1, Len(b))

\* The rest of the second of two sequences is the rest of both.
LEMMA RestOfConcat ==
    ASSUME NEW S, NEW a \in Seq(S), NEW b \in Seq(S), NEW f \in Nat, f <= Len(b)
    PROVE  /\ SubSeq(b, f + 1, Len(b)) = SubSeq(a \o b, (Len(a) + f) + 1, Len(a \o b))
           /\ SubSeq(b, f + 1, Len(b)) \in Seq(S)
OBVIOUS

\* The three pieces are the two sequences.
LEMMA PiecesAreAll ==
    ASSUME NEW S, NEW a, NEW b, NEW c, NEW f, NEW x, NEW y, NEW z,
           IsStream(S, a), IsStream(S, b), ThreePieces(a, b, c, f, x, y, z)
    PROVE  /\ IsStream(S, x) /\ IsStream(S, y) /\ IsStream(S, z)
           /\ Len(x) = c /\ Len(y) = Len(a) + f - c
           /\ (x \o y) \o z = a \o b
<1> DEFINE all == a \o b
           m == Len(a) + f
           n == Len(all)
<1>1. /\ all \in Seq(S) /\ n = Len(a) + Len(b) /\ n \in Nat
      /\ m \in Nat /\ c \in Nat /\ c <= m /\ m <= n /\ n <= n
  BY DEF IsStream, ThreePieces
<1>2. x = SubSeq(all, 1, c) /\ y = SubSeq(all, c + 1, m)
  BY DEF ThreePieces
<1>3. z = SubSeq(all, m + 1, n) /\ z \in Seq(S)
  BY RestOfConcat DEF IsStream, ThreePieces
<1>4. x \o y = SubSeq(all, 1, m)
  <2> HIDE DEF all, m
  <2> QED BY <1>1, <1>2, MoreMembers
<1>5. SubSeq(all, 1, m) \o SubSeq(all, m + 1, n) = SubSeq(all, 1, n)
  <2> HIDE DEF all, m, n
  <2>1. n <= Len(all)
    BY <1>1 DEF n
  <2> QED BY <1>1, <2>1, MoreMembers
<1>6. SubSeq(all, 1, n) = all
  <2> HIDE DEF all
  <2> QED BY <1>1
<1>7. x \in Seq(S) /\ y \in Seq(S) /\ Len(x) = c /\ Len(y) = m - c
  <2> HIDE DEF all, m
  <2> QED BY <1>1, <1>2 DEF n
<1>8. (x \o y) \o z = all
  <2> HIDE DEF all, m, n
  <2> QED BY <1>3, <1>4, <1>5, <1>6
<1> HIDE DEF all
<1>9. Len(y) = Len(a) + f - c
  <2>1. Len(a) \in Nat /\ f \in Nat /\ c \in Nat
    BY DEF IsStream, ThreePieces
  <2> QED BY <1>7, <2>1
<1> QED BY <1>3, <1>7, <1>8, <1>9 DEF IsStream, all

\* The last two parts of a stream taken together,
LEMMA LastParts ==
    ASSUME NEW S, NEW all, NEW a, NEW b, NEW c, Parts(all, a, b, c),
           IsStream(S, a), IsStream(S, b), IsStream(S, c)
    PROVE  all = a \o (b \o c)
BY Regroup, SMTT(30) DEF Parts, Regrouped

\* and three pieces of them, of which the first goes to the end of the first part.
LEMMA PiecesParts ==
    ASSUME NEW S, NEW a, NEW x, NEW y, NEW z,
           IsStream(S, a), IsStream(S, x), IsStream(S, y), IsStream(S, z)
    PROVE  Parts(a \o ((x \o y) \o z), a \o x, y, z)
<1> DEFINE w == y \o z
           v == a \o x
<1>1. IsStream(S, w) /\ IsStream(S, v)
  BY StreamConcat
<1> HIDE DEF v, w
<1>2. Regrouped(x, y, z) /\ Regrouped(v, y, z) /\ Regrouped(a, x, w)
  BY <1>1, Regroup
<1>3. (x \o y) \o z = x \o w /\ v \o w = (v \o y) \o z /\ v \o w = a \o (x \o w)
  BY <1>2 DEF Regrouped, v, w
<1>4. Parts(a \o ((x \o y) \o z), v, y, z)
  BY <1>3 DEF Parts
<1> QED BY <1>4 DEF v

\* So it is with what is read.
LEMMA StreamRead ==
    ASSUME NEW S, NEW all, NEW a, NEW b, NEW c, NEW x, NEW y, NEW z, Parts(all, a, b, c),
           IsStream(S, a), IsStream(S, b), IsStream(S, c),
           IsStream(S, x), IsStream(S, y), IsStream(S, z), (x \o y) \o z = b \o c
    PROVE  Parts(all, a \o x, y, z)
<1>1. all = a \o (b \o c)
  BY LastParts
<1>2. Parts(a \o ((x \o y) \o z), a \o x, y, z)
  BY PiecesParts
<1> QED BY <1>1, <1>2

-----------------------------------------------------------------------------
(* Functions that take a sequence step by step *)

\* r[k] is what k steps have made of base: step F takes the last value and
\* the next member.
Steps(r, F, base, s, n) ==
    /\ r[0] = base
    /\ \A k \in 1 .. n : r[k] = F[<<r[k - 1], s[k]>>]

\* The recursive definition of such a function.
Stepped(r, F, base, s, n) ==
    r = [k \in 0 .. n |-> IF k = 0 THEN base ELSE F[<<r[k - 1], s[k]>>]]

\* There is one for every number of steps.
LEMMA StepsExist ==
    ASSUME NEW F, NEW base, NEW s, NEW n \in Nat
    PROVE  \E r : Stepped(r, F, base, s, n)
<1> DEFINE Is(r, m) == r = [k \in 0 .. m |-> IF k = 0 THEN base ELSE F[<<r[k - 1], s[k]>>]]
           S == {m \in Nat : \E r : Is(r, m)}
<1>1. 0 \in S
  <2>1. Is([k \in 0 .. 0 |-> base], 0)
    OBVIOUS
  <2> HIDE DEF Is
  <2> QED BY <2>1
<1>2. ASSUME NEW m \in S PROVE m + 1 \in S
  <2>1. PICK r : Is(r, m)
    OBVIOUS
  <2> DEFINE q == [k \in 0 .. m + 1 |-> IF k <= m THEN r[k] ELSE F[<<r[m], s[k]>>]]
  <2>2. m \in Nat
    OBVIOUS
  <2>3. \A k \in 0 .. m : r[k] = IF k = 0 THEN base ELSE F[<<r[k - 1], s[k]>>]
    BY <2>1
  <2>4. ASSUME NEW k \in 0 .. m + 1
        PROVE  q[k] = IF k = 0 THEN base ELSE F[<<q[k - 1], s[k]>>]
    <3>1. CASE k = 0
      <4>1. q[k] = r[k] /\ k \in 0 .. m
        BY <2>2, <3>1
      <4> HIDE DEF q
      <4> QED BY <2>3, <3>1, <4>1
    <3>2. CASE k # 0
      <4>1. k - 1 \in 0 .. m /\ q[k - 1] = r[k - 1]
        BY <2>2, <3>2
      <4>2. CASE k <= m
        <5>1. q[k] = r[k] /\ k \in 0 .. m
          BY <2>2, <4>2
        <5> HIDE DEF q
        <5> QED BY <2>3, <3>2, <4>1, <5>1, Zenon
      <4>3. CASE k = m + 1
        <5>1. q[k] = F[<<r[m], s[k]>>] /\ k - 1 = m
          BY <2>2, <4>3
        <5> HIDE DEF q
        <5> QED BY <3>2, <4>1, <5>1, Zenon
      <4> QED BY <2>2, <4>2, <4>3
    <3> QED BY <3>1, <3>2
  <2>5. Is(q, m + 1)
    <3>1. q = [k \in 0 .. m + 1 |-> q[k]]
      OBVIOUS
    <3> HIDE DEF q
    <3> QED BY <2>4, <3>1
  <2> HIDE DEF Is, q
  <2> QED BY <2>2, <2>5
<1>3. S = Nat
  <2>1. S \in SUBSET Nat
    OBVIOUS
  <2> HIDE DEF S
  <2> QED BY <1>1, <1>2, <2>1, SetInduction
<1>4. n \in S
  BY <1>3
<1> QED BY <1>4 DEF Stepped

\* A step that takes a member of B and leaves a value in A.
IsStep(F, A, B) == F \in [A \X B -> A]

\* Two functions have the same values up to n, all in A.
Same(A, r, q, n) == \A k \in 0 .. n : r[k] \in A /\ q[k] = r[k]

\* Two sequences have the same first n members, all of B.
Common(B, s, t, n) == \A k \in 1 .. n : s[k] \in B /\ s[k] = t[k]

\* Its values have the type of its steps and depend only on the members
\* that are taken.
LEMMA StepsAgree ==
    ASSUME NEW A, NEW B, NEW F, IsStep(F, A, B), NEW base \in A, NEW n \in Nat,
           NEW s, NEW t, Common(B, s, t, n),
           NEW r, NEW q, Steps(r, F, base, s, n), Steps(q, F, base, t, n)
    PROVE  Same(A, r, q, n)
<1> DEFINE S == {m \in Nat : m <= n => r[m] \in A /\ q[m] = r[m]}
<1>1. 0 \in S
  BY DEF Steps
<1>2. ASSUME NEW m \in S PROVE m + 1 \in S
  <2>1. SUFFICES ASSUME m + 1 <= n PROVE r[m + 1] \in A /\ q[m + 1] = r[m + 1]
    OBVIOUS
  <2>2. m \in Nat /\ m + 1 \in 1 .. n /\ (m + 1) - 1 = m
    BY <2>1
  <2>3. r[m] \in A /\ q[m] = r[m]
    BY <2>1, <2>2
  <2>4. /\ r[m + 1] = F[<<r[m], s[m + 1]>>]
        /\ q[m + 1] = F[<<q[m], t[m + 1]>>]
    BY <2>2, Zenon DEF Steps
  <2>5. s[m + 1] \in B /\ s[m + 1] = t[m + 1]
    BY <2>2 DEF Common
  <2>6. <<r[m], s[m + 1]>> \in A \X B
    BY <2>3, <2>5
  <2>7. F[<<r[m], s[m + 1]>>] \in A
    BY <2>6 DEF IsStep
  <2> QED BY <2>3, <2>4, <2>5, <2>7
<1>3. S = Nat
  <2>1. S \in SUBSET Nat
    OBVIOUS
  <2> HIDE DEF S
  <2> QED BY <1>1, <1>2, <2>1, SetInduction
<1> QED BY <1>3 DEF Same

\* One member more is one step more.
LEMMA StepsAppend ==
    ASSUME NEW A, NEW B, NEW F, IsStep(F, A, B), NEW base \in A,
           NEW s \in Seq(B), NEW x \in B, NEW r, NEW q,
           Steps(r, F, base, s, Len(s)),
           Steps(q, F, base, Append(s, x), Len(Append(s, x)))
    PROVE  /\ r[Len(s)] \in A
           /\ q[Len(Append(s, x))] = F[<<r[Len(s)], x>>]
<1> DEFINE n == Len(s)
           t == Append(s, x)
<1>1. /\ n \in Nat /\ Len(t) = n + 1 /\ t[n + 1] = x
      /\ Common(B, s, t, n)
  BY DEF Common
<1>2. Steps(q, F, base, t, n) /\ q[n + 1] = F[<<q[n], t[n + 1]>>]
  <2>1. Steps(q, F, base, t, n + 1)
    BY <1>1
  <2> HIDE DEF n, t
  <2>2. n + 1 \in 1 .. n + 1 /\ (n + 1) - 1 = n /\ 1 .. n \in SUBSET (1 .. n + 1)
    BY <1>1
  <2> QED BY <2>1, <2>2, Zenon DEF Steps
<1>3. Steps(r, F, base, s, n)
  OBVIOUS
<1> HIDE DEF n, t
<1>4. Same(A, r, q, n)
  <2>1. n \in Nat
    BY <1>1
  <2>2. Common(B, s, t, n)
    BY <1>1
  <2>3. Steps(q, F, base, t, n)
    BY <1>2
  <2> QED BY <1>3, <2>1, <2>2, <2>3, StepsAgree
<1>5. r[n] \in A /\ q[n] = r[n]
  BY <1>1, <1>4 DEF Same
<1>6. q[Len(t)] = F[<<r[n], x>>]
  BY <1>1, <1>2, <1>5
<1> QED BY <1>5, <1>6 DEF n, t

\* From base, s is taken to v.
StepsTo(F, base, s, v) ==
    \E r : Steps(r, F, base, s, Len(s)) /\ r[Len(s)] = v

\* One step more takes it one step on.
LEMMA StepsToAppend ==
    ASSUME NEW A, NEW B, NEW F, IsStep(F, A, B), NEW base \in A,
           NEW s \in Seq(B), NEW x \in B, NEW v, StepsTo(F, base, s, v)
    PROVE  StepsTo(F, base, Append(s, x), F[<<v, x>>])
<1> DEFINE t == Append(s, x)
           n == Len(t)
<1>1. PICK r : Steps(r, F, base, s, Len(s)) /\ r[Len(s)] = v
  BY DEF StepsTo
<1>2. n \in Nat
  OBVIOUS
<1>3. \E q : Stepped(q, F, base, t, n)
  <2> HIDE DEF n, t
  <2> QED BY <1>2, StepsExist
<1> HIDE DEF n, t
<1>4. PICK q : Stepped(q, F, base, t, n)
  BY <1>3
<1>5. Steps(q, F, base, t, n)
  <2>1. q[0] = base
    BY <1>2, <1>4 DEF Stepped
  <2>2. ASSUME NEW k \in 1 .. n PROVE q[k] = F[<<q[k - 1], t[k]>>]
    <3>1. k \in 0 .. n /\ k # 0
      BY <1>2
    <3> QED BY <1>4, <3>1 DEF Stepped
  <2> QED BY <2>1, <2>2 DEF Steps
<1>6. q[n] = F[<<v, x>>]
  <2>1. Steps(q, F, base, Append(s, x), Len(Append(s, x)))
    BY <1>5 DEF n, t
  <2>2. q[Len(Append(s, x))] = F[<<r[Len(s)], x>>]
    BY <1>1, <2>1, StepsAppend
  <2> QED BY <1>1, <2>2 DEF n, t
<1> QED BY <1>5, <1>6 DEF n, t, StepsTo

\* It is taken to one value only.
LEMMA StepsToUnique ==
    ASSUME NEW A, NEW B, NEW F, IsStep(F, A, B), NEW base \in A,
           NEW s \in Seq(B), NEW v, NEW w,
           StepsTo(F, base, s, v), StepsTo(F, base, s, w)
    PROVE  v \in A /\ w = v
<1>1. PICK r : Steps(r, F, base, s, Len(s)) /\ r[Len(s)] = v
  BY DEF StepsTo
<1>2. PICK q : Steps(q, F, base, s, Len(s)) /\ q[Len(s)] = w
  BY DEF StepsTo
<1>3. Len(s) \in Nat /\ Common(B, s, s, Len(s))
  BY DEF Common
<1> DEFINE n == Len(s)
<1>5. n \in Nat /\ Common(B, s, s, n) /\ Steps(r, F, base, s, n) /\ Steps(q, F, base, s, n)
  BY <1>1, <1>2, <1>3
<1>4. Same(A, r, q, Len(s))
  <2> HIDE DEF n
  <2>1. Same(A, r, q, n)
    BY <1>5, StepsAgree
  <2> QED BY <2>1 DEF n
<1> QED BY <1>1, <1>2, <1>3, <1>4 DEF Same

-----------------------------------------------------------------------------
(* FlattenSeq *)

\* The function FlattenSeq is computed with, for the first n members of s.
Flattens(g, s, n) ==
    g = [k \in 1 .. n |-> IF k = 1 THEN s[k] ELSE g[k - 1] \o s[k]]

\* There is such a function for every number of members.
LEMMA FlattensExists ==
    ASSUME NEW s, NEW n \in Nat
    PROVE  \E g : Flattens(g, s, n)
<1> DEFINE S == {k \in Nat : \E g : Flattens(g, s, k)}
<1>1. 0 \in S
  <2>1. Flattens([k \in 1 .. 0 |-> k], s, 0)
    BY DEF Flattens
  <2> QED BY <2>1
<1>2. ASSUME NEW k \in S PROVE k + 1 \in S
  <2>1. PICK g : Flattens(g, s, k)
    OBVIOUS
  <2> DEFINE h == [j \in 1 .. k + 1 |->
                     IF j <= k THEN g[j]
                     ELSE IF j = 1 THEN s[j] ELSE g[j - 1] \o s[j]]
  <2>2. \A j \in 1 .. k : g[j] = IF j = 1 THEN s[j] ELSE g[j - 1] \o s[j]
    BY <2>1 DEF Flattens
  <2>3. h = [j \in 1 .. k + 1 |-> IF j = 1 THEN s[j] ELSE h[j - 1] \o s[j]]
    <3>1. ASSUME NEW j \in 1 .. k + 1
          PROVE  h[j] = IF j = 1 THEN s[j] ELSE h[j - 1] \o s[j]
      <4>1. CASE j = 1
        BY <4>1, <2>2
      <4>2. CASE j # 1
        <5>1. j - 1 \in 1 .. k + 1 /\ j - 1 <= k
          BY <4>2
        <5>2. h[j - 1] = g[j - 1]
          BY <5>1
        <5>3. CASE j <= k
          <6>1. j \in 1 .. k
            BY <5>3
          <6>2. g[j] = g[j - 1] \o s[j]
            BY <2>2, <4>2, <6>1
          <6>3. h[j] = g[j]
            BY <5>3
          <6> QED BY <4>2, <5>2, <6>2, <6>3, Zenon
        <5>4. CASE j = k + 1
          <6>1. h[j] = g[j - 1] \o s[j]
            <7>1. ~(j <= k)
              BY <5>4
            <7> QED BY <4>2, <7>1, Zenon
          <6> QED BY <4>2, <5>2, <6>1, Zenon
        <5> QED BY <5>3, <5>4
      <4> QED BY <4>1, <4>2
    <3> HIDE DEF h
    <3>2. h = [j \in 1 .. k + 1 |-> h[j]]
      BY DEF h
    <3> QED BY <3>1, <3>2
  <2>4. Flattens(h, s, k + 1)
    BY <2>3 DEF Flattens
  <2> QED BY <2>4
<1>3. S = Nat
  <2> HIDE DEF S
  <2>1. S \in SUBSET Nat
    BY DEF S
  <2> QED BY <1>1, <1>2, <2>1, SetInduction
<1> QED BY <1>3

\* Two sequences agree on the first n numbers.
Agree(n, s, t) == \A k \in 1 .. n : s[k] = t[k]

\* Its value depends only on the members up to its argument.
LEMMA FlattensAgree ==
    ASSUME NEW s, NEW t, NEW m \in Nat, NEW n \in Nat, NEW g, NEW h,
           Flattens(g, s, n), Flattens(h, t, m), m = n + 1, Agree(n, s, t)
    PROVE  Agree(n, g, h)
<1> SUFFICES \A k \in 1 .. n : g[k] = h[k]
  BY DEF Agree
<1> USE DEF Agree
<1>1. /\ \A k \in 1 .. n : g[k] = IF k = 1 THEN s[k] ELSE g[k - 1] \o s[k]
      /\ \A k \in 1 .. n + 1 : h[k] = IF k = 1 THEN t[k] ELSE h[k - 1] \o t[k]
  BY DEF Flattens
<1> DEFINE S == {k \in Nat : k <= n => \A j \in 1 .. k : g[j] = h[j]}
<1>2. 0 \in S
  OBVIOUS
<1>3. ASSUME NEW k \in S PROVE k + 1 \in S
  <2>1. SUFFICES ASSUME k + 1 <= n PROVE g[k + 1] = h[k + 1]
    OBVIOUS
  <2>2. /\ g[k + 1] = IF k = 0 THEN s[k + 1] ELSE g[k] \o s[k + 1]
        /\ h[k + 1] = IF k = 0 THEN t[k + 1] ELSE h[k] \o t[k + 1]
    BY <1>1, <2>1
  <2>3. s[k + 1] = t[k + 1] /\ (k # 0 => g[k] = h[k])
    BY <2>1
  <2> QED BY <2>2, <2>3
<1>4. S = Nat
  <2> HIDE DEF S
  <2>1. S \in SUBSET Nat
    BY DEF S
  <2> QED BY <1>2, <1>3, <2>1, SetInduction
<1> QED BY <1>4

\* Its values are sequences over the set the members are over.
LEMMA FlattensType ==
    ASSUME NEW T, NEW s \in Seq(Seq(T)), NEW g, Flattens(g, s, Len(s))
    PROVE  \A k \in 1 .. Len(s) : g[k] \in Seq(T)
<1>1. \A k \in 1 .. Len(s) : g[k] = IF k = 1 THEN s[k] ELSE g[k - 1] \o s[k]
  BY DEF Flattens
<1> DEFINE S == {k \in Nat : k <= Len(s) => \A j \in 1 .. k : g[j] \in Seq(T)}
<1>2. 0 \in S
  OBVIOUS
<1>3. ASSUME NEW k \in S PROVE k + 1 \in S
  <2>1. SUFFICES ASSUME k + 1 <= Len(s) PROVE g[k + 1] \in Seq(T)
    OBVIOUS
  <2>2. s[k + 1] \in Seq(T) /\ (k # 0 => g[k] \in Seq(T))
    BY <2>1
  <2>3. g[k + 1] = IF k = 0 THEN s[k + 1] ELSE g[k] \o s[k + 1]
    BY <1>1, <2>1
  <2> QED BY <2>2, <2>3
<1>4. S = Nat
  <2> HIDE DEF S
  <2>1. S \in SUBSET Nat
    BY DEF S
  <2> QED BY <1>2, <1>3, <2>1, SetInduction
<1> QED BY <1>4

\* FlattenSeq is the last value of such a function.
LEMMA FlattenByFunction ==
    ASSUME NEW s, Len(s) \in Nat \ {0}
    PROVE  \E g : Flattens(g, s, Len(s)) /\ FlattenSeq(s) = g[Len(s)]
<1> DEFINE g == CHOOSE g : Flattens(g, s, Len(s))
<1>1. Flattens(g, s, Len(s))
  <2>1. \E h : Flattens(h, s, Len(s))
    BY FlattensExists
  <2> QED BY <2>1
<1>2. FlattenSeq(s) = g[Len(s)]
  BY DEF FlattenSeq, Flattens
<1> QED BY <1>1, <1>2

\* The bytes of no packet,
LEMMA FlattenEmpty == FlattenSeq(<<>>) = <<>>
BY DEF FlattenSeq

\* of packets of members of T,
LEMMA FlattenType ==
    ASSUME NEW T, NEW s \in Seq(Seq(T))
    PROVE  FlattenSeq(s) \in Seq(T)
<1>1. CASE Len(s) = 0
  <2>1. s = <<>> /\ <<>> \in Seq(T)
    BY <1>1
  <2>2. FlattenSeq(s) = <<>>
    BY <2>1, FlattenEmpty, Zenon
  <2> QED BY <2>1, <2>2
<1>2. CASE Len(s) # 0
  <2>1. PICK g : Flattens(g, s, Len(s)) /\ FlattenSeq(s) = g[Len(s)]
    BY <1>2, FlattenByFunction
  <2> QED BY <1>2, <2>1, FlattensType
<1> QED BY <1>1, <1>2

\* of one packet more,
LEMMA FlattenAppend ==
    ASSUME NEW T, NEW s \in Seq(Seq(T)), NEW x \in Seq(T)
    PROVE  FlattenSeq(Append(s, x)) = FlattenSeq(s) \o x
<1> DEFINE t == Append(s, x)
           n == Len(s)
<1>1. /\ t \in Seq(Seq(T)) /\ Len(t) = n + 1 /\ n \in Nat
      /\ t[n + 1] = x /\ \A k \in 1 .. n : t[k] = s[k]
  OBVIOUS
<1>2. PICK h : Flattens(h, t, Len(t)) /\ FlattenSeq(t) = h[Len(t)]
  <2>1. Len(t) \in Nat \ {0}
    BY <1>1
  <2> HIDE DEF t, n
  <2> QED BY <2>1, FlattenByFunction
<1>3. h[n + 1] = IF n = 0 THEN x ELSE h[n] \o x
  <2> HIDE DEF t
  <2>1. \A k \in 1 .. n + 1 : h[k] = IF k = 1 THEN t[k] ELSE h[k - 1] \o t[k]
    BY <1>1, <1>2 DEF Flattens
  <2> QED BY <1>1, <2>1
<1>4. CASE n = 0
  <2>1. s = <<>>
    BY <1>4
  <2>2. FlattenSeq(t) = x
    BY <1>1, <1>2, <1>3, <1>4
  <2> QED BY <2>1, <2>2, FlattenEmpty
<1>5. CASE n # 0
  <2>1. PICK g : Flattens(g, s, n) /\ FlattenSeq(s) = g[n]
    BY <1>5, FlattenByFunction
  <2>2. h[n] = g[n]
    <3> HIDE DEF t, n
    <3>1. /\ n \in Nat /\ Len(t) \in Nat /\ Len(t) = n + 1
          /\ Flattens(h, t, Len(t)) /\ \A k \in 1 .. n : s[k] = t[k]
      BY <1>1, <1>2
    <3> DEFINE m == Len(t)
    <3> HIDE DEF m
    <3>2. Agree(n, g, h)
      <4>1. m \in Nat /\ n \in Nat /\ m = n + 1
        BY <3>1 DEF m
      <4>2. Flattens(h, t, m) /\ Flattens(g, s, n) /\ Agree(n, s, t)
        BY <2>1, <3>1 DEF m, Agree
      <4> QED BY <4>1, <4>2, FlattensAgree
    <3> QED BY <1>1, <1>5, <3>2 DEF Agree
  <2> QED BY <1>1, <1>2, <1>3, <1>5, <2>1, <2>2
<1> QED BY <1>4, <1>5

\* and of one packet.
LEMMA FlattenSingle ==
    ASSUME NEW T, NEW x \in Seq(T)
    PROVE  FlattenSeq(<<x>>) = x
<1>1. <<x>> = Append(<<>>, x) /\ <<>> \in Seq(Seq(T))
  OBVIOUS
<1>2. FlattenSeq(Append(<<>>, x)) = <<>> \o x
  BY <1>1, FlattenAppend, FlattenEmpty
<1> QED BY <1>1, <1>2, ConcatEmptySeq

\* FlattenSeq of two sequences, one after the other: one member more.
LEMMA FlattenConcatStep ==
    ASSUME NEW T, NEW s \in Seq(Seq(T)), NEW u \in Seq(Seq(T)), NEW x \in Seq(T),
           FlattenSeq(s \o u) = FlattenSeq(s) \o FlattenSeq(u)
    PROVE  FlattenSeq(s \o Append(u, x)) = FlattenSeq(s) \o FlattenSeq(Append(u, x))
<1>1. s \o Append(u, x) = Append(s \o u, x)
  OBVIOUS
<1>2. s \o u \in Seq(Seq(T))
  OBVIOUS
<1>3. FlattenSeq(Append(s \o u, x)) = FlattenSeq(s \o u) \o x
  BY <1>2, FlattenAppend
<1>4. FlattenSeq(Append(u, x)) = FlattenSeq(u) \o x
  BY FlattenAppend
<1>5. FlattenSeq(s) \in Seq(T) /\ FlattenSeq(u) \in Seq(T)
  BY FlattenType
<1>6. (FlattenSeq(s) \o FlattenSeq(u)) \o x = FlattenSeq(s) \o (FlattenSeq(u) \o x)
  BY <1>5, ConcatAssociative, SMTT(30)
<1> QED BY <1>1, <1>3, <1>4, <1>6, Zenon

\* FlattenSeq distributes over the concatenation of any two sequences.
LEMMA FlattenConcat ==
    ASSUME NEW T, NEW s \in Seq(Seq(T)), NEW t \in Seq(Seq(T))
    PROVE  FlattenSeq(s \o t) = FlattenSeq(s) \o FlattenSeq(t)
<1> DEFINE p(k) == SubSeq(t, 1, k)
           P(k) == FlattenSeq(s \o p(k)) = FlattenSeq(s) \o FlattenSeq(p(k))
           S == {k \in Nat : k <= Len(t) => P(k)}
<1>1. P(0)
  <2>1. p(0) = <<>> /\ s \o p(0) = s
    OBVIOUS
  <2>2. FlattenSeq(s) \in Seq(T)
    BY FlattenType
  <2>3. FlattenSeq(s) \o FlattenSeq(p(0)) = FlattenSeq(s)
    BY <2>1, <2>2, FlattenEmpty, ConcatEmptySeq
  <2> QED BY <2>1, <2>3
<1>2. ASSUME NEW k \in Nat, k + 1 <= Len(t), P(k) PROVE P(k + 1)
  <2>1. p(k) \in Seq(Seq(T)) /\ t[k + 1] \in Seq(T)
    BY <1>2
  <2>2. p(k + 1) = Append(p(k), t[k + 1])
    BY <1>2
  <2> HIDE DEF p
  <2> QED BY <1>2, <2>1, <2>2, FlattenConcatStep, ZenonT(30)
<1>3. S = Nat
  <2> HIDE DEF P
  <2>1. 0 \in S
    BY <1>1
  <2>2. \A k \in S : k + 1 \in S
    BY <1>2
  <2>3. S \in SUBSET Nat
    OBVIOUS
  <2> HIDE DEF S
  <2> QED BY <2>1, <2>2, <2>3, SetInduction
<1>4. Len(t) \in Nat /\ p(Len(t)) = t
  OBVIOUS
<1>5. P(Len(t))
  <2> HIDE DEF P
  <2> QED BY <1>3, <1>4
<1> HIDE DEF p
<1> QED BY <1>4, <1>5, Zenon

\* A value it is taken to is the only one.
LEMMA StepsToOnly ==
    ASSUME NEW A, NEW B, NEW F, IsStep(F, A, B), NEW base \in A,
           NEW s \in Seq(B), NEW v, StepsTo(F, base, s, v)
    PROVE  \A w : StepsTo(F, base, s, w) => w = v
<1>1. ASSUME NEW w, StepsTo(F, base, s, w) PROVE v \in A /\ w = v
  BY <1>1, StepsToUnique
<1> QED BY <1>1

\* It is taken somewhere.
LEMMA StepsToSome ==
    ASSUME NEW A, NEW B, NEW F, IsStep(F, A, B), NEW base \in A, NEW s \in Seq(B)
    PROVE  \E v \in A : StepsTo(F, base, s, v)
<1>1. PICK r : Stepped(r, F, base, s, Len(s))
  <2> DEFINE n == Len(s)
  <2>1. n \in Nat
    OBVIOUS
  <2> HIDE DEF n
  <2>2. \E r : Stepped(r, F, base, s, n)
    BY <2>1, StepsExist
  <2> QED BY <2>2 DEF n
<1>2. Steps(r, F, base, s, Len(s))
  <2> DEFINE n == Len(s)
  <2>1. n \in Nat /\ Stepped(r, F, base, s, n)
    BY <1>1
  <2> HIDE DEF n
  <2>2. r[0] = base
    BY <2>1 DEF Stepped
  <2>3. ASSUME NEW k \in 1 .. n PROVE r[k] = F[<<r[k - 1], s[k]>>]
    <3>1. k \in 0 .. n /\ k # 0
      BY <2>1
    <3> QED BY <2>1, <3>1 DEF Stepped
  <2>4. Steps(r, F, base, s, n)
    BY <2>2, <2>3 DEF Steps
  <2> QED BY <2>4 DEF n
<1>3. StepsTo(F, base, s, r[Len(s)])
  BY <1>2 DEF StepsTo
<1>4. r[Len(s)] \in A
  BY <1>3, StepsToUnique
<1> QED BY <1>3, <1>4

\* No step leaves it where it is.
LEMMA StepsToNone ==
    ASSUME NEW A, NEW B, NEW F, IsStep(F, A, B), NEW base \in A
    PROVE  StepsTo(F, base, <<>>, base) /\ \A v : StepsTo(F, base, <<>>, v) => v = base
<1>1. StepsTo(F, base, <<>>, base)
  <2> DEFINE r == [k \in 0 .. 0 |-> base]
  <2>1. Steps(r, F, base, <<>>, 0) /\ r[0] = base
    BY DEF Steps
  <2> HIDE DEF r
  <2> QED BY <2>1 DEF StepsTo
<1>2. <<>> \in Seq(B)
  OBVIOUS
<1>3. ASSUME NEW v, StepsTo(F, base, <<>>, v) PROVE v = base
  <2> DEFINE s == <<>>
  <2>1. s \in Seq(B) /\ StepsTo(F, base, s, base) /\ StepsTo(F, base, s, v)
    BY <1>1, <1>2, <1>3
  <2> HIDE DEF s
  <2> QED BY <2>1, StepsToOnly
<1> QED BY <1>1, <1>3

\* Two sequences one after the other.
LEMMA StepsToConcat ==
    ASSUME NEW A, NEW B, NEW F, IsStep(F, A, B), NEW a \in A, NEW b \in A,
           NEW s \in Seq(B), StepsTo(F, a, s, b)
    PROVE  \A t \in Seq(B) : \A c : StepsTo(F, b, t, c) => StepsTo(F, a, s \o t, c)
<1> DEFINE P(t) == \A c : StepsTo(F, b, t, c) => StepsTo(F, a, s \o t, c)
           T == {t \in Seq(B) : P(t)}
<1>1. <<>> \in T
  <2>1. <<>> \in Seq(B) /\ s \o <<>> = s
    BY ConcatEmptySeq
  <2>2. \A c : StepsTo(F, b, <<>>, c) => c = b
    BY StepsToNone
  <2> QED BY <2>1, <2>2
<1>2. ASSUME NEW t \in T, NEW x \in B PROVE Append(t, x) \in T
  <2>1. t \in Seq(B) /\ P(t)
    OBVIOUS
  <2>2. Append(t, x) \in Seq(B) /\ s \o t \in Seq(B) /\ s \o Append(t, x) = Append(s \o t, x)
    BY <2>1
  <2>3. PICK v \in A : StepsTo(F, b, t, v)
    BY <2>1, StepsToSome
  <2>4. StepsTo(F, b, Append(t, x), F[<<v, x>>])
    BY <2>1, <2>3, StepsToAppend
  <2>5. StepsTo(F, a, s \o t, v)
    BY <2>1, <2>3
  <2>6. StepsTo(F, a, Append(s \o t, x), F[<<v, x>>])
    BY <2>2, <2>5, StepsToAppend
  <2>7. ASSUME NEW c, StepsTo(F, b, Append(t, x), c) PROVE c = F[<<v, x>>]
    <3> DEFINE u == Append(t, x)
               w == F[<<v, x>>]
    <3>1. u \in Seq(B) /\ StepsTo(F, b, u, w) /\ StepsTo(F, b, u, c)
      BY <2>2, <2>4, <2>7
    <3> HIDE DEF u, w
    <3>2. c = w
      BY <3>1, StepsToOnly
    <3> QED BY <3>2 DEF w
  <2>8. P(Append(t, x))
    BY <2>2, <2>6, <2>7, Zenon
  <2> HIDE DEF P
  <2> QED BY <2>2, <2>8
<1>3. T = Seq(B)
  <2>1. T \in SUBSET Seq(B)
    OBVIOUS
  <2> HIDE DEF T
  <2> QED BY <1>1, <1>2, <2>1, AppendInduction
<1> HIDE DEF P
<1>4. \A t \in Seq(B) : P(t)
  BY <1>3
<1> QED BY <1>4 DEF P

\* The first of two sequences is taken somewhere, and the other on from there.
LEMMA StepsToSplit ==
    ASSUME NEW A, NEW B, NEW F, IsStep(F, A, B), NEW a \in A, NEW c,
           NEW s \in Seq(B), NEW t \in Seq(B), StepsTo(F, a, s \o t, c)
    PROVE  \E b \in A : StepsTo(F, a, s, b) /\ StepsTo(F, b, t, c)
<1>1. PICK b \in A : StepsTo(F, a, s, b)
  BY StepsToSome
<1>2. PICK d \in A : StepsTo(F, b, t, d)
  BY StepsToSome
<1>3. StepsTo(F, a, s \o t, d)
  BY <1>1, <1>2, StepsToConcat
<1>4. s \o t \in Seq(B)
  OBVIOUS
<1>5. c = d
  <2> DEFINE u == s \o t
  <2>1. u \in Seq(B) /\ StepsTo(F, a, u, c) /\ StepsTo(F, a, u, d)
    BY <1>3, <1>4
  <2> HIDE DEF u
  <2> QED BY <2>1, StepsToOnly
<1> QED BY <1>1, <1>2, <1>5

\* One step.
LEMMA StepsToOne ==
    ASSUME NEW A, NEW B, NEW F, IsStep(F, A, B), NEW a \in A, NEW x \in B
    PROVE  F[<<a, x>>] \in A /\ StepsTo(F, a, <<x>>, F[<<a, x>>])
<1>1. StepsTo(F, a, <<>>, a)
  BY StepsToNone
<1>2. <<>> \in Seq(B) /\ <<x>> = Append(<<>>, x)
  OBVIOUS
<1>3. StepsTo(F, a, Append(<<>>, x), F[<<a, x>>])
  BY <1>1, <1>2, StepsToAppend
<1>4. <<a, x>> \in A \X B
  OBVIOUS
<1> QED BY <1>2, <1>3, <1>4 DEF IsStep

\* The first step, and the others on from there.
LEMMA StepsToTail ==
    ASSUME NEW A, NEW B, NEW F, IsStep(F, A, B), NEW a \in A, NEW c,
           NEW s \in Seq(B), Len(s) > 0, StepsTo(F, a, s, c)
    PROVE  /\ s[1] \in B /\ Tail(s) \in Seq(B) /\ Len(Tail(s)) = Len(s) - 1
           /\ F[<<a, s[1]>>] \in A
           /\ StepsTo(F, F[<<a, s[1]>>], Tail(s), c)
<1> DEFINE x == s[1]
<1>1. /\ x \in B /\ Tail(s) \in Seq(B) /\ Len(Tail(s)) = Len(s) - 1
      /\ <<x>> \in Seq(B) /\ s = <<x>> \o Tail(s)
  OBVIOUS
<1> HIDE DEF x
<1>2. PICK b \in A : StepsTo(F, a, <<x>>, b) /\ StepsTo(F, b, Tail(s), c)
  BY <1>1, StepsToSplit
<1>3. F[<<a, x>>] \in A /\ StepsTo(F, a, <<x>>, F[<<a, x>>])
  BY <1>1, StepsToOne
<1>4. b = F[<<a, x>>]
  BY <1>1, <1>2, <1>3, StepsToOnly
<1> QED BY <1>1, <1>2, <1>3, <1>4 DEF x

\* What every step keeps, all of them keep.
LEMMA StepsToKeeps ==
    ASSUME NEW A, NEW B, NEW F, IsStep(F, A, B), NEW I \in SUBSET A, NEW a \in I,
           \A v \in I : \A x \in B : F[<<v, x>>] \in I
    PROVE  \A s \in Seq(B) : \A v : StepsTo(F, a, s, v) => v \in I
<1> DEFINE P(s) == \A v : StepsTo(F, a, s, v) => v \in I
           T == {s \in Seq(B) : P(s)}
<1>1. <<>> \in T
  BY StepsToNone
<1>2. ASSUME NEW s \in T, NEW x \in B PROVE Append(s, x) \in T
  <2>1. s \in Seq(B) /\ P(s) /\ Append(s, x) \in Seq(B)
    OBVIOUS
  <2>2. PICK v \in A : StepsTo(F, a, s, v)
    BY <2>1, StepsToSome
  <2>3. StepsTo(F, a, Append(s, x), F[<<v, x>>])
    BY <2>1, <2>2, StepsToAppend
  <2>4. F[<<v, x>>] \in I
    BY <2>1, <2>2
  <2>5. ASSUME NEW c, StepsTo(F, a, Append(s, x), c) PROVE c = F[<<v, x>>]
    <3> DEFINE u == Append(s, x)
               w == F[<<v, x>>]
    <3>1. u \in Seq(B) /\ StepsTo(F, a, u, w) /\ StepsTo(F, a, u, c)
      BY <2>1, <2>3, <2>5
    <3> HIDE DEF u, w
    <3>2. c = w
      BY <3>1, StepsToOnly
    <3> QED BY <3>2 DEF w
  <2>6. P(Append(s, x))
    BY <2>4, <2>5, Zenon
  <2> HIDE DEF P
  <2> QED BY <2>1, <2>6
<1>3. T = Seq(B)
  <2>1. T \in SUBSET Seq(B)
    OBVIOUS
  <2> HIDE DEF T
  <2> QED BY <1>1, <1>2, <2>1, AppendInduction
<1> HIDE DEF P
<1>4. \A s \in Seq(B) : P(s)
  BY <1>3
<1> QED BY <1>4 DEF P

\* Taking steps commutes with what every step commutes with.
LEMMA StepsToMap ==
    ASSUME NEW A, NEW B, NEW F, IsStep(F, A, B), NEW a \in A, NEW h \in [A -> A],
           \A v \in A : \A x \in B : F[<<h[v], x>>] = h[F[<<v, x>>]]
    PROVE  \A s \in Seq(B) : \A v : StepsTo(F, a, s, v) => StepsTo(F, h[a], s, h[v])
<1> DEFINE P(s) == \A v : StepsTo(F, a, s, v) => StepsTo(F, h[a], s, h[v])
           T == {s \in Seq(B) : P(s)}
<1>1. <<>> \in T
  <2>1. h[a] \in A
    OBVIOUS
  <2>2. StepsTo(F, h[a], <<>>, h[a])
    BY <2>1, StepsToNone
  <2>3. \A v : StepsTo(F, a, <<>>, v) => v = a
    BY StepsToNone
  <2> QED BY <2>2, <2>3
<1>2. ASSUME NEW s \in T, NEW x \in B PROVE Append(s, x) \in T
  <2>1. s \in Seq(B) /\ P(s) /\ Append(s, x) \in Seq(B) /\ h[a] \in A
    OBVIOUS
  <2>2. PICK v \in A : StepsTo(F, a, s, v)
    BY <2>1, StepsToSome
  <2>3. StepsTo(F, a, Append(s, x), F[<<v, x>>])
    BY <2>1, <2>2, StepsToAppend
  <2>4. StepsTo(F, h[a], s, h[v])
    BY <2>1, <2>2
  <2>5. StepsTo(F, h[a], Append(s, x), F[<<h[v], x>>])
    BY <2>1, <2>4, StepsToAppend
  <2>6. ASSUME NEW c, StepsTo(F, a, Append(s, x), c) PROVE c = F[<<v, x>>]
    <3> DEFINE u == Append(s, x)
               w == F[<<v, x>>]
    <3>1. u \in Seq(B) /\ StepsTo(F, a, u, w) /\ StepsTo(F, a, u, c)
      BY <2>1, <2>3, <2>6
    <3> HIDE DEF u, w
    <3>2. c = w
      BY <3>1, StepsToOnly
    <3> QED BY <3>2 DEF w
  <2>7. F[<<h[v], x>>] = h[F[<<v, x>>]]
    BY <2>2
  <2>8. P(Append(s, x))
    BY <2>5, <2>6, <2>7, Zenon
  <2> HIDE DEF P
  <2> QED BY <2>1, <2>8
<1>3. T = Seq(B)
  <2>1. T \in SUBSET Seq(B)
    OBVIOUS
  <2> HIDE DEF T
  <2> QED BY <1>1, <1>2, <2>1, AppendInduction
<1> HIDE DEF P
<1>4. \A s \in Seq(B) : P(s)
  BY <1>3
<1> QED BY <1>4 DEF P

(***************************************************************************)
(* What the operators of Pronto return.                                    *)
(***************************************************************************)

LastWord == 65535

Word == 0 .. LastWord

\* The output order of two tables.
LEMMA AlternateType ==
    ASSUME NEW S, NEW p \in Seq(S), NEW s \in Seq(S)
    PROVE  Alternate(p, s) \in Seq(S) /\ Len(Alternate(p, s)) = Len(p) + Len(s)
<1> DEFINE k == IF Len(p) < Len(s) THEN Len(p) ELSE Len(s)
           e(i) == CASE i > 2 * k /\ Len(p) > k -> p[i - k]
                     [] i > 2 * k /\ Len(p) = k -> s[i - k]
                     [] i <= 2 * k /\ i % 2 = 1     -> p[(i + 1) \div 2]
                     [] i <= 2 * k /\ i % 2 = 0     -> s[i \div 2]
<1>1. /\ k \in Nat /\ k <= Len(p) /\ k <= Len(s)
      /\ k = Len(p) \/ k = Len(s)
  OBVIOUS
<1>2. ASSUME NEW i \in 1 .. Len(p) + Len(s)
      PROVE  e(i) \in S
  <2>1. CASE i > 2 * k /\ Len(p) > k
    <3>1. e(i) = p[i - k]
      BY <2>1
    <3>2. i - k \in 1 .. Len(p)
      BY <2>1, <1>1
    <3> QED
      BY <3>1, <3>2, ElementOfSeq
  <2>2. CASE i > 2 * k /\ ~(Len(p) > k)
    <3>1. e(i) = s[i - k]
      BY <2>2, <1>1
    <3>2. i - k \in 1 .. Len(s)
      BY <2>2, <1>1
    <3> QED
      BY <3>1, <3>2, ElementOfSeq
  <2>3. CASE i <= 2 * k /\ i % 2 = 1
    <3>1. e(i) = p[(i + 1) \div 2]
      BY <2>3, <1>1
    <3>2. (i + 1) \div 2 \in 1 .. Len(p)
      BY <2>3, <1>1
    <3> QED
      BY <3>1, <3>2, ElementOfSeq
  <2>4. CASE i <= 2 * k /\ i % 2 = 0
    <3>1. e(i) = s[i \div 2]
      BY <2>4, <1>1
    <3>2. i \div 2 \in 1 .. Len(s)
      BY <2>4, <1>1
    <3> QED
      BY <3>1, <3>2, ElementOfSeq
  <2>5. i % 2 \in {0, 1}
    OBVIOUS
  <2> QED
    BY <2>1, <2>2, <2>3, <2>4, <2>5, <1>1
<1>3. Alternate(p, s) = [i \in 1 .. Len(p) + Len(s) |-> e(i)]
  BY DEF Alternate
<1> HIDE DEF e, k
<1>4. Len(p) + Len(s) \in Nat
  OBVIOUS
<1> QED
  BY <1>2, <1>3, <1>4

\* Of tables that are as long, but for a last pulse, the odd members are
\* pulses and the even ones spaces.
LEMMA AlternateTurns ==
    ASSUME NEW S, NEW p \in Seq(S), NEW s \in Seq(S),
           Len(p) = Len(s) \/ Len(p) = Len(s) + 1,
           NEW i \in 1 .. Len(p) + Len(s)
    PROVE  Alternate(p, s)[i] = IF i % 2 = 1 THEN p[(i + 1) \div 2] ELSE s[i \div 2]
<1> DEFINE k == IF Len(p) < Len(s) THEN Len(p) ELSE Len(s)
           e(j) == CASE j > 2 * k /\ Len(p) > k -> p[j - k]
                     [] j > 2 * k /\ Len(p) = k -> s[j - k]
                     [] j <= 2 * k /\ j % 2 = 1     -> p[(j + 1) \div 2]
                     [] j <= 2 * k /\ j % 2 = 0     -> s[j \div 2]
<1>1. k = Len(s) /\ k \in Nat /\ Len(p) \in Nat
  OBVIOUS
<1>2. Alternate(p, s)[i] = e(i)
  BY DEF Alternate
<1>3. i % 2 \in {0, 1} /\ i \in Nat /\ i <= Len(p) + Len(s)
  OBVIOUS
<1> HIDE DEF k
<1>4. CASE i <= 2 * k
  BY <1>1, <1>2, <1>3, <1>4
<1>5. CASE i > 2 * k
  <2>1. i = 2 * k + 1 /\ Len(p) > k
    BY <1>1, <1>3, <1>5
  <2>2. i % 2 = 1 /\ (i + 1) \div 2 = i - k
    BY <1>1, <2>1
  <2>3. e(i) = p[i - k]
    BY <1>1, <1>3, <2>1
  <2> HIDE DEF e
  <2> QED BY <1>2, <2>2, <2>3
<1> QED BY <1>1, <1>3, <1>4, <1>5

\* A number cut to 16 bits, or to 8, is a word.
LEMMA CutToWord == ASSUME NEW x \in Nat PROVE x % 65536 \in Word /\ x % 256 \in Word
<1>1. LastWord \in Nat /\ 65536 <= LastWord + 1 /\ 256 <= LastWord + 1
  BY SMT DEF LastWord
<1>2. \A n \in Nat : n > 0 /\ n <= LastWord + 1 => x % n \in 0 .. LastWord
  BY <1>1
<1>3. x % 65536 \in 0 .. LastWord
  BY <1>1, <1>2
<1>4. x % 256 \in 0 .. LastWord
  BY <1>1, <1>2
<1> QED BY <1>3, <1>4 DEF Word

\* A sequence that goes on begins as it did.
LEMMA FirstTwo ==
    ASSUME NEW S, NEW a \in Seq(S), NEW b \in Seq(S), Len(a) >= 2
    PROVE  /\ a \o b \in Seq(S) /\ Len(a \o b) = Len(a) + Len(b)
           /\ (a \o b)[1] = a[1] /\ (a \o b)[2] = a[2]
OBVIOUS

\* A duration in carrier cycles is a 16-bit word.
LEMMA ScaledType ==
    ASSUME NEW scale \in Nat, NEW freq \in Nat \ {0}, NEW time \in Nat
    PROVE  ((scale * time) \div freq) % 65536 \in Word
<1> DEFINE d == scale * time
<1>1. d \in Nat
  OBVIOUS
<1> HIDE DEF d
<1>2. d \div freq \in Nat
  BY <1>1
<1>3. (d \div freq) % 65536 \in Word
  BY <1>2, CutToWord
<1> QED
  BY <1>3 DEF d

\* The frequency word is one.
LEMMA FrequencyWordType ==
    ASSUME NEW freq \in Nat \ {0}
    PROVE  FrequencyWord(freq) \in Word
<1> DEFINE k == 4145146
<1>1. k \in Nat
  BY SMT
<1>2. FrequencyWord(freq) = (k \div freq) % 256
  BY DEF FrequencyWord
<1> HIDE DEF k
<1>3. k \div freq \in Nat
  BY <1>1
<1> QED BY <1>2, <1>3, CutToWord

\* A Pronto code has five words more than it has durations, all of 16 bits:
\* the first is zero, the second says the frequency.
LEMMA ProntoWordsSize ==
    ASSUME NEW scale \in Nat, NEW freq \in Nat \ {0},
           NEW p \in Seq(Nat), NEW s \in Seq(Nat)
    PROVE  /\ ProntoWords(scale, freq, p, s) \in Seq(Word)
           /\ Len(ProntoWords(scale, freq, p, s)) = 5 + Len(p) + Len(s)
           /\ ProntoWords(scale, freq, p, s)[1] = 0
           /\ ProntoWords(scale, freq, p, s)[2] = FrequencyWord(freq)
<1> DEFINE times == Alternate(p, s)
           head == <<0, FrequencyWord(freq), 0, Len(p) % 65536>>
           body == [i \in DOMAIN times |-> ((scale * times[i]) \div freq) % 65536]
           trailer == <<(freq \div 100) % 65536>>
<1>1. times \in Seq(Nat) /\ Len(times) = Len(p) + Len(s)
  BY AlternateType
<1>2. Len(p) \in Nat /\ Len(s) \in Nat
  OBVIOUS
<1>3. /\ head \in Seq(Word) /\ Len(head) = 4
      /\ head[1] = 0 /\ head[2] = FrequencyWord(freq)
  <2> DEFINE w == FrequencyWord(freq)
             x == Len(p) % 65536
  <2>1. w \in Word
    BY FrequencyWordType
  <2>2. x \in Word
    BY <1>2, CutToWord
  <2>4. 0 \in Word
    <3>1. LastWord \in Nat
      BY SMT DEF LastWord
    <3> QED BY <3>1 DEF Word
  <2> HIDE DEF w, x
  <2>3. head = <<0, w, 0, x>>
    BY DEF w, x
  <2> QED
    BY <2>1, <2>2, <2>3, <2>4 DEF w
<1>4. body \in Seq(Word) /\ Len(body) = Len(p) + Len(s)
  <2> HIDE DEF times
  <2>1. DOMAIN times = 1 .. Len(times) /\ Len(times) \in Nat
    BY <1>1
  <2>2. ASSUME NEW i \in 1 .. Len(times)
        PROVE  ((scale * times[i]) \div freq) % 65536 \in Word
    <3>1. times[i] \in Nat
      BY <1>1, ElementOfSeq
    <3> QED
      BY <3>1, ScaledType
  <2>3. body = [i \in 1 .. Len(times) |-> ((scale * times[i]) \div freq) % 65536]
    BY <2>1
  <2> HIDE DEF body
  <2> QED
    BY <1>1, <2>1, <2>2, <2>3
<1>5. trailer \in Seq(Word) /\ Len(trailer) = 1
  <2>1. freq \div 100 \in Nat
    OBVIOUS
  <2>2. (freq \div 100) % 65536 \in Word
    BY <2>1, CutToWord
  <2> QED
    BY <2>2
<1>6. ProntoWords(scale, freq, p, s) = (head \o body) \o trailer
  BY DEF ProntoWords
<1> HIDE DEF head, body, trailer
<1>7. /\ head \o body \in Seq(Word) /\ Len(head \o body) = Len(head) + Len(body)
      /\ (head \o body)[1] = head[1] /\ (head \o body)[2] = head[2]
  <2>1. Len(head) >= 2 /\ head \in Seq(Word) /\ body \in Seq(Word)
    BY <1>3, <1>4
  <2> QED BY <2>1, FirstTwo
<1> DEFINE hb == head \o body
<1>8. /\ hb \o trailer \in Seq(Word) /\ Len(hb \o trailer) = Len(hb) + Len(trailer)
      /\ (hb \o trailer)[1] = hb[1] /\ (hb \o trailer)[2] = hb[2]
  <2>1. hb \in Seq(Word) /\ Len(hb) >= 2
    BY <1>2, <1>3, <1>4, <1>7
  <2> HIDE DEF hb
  <2> QED BY <1>5, <2>1, FirstTwo
<1>9. Len(hb \o trailer) = 5 + Len(p) + Len(s)
  <2>1. Len(hb) = 4 + (Len(p) + Len(s))
    BY <1>3, <1>4, <1>7
  <2> HIDE DEF hb
  <2> QED BY <1>2, <1>5, <1>8, <2>1
<1> QED
  BY <1>3, <1>6, <1>7, <1>8, <1>9

\* Words are numbers.
LEMMA WordsAreNumbers == ASSUME NEW s \in Seq(Word) PROVE s \in Seq(Nat)
<1>1. ASSUME NEW x \in Word PROVE x \in Nat
  <2>1. LastWord \in Nat
    BY SMT DEF LastWord
  <2> QED BY <2>1 DEF Word
<1>2. ASSUME NEW i \in 1 .. Len(s) PROVE s[i] \in Nat
  <2>1. s[i] \in Word
    BY ElementOfSeq
  <2> QED BY <1>1, <2>1
<1>3. s = [i \in 1 .. Len(s) |-> s[i]] /\ Len(s) \in Nat
  OBVIOUS
<1> QED
  BY <1>2, <1>3

\* It is a sequence of numbers that is not empty.
LEMMA ProntoWordsType ==
    ASSUME NEW scale \in Nat, NEW freq \in Nat \ {0},
           NEW p \in Seq(Nat), NEW s \in Seq(Nat)
    PROVE  /\ ProntoWords(scale, freq, p, s) \in Seq(Nat)
           /\ ProntoWords(scale, freq, p, s) # <<>>
<1> DEFINE words == ProntoWords(scale, freq, p, s)
<1>1. words \in Seq(Word) /\ Len(words) = 5 + Len(p) + Len(s)
  BY ProntoWordsSize
<1>2. Len(p) \in Nat /\ Len(s) \in Nat /\ Len(<<>>) = 0
  OBVIOUS
<1> HIDE DEF words
<1>3. words # <<>>
  BY <1>1, <1>2
<1>4. words \in Seq(Nat)
  BY <1>1, WordsAreNumbers
<1> QED BY <1>3, <1>4 DEF words
=============================================================================
