------------------- MODULE WorkspaceFileTransaction_proofs -------------------
(***************************************************************************)
(* Proofs about WorkspaceFileTransaction: rolling back restores the tree.  *)
(***************************************************************************)
EXTENDS WorkspaceFileTransaction, DataLemmas, FiniteSetTheorems

----------------------------------------------------------------------------
(* Paths *)

\* A prefix has the elements at the beginning of the sequence.
LEMMA PrefixMeans ==
  ASSUME NEW S, NEW s \in Seq(S), NEW t \in Seq(S)
  PROVE  IsPrefix(s, t) <=> Len(s) <= Len(t) /\ \A i \in 1..Len(s) : s[i] = t[i]
  <1>1. Len(s) \in Nat /\ Len(t) \in Nat /\ SubSeq(s, 1, Len(s)) = s
    BY LenProperties, SubSeqFull
  <1>2. CASE Len(s) <= Len(t)
    <2> DEFINE u == SubSeq(t, 1, Len(s))
    <2>1. u \in Seq(S) /\ Len(u) = Len(s) /\ \A i \in 1..Len(s) : u[i] = t[i]
      BY <1>1, <1>2, ElementOfSeq, SubSeqProperties
    <2> HIDE DEF u
    <2>2. s = u <=> \A i \in 1..Len(s) : s[i] = t[i]
      BY <2>1, SeqEqual
    <2> QED BY <1>1, <1>2, <2>2 DEF IsPrefix, u
  <1> QED BY <1>1, <1>2 DEF IsPrefix

\* Being a prefix is an order, and two prefixes of one path are comparable.
LEMMA PrefixOrder ==
  ASSUME NEW S, NEW s \in Seq(S), NEW t \in Seq(S), NEW u \in Seq(S)
  PROVE  /\ IsPrefix(s, s)
         /\ IsPrefix(s, t) /\ IsPrefix(t, u) => IsPrefix(s, u)
         /\ IsPrefix(s, t) /\ IsPrefix(t, s) => s = t
         /\ IsPrefix(s, u) /\ IsPrefix(t, u) => IsPrefix(s, t) \/ IsPrefix(t, s)
         /\ IsPrefix(<<>>, s)
  <1>1. Len(s) \in Nat /\ Len(t) \in Nat /\ Len(u) \in Nat /\ <<>> \in Seq(S) /\ Len(<<>>) = 0
    BY LenProperties, EmptySeq
  <1>2. IsPrefix(s, s) /\ IsPrefix(<<>>, s)
    <2>1. IsPrefix(s, s)  BY <1>1, PrefixMeans
    <2>2. ASSUME NEW e \in Seq(S), Len(e) = 0 PROVE IsPrefix(e, s)
      <3>1. Len(e) <= Len(s) /\ \A i \in 1..Len(e) : e[i] = s[i]  BY <1>1, <2>2
      <3> QED BY <3>1, PrefixMeans
    <2> QED BY <1>1, <2>1, <2>2
  <1>3. IsPrefix(s, t) /\ IsPrefix(t, u) => IsPrefix(s, u)
    BY <1>1, PrefixMeans
  <1>4. IsPrefix(s, t) /\ IsPrefix(t, s) => s = t
    BY <1>1, PrefixMeans, SeqEqual
  <1>5. IsPrefix(s, u) /\ IsPrefix(t, u) => IsPrefix(s, t) \/ IsPrefix(t, s)
    BY <1>1, PrefixMeans
  <1> QED BY <1>2, <1>3, <1>4, <1>5

\* The beginnings of a path are its prefixes.
LEMMA Beginnings ==
  ASSUME NEW S, NEW s \in Seq(S)
  PROVE  /\ \A n \in 0..Len(s) : /\ SubSeq(s, 1, n) \in Seq(S) /\ Len(SubSeq(s, 1, n)) = n
                                 /\ IsPrefix(SubSeq(s, 1, n), s)
         /\ \A a \in Seq(S) : IsPrefix(a, s) => Len(a) \in 0..Len(s) /\ a = SubSeq(s, 1, Len(a))
  <1>1. ASSUME NEW n \in 0..Len(s)
        PROVE  /\ SubSeq(s, 1, n) \in Seq(S) /\ Len(SubSeq(s, 1, n)) = n
               /\ IsPrefix(SubSeq(s, 1, n), s)
    <2> DEFINE b == SubSeq(s, 1, n)
    <2>1. b \in Seq(S) /\ Len(b) = n /\ \A i \in 1..n : b[i] = s[i]
      BY ElementOfSeq, LenProperties, SubSeqProperties
    <2> HIDE DEF b
    <2>2. IsPrefix(b, s)  BY <2>1, PrefixMeans
    <2> QED BY <2>1, <2>2 DEF b
  <1>2. ASSUME NEW a \in Seq(S), IsPrefix(a, s)
        PROVE  Len(a) \in 0..Len(s) /\ a = SubSeq(s, 1, Len(a))
    <2>1. Len(a) \in 0..Len(s) /\ \A i \in 1..Len(a) : a[i] = s[i]
      BY <1>2, PrefixMeans, LenProperties
    <2> DEFINE b == SubSeq(s, 1, Len(a))
    <2>2. b \in Seq(S) /\ Len(b) = Len(a) /\ \A i \in 1..Len(a) : b[i] = s[i]
      BY <2>1, ElementOfSeq, LenProperties, SubSeqProperties
    <2> HIDE DEF b
    <2>3. a = b  BY <2>1, <2>2, SeqEqual
    <2> QED BY <2>1, <2>3 DEF b
  <1> QED BY <1>1, <1>2

\* The directory of an entry is the longest path before it.
LEMMA ParentProperties ==
  ASSUME NEW S, NEW s \in Seq(S), s # <<>>
  PROVE  /\ Parent(s) \in Seq(S) /\ Len(Parent(s)) = Len(s) - 1
         /\ IsStrictPrefix(Parent(s), s)
         /\ \A a \in Seq(S) : IsStrictPrefix(a, s) => IsPrefix(a, Parent(s))
  <1>1. Len(s) \in Nat \ {0}  BY EmptySeq
  <1> DEFINE n == Len(s) - 1
  <1>2. n \in 0..Len(s) /\ Parent(s) = SubSeq(s, 1, n)  BY <1>1 DEF Parent, Front
  <1> HIDE DEF n
  <1>3. Parent(s) \in Seq(S) /\ Len(Parent(s)) = n /\ IsPrefix(Parent(s), s)
    BY <1>2, Beginnings
  <1>4. IsStrictPrefix(Parent(s), s)
    BY <1>1, <1>3 DEF IsStrictPrefix, n
  <1>5. ASSUME NEW a \in Seq(S), IsStrictPrefix(a, s) PROVE IsPrefix(a, Parent(s))
    <2>1. IsPrefix(a, Parent(s)) \/ IsPrefix(Parent(s), a)
      BY <1>3, <1>5, PrefixOrder DEF IsStrictPrefix
    <2>2. Len(a) \in Nat /\ Len(a) <= Len(s) /\ Len(a) # Len(s)
      BY <1>1, <1>5, PrefixMeans, SeqEqual, LenProperties DEF IsStrictPrefix
    <2>3. CASE IsPrefix(Parent(s), a)
      <3>1. Len(Parent(s)) <= Len(a) /\ \A i \in 1..Len(Parent(s)) : Parent(s)[i] = a[i]
        BY <1>3, <2>3, PrefixMeans
      <3>2. Len(a) = Len(Parent(s))  BY <1>1, <1>3, <2>2, <3>1 DEF n
      <3>3. a = Parent(s)  BY <1>3, <3>1, <3>2, SeqEqual
      <3> QED BY <3>3, PrefixOrder
    <2> QED BY <2>1, <2>3
  <1> QED BY <1>1, <1>3, <1>4, <1>5 DEF n

\* m is r with q in place of its first Len(p) elements.
Spliced(m, p, q, r) ==
  /\ Len(m) = Len(q) + Len(r) - Len(p)
  /\ \A i \in 1..(Len(q) + Len(r) - Len(p)) :
       m[i] = IF i <= Len(q) THEN q[i] ELSE r[i - Len(q) + Len(p)]

\* That is what Moved() gives.
LEMMA MovedMeans ==
  ASSUME NEW S, NEW p \in Seq(S), NEW q \in Seq(S), NEW r \in Seq(S), Len(p) <= Len(r)
  PROVE  Moved(p, q, r) \in Seq(S) /\ Spliced(Moved(p, q, r), p, q, r)
  <1>1. Len(p) \in Nat /\ Len(q) \in Nat /\ Len(r) \in Nat  BY LenProperties
  <1> DEFINE b == SubSeq(r, Len(p) + 1, Len(r))
  <1>2. /\ b \in Seq(S) /\ Len(b) = Len(r) - Len(p)
        /\ \A i \in 1..(Len(r) - Len(p)) : b[i] = r[i + Len(p)]
    <2>1. \A i \in (Len(p) + 1)..Len(r) : r[i] \in S  BY <1>1, ElementOfSeq
    <2>2. /\ b \in Seq(S) /\ Len(b) = IF Len(p) + 1 <= Len(r) THEN Len(r) - (Len(p) + 1) + 1 ELSE 0
          /\ \A i \in 1..(Len(r) - (Len(p) + 1) + 1) : b[i] = r[Len(p) + 1 + i - 1]
      BY <1>1, <2>1, SubSeqProperties
    <2> HIDE DEF b
    <2> QED BY <1>1, <2>2
  <1> HIDE DEF b
  <1> DEFINE m == q \o b
  <1>3. /\ m \in Seq(S) /\ Len(m) = Len(q) + Len(b)
        /\ \A i \in 1..(Len(q) + Len(b)) : m[i] = IF i <= Len(q) THEN q[i] ELSE b[i - Len(q)]
    <2>1. b \in Seq(S)  BY <1>2
    <2> QED BY <2>1, ConcatProperties
  <1> HIDE DEF m
  <1>4. Len(m) = Len(q) + Len(r) - Len(p)  BY <1>1, <1>2, <1>3
  <1>5. ASSUME NEW i \in 1..(Len(q) + Len(r) - Len(p))
        PROVE  m[i] = IF i <= Len(q) THEN q[i] ELSE r[i - Len(q) + Len(p)]
    <2>1. m[i] = IF i <= Len(q) THEN q[i] ELSE b[i - Len(q)]  BY <1>1, <1>2, <1>3
    <2>2. ~(i <= Len(q)) => i - Len(q) \in 1..(Len(r) - Len(p))  BY <1>1
    <2> QED BY <1>2, <2>1, <2>2
  <1>6. Moved(p, q, r) = m  BY DEF Moved, m, b
  <1> QED BY <1>3, <1>4, <1>5, <1>6 DEF Spliced

\* It is the inverse of the move from q to p.
LEMMA MovedBack ==
  ASSUME NEW S, NEW p \in Seq(S), NEW q \in Seq(S), NEW r \in Seq(S), IsPrefix(p, r)
  PROVE  /\ Moved(p, q, r) \in Seq(S) /\ IsPrefix(q, Moved(p, q, r))
         /\ Moved(q, p, Moved(p, q, r)) = r
         /\ Moved(p, q, p) = q
  <1>1. Len(p) \in Nat /\ Len(q) \in Nat /\ Len(r) \in Nat  BY LenProperties
  <1>2. Len(p) <= Len(r) /\ \A i \in 1..Len(p) : p[i] = r[i]  BY PrefixMeans
  <1> DEFINE m == Moved(p, q, r)
             b == Moved(q, p, m)
             c == Moved(p, q, p)
  <1>3. /\ m \in Seq(S) /\ Len(m) = Len(q) + Len(r) - Len(p)
        /\ \A i \in 1..(Len(q) + Len(r) - Len(p)) :
              m[i] = IF i <= Len(q) THEN q[i] ELSE r[i - Len(q) + Len(p)]
    BY <1>2, MovedMeans DEF Spliced
  <1> HIDE DEF m
  <1>4. IsPrefix(q, m)
    <2>1. Len(q) <= Len(m)  BY <1>1, <1>2, <1>3
    <2>2. ASSUME NEW i \in 1..Len(q) PROVE q[i] = m[i]
      <3>1. i \in 1..(Len(q) + Len(r) - Len(p)) /\ i <= Len(q)  BY <1>1, <1>2
      <3> QED BY <1>3, <3>1
    <2> QED BY <1>3, <2>1, <2>2, PrefixMeans
  <1>5. b = r
    <2>1. Len(q) <= Len(m)  BY <1>1, <1>2, <1>3
    <2>2. /\ b \in Seq(S) /\ Len(b) = Len(p) + Len(m) - Len(q)
          /\ \A i \in 1..(Len(p) + Len(m) - Len(q)) :
                b[i] = IF i <= Len(p) THEN p[i] ELSE m[i - Len(p) + Len(q)]
      <3>1. m \in Seq(S)  BY <1>3
      <3>2. b \in Seq(S) /\ Spliced(b, q, p, m)  BY <2>1, <3>1, MovedMeans
      <3> QED BY <3>2 DEF Spliced
    <2> HIDE DEF b
    <2>3. Len(b) = Len(r)  BY <1>1, <1>3, <2>2
    <2>4. ASSUME NEW i \in 1..Len(r) PROVE b[i] = r[i]
      <3>1. CASE i <= Len(p)
        <4>1. i \in 1..Len(p)  BY <1>1, <3>1
        <4> QED BY <1>1, <1>2, <2>2, <2>3, <3>1, <4>1
      <3>2. CASE ~(i <= Len(p))
        <4> DEFINE k == i - Len(p) + Len(q)
        <4>1. k \in 1..(Len(q) + Len(r) - Len(p)) /\ ~(k <= Len(q)) /\ k - Len(q) + Len(p) = i
          BY <1>1, <3>2
        <4>2. b[i] = m[k]  BY <2>2, <2>3, <3>2
        <4> HIDE DEF k
        <4>3. m[k] = r[i]  BY <1>3, <4>1
        <4> QED BY <4>2, <4>3
      <3> QED BY <3>1, <3>2
    <2> QED BY <2>2, <2>3, <2>4, SeqEqual
  <1>6. c = q
    <2>1. Len(p) <= Len(p)  BY <1>1
    <2>2. c \in Seq(S) /\ Spliced(c, p, q, p)  BY <2>1, MovedMeans
    <2> HIDE DEF c
    <2>3. Len(c) = Len(q)  BY <1>1, <2>2 DEF Spliced
    <2>4. ASSUME NEW i \in 1..Len(q) PROVE c[i] = q[i]
      <3>1. i \in 1..(Len(q) + Len(p) - Len(p)) /\ i <= Len(q)  BY <1>1
      <3> QED BY <2>2, <3>1 DEF Spliced
    <2> QED BY <2>2, <2>3, <2>4, SeqEqual
  <1> QED BY <1>3, <1>4, <1>5, <1>6 DEF m

\* What is before a moved path is before the place it was moved to, or was moved with it.
LEMMA BeforeMoved ==
  ASSUME NEW S, NEW p \in Seq(S), NEW q \in Seq(S), NEW r \in Seq(S), IsPrefix(p, r),
         NEW a \in Seq(S), IsStrictPrefix(a, Moved(p, q, r))
  PROVE  \/ IsStrictPrefix(a, q)
         \/ \E b \in Seq(S) : IsPrefix(p, b) /\ IsStrictPrefix(b, r) /\ a = Moved(p, q, b)
  <1>1. /\ Moved(p, q, r) \in Seq(S) /\ IsPrefix(q, Moved(p, q, r))
        /\ Moved(q, p, Moved(p, q, r)) = r
    BY MovedBack
  <1>2. IsPrefix(a, q) \/ IsPrefix(q, a)
    BY <1>1, PrefixOrder DEF IsStrictPrefix
  <1>3. CASE IsPrefix(q, a)
    <2> DEFINE b == Moved(q, p, a)
    <2>1. b \in Seq(S) /\ IsPrefix(p, b) /\ Moved(p, q, b) = a
      BY <1>3, MovedBack
    <2>2. Len(p) \in Nat /\ Len(q) \in Nat /\ Len(r) \in Nat /\ Len(a) \in Nat /\ Len(b) \in Nat
          /\ Len(p) <= Len(r) /\ Len(q) <= Len(a)
      BY <1>3, <2>1, LenProperties, PrefixMeans
    <2>3. /\ Len(b) = Len(p) + Len(a) - Len(q)
          /\ \A i \in 1..(Len(p) + Len(a) - Len(q)) :
                b[i] = IF i <= Len(p) THEN p[i] ELSE a[i - Len(p) + Len(q)]
      BY <2>2, MovedMeans DEF Spliced
    <2> HIDE DEF b
    <2> DEFINE m == Moved(p, q, r)
    <2>4. /\ Len(m) = Len(q) + Len(r) - Len(p)
          /\ \A i \in 1..(Len(q) + Len(r) - Len(p)) :
                m[i] = IF i <= Len(q) THEN q[i] ELSE r[i - Len(q) + Len(p)]
      BY <2>2, MovedMeans DEF Spliced
    <2> HIDE DEF m
    <2>5. Len(a) <= Len(m) /\ \A i \in 1..Len(a) : a[i] = m[i]
      BY <1>1, PrefixMeans DEF IsStrictPrefix, m
    <2>6. Len(b) <= Len(r)  BY <2>2, <2>3, <2>4, <2>5
    <2>7. ASSUME NEW i \in 1..Len(b) PROVE b[i] = r[i]
      <3>1. CASE i <= Len(p)
        <4>1. i \in 1..Len(p)  BY <2>2, <3>1
        <4>2. p[i] = r[i]  BY <4>1, PrefixMeans
        <4> QED BY <2>2, <2>3, <3>1, <4>2
      <3>2. CASE ~(i <= Len(p))
        <4> DEFINE k == i - Len(p) + Len(q)
        <4>1. /\ k \in 1..Len(a) /\ k \in 1..(Len(q) + Len(r) - Len(p)) /\ ~(k <= Len(q))
              /\ k - Len(q) + Len(p) = i
          BY <2>2, <2>3, <2>6, <3>2
        <4>2. b[i] = a[k]  BY <2>2, <2>3, <3>2
        <4> HIDE DEF k
        <4>3. a[k] = m[k]  BY <2>5, <4>1
        <4>4. m[k] = r[i]  BY <2>4, <4>1
        <4> QED BY <4>2, <4>3, <4>4
      <3> QED BY <3>1, <3>2
    <2>8. IsPrefix(b, r)  BY <2>1, <2>6, <2>7, PrefixMeans
    <2>9. b # r  BY <2>1 DEF IsStrictPrefix
    <2> QED BY <2>1, <2>8, <2>9 DEF IsStrictPrefix
  <1>4. CASE IsPrefix(a, q) /\ a # q
    BY <1>4 DEF IsStrictPrefix
  <1>5. CASE a = q
    <2>1. IsPrefix(q, a)  BY <1>5, PrefixOrder
    <2> QED BY <1>3, <2>1
  <1> QED BY <1>2, <1>3, <1>4, <1>5

----------------------------------------------------------------------------
(* Trees *)

\* IsTree() by prefixes: what is before an entry is a directory.
Rooted(f) ==
  /\ f = [p \in DOMAIN f |-> f[p]] /\ IsFiniteSet(DOMAIN f)
  /\ DOMAIN f \subseteq PathSet \ {<<>>}
  /\ \A p \in DOMAIN f : \A a \in PathSet : IsStrictPrefix(a, p) => IsDirectory(f, a)

\* The two say the same.
LEMMA TreeMeans == ASSUME NEW f PROVE IsTree(f) <=> Rooted(f)
  <1> DEFINE S == Bases \X Nat
  <1>1. ASSUME IsTree(f), NEW p \in DOMAIN f, NEW a \in PathSet, IsStrictPrefix(a, p)
        PROVE  IsDirectory(f, a)
    <2>1. p \in Seq(S) /\ a \in Seq(S)  BY <1>1 DEF IsTree, PathSet
    <2>2. \A n \in 1..(Len(p) - 1) : IsDirectory(f, SubSeq(p, 1, n))  BY <1>1 DEF IsTree
    <2> HIDE DEF S
    <2>3. Len(a) \in 0..Len(p) /\ a = SubSeq(p, 1, Len(a)) /\ Len(p) \in Nat
      BY <1>1, <2>1, Beginnings, LenProperties DEF IsStrictPrefix
    <2>4. Len(a) # Len(p)  BY <1>1, <2>1, <2>3, SubSeqFull DEF IsStrictPrefix
    <2>5. CASE Len(a) = 0
      <3>1. a = <<>>  BY <2>1, <2>5, EmptySeq
      <3> QED BY <3>1 DEF IsDirectory
    <2>6. CASE Len(a) # 0
      <3>1. Len(a) \in 1..(Len(p) - 1)  BY <2>3, <2>4, <2>6
      <3> QED BY <2>2, <2>3, <3>1
    <2> QED BY <2>5, <2>6
  <1>2. ASSUME Rooted(f), NEW p \in DOMAIN f, NEW n \in 1..(Len(p) - 1)
        PROVE  IsDirectory(f, SubSeq(p, 1, n))
    <2>1. p \in Seq(S)  BY <1>2 DEF Rooted, PathSet
    <2> HIDE DEF S
    <2>2. Len(p) \in Nat /\ n \in 0..Len(p) /\ n # Len(p)  BY <2>1, LenProperties
    <2>3. /\ SubSeq(p, 1, n) \in Seq(S) /\ Len(SubSeq(p, 1, n)) = n
          /\ IsPrefix(SubSeq(p, 1, n), p)
      BY <2>1, <2>2, Beginnings
    <2>4. IsStrictPrefix(SubSeq(p, 1, n), p)  BY <2>2, <2>3 DEF IsStrictPrefix
    <2>5. SubSeq(p, 1, n) \in PathSet  BY <2>3 DEF PathSet, S
    <2> QED BY <1>2, <2>4, <2>5 DEF Rooted
  <1> QED BY <1>1, <1>2 DEF IsTree, Rooted

\* The order of paths, as the proofs about trees use it.
LEMMA PathOrder ==
  /\ \A s \in PathSet : IsPrefix(s, s) /\ (IsPrefix(s, <<>>) => s = <<>>)
  /\ \A s, t, u \in PathSet : IsPrefix(s, t) /\ IsPrefix(t, u) => IsPrefix(s, u)
  /\ \A s, t \in PathSet : IsPrefix(s, t) /\ IsPrefix(t, s) => s = t
  /\ \A s, t, u \in PathSet : IsPrefix(s, u) /\ IsPrefix(t, u) => IsPrefix(s, t) \/ IsPrefix(t, s)
  /\ <<>> \in PathSet
  <1> DEFINE S == Bases \X Nat
  <1>1. PathSet = Seq(S)  BY DEF PathSet
  <1> HIDE DEF S
  <1>2. <<>> \in Seq(S)  BY EmptySeq
  <1>3. \A s \in Seq(S) : IsPrefix(s, s) /\ IsPrefix(<<>>, s)  BY PrefixOrder
  <1>4. \A s, t, u \in Seq(S) : IsPrefix(s, t) /\ IsPrefix(t, u) => IsPrefix(s, u)
    BY PrefixOrder
  <1>5. \A s, t \in Seq(S) : IsPrefix(s, t) /\ IsPrefix(t, s) => s = t  BY PrefixOrder
  <1>6. \A s, t, u \in Seq(S) : IsPrefix(s, u) /\ IsPrefix(t, u) => IsPrefix(s, t) \/ IsPrefix(t, s)
    BY PrefixOrder
  <1>7. \A s \in Seq(S) : IsPrefix(s, <<>>) => s = <<>>  BY <1>2, <1>3, <1>5
  <1> QED BY <1>1, <1>2, <1>3, <1>4, <1>5, <1>6, <1>7

\* Moved() on paths.
LEMMA PathMoved ==
  ASSUME NEW p \in PathSet, NEW q \in PathSet, NEW r \in PathSet, IsPrefix(p, r)
  PROVE  /\ Moved(p, q, r) \in PathSet /\ IsPrefix(q, Moved(p, q, r))
         /\ Moved(q, p, Moved(p, q, r)) = r
         /\ Moved(p, q, p) = q
         /\ \A a \in PathSet : IsStrictPrefix(a, Moved(p, q, r)) =>
              \/ IsStrictPrefix(a, q)
              \/ \E b \in PathSet : IsPrefix(p, b) /\ IsStrictPrefix(b, r) /\ a = Moved(p, q, b)
  <1> DEFINE S == Bases \X Nat
  <1>1. PathSet = Seq(S)  BY DEF PathSet
  <1> HIDE DEF S
  <1>2. /\ Moved(p, q, r) \in Seq(S) /\ IsPrefix(q, Moved(p, q, r))
        /\ Moved(q, p, Moved(p, q, r)) = r
        /\ Moved(p, q, p) = q
    BY <1>1, MovedBack
  <1>3. ASSUME NEW a \in PathSet, IsStrictPrefix(a, Moved(p, q, r))
        PROVE  \/ IsStrictPrefix(a, q)
               \/ \E b \in PathSet : IsPrefix(p, b) /\ IsStrictPrefix(b, r) /\ a = Moved(p, q, b)
    <2>1. a \in Seq(S) /\ p \in Seq(S) /\ q \in Seq(S) /\ r \in Seq(S)  BY <1>1
    <2> QED BY <1>1, <1>3, <2>1, BeforeMoved
  <1> QED BY <1>1, <1>2, <1>3

\* The parent of a path.
LEMMA PathParent ==
  ASSUME NEW p \in PathSet, p # <<>>
  PROVE  /\ Parent(p) \in PathSet /\ IsStrictPrefix(Parent(p), p)
         /\ \A a \in PathSet : IsStrictPrefix(a, p) => IsPrefix(a, Parent(p))
  <1> DEFINE S == Bases \X Nat
  <1>1. PathSet = Seq(S)  BY DEF PathSet
  <1> HIDE DEF S
  <1> QED BY <1>1, ParentProperties

\* What is before an entry of a tree, or before a place in one of its directories, is one of
\* its directories.
LEMMA Above ==
  ASSUME NEW f, Rooted(f), NEW q \in PathSet, q # <<>>, IsDirectory(f, Parent(q)),
         NEW a \in PathSet, IsStrictPrefix(a, q)
  PROVE  IsDirectory(f, a)
  <1>1. Parent(q) \in PathSet /\ IsPrefix(a, Parent(q))  BY PathParent
  <1>2. CASE a = Parent(q)  BY <1>2
  <1>3. CASE a # Parent(q)
    <2>1. Parent(q) # <<>>  BY <1>1, <1>3, PathOrder
    <2>2. Parent(q) \in DOMAIN f  BY <2>1 DEF IsDirectory
    <2> QED BY <1>1, <1>3, <2>2 DEF Rooted, IsStrictPrefix
  <1> QED BY <1>2, <1>3

\* Where everything is after a move: below q is what was below p, elsewhere what was there
\* and not below p.
LEMMA MoveMeans ==
  ASSUME NEW f, Rooted(f), NEW p \in PathSet, NEW q \in PathSet, q # <<>>, CanMove(f, p, q),
         NEW g, g = Move(f, p, q)
  PROVE  /\ g = [r \in DOMAIN g |-> g[r]] /\ IsFiniteSet(DOMAIN g)
         /\ DOMAIN g \subseteq PathSet \ {<<>>}
         /\ \A r \in PathSet : IsPrefix(q, r) =>
              /\ r \in DOMAIN g <=> Moved(q, p, r) \in DOMAIN f
              /\ r \in DOMAIN g => g[r] = f[Moved(q, p, r)]
         /\ \A r \in PathSet : ~IsPrefix(q, r) =>
              /\ r \in DOMAIN g <=> r \in DOMAIN f /\ ~IsPrefix(p, r)
              /\ r \in DOMAIN g => g[r] = f[r]
  <1> DEFINE tree == {r \in DOMAIN f : IsPrefix(p, r)}
             rest == DOMAIN f \ (tree \union {q})
             moved == {Moved(p, q, t) : t \in tree}
  <1>1. g = [r \in rest \union moved |-> IF r \in rest THEN f[r] ELSE f[Moved(q, p, r)]]
    BY DEF Move
  <1>2. DOMAIN f \subseteq PathSet \ {<<>>} /\ IsFiniteSet(DOMAIN f)  BY DEF Rooted
  <1>3. \A t \in tree : /\ Moved(p, q, t) \in PathSet /\ IsPrefix(q, Moved(p, q, t))
                        /\ Moved(q, p, Moved(p, q, t)) = t
    BY <1>2, PathMoved
  <1>4. ASSUME NEW r \in PathSet, IsPrefix(q, r) PROVE r \notin rest
    <2> SUFFICES ASSUME r \in DOMAIN f, r # q PROVE FALSE
      OBVIOUS
    <2>1. IsDirectory(f, q)  BY <1>4 DEF Rooted, IsStrictPrefix
    <2>2. Exists(f, q)  BY <2>1 DEF Exists, IsDirectory
    <2> QED BY <2>1, <2>2 DEF CanMove
  <1>5. ASSUME NEW r \in PathSet, IsPrefix(q, r)
        PROVE  r \in moved <=> Moved(q, p, r) \in DOMAIN f
    <2>1. /\ Moved(q, p, r) \in PathSet /\ IsPrefix(p, Moved(q, p, r))
          /\ Moved(p, q, Moved(q, p, r)) = r
      BY <1>5, PathMoved
    <2>2. Moved(q, p, r) \in DOMAIN f => r \in moved  BY <2>1
    <2>3. r \in moved => Moved(q, p, r) \in DOMAIN f  BY <1>3
    <2> QED BY <2>2, <2>3
  <1>6. \A r \in moved : r \in PathSet /\ IsPrefix(q, r)  BY <1>3
  <1>7. IsFiniteSet(rest \union moved)
    <2>1. IsFiniteSet(rest) /\ IsFiniteSet(tree)  BY <1>2, FS_Subset
    <2> DEFINE h == [t \in tree |-> Moved(p, q, t)]
    <2>2. h \in Surjection(tree, moved)  BY DEF Surjection
    <2> HIDE DEF h
    <2>3. IsFiniteSet(moved)  BY <2>1, <2>2, FS_Surjection
    <2> QED BY <2>1, <2>3, FS_Union
  <1>8. rest \subseteq DOMAIN f /\ q \notin rest
        /\ \A r \in PathSet : ~IsPrefix(q, r) => (r \in rest <=> r \in DOMAIN f /\ ~IsPrefix(p, r))
    BY PathOrder
  <1> HIDE DEF rest, moved, tree
  <1>9. DOMAIN g = rest \union moved  BY <1>1
  <1>10. \A r \in rest \union moved : g[r] = IF r \in rest THEN f[r] ELSE f[Moved(q, p, r)]
    BY <1>1
  <1>11. g = [r \in DOMAIN g |-> g[r]]  BY <1>1
  <1>12. DOMAIN g \subseteq PathSet \ {<<>>}
    <2>1. \A r \in moved : r # <<>>  BY <1>6, PathOrder
    <2> QED BY <1>2, <1>6, <1>8, <1>9, <2>1
  <1>13. ASSUME NEW r \in PathSet, IsPrefix(q, r)
         PROVE  /\ r \in DOMAIN g <=> Moved(q, p, r) \in DOMAIN f
                /\ r \in DOMAIN g => g[r] = f[Moved(q, p, r)]
    BY <1>4, <1>5, <1>9, <1>10, <1>13
  <1>14. ASSUME NEW r \in PathSet, ~IsPrefix(q, r)
         PROVE  /\ r \in DOMAIN g <=> r \in DOMAIN f /\ ~IsPrefix(p, r)
                /\ r \in DOMAIN g => g[r] = f[r]
    BY <1>6, <1>8, <1>9, <1>10, <1>14
  <1> QED BY <1>7, <1>9, <1>11, <1>12, <1>13, <1>14

\* A move leaves a tree.
LEMMA MoveRooted ==
  ASSUME NEW f, Rooted(f), NEW p \in PathSet, NEW q \in PathSet, q # <<>>, CanMove(f, p, q)
  PROVE  Rooted(Move(f, p, q))
  <1>1. PICK g : g = Move(f, p, q)  OBVIOUS
  <1>2. /\ g = [r \in DOMAIN g |-> g[r]] /\ IsFiniteSet(DOMAIN g)
        /\ DOMAIN g \subseteq PathSet \ {<<>>}
        /\ \A r \in PathSet : IsPrefix(q, r) =>
             /\ r \in DOMAIN g <=> Moved(q, p, r) \in DOMAIN f
             /\ r \in DOMAIN g => g[r] = f[Moved(q, p, r)]
        /\ \A r \in PathSet : ~IsPrefix(q, r) =>
             /\ r \in DOMAIN g <=> r \in DOMAIN f /\ ~IsPrefix(p, r)
             /\ r \in DOMAIN g => g[r] = f[r]
    BY <1>1, MoveMeans
  <1>3. p \in DOMAIN f /\ p # <<>> /\ ~IsPrefix(p, q) /\ IsDirectory(f, Parent(q))
    BY DEF CanMove, Rooted
  <1>4. ASSUME NEW r \in DOMAIN g, NEW a \in PathSet, IsStrictPrefix(a, r), a # <<>>
        PROVE  a \in DOMAIN g /\ g[a] = "dir"
    <2>1. r \in PathSet /\ IsPrefix(a, r) /\ a # r  BY <1>2, <1>4 DEF IsStrictPrefix
    <2>2. ASSUME IsDirectory(f, a), ~IsPrefix(q, a), ~IsPrefix(p, a)
          PROVE  a \in DOMAIN g /\ g[a] = "dir"
      BY <1>2, <1>4, <2>2 DEF IsDirectory
    <2>3. CASE IsPrefix(q, r)
      <3> DEFINE t == Moved(q, p, r)
      <3>1. t \in DOMAIN f /\ t \in PathSet /\ IsPrefix(p, t) /\ Moved(p, q, t) = r
        BY <1>2, <2>1, <2>3, PathMoved
      <3> HIDE DEF t
      <3>2. CASE IsStrictPrefix(a, q)
        <4>1. IsDirectory(f, a)  BY <1>3, <3>2, Above
        <4>2. ~IsPrefix(q, a) /\ ~IsPrefix(p, a)
          BY <1>3, <3>2, PathOrder DEF IsStrictPrefix
        <4> QED BY <2>2, <4>1, <4>2
      <3>3. ASSUME NEW b \in PathSet, IsPrefix(p, b), IsStrictPrefix(b, t), a = Moved(p, q, b)
            PROVE  a \in DOMAIN g /\ g[a] = "dir"
        <4>1. IsDirectory(f, b)  BY <3>1, <3>3 DEF Rooted
        <4>2. b # <<>>  BY <1>3, <3>3, PathOrder
        <4>3. IsPrefix(q, a) /\ Moved(q, p, a) = b  BY <3>3, PathMoved
        <4> QED BY <1>2, <4>1, <4>2, <4>3 DEF IsDirectory
      <3> QED BY <1>4, <3>1, <3>2, <3>3, PathMoved
    <2>4. CASE ~IsPrefix(q, r)
      <3>1. r \in DOMAIN f /\ ~IsPrefix(p, r)  BY <1>2, <2>1, <2>4
      <3>2. IsDirectory(f, a)  BY <1>4, <3>1 DEF Rooted
      <3>3. ~IsPrefix(q, a) /\ ~IsPrefix(p, a)  BY <2>1, <2>4, <3>1, PathOrder
      <3> QED BY <2>2, <3>2, <3>3
    <2> QED BY <2>3, <2>4
  <1>5. Rooted(g)  BY <1>2, <1>4 DEF Rooted, IsDirectory
  <1> QED BY <1>1, <1>5

\* What was moved to a free place can be moved back, and the tree is the old one.
LEMMA MoveReturns ==
  ASSUME NEW f, Rooted(f), NEW p \in PathSet, NEW q \in PathSet, q # <<>>, q \notin DOMAIN f,
         CanMove(f, p, q)
  PROVE  /\ Rooted(Move(f, p, q))
         /\ p \notin DOMAIN Move(f, p, q)
         /\ Returns(Move(f, p, q), q, p, f)
  <1>1. PICK g : g = Move(f, p, q)  OBVIOUS
  <1>2. Rooted(g)  BY <1>1, MoveRooted
  <1>3. /\ \A r \in PathSet : IsPrefix(q, r) =>
             /\ r \in DOMAIN g <=> Moved(q, p, r) \in DOMAIN f
             /\ r \in DOMAIN g => g[r] = f[Moved(q, p, r)]
        /\ \A r \in PathSet : ~IsPrefix(q, r) =>
             /\ r \in DOMAIN g <=> r \in DOMAIN f /\ ~IsPrefix(p, r)
             /\ r \in DOMAIN g => g[r] = f[r]
    BY <1>1, MoveMeans
  <1>4. p \in DOMAIN f /\ p # <<>> /\ ~IsPrefix(p, q)
    BY DEF CanMove, Rooted
  <1>5. \A r \in DOMAIN f : ~IsPrefix(q, r)
    BY DEF Rooted, IsStrictPrefix, IsDirectory
  <1>6. p \notin DOMAIN g  BY <1>3, <1>4, <1>5, PathOrder
  <1>7. CanMove(g, q, p)
    <2>1. q \in DOMAIN g
      <3>1. IsPrefix(q, q) /\ Moved(q, p, q) = p  BY PathOrder, PathMoved
      <3> QED BY <1>3, <1>4, <3>1
    <2>2. IsDirectory(g, Parent(p))
      <3>1. Parent(p) \in PathSet /\ IsStrictPrefix(Parent(p), p)  BY <1>4, PathParent
      <3>2. IsDirectory(f, Parent(p))  BY <1>4, <3>1 DEF Rooted
      <3>3. ~IsPrefix(p, Parent(p))  BY <3>1, PathOrder DEF IsStrictPrefix
      <3> QED BY <1>3, <1>5, <3>1, <3>2, <3>3 DEF IsDirectory
    <2>3. ~Exists(g, p)  BY <1>4, <1>6 DEF Exists
    <2> QED BY <1>4, <1>5, <2>1, <2>2, <2>3 DEF CanMove
  <1>8. PICK h : h = Move(g, q, p)  OBVIOUS
  <1>9. /\ h = [r \in DOMAIN h |-> h[r]] /\ DOMAIN h \subseteq PathSet \ {<<>>}
        /\ \A r \in PathSet : IsPrefix(p, r) =>
             /\ r \in DOMAIN h <=> Moved(p, q, r) \in DOMAIN g
             /\ r \in DOMAIN h => h[r] = g[Moved(p, q, r)]
        /\ \A r \in PathSet : ~IsPrefix(p, r) =>
             /\ r \in DOMAIN h <=> r \in DOMAIN g /\ ~IsPrefix(q, r)
             /\ r \in DOMAIN h => h[r] = g[r]
    BY <1>2, <1>4, <1>7, <1>8, MoveMeans
  <1>10. ASSUME NEW r \in PathSet
         PROVE  (r \in DOMAIN h <=> r \in DOMAIN f) /\ (r \in DOMAIN f => h[r] = f[r])
    <2>1. CASE IsPrefix(p, r)
      <3>1. /\ Moved(p, q, r) \in PathSet /\ IsPrefix(q, Moved(p, q, r))
            /\ Moved(q, p, Moved(p, q, r)) = r
        BY <2>1, PathMoved
      <3> QED BY <1>3, <1>9, <2>1, <3>1
    <2>2. CASE ~IsPrefix(p, r)
      BY <1>3, <1>5, <1>9, <2>2
    <2> QED BY <2>1, <2>2
  <1>11. h = f
    <2>1. f = [r \in DOMAIN f |-> f[r]] /\ DOMAIN f \subseteq PathSet  BY DEF Rooted
    <2>2. DOMAIN h = DOMAIN f /\ \A r \in DOMAIN f : h[r] = f[r]  BY <1>9, <1>10, <2>1
    <2> QED BY <1>9, <2>1, <2>2
  <1> QED BY <1>1, <1>2, <1>6, <1>7, <1>8, <1>11 DEF Returns

\* Without a subtree a tree is a tree.
LEMMA RemoveRooted ==
  ASSUME NEW f, Rooted(f), NEW p \in PathSet
  PROVE  Rooted(RemoveAll(f, p))
  <1> DEFINE g == RemoveAll(f, p)
  <1>1. /\ g = [r \in DOMAIN g |-> g[r]] /\ DOMAIN g = {r \in DOMAIN f : ~IsPrefix(p, r)}
        /\ \A r \in DOMAIN g : g[r] = f[r]
    BY DEF RemoveAll
  <1> HIDE DEF g
  <1>2. DOMAIN f \subseteq PathSet \ {<<>>} /\ IsFiniteSet(DOMAIN f)  BY DEF Rooted
  <1>3. IsFiniteSet(DOMAIN g)  BY <1>1, <1>2, FS_Subset
  <1>4. ASSUME NEW r \in DOMAIN g, NEW a \in PathSet, IsStrictPrefix(a, r)
        PROVE  IsDirectory(g, a)
    <2>1. IsDirectory(f, a)  BY <1>1, <1>4 DEF Rooted
    <2>2. ~IsPrefix(p, a)  BY <1>1, <1>2, <1>4, PathOrder DEF IsStrictPrefix
    <2> QED BY <1>1, <2>1, <2>2 DEF IsDirectory
  <1>5. Rooted(g)  BY <1>1, <1>2, <1>3, <1>4 DEF Rooted
  <1> QED BY <1>5 DEF g

\* A file made in a directory of a tree leaves a tree; removing it gives the old one.
LEMMA CreateReturns ==
  ASSUME NEW f, Rooted(f), NEW p \in PathSet, p # <<>>, p \notin DOMAIN f,
         IsDirectory(f, Parent(p))
  PROVE  Rooted(WithNew(f, p)) /\ RemoveAll(WithNew(f, p), p) = f
  <1> DEFINE g == WithNew(f, p)
  <1>1. /\ g = [r \in DOMAIN g |-> g[r]] /\ DOMAIN g = DOMAIN f \union {p}
        /\ g[p] = "new" /\ \A r \in DOMAIN f : g[r] = f[r]
    BY DEF WithNew
  <1> HIDE DEF g
  <1>2. /\ DOMAIN f \subseteq PathSet \ {<<>>} /\ IsFiniteSet(DOMAIN f)
        /\ f = [r \in DOMAIN f |-> f[r]]
    BY DEF Rooted
  <1>3. IsFiniteSet(DOMAIN g)  BY <1>1, <1>2, FS_AddElement
  <1>4. ASSUME NEW r \in DOMAIN g, NEW a \in PathSet, IsStrictPrefix(a, r)
        PROVE  IsDirectory(g, a)
    <2>1. CASE r = p
      <3>1. IsDirectory(f, a)  BY <1>4, <2>1, Above
      <3> QED BY <1>1, <3>1 DEF IsDirectory
    <2>2. CASE r # p
      <3>1. IsDirectory(f, a)  BY <1>1, <1>4, <2>2 DEF Rooted
      <3> QED BY <1>1, <3>1 DEF IsDirectory
    <2> QED BY <2>1, <2>2
  <1>5. Rooted(g)  BY <1>1, <1>2, <1>3, <1>4 DEF Rooted
  <1>6. \A r \in DOMAIN f : ~IsPrefix(p, r)
    BY DEF Rooted, IsStrictPrefix, IsDirectory
  <1>7. IsPrefix(p, p)  BY PathOrder
  <1>8. RemoveAll(g, p) = f
    <2>1. {r \in DOMAIN g : ~IsPrefix(p, r)} = DOMAIN f  BY <1>1, <1>6, <1>7
    <2>2. RemoveAll(g, p) = [r \in DOMAIN f |-> g[r]]  BY <2>1 DEF RemoveAll
    <2> QED BY <1>1, <1>2, <2>2
  <1> QED BY <1>5, <1>8 DEF g

\* BackupPath() finds a free name beside the entry, to which the entry can be moved.
LEMMA BackupFree ==
  ASSUME NEW f, Rooted(f), NEW p \in DOMAIN f
  PROVE  /\ BackupPath(f, p) \in PathSet \ {<<>>} /\ BackupPath(f, p) \notin DOMAIN f
         /\ HasBackup(BackupPath(f, p))
         /\ CanMove(f, p, BackupPath(f, p))
  <1> DEFINE S == Bases \X Nat
             L == Cardinality(DOMAIN f)
             Free == {k \in 0..L : Append(Parent(p), <<Last(p)[1], k + 1>>) \notin DOMAIN f}
             c == [k \in 0..L |-> Append(Parent(p), <<Last(p)[1], k + 1>>)]
  <1>1. p \in Seq(S) /\ p # <<>> /\ IsFiniteSet(DOMAIN f) /\ L \in Nat
    BY FS_CardinalityType DEF Rooted, PathSet
  <1>2. Last(p) \in S /\ Parent(p) \in Seq(S) /\ Len(Parent(p)) = Len(p) - 1
    BY <1>1, FrontLastProperties DEF Parent
  <1>3. ASSUME NEW k \in 0..L
        PROVE  /\ c[k] \in PathSet /\ c[k] # <<>> /\ Len(c[k]) = Len(p) /\ Parent(c[k]) = Parent(p)
               /\ c[k][Len(p)] = <<Last(p)[1], k + 1>> /\ HasBackup(c[k])
    <2> DEFINE e == <<Last(p)[1], k + 1>>
               x == Append(Parent(p), e)
    <2>1. e \in S  BY <1>1, <1>2
    <2> HIDE DEF S, e
    <2>2. /\ x \in Seq(S) /\ Len(x) = Len(Parent(p)) + 1 /\ x[Len(Parent(p)) + 1] = e
          /\ \A i \in 1..Len(Parent(p)) : x[i] = Parent(p)[i]
      BY <1>2, <2>1, AppendProperties
    <2> HIDE DEF x
    <2>3. Len(p) \in Nat /\ Len(x) = Len(p) /\ x[Len(p)] = e  BY <1>1, <1>2, <2>2, LenProperties
    <2>4. x # <<>>  BY <1>1, <1>2, <2>2, EmptySeq, LenProperties
    <2>5. Parent(x) = Parent(p)
      <3>1. /\ Parent(x) \in Seq(S) /\ Len(Parent(x)) = Len(x) - 1
            /\ \A i \in 1..(Len(x) - 1) : Parent(x)[i] = x[i]
        BY <2>2, <2>4, FrontLastProperties DEF Parent
      <3>2. Len(x) - 1 = Len(Parent(p))  BY <1>2, <2>3
      <3>3. \A i \in 1..Len(Parent(p)) : Parent(x)[i] = Parent(p)[i]  BY <2>2, <3>1, <3>2
      <3> QED BY <1>2, <3>1, <3>2, <3>3, SeqEqual
    <2>6. c[k] = x  BY DEF x, e
    <2>7. HasBackup(x)
      <3>1. Len(x) \in Nat \ {0} /\ DOMAIN x = 1..Len(x)  BY <2>2, <2>4, EmptySeq, LenProperties
      <3>2. e[2] = k + 1 /\ k + 1 > 0  BY <1>1 DEF e
      <3> QED BY <2>3, <3>1, <3>2 DEF HasBackup
    <2> QED BY <2>2, <2>3, <2>4, <2>5, <2>6, <2>7 DEF PathSet, S, e
  <1>4. Free # {}
    <2> SUFFICES ASSUME Free = {} PROVE FALSE
      OBVIOUS
    <2>1. c \in [0..L -> DOMAIN f]  OBVIOUS
    <2>2. IsFiniteSet(0..L) /\ Cardinality(0..L) = L + 1
      <3> HIDE DEF L
      <3>1. L \in Int /\ 0 \in Int /\ ~(0 > L) /\ L - 0 + 1 = L + 1  BY <1>1
      <3> QED BY <3>1, FS_Interval
    <2>3. Cardinality(DOMAIN f) < Cardinality(0..L)  BY <1>1, <2>2
    <2> HIDE DEF c, L, Free
    <2>4. PICK i, j \in 0..L : i # j /\ c[i] = c[j]
      BY <1>1, <2>1, <2>2, <2>3, FS_PigeonHole
    <2>5. i + 1 = j + 1  BY <1>3, <2>4
    <2> QED BY <1>1, <2>4, <2>5
  <1>5. PICK k \in Free : \A j \in Free : k <= j
    <2>1. Free \in SUBSET Nat  BY <1>1
    <2> HIDE DEF Free
    <2> QED BY <1>4, <2>1, LeastNumber
  <1>6. PICK m \in 0..L : BackupPath(f, p) = c[m] /\ c[m] \notin DOMAIN f
    <2> DEFINE n == CHOOSE i \in 0..L :
                      /\ Append(Parent(p), <<Last(p)[1], i + 1>>) \notin DOMAIN f
                      /\ \A j \in 0..(i - 1) : Append(Parent(p), <<Last(p)[1], j + 1>>) \in DOMAIN f
    <2>1. ASSUME NEW j \in 0..(k - 1) PROVE Append(Parent(p), <<Last(p)[1], j + 1>>) \in DOMAIN f
      <3>1. j \in 0..L /\ ~(k <= j)  BY <1>1
      <3> QED BY <1>5, <3>1
    <2>2. n \in 0..L /\ Append(Parent(p), <<Last(p)[1], n + 1>>) \notin DOMAIN f
      BY <1>5, <2>1
    <2>3. BackupPath(f, p) = Append(Parent(p), <<Last(p)[1], n + 1>>)  BY DEF BackupPath
    <2> QED BY <2>2, <2>3
  <1> DEFINE b == c[m]
  <1>7. b \in PathSet /\ b # <<>> /\ Len(b) = Len(p) /\ Parent(b) = Parent(p) /\ HasBackup(b)
    BY <1>3
  <1> HIDE DEF b, c, Free, L
  <1>8. b \notin DOMAIN f /\ BackupPath(f, p) = b  BY <1>6 DEF b
  <1>9. IsDirectory(f, Parent(p))
    <2>1. p \in PathSet /\ p # <<>>  BY DEF Rooted
    <2>2. Parent(p) \in PathSet /\ IsStrictPrefix(Parent(p), p)  BY <2>1, PathParent
    <2> QED BY <2>2 DEF Rooted
  <1>10. ~IsPrefix(p, b)
    <2> SUFFICES ASSUME IsPrefix(p, b) PROVE FALSE
      OBVIOUS
    <2>1. b \in Seq(S)  BY <1>7 DEF PathSet
    <2> HIDE DEF S
    <2>2. \A i \in 1..Len(p) : p[i] = b[i]  BY <1>1, <2>1, PrefixMeans
    <2>3. p = b  BY <1>1, <1>7, <2>1, <2>2, SeqEqual
    <2> QED BY <1>8, <2>3
  <1> QED BY <1>7, <1>8, <1>9, <1>10 DEF CanMove, Exists

----------------------------------------------------------------------------
(* System calls *)

\* A state that a call may meet or leave.
CallState(s) ==
  /\ s = [fs |-> s.fs, faults |-> s.faults, cleanup |-> s.cleanup, ok |-> s.ok]
  /\ s.faults \in 0..MaxFaults /\ s.cleanup \in 0..s.faults /\ s.ok \in BOOLEAN
  /\ Rooted(s.fs)

\* A call that met a fault has done nothing, and is counted.
LEMMA FailureMeans ==
  ASSUME NEW s, CallState(s), NEW undoing \in BOOLEAN, NEW t \in Failures(s, undoing)
  PROVE  /\ CallState(t) /\ ~t.ok /\ t.fs = s.fs
         /\ t.cleanup = IF undoing THEN s.cleanup + 1 ELSE s.cleanup
  <1>1. /\ s = [fs |-> s.fs, faults |-> s.faults, cleanup |-> s.cleanup, ok |-> s.ok]
        /\ s.faults \in 0..MaxFaults /\ s.cleanup \in 0..s.faults
    BY DEF CallState
  <1>2. /\ s.faults < MaxFaults
        /\ t = [s EXCEPT !.faults = @ + 1, !.cleanup = IF undoing THEN @ + 1 ELSE @, !.ok = FALSE]
    BY DEF Failures
  <1>3. t = [fs |-> s.fs, faults |-> s.faults + 1,
             cleanup |-> IF undoing THEN s.cleanup + 1 ELSE s.cleanup, ok |-> FALSE]
    BY <1>1, <1>2
  <1>4. s.faults + 1 \in 0..MaxFaults  BY <1>1, <1>2, TransactionAssumption
  <1>5. (IF undoing THEN s.cleanup + 1 ELSE s.cleanup) \in 0..(s.faults + 1)  BY <1>1
  <1>6. Rooted(s.fs)  BY DEF CallState
  <1> QED BY <1>3, <1>4, <1>5, <1>6 DEF CallState

\* The outcomes of rename(2).
LEMMA RenameMeans ==
  ASSUME NEW s, CallState(s), NEW p \in PathSet, NEW q \in PathSet, q # <<>>,
         NEW undoing \in BOOLEAN, NEW t \in Rename(s, p, q, undoing)
  PROVE  /\ CallState(t)
         /\ \/ t.ok /\ CanMove(s.fs, p, q) /\ t.fs = Move(s.fs, p, q) /\ t.cleanup = s.cleanup
            \/ ~t.ok /\ ~CanMove(s.fs, p, q) /\ t.fs = s.fs /\ t.cleanup = s.cleanup
            \/ ~t.ok /\ t.fs = s.fs /\ t.cleanup = IF undoing THEN s.cleanup + 1 ELSE s.cleanup
  <1>1. /\ s = [fs |-> s.fs, faults |-> s.faults, cleanup |-> s.cleanup, ok |-> s.ok]
        /\ s.faults \in 0..MaxFaults /\ s.cleanup \in 0..s.faults /\ Rooted(s.fs)
    BY DEF CallState
  <1>2. CASE t \in Failures(s, undoing)
    BY <1>2, FailureMeans
  <1>3. CASE CanMove(s.fs, p, q) /\ t = [s EXCEPT !.fs = Move(@, p, q), !.ok = TRUE]
    <2>1. t = [fs |-> Move(s.fs, p, q), faults |-> s.faults, cleanup |-> s.cleanup, ok |-> TRUE]
      BY <1>1, <1>3
    <2>2. Rooted(Move(s.fs, p, q))  BY <1>1, <1>3, MoveRooted
    <2> QED BY <1>1, <1>3, <2>1, <2>2 DEF CallState
  <1>4. CASE ~CanMove(s.fs, p, q) /\ t = [s EXCEPT !.ok = FALSE]
    <2>1. t = [fs |-> s.fs, faults |-> s.faults, cleanup |-> s.cleanup, ok |-> FALSE]
      BY <1>1, <1>4
    <2> QED BY <1>1, <1>4, <2>1 DEF CallState
  <1> QED BY <1>2, <1>3, <1>4 DEF Rename

\* A rename(2) that is part of an operation, not of its undoing.
LEMMA RenameForth ==
  ASSUME NEW s, CallState(s), NEW p \in PathSet, NEW q \in PathSet, q # <<>>,
         NEW t \in Rename(s, p, q, FALSE)
  PROVE  /\ CallState(t) /\ t.cleanup = s.cleanup
         /\ \/ t.ok /\ CanMove(s.fs, p, q) /\ t.fs = Move(s.fs, p, q)
            \/ ~t.ok /\ t.fs = s.fs
  <1>1. PICK no : no = FALSE  OBVIOUS
  <1>2. no \in BOOLEAN /\ t \in Rename(s, p, q, no)  BY <1>1
  <1>3. /\ CallState(t)
        /\ \/ t.ok /\ CanMove(s.fs, p, q) /\ t.fs = Move(s.fs, p, q) /\ t.cleanup = s.cleanup
           \/ ~t.ok /\ ~CanMove(s.fs, p, q) /\ t.fs = s.fs /\ t.cleanup = s.cleanup
           \/ ~t.ok /\ t.fs = s.fs /\ t.cleanup = IF no THEN s.cleanup + 1 ELSE s.cleanup
    BY <1>2, RenameMeans
  <1> QED BY <1>1, <1>3

\* A rename(2) that undoes something.
LEMMA RenameBack ==
  ASSUME NEW s, CallState(s), NEW p \in PathSet, NEW q \in PathSet, q # <<>>,
         NEW t \in Rename(s, p, q, TRUE)
  PROVE  /\ CallState(t) /\ t.cleanup \in {s.cleanup, s.cleanup + 1}
         /\ \/ t.ok /\ CanMove(s.fs, p, q) /\ t.fs = Move(s.fs, p, q) /\ t.cleanup = s.cleanup
            \/ ~t.ok /\ ~CanMove(s.fs, p, q)
            \/ ~t.ok /\ t.cleanup = s.cleanup + 1
  <1>1. PICK yes : yes = TRUE  OBVIOUS
  <1>2. yes \in BOOLEAN /\ t \in Rename(s, p, q, yes)  BY <1>1
  <1>3. /\ CallState(t)
        /\ \/ t.ok /\ CanMove(s.fs, p, q) /\ t.fs = Move(s.fs, p, q) /\ t.cleanup = s.cleanup
           \/ ~t.ok /\ ~CanMove(s.fs, p, q) /\ t.fs = s.fs /\ t.cleanup = s.cleanup
           \/ ~t.ok /\ t.fs = s.fs /\ t.cleanup = IF yes THEN s.cleanup + 1 ELSE s.cleanup
    BY <1>2, RenameMeans
  <1> QED BY <1>1, <1>3

\* The outcomes of remove_all().
LEMMA DeleteMeans ==
  ASSUME NEW s, CallState(s), NEW p \in PathSet, NEW undoing \in BOOLEAN,
         NEW t \in Delete(s, p, undoing)
  PROVE  /\ CallState(t)
         /\ \/ t.ok /\ t.fs = RemoveAll(s.fs, p) /\ t.cleanup = s.cleanup
            \/ ~t.ok /\ t.fs = s.fs /\ t.cleanup = IF undoing THEN s.cleanup + 1 ELSE s.cleanup
  <1>1. /\ s = [fs |-> s.fs, faults |-> s.faults, cleanup |-> s.cleanup, ok |-> s.ok]
        /\ s.faults \in 0..MaxFaults /\ s.cleanup \in 0..s.faults /\ Rooted(s.fs)
    BY DEF CallState
  <1>2. CASE t \in Failures(s, undoing)
    BY <1>2, FailureMeans
  <1>3. CASE t = [s EXCEPT !.fs = RemoveAll(@, p), !.ok = TRUE]
    <2>1. t = [fs |-> RemoveAll(s.fs, p), faults |-> s.faults, cleanup |-> s.cleanup, ok |-> TRUE]
      BY <1>1, <1>3
    <2>2. Rooted(RemoveAll(s.fs, p))  BY <1>1, RemoveRooted
    <2> QED BY <1>1, <1>3, <2>1, <2>2 DEF CallState
  <1> QED BY <1>2, <1>3 DEF Delete

\* The outcomes of creating a file at a free place in a directory.
LEMMA CreateMeans ==
  ASSUME NEW s, CallState(s), NEW p \in PathSet, p # <<>>, p \notin DOMAIN s.fs,
         IsDirectory(s.fs, Parent(p)), NEW t \in CreateFile(s, p)
  PROVE  /\ CallState(t) /\ t.cleanup = s.cleanup
         /\ \/ t.ok /\ RemoveAll(t.fs, p) = s.fs
            \/ ~t.ok /\ t.fs = s.fs
  <1>1. /\ s = [fs |-> s.fs, faults |-> s.faults, cleanup |-> s.cleanup, ok |-> s.ok]
        /\ s.faults \in 0..MaxFaults /\ s.cleanup \in 0..s.faults /\ Rooted(s.fs)
    BY DEF CallState
  <1>2. CASE t \in Failures(s, FALSE)
    BY <1>2, FailureMeans
  <1>3. CASE t = [s EXCEPT !.fs = WithNew(@, p), !.ok = TRUE]
    <2>1. t = [fs |-> WithNew(s.fs, p), faults |-> s.faults, cleanup |-> s.cleanup, ok |-> TRUE]
      BY <1>1, <1>3
    <2>2. Rooted(WithNew(s.fs, p)) /\ RemoveAll(WithNew(s.fs, p), p) = s.fs
      BY <1>1, CreateReturns
    <2> QED BY <1>1, <1>3, <2>1, <2>2 DEF CallState
  <1>4. CASE t = [s EXCEPT !.ok = FALSE]
    <2>1. t = [fs |-> s.fs, faults |-> s.faults, cleanup |-> s.cleanup, ok |-> FALSE]
      BY <1>1, <1>4
    <2> QED BY <1>1, <1>4, <2>1 DEF CallState
  <1> QED BY <1>2, <1>3, <1>4 DEF CreateFile

----------------------------------------------------------------------------
(* Applying *)

\* How the tree f comes back from g: by putting the backup, if any, in its place.
Puts(g, backup, target, f) ==
  IF backup = <<>> THEN g = f ELSE Returns(g, backup, target, f)

\* Preserve() makes the target free, or fails and leaves the tree; what it did can be undone.
LEMMA PreserveMeans ==
  ASSUME TypeOK, NEW target \in PathSet, target # <<>>,
         Exists(fs, target) \/ IsDirectory(fs, Parent(target)), NEW kept \in Preserve(target)
  PROVE  /\ CallState(kept.state) /\ kept.backup \in PathSet /\ kept.state.cleanup = cleanup
         /\ ~kept.state.ok => kept.state.fs = fs
         /\ kept.state.ok =>
              /\ target \notin DOMAIN kept.state.fs
              /\ IsDirectory(kept.state.fs, Parent(target))
              /\ Puts(kept.state.fs, kept.backup, target, fs)
              /\ kept.backup = <<>> => ~Exists(fs, target)
  <1>1. /\ CallState(State) /\ State.fs = fs /\ State.cleanup = cleanup /\ State.ok
        /\ Rooted(fs)
    BY TreeMeans DEF TypeOK, State, CallState
  <1>2. CASE ~Exists(fs, target)
    <2>1. kept = [state |-> State, backup |-> <<>>]  BY <1>2 DEF Preserve
    <2>2. kept.state = State /\ kept.backup = <<>>  BY <2>1
    <2>3. target \notin DOMAIN fs /\ IsDirectory(fs, Parent(target))  BY <1>2 DEF Exists
    <2> QED BY <1>1, <1>2, <2>2, <2>3, PathOrder DEF Puts
  <1>3. CASE Exists(fs, target)
    <2> DEFINE b == BackupPath(fs, target)
    <2>1. target \in DOMAIN fs  BY <1>3 DEF Exists
    <2>2. b \in PathSet /\ b # <<>> /\ b \notin DOMAIN fs /\ CanMove(fs, target, b)
      BY <1>1, <2>1, BackupFree
    <2>3. PICK s \in Rename(State, target, b, FALSE) : kept = [state |-> s, backup |-> b]
      BY <1>3 DEF Preserve
    <2> HIDE DEF b
    <2>4. kept.state = s /\ kept.backup = b  BY <2>3
    <2>5. /\ CallState(s)
          /\ \/ s.ok /\ s.fs = Move(fs, target, b) /\ s.cleanup = cleanup
             \/ ~s.ok /\ s.fs = fs /\ s.cleanup = cleanup
      <3>1. PICK st : st = State  OBVIOUS
      <3>2. CallState(st) /\ s \in Rename(st, target, b, FALSE)  BY <1>1, <2>3, <3>1
      <3>3. /\ CallState(s) /\ s.cleanup = st.cleanup
            /\ \/ s.ok /\ CanMove(st.fs, target, b) /\ s.fs = Move(st.fs, target, b)
               \/ ~s.ok /\ s.fs = st.fs
        BY <2>2, <3>2, RenameForth
      <3> QED BY <1>1, <3>1, <3>3
    <2>6. /\ target \notin DOMAIN Move(fs, target, b)
          /\ Returns(Move(fs, target, b), b, target, fs)
      BY <1>1, <2>2, MoveReturns
    <2>7. IsDirectory(Move(fs, target, b), Parent(target))
      BY <2>6 DEF Returns, CanMove
    <2> QED BY <2>2, <2>4, <2>5, <2>6, <2>7 DEF Puts
  <1> QED BY <1>2, <1>3

\* Restore() gives the old tree, unless it met a fault.
LEMMA RestoreMeans ==
  ASSUME NEW s, CallState(s), s.cleanup = 0, NEW backup \in PathSet,
         NEW target \in PathSet, target # <<>>, Puts(s.fs, backup, target, fs),
         NEW back \in Restore(s, backup, target)
  PROVE  CallState(back) /\ (back.cleanup = 0 => back.fs = fs)
  <1>1. CASE backup = <<>>  BY <1>1 DEF Puts, Restore
  <1>2. CASE backup # <<>>
    <2>1. CanMove(s.fs, backup, target) /\ Move(s.fs, backup, target) = fs
      BY <1>2 DEF Puts, Returns
    <2>2. back \in Rename(s, backup, target, TRUE)  BY <1>2 DEF Restore
    <2>3. s.cleanup + 1 # 0  BY DEF CallState
    <2>4. /\ CallState(back)
          /\ \/ back.ok /\ CanMove(s.fs, backup, target)
                /\ back.fs = Move(s.fs, backup, target) /\ back.cleanup = s.cleanup
             \/ ~back.ok /\ ~CanMove(s.fs, backup, target)
             \/ ~back.ok /\ back.cleanup = s.cleanup + 1
      BY <2>2, RenameBack
    <2> QED BY <2>1, <2>3, <2>4
  <1> QED BY <1>1, <1>2

----------------------------------------------------------------------------
(* The inductive invariant *)

\* A sequence is one over its own elements.
LEMMA SeqOverRange ==
  ASSUME NEW T, NEW s \in Seq(T)
  PROVE  s \in Seq(Range(s))
  <1>1. Len(s) \in Nat /\ DOMAIN s = 1..Len(s) /\ s = [i \in 1..Len(s) |-> s[i]]
    BY LenProperties, SeqDef
  <1>2. \A i \in 1..Len(s) : s[i] \in Range(s)  BY <1>1 DEF Range
  <1>3. s \in [1..Len(s) -> Range(s)]  BY <1>1, <1>2
  <1> QED BY <1>1, <1>3, SeqDef

\* A transaction starts with the tree it finds.
LEMMA InitIInv == Init => IInv
  <1> SUFFICES ASSUME Init PROVE IInv
    OBVIOUS
  <1>1. /\ fs \in Trees /\ before = fs /\ operations \in Edits /\ next = 1 /\ applied = <<>>
        /\ phase = "received" /\ faults = 0 /\ cleanup = 0
    BY DEF Init
  <1>2. operations \in Seq(OperationSet) /\ IsTree(fs) /\ MaxFaults \in Nat
    BY <1>1, TransactionAssumption
  <1>3. Len(operations) \in Nat  BY <1>2, LenProperties
  <1>4. DOMAIN applied = {} /\ applied \in Seq(Range(applied))
    BY <1>1, EmptySeq
  <1>5. TypeOK  BY <1>1, <1>2, <1>3, <1>4 DEF TypeOK
  <1> QED BY <1>1, <1>2, <1>4, <1>5 DEF IInv

\* The operation that apply() is at.
LEMMA OpMeans ==
  ASSUME IInv, phase = "applying", next <= Len(operations)
  PROVE  /\ Op \in OperationSet /\ Valid(Op) /\ Op.path \in PathSet /\ Op.newPath \in PathSet
         /\ next \in 1..Len(operations)
  <1>1. operations \in Seq(OperationSet) /\ next \in 1..(Len(operations) + 1)
    BY DEF IInv, TypeOK
  <1>2. next \in 1..Len(operations) /\ DOMAIN operations = 1..Len(operations)
    BY <1>1, LenProperties
  <1>3. Op \in OperationSet  BY <1>1, <1>2, ElementOfSeq DEF Op
  <1>4. Valid(Op)  BY <1>2 DEF IInv, Op
  <1> QED BY <1>2, <1>3, <1>4 DEF OperationSet

\* The fields that only apply() and rollback() change stay as they are.
LEMMA PhaseIInv ==
  ASSUME IInv, UNCHANGED <<fs, before, operations, next, applied, faults, cleanup>>,
         phase' \in {"received", "rejected", "applying", "applied", "failing", "rolledBack",
                     "committing", "committed"},
         phase' \in {"received", "rejected"} => applied = <<>> /\ fs = before,
         phase' \in {"applying", "applied", "failing"} =>
           \A i \in DOMAIN operations : Valid(operations[i]),
         phase' \in {"received", "applying", "applied"} => cleanup = 0,
         phase' \in {"applying", "applied", "failing"} /\ cleanup = 0 => Undoable,
         phase' = "rolledBack" /\ cleanup = 0 => fs = before
  PROVE  IInv'
  <1>1. TypeOK'  BY DEF IInv, TypeOK
  <1>2. Undoable' <=> Undoable  BY DEF Undoable, TreeAfter, Undoes
  <1>3. \A o : Valid(o)' <=> Valid(o)  BY DEF Valid
  <1> QED BY <1>1, <1>2, <1>3 DEF IInv

\* prepare() accepts a plan, or refuses it, without touching the tree.
LEMMA PrepareIInv == IInv /\ Prepare => IInv'
  <1> SUFFICES ASSUME IInv, Prepare PROVE IInv'
    OBVIOUS
  <1>1. applied = <<>> /\ fs = before /\ cleanup = 0  BY DEF IInv, Prepare
  <1>2. Undoable
    <2>1. Len(applied) = 0 /\ DOMAIN applied = {}  BY <1>1, EmptySeq
    <2> QED BY <1>1, <2>1 DEF Undoable, TreeAfter
  <1> QED BY <1>1, <1>2, PhaseIInv DEF Prepare

\* An operation with nothing to do is passed over.
LEMMA SkipIInv ==
  ASSUME IInv, phase = "applying", next <= Len(operations), Skip
  PROVE  IInv'
  <1>1. next' \in 1..(Len(operations) + 1)
    <2>1. next \in 1..Len(operations)  BY OpMeans
    <2> QED BY <2>1 DEF Skip
  <1>2. TypeOK'  BY <1>1 DEF IInv, TypeOK, Skip
  <1>3. Undoable' <=> Undoable  BY DEF Undoable, TreeAfter, Undoes, Skip
  <1>4. \A o : Valid(o)' <=> Valid(o)  BY DEF Valid
  <1> QED BY <1>2, <1>3, <1>4 DEF IInv, Skip

\* An operation that failed has left the tree as it was, unless undoing it met a fault.
LEMMA StopIInv ==
  ASSUME IInv, phase = "applying", NEW s, CallState(s), s.cleanup = 0 => s.fs = fs, Stop(s)
  PROVE  IInv'
  <1>1. fs' = s.fs /\ faults' = s.faults /\ cleanup' = s.cleanup /\ phase' = "failing"
    BY DEF Stop, Become
  <1>2. TypeOK'
    <2>1. IsTree(s.fs)  BY TreeMeans DEF CallState
    <2>2. IsTree(fs)' <=> IsTree(fs')  BY DEF IsTree
    <2> QED BY <1>1, <2>1, <2>2 DEF IInv, TypeOK, Stop, CallState
  <1>3. Undoable  BY DEF IInv
  <1>4. ASSUME fs' = fs PROVE Undoable' <=> Undoable
    BY <1>4 DEF Undoable, TreeAfter, Undoes, Stop
  <1>5. \A o : Valid(o)' <=> Valid(o)  BY DEF Valid
  <1>6. cleanup' = 0 => Undoable'  BY <1>1, <1>3, <1>4
  <1> QED BY <1>1, <1>2, <1>5, <1>6 DEF IInv, Stop

\* An operation that was applied can be undone.
LEMMA DoneIInv ==
  ASSUME IInv, phase = "applying", next <= Len(operations),
         NEW s, CallState(s), s.cleanup = 0, NEW backup \in PathSet,
         Undoes([index |-> next, backup |-> backup, tree |-> fs], s.fs), Done(s, backup)
  PROVE  IInv'
  <1> DEFINE a == [index |-> next, backup |-> backup, tree |-> fs]
             T == Range(applied) \union {a}
  <1>0. PICK n : n = Len(applied)  OBVIOUS
  <1>1. /\ fs' = s.fs /\ faults' = s.faults /\ cleanup' = s.cleanup /\ phase' = phase
        /\ applied' = Append(applied, a) /\ next' = next + 1
        /\ before' = before /\ operations' = operations
    BY DEF Done, Become
  <1>2. a.index = next /\ a.backup = backup /\ a.tree = fs  OBVIOUS
  <1>3. next \in 1..Len(operations)  BY OpMeans
  <1> HIDE DEF a
  <1>4. applied \in Seq(T) /\ a \in T /\ applied \in Seq(Range(applied))
    <2>1. applied \in Seq(Range(applied))  BY DEF IInv
    <2> QED BY <2>1
  <1> HIDE DEF T
  <1>5. /\ applied' \in Seq(T) /\ Len(applied') = n + 1 /\ applied'[n + 1] = a
        /\ \A i \in 1..n : applied'[i] = applied[i]
    BY <1>0, <1>1, <1>4, AppendProperties
  <1>6. applied' \in Seq(Range(applied'))  BY <1>5, SeqOverRange
  <1>7. n \in Nat /\ DOMAIN applied = 1..n /\ DOMAIN applied' = 1..(n + 1)
    BY <1>0, <1>4, <1>5, LenProperties
  <1>8. \A i \in 1..(n + 1) : i \in 1..n \/ i = n + 1  BY <1>7
  <1>9. IsTree(s.fs) /\ IsTree(fs)  BY TreeMeans DEF CallState, IInv, TypeOK
  <1>10. \A f : IsTree(f)' <=> IsTree(f)  BY DEF IsTree, IsDirectory
  <1>11. TypeOK'
    <2>1. IsTree(fs)'  BY <1>1, <1>9 DEF IsTree
    <2>2. next' \in 1..(Len(operations') + 1)  BY <1>1, <1>3
    <2>3. \A i \in DOMAIN applied' : applied'[i].index \in 1..Len(operations')
      BY <1>1, <1>2, <1>3, <1>5, <1>7, <1>8 DEF IInv, TypeOK
    <2> QED BY <1>1, <2>1, <2>2, <2>3 DEF TypeOK, IInv, CallState
  <1>12. \A i \in DOMAIN applied' : applied'[i].backup \in PathSet /\ IsTree(applied'[i].tree)
    BY <1>2, <1>5, <1>7, <1>8, <1>9 DEF IInv
  <1>13. Undoable'
    <2>1. Undoable  BY DEF IInv
    <2>2. \A b, f : Undoes(b, f)' <=> Undoes(b, f)  BY <1>1 DEF Undoes
    <2>3. ASSUME NEW i \in 0..n PROVE TreeAfter(i)' = TreeAfter(i)
      <3>1. i # n + 1 /\ (i # n => i + 1 \in 1..n)  BY <1>7
      <3> QED BY <1>0, <1>2, <1>5, <3>1 DEF TreeAfter
    <2>4. TreeAfter(n + 1)' = s.fs  BY <1>1, <1>5 DEF TreeAfter
    <2>5. TreeAfter(0)' = before'  BY <1>1, <1>7, <2>1, <2>3 DEF Undoable
    <2>6. ASSUME NEW i \in 1..n PROVE Undoes(applied'[i], TreeAfter(i)')
      <3>1. i \in 0..n  BY <1>7
      <3> QED BY <1>5, <1>7, <2>1, <2>3, <3>1 DEF Undoable
    <2>7. Undoes(applied'[n + 1], TreeAfter(n + 1)')  BY <1>5, <2>4 DEF a
    <2>8. \A i \in DOMAIN applied' : Undoes(applied'[i], TreeAfter(i)')
      BY <1>7, <1>8, <2>6, <2>7
    <2>9. \A i : Undoes(applied[i], TreeAfter(i))' <=> Undoes(applied'[i], TreeAfter(i)')
      BY <1>1 DEF Undoes
    <2> QED BY <2>5, <2>8, <2>9 DEF Undoable
  <1>14. \A o : Valid(o)' <=> Valid(o)  BY DEF Valid
  <1> QED BY <1>1, <1>6, <1>10, <1>11, <1>12, <1>13, <1>14 DEF IInv

\* An error found before anything was done.
LEMMA RefuseIInv ==
  ASSUME IInv, phase = "applying", Stop(State)
  PROVE  IInv'
  <1>1. CallState(State) /\ State.fs = fs
    BY TreeMeans DEF IInv, TypeOK, State, CallState
  <1> QED BY <1>1, StopIInv

\* A file is created, with what was there moved aside.
LEMMA ApplyCreateIInv == IInv /\ ApplyCreate => IInv'
  <1> SUFFICES ASSUME IInv, ApplyCreate PROVE IInv'
    OBVIOUS
  <1> DEFINE p == Op.path
  <1>1. phase = "applying" /\ next <= Len(operations) /\ Op.kind = "create"
    BY DEF ApplyCreate, Applying
  <1>2. p \in PathSet /\ p # <<>> /\ TypeOK /\ cleanup = 0
    BY <1>1, OpMeans DEF Valid, IInv
  <1>3. CASE Skip  BY <1>1, <1>3, SkipIInv
  <1>4. CASE Stop(State)  BY <1>1, <1>4, RefuseIInv
  <1>5. ASSUME Exists(fs, p) \/ IsDirectory(fs, Parent(p)), NEW kept \in Preserve(p),
               IF ~kept.state.ok THEN Stop(kept.state)
               ELSE \E made \in CreateFile(kept.state, p) :
                      IF made.ok THEN Done(made, kept.backup)
                      ELSE \E back \in Restore(made, kept.backup, p) : Stop(back)
        PROVE  IInv'
    <2> HIDE DEF p
    <2>1. /\ CallState(kept.state) /\ kept.backup \in PathSet /\ kept.state.cleanup = 0
          /\ ~kept.state.ok => kept.state.fs = fs
          /\ kept.state.ok =>
               /\ p \notin DOMAIN kept.state.fs
               /\ IsDirectory(kept.state.fs, Parent(p))
               /\ Puts(kept.state.fs, kept.backup, p, fs)
      BY <1>2, <1>5, PreserveMeans
    <2>2. CASE ~kept.state.ok
      <3>1. Stop(kept.state) /\ kept.state.fs = fs  BY <1>5, <2>1, <2>2
      <3> QED BY <1>1, <2>1, <3>1, StopIInv
    <2>3. CASE kept.state.ok
      <3>1. PICK made \in CreateFile(kept.state, p) :
              IF made.ok THEN Done(made, kept.backup)
              ELSE \E back \in Restore(made, kept.backup, p) : Stop(back)
        BY <1>5, <2>3
      <3>2. /\ CallState(made) /\ made.cleanup = 0
            /\ \/ made.ok /\ RemoveAll(made.fs, p) = kept.state.fs
               \/ ~made.ok /\ made.fs = kept.state.fs
        BY <1>2, <2>1, <2>3, CreateMeans
      <3>3. CASE made.ok
        <4> DEFINE a == [index |-> next, backup |-> kept.backup, tree |-> fs]
        <4>1. a.index = next /\ a.backup = kept.backup /\ a.tree = fs  OBVIOUS
        <4> HIDE DEF a
        <4>2. operations[a.index].kind = "create" /\ operations[a.index].path = p
          BY <1>1, <4>1 DEF Op, p
        <4>3. Undoes(a, made.fs)
          BY <2>1, <2>3, <3>2, <3>3, <4>1, <4>2 DEF Undoes, Puts
        <4>4. Done(made, kept.backup)  BY <3>1, <3>3
        <4> QED BY <1>1, <2>1, <3>2, <4>3, <4>4, DoneIInv DEF a
      <3>4. CASE ~made.ok
        <4>1. PICK back \in Restore(made, kept.backup, p) : Stop(back)  BY <3>1, <3>4
        <4>2. Puts(made.fs, kept.backup, p, fs)  BY <2>1, <2>3, <3>2, <3>4
        <4>3. CallState(back) /\ (back.cleanup = 0 => back.fs = fs)
          BY <1>2, <2>1, <3>2, <4>2, RestoreMeans
        <4> QED BY <1>1, <4>1, <4>3, StopIInv
      <3> QED BY <3>3, <3>4
    <2> QED BY <2>2, <2>3
  <1> QED BY <1>3, <1>4, <1>5 DEF ApplyCreate

\* An entry is renamed, with what was there moved aside.
LEMMA ApplyRenameIInv == IInv /\ ApplyRename => IInv'
  <1> SUFFICES ASSUME IInv, ApplyRename PROVE IInv'
    OBVIOUS
  <1> DEFINE p == Op.path
             q == Op.newPath
  <1>1. phase = "applying" /\ next <= Len(operations) /\ Op.kind = "rename"
    BY DEF ApplyRename, Applying
  <1>2. p \in PathSet /\ p # <<>> /\ q \in PathSet /\ q # <<>> /\ TypeOK /\ cleanup = 0
    BY <1>1, OpMeans DEF Valid, IInv
  <1>3. CASE Skip  BY <1>1, <1>3, SkipIInv
  <1>4. CASE Stop(State)  BY <1>1, <1>4, RefuseIInv
  <1>5. ASSUME Exists(fs, q) \/ IsDirectory(fs, Parent(q)), NEW kept \in Preserve(q),
               IF ~kept.state.ok THEN Stop(kept.state)
               ELSE \E moved \in Rename(kept.state, p, q, FALSE) :
                      IF moved.ok THEN Done(moved, kept.backup)
                      ELSE \E back \in Restore(moved, kept.backup, q) : Stop(back)
        PROVE  IInv'
    <2> HIDE DEF p, q
    <2>1. /\ CallState(kept.state) /\ kept.backup \in PathSet /\ kept.state.cleanup = 0
          /\ ~kept.state.ok => kept.state.fs = fs
          /\ kept.state.ok =>
               q \notin DOMAIN kept.state.fs /\ Puts(kept.state.fs, kept.backup, q, fs)
      BY <1>2, <1>5, PreserveMeans
    <2>2. CASE ~kept.state.ok
      <3>1. Stop(kept.state) /\ kept.state.fs = fs  BY <1>5, <2>1, <2>2
      <3> QED BY <1>1, <2>1, <3>1, StopIInv
    <2>3. CASE kept.state.ok
      <3>1. PICK moved \in Rename(kept.state, p, q, FALSE) :
              IF moved.ok THEN Done(moved, kept.backup)
              ELSE \E back \in Restore(moved, kept.backup, q) : Stop(back)
        BY <1>5, <2>3
      <3>2. /\ CallState(moved) /\ moved.cleanup = 0
            /\ \/ moved.ok /\ CanMove(kept.state.fs, p, q) /\ moved.fs = Move(kept.state.fs, p, q)
               \/ ~moved.ok /\ moved.fs = kept.state.fs
        <4>1. PICK st : st = kept.state  OBVIOUS
        <4>2. CallState(st) /\ moved \in Rename(st, p, q, FALSE)  BY <2>1, <4>1
        <4>3. /\ CallState(moved) /\ moved.cleanup = st.cleanup
              /\ \/ moved.ok /\ CanMove(st.fs, p, q) /\ moved.fs = Move(st.fs, p, q)
                 \/ ~moved.ok /\ moved.fs = st.fs
          BY <1>2, <4>2, RenameForth
        <4> QED BY <2>1, <4>1, <4>3
      <3>3. CASE moved.ok
        <4> DEFINE a == [index |-> next, backup |-> kept.backup, tree |-> fs]
        <4>1. a.index = next /\ a.backup = kept.backup /\ a.tree = fs  OBVIOUS
        <4> HIDE DEF a
        <4>2. /\ operations[a.index].kind = "rename" /\ operations[a.index].path = p
              /\ operations[a.index].newPath = q
          BY <1>1, <4>1 DEF Op, p, q
        <4>3. Rooted(kept.state.fs)  BY <2>1 DEF CallState
        <4>4. CanMove(moved.fs, q, p) /\ Move(moved.fs, q, p) = kept.state.fs
          BY <1>2, <2>1, <2>3, <3>2, <3>3, <4>3, MoveReturns DEF Returns
        <4>5. Undoes(a, moved.fs)
          BY <2>1, <2>3, <4>1, <4>2, <4>4 DEF Undoes, Puts
        <4>6. Done(moved, kept.backup)  BY <3>1, <3>3
        <4> QED BY <1>1, <2>1, <3>2, <4>5, <4>6, DoneIInv DEF a
      <3>4. CASE ~moved.ok
        <4>1. PICK back \in Restore(moved, kept.backup, q) : Stop(back)  BY <3>1, <3>4
        <4>2. Puts(moved.fs, kept.backup, q, fs)  BY <2>1, <2>3, <3>2, <3>4
        <4>3. CallState(back) /\ (back.cleanup = 0 => back.fs = fs)
          BY <1>2, <2>1, <3>2, <4>2, RestoreMeans
        <4> QED BY <1>1, <4>1, <4>3, StopIInv
      <3> QED BY <3>3, <3>4
    <2> QED BY <2>2, <2>3
  <1> QED BY <1>3, <1>4, <1>5 DEF ApplyRename

\* An entry is moved to its backup.
LEMMA ApplyDeleteIInv == IInv /\ ApplyDelete => IInv'
  <1> SUFFICES ASSUME IInv, ApplyDelete PROVE IInv'
    OBVIOUS
  <1> DEFINE p == Op.path
  <1>1. phase = "applying" /\ next <= Len(operations) /\ Op.kind = "delete"
    BY DEF ApplyDelete, Applying
  <1>2. p \in PathSet /\ p # <<>> /\ TypeOK /\ cleanup = 0
    BY <1>1, OpMeans DEF Valid, IInv
  <1>3. CASE Skip  BY <1>1, <1>3, SkipIInv
  <1>4. CASE Stop(State)  BY <1>1, <1>4, RefuseIInv
  <1>5. ASSUME Exists(fs, p), NEW kept \in Preserve(p),
               IF kept.state.ok THEN Done(kept.state, kept.backup) ELSE Stop(kept.state)
        PROVE  IInv'
    <2> HIDE DEF p
    <2>1. /\ CallState(kept.state) /\ kept.backup \in PathSet /\ kept.state.cleanup = 0
          /\ ~kept.state.ok => kept.state.fs = fs
          /\ kept.state.ok => Puts(kept.state.fs, kept.backup, p, fs) /\ kept.backup # <<>>
      BY <1>2, <1>5, PreserveMeans
    <2>2. CASE ~kept.state.ok
      <3>1. Stop(kept.state) /\ kept.state.fs = fs  BY <1>5, <2>1, <2>2
      <3> QED BY <1>1, <2>1, <3>1, StopIInv
    <2>3. CASE kept.state.ok
      <3> DEFINE a == [index |-> next, backup |-> kept.backup, tree |-> fs]
      <3>1. a.index = next /\ a.backup = kept.backup /\ a.tree = fs  OBVIOUS
      <3> HIDE DEF a
      <3>2. operations[a.index].kind = "delete" /\ operations[a.index].path = p
        BY <1>1, <3>1 DEF Op, p
      <3>3. Undoes(a, kept.state.fs)  BY <2>1, <2>3, <3>1, <3>2 DEF Undoes, Puts
      <3>4. Done(kept.state, kept.backup)  BY <1>5, <2>3
      <3> QED BY <1>1, <2>1, <3>3, <3>4, DoneIInv DEF a
    <2> QED BY <2>2, <2>3
  <1> QED BY <1>3, <1>4, <1>5 DEF ApplyDelete

\* All operations have been applied.
LEMMA AppliedIInv == IInv /\ Applied => IInv'
  <1> SUFFICES ASSUME IInv, Applied PROVE IInv'
    OBVIOUS
  <1>1. /\ phase = "applying" /\ phase' = "applied" /\ cleanup = 0 /\ Undoable
        /\ \A i \in DOMAIN operations : Valid(operations[i])
    BY DEF IInv, Applied
  <1> QED BY <1>1, PhaseIInv DEF Applied

\* The owner asks for a rollback.
LEMMA RollBackIInv == IInv /\ RollBack => IInv'
  <1> SUFFICES ASSUME IInv, RollBack PROVE IInv'
    OBVIOUS
  <1>1. /\ phase = "applied" /\ phase' = "failing" /\ cleanup = 0 /\ Undoable
        /\ \A i \in DOMAIN operations : Valid(operations[i])
    BY DEF IInv, RollBack
  <1> QED BY <1>1, PhaseIInv DEF RollBack

\* Nothing is left to undo.
LEMMA RolledBackIInv == IInv /\ RolledBack => IInv'
  <1> SUFFICES ASSUME IInv, RolledBack PROVE IInv'
    OBVIOUS
  <1>1. phase = "failing" /\ applied = <<>> /\ phase' = "rolledBack"  BY DEF RolledBack
  <1>2. cleanup = 0 => fs = before
    <2>1. Len(applied) = 0  BY <1>1, EmptySeq
    <2> QED BY <1>1, <2>1 DEF IInv, Undoable, TreeAfter
  <1> QED BY <1>1, <1>2, PhaseIInv DEF RolledBack

\* Nothing is left to clean up.
LEMMA CommittedIInv == IInv /\ Committed => IInv'
  <1> SUFFICES ASSUME IInv, Committed PROVE IInv'
    OBVIOUS
  <1> QED BY PhaseIInv DEF Committed

\* What undoing an operation leaves: a tree, and the one the operation was applied to unless
\* a call met a fault.
LEMMA UndoMeans ==
  ASSUME IInv, phase = "failing", NEW a, a.index \in 1..Len(operations), a.backup \in PathSet,
         cleanup = 0 => Undoes(a, fs), NEW t \in Undo(a)
  PROVE  CallState(t) /\ (t.cleanup = 0 => cleanup = 0 /\ t.fs = a.tree)
  <1> DEFINE o == operations[a.index]
             p == o.path
             q == o.newPath
             b == a.backup
  <1>1. PICK st : st = State  OBVIOUS
  <1>2. CallState(st) /\ st.fs = fs /\ st.cleanup = cleanup /\ cleanup \in Nat /\ st.ok
    BY <1>1, TreeMeans DEF IInv, TypeOK, State, CallState
  <1>3. /\ o.kind \in {"create", "rename", "delete"} /\ p \in PathSet /\ p # <<>> /\ q \in PathSet
        /\ o.kind = "rename" => q # <<>>
    <2>1. operations \in Seq(OperationSet) /\ DOMAIN operations = 1..Len(operations)
      BY LenProperties DEF IInv
    <2>2. o \in OperationSet /\ Valid(o)  BY <2>1, ElementOfSeq DEF IInv
    <2> QED BY <2>2 DEF OperationSet, Valid
  <1> HIDE DEF p, q, b
  <1>4. ASSUME NEW s, CallState(s), NEW c \in PathSet, c # <<>>,
               t \in IF s.ok /\ b # <<>> THEN Rename(s, b, c, TRUE) ELSE {s},
               s.cleanup \in Nat,
               s.cleanup = 0 => cleanup = 0 /\ s.ok /\ Puts(s.fs, b, c, a.tree)
        PROVE  CallState(t) /\ (t.cleanup = 0 => cleanup = 0 /\ t.fs = a.tree)
    <2>1. CASE s.ok /\ b # <<>>
      <3>1. t \in Rename(s, b, c, TRUE) /\ b \in PathSet  BY <1>4, <2>1 DEF b
      <3>2. /\ CallState(t) /\ t.cleanup \in {s.cleanup, s.cleanup + 1}
            /\ \/ t.ok /\ CanMove(s.fs, b, c) /\ t.fs = Move(s.fs, b, c) /\ t.cleanup = s.cleanup
               \/ ~t.ok /\ ~CanMove(s.fs, b, c)
               \/ ~t.ok /\ t.cleanup = s.cleanup + 1
        BY <1>4, <3>1, RenameBack
      <3>3. s.cleanup + 1 # 0 /\ (t.cleanup = 0 => s.cleanup = 0)  BY <1>4, <3>2
      <3> QED BY <1>4, <2>1, <3>2, <3>3 DEF Puts, Returns
    <2>2. CASE ~(s.ok /\ b # <<>>)
      <3>1. t = s  BY <1>4, <2>2
      <3> QED BY <1>4, <2>2, <3>1 DEF Puts
    <2> QED BY <2>1, <2>2
  <1>5. CASE o.kind = "create"
    <2>1. PICK s \in Delete(st, p, TRUE) :
            t \in IF s.ok /\ b # <<>> THEN Rename(s, b, p, TRUE) ELSE {s}
      BY <1>1, <1>5 DEF Undo, p, b
    <2>2. PICK yes : yes = TRUE  OBVIOUS
    <2>3. yes \in BOOLEAN /\ s \in Delete(st, p, yes)  BY <2>2
    <2>4. /\ CallState(s)
          /\ \/ s.ok /\ s.fs = RemoveAll(st.fs, p) /\ s.cleanup = st.cleanup
             \/ ~s.ok /\ s.fs = st.fs /\ s.cleanup = IF yes THEN st.cleanup + 1 ELSE st.cleanup
      BY <1>2, <1>3, <2>3, DeleteMeans
    <2>5. /\ s.cleanup \in Nat
          /\ s.cleanup = 0 => cleanup = 0 /\ s.ok /\ s.fs = RemoveAll(fs, p)
      BY <1>2, <2>2, <2>4
    <2>6. cleanup = 0 => Puts(RemoveAll(fs, p), b, p, a.tree)
      BY <1>5 DEF Undoes, Puts, p, b
    <2>7. s.cleanup = 0 => cleanup = 0 /\ s.ok /\ Puts(s.fs, b, p, a.tree)
      BY <2>5, <2>6
    <2> QED BY <1>3, <1>4, <2>1, <2>4, <2>5, <2>7
  <1>6. CASE o.kind = "rename"
    <2>1. PICK s \in Rename(st, q, p, TRUE) :
            t \in IF s.ok /\ b # <<>> THEN Rename(s, b, q, TRUE) ELSE {s}
      BY <1>1, <1>6 DEF Undo, p, q, b
    <2>2. /\ CallState(s) /\ s.cleanup \in {st.cleanup, st.cleanup + 1}
          /\ \/ s.ok /\ CanMove(st.fs, q, p) /\ s.fs = Move(st.fs, q, p) /\ s.cleanup = st.cleanup
             \/ ~s.ok /\ ~CanMove(st.fs, q, p)
             \/ ~s.ok /\ s.cleanup = st.cleanup + 1
      BY <1>2, <1>3, RenameBack
    <2>3. s.cleanup \in Nat /\ (s.cleanup = 0 => cleanup = 0) /\ st.cleanup + 1 # 0
      BY <1>2, <2>2
    <2>4. cleanup = 0 => CanMove(fs, q, p) /\ Puts(Move(fs, q, p), b, q, a.tree)
      BY <1>6 DEF Undoes, Puts, p, q, b
    <2>5. s.cleanup = 0 => cleanup = 0 /\ s.ok /\ Puts(s.fs, b, q, a.tree)
      BY <1>2, <2>2, <2>3, <2>4
    <2> QED BY <1>3, <1>4, <1>6, <2>1, <2>2, <2>3, <2>5
  <1>7. CASE o.kind = "delete"
    <2>1. t \in Rename(st, b, p, TRUE) /\ b \in PathSet
      BY <1>1, <1>7 DEF Undo, p, b
    <2>2. /\ CallState(t) /\ t.cleanup \in {st.cleanup, st.cleanup + 1}
          /\ \/ t.ok /\ CanMove(st.fs, b, p) /\ t.fs = Move(st.fs, b, p) /\ t.cleanup = st.cleanup
             \/ ~t.ok /\ ~CanMove(st.fs, b, p)
             \/ ~t.ok /\ t.cleanup = st.cleanup + 1
      BY <1>2, <1>3, <2>1, RenameBack
    <2>3. (t.cleanup = 0 => cleanup = 0) /\ st.cleanup + 1 # 0  BY <1>2, <2>2
    <2>4. cleanup = 0 => CanMove(fs, b, p) /\ Move(fs, b, p) = a.tree
      BY <1>7 DEF Undoes, Returns, p, b
    <2> QED BY <1>2, <2>2, <2>3, <2>4
  <1> QED BY <1>3, <1>5, <1>6, <1>7

\* The last operation is undone, or its undo fails and is passed over.
LEMMA UndoLastIInv == IInv /\ UndoLast => IInv'
  <1> SUFFICES ASSUME IInv, UndoLast PROVE IInv'
    OBVIOUS
  <1>1. PICK n : n = Len(applied)  OBVIOUS
  <1>2. PICK a : a = Last(applied)  OBVIOUS
  <1>3. PICK t \in Undo(a) : Become(t)  BY <1>2 DEF UndoLast
  <1>4. /\ phase = "failing" /\ phase' = phase /\ applied # <<>> /\ applied' = Front(applied)
        /\ before' = before /\ operations' = operations /\ next' = next
        /\ fs' = t.fs /\ faults' = t.faults /\ cleanup' = t.cleanup
    BY <1>3 DEF UndoLast, Become
  <1>5. applied \in Seq(Range(applied)) /\ n \in Nat \ {0} /\ DOMAIN applied = 1..n
    BY <1>1, <1>4, EmptySeq, LenProperties DEF IInv
  <1>6. /\ applied' \in Seq(Range(applied)) /\ Len(applied') = n - 1
        /\ \A i \in 1..(n - 1) : applied'[i] = applied[i]
        /\ a = applied[n] /\ n \in DOMAIN applied
    BY <1>1, <1>2, <1>4, <1>5, FrontLastProperties DEF Last
  <1>7. applied' \in Seq(Range(applied')) /\ DOMAIN applied' = 1..(n - 1)
    BY <1>6, SeqOverRange, LenProperties
  <1>8. \A i \in 1..(n - 1) : i \in 1..n /\ i \in 0..n /\ i # n  BY <1>5
  <1>9. a.index \in 1..Len(operations) /\ a.backup \in PathSet /\ IsTree(a.tree)
    BY <1>6 DEF IInv, TypeOK
  <1>10. cleanup = 0 => Undoable  BY <1>4 DEF IInv
  <1>11. cleanup = 0 => Undoes(a, fs)
    <2>1. TreeAfter(n) = fs  BY <1>1 DEF TreeAfter
    <2> QED BY <1>6, <1>10, <2>1 DEF Undoable
  <1>12. CallState(t) /\ (t.cleanup = 0 => cleanup = 0 /\ t.fs = a.tree)
    BY <1>3, <1>4, <1>9, <1>11, UndoMeans
  <1>13. TypeOK'
    <2>1. IsTree(t.fs)  BY <1>12, TreeMeans DEF CallState
    <2>2. IsTree(fs)'  BY <1>4, <2>1 DEF IsTree
    <2>3. \A i \in DOMAIN applied' : applied'[i].index \in 1..Len(operations')
      BY <1>4, <1>5, <1>6, <1>7, <1>8 DEF IInv, TypeOK
    <2> QED BY <1>4, <1>12, <2>2, <2>3 DEF TypeOK, IInv, CallState
  <1>14. \A i \in DOMAIN applied' : applied'[i].backup \in PathSet /\ IsTree(applied'[i].tree)
    BY <1>5, <1>6, <1>7, <1>8 DEF IInv
  <1>15. ASSUME cleanup' = 0 PROVE Undoable'
    <2>1. Undoable /\ fs' = a.tree  BY <1>4, <1>10, <1>12, <1>15
    <2>2. ASSUME NEW i \in 0..(n - 1) PROVE TreeAfter(i)' = TreeAfter(i)
      <3>1. i # n /\ (i # n - 1 => i + 1 \in 1..(n - 1))  BY <1>5
      <3>2. CASE i = n - 1
        <4>1. TreeAfter(i)' = fs'  BY <1>6, <3>2 DEF TreeAfter
        <4>2. TreeAfter(i) = applied[n].tree  BY <1>1, <1>5, <3>1, <3>2 DEF TreeAfter
        <4> QED BY <1>6, <2>1, <4>1, <4>2
      <3>3. CASE i # n - 1
        BY <1>1, <1>6, <3>1, <3>3 DEF TreeAfter
      <3> QED BY <3>2, <3>3
    <2>3. TreeAfter(0)' = before'  BY <1>4, <1>5, <2>1, <2>2 DEF Undoable
    <2>4. ASSUME NEW i \in 1..(n - 1) PROVE Undoes(applied'[i], TreeAfter(i)')
      <3>1. i \in 0..(n - 1) /\ i \in DOMAIN applied  BY <1>5, <1>8
      <3> QED BY <1>6, <2>1, <2>2, <3>1 DEF Undoable
    <2>5. \A i : Undoes(applied[i], TreeAfter(i))' <=> Undoes(applied'[i], TreeAfter(i)')
      BY <1>4 DEF Undoes
    <2> QED BY <1>7, <2>3, <2>4, <2>5 DEF Undoable
  <1>16. \A f : IsTree(f)' <=> IsTree(f)  BY DEF IsTree, IsDirectory
  <1>17. \A o : Valid(o)' <=> Valid(o)  BY DEF Valid
  <1> QED BY <1>4, <1>7, <1>13, <1>14, <1>15, <1>16, <1>17 DEF IInv

\* commit() removes the backup of an operation, if it can.
LEMMA CommitIInv == IInv /\ Commit => IInv'
  <1> SUFFICES ASSUME IInv, Commit PROVE IInv'
    OBVIOUS
  <1>1. PICK n : n = Len(applied)  OBVIOUS
  <1>2. /\ phase' = "committing" /\ applied # <<>> /\ applied' = Tail(applied)
        /\ before' = before /\ operations' = operations /\ next' = next
    BY DEF Commit
  <1>3. applied \in Seq(Range(applied)) /\ n \in Nat \ {0} /\ DOMAIN applied = 1..n
    BY <1>1, <1>2, EmptySeq, LenProperties DEF IInv
  <1>4. /\ applied' \in Seq(Range(applied)) /\ Len(applied') = n - 1
        /\ \A i \in 1..(n - 1) : applied'[i] = applied[i + 1]
        /\ Head(applied) = applied[1] /\ 1 \in DOMAIN applied
    BY <1>1, <1>2, <1>3, HeadTailProperties
  <1>5. applied' \in Seq(Range(applied')) /\ DOMAIN applied' = 1..(n - 1)
    BY <1>4, SeqOverRange, LenProperties
  <1>6. \A i \in 1..(n - 1) : i + 1 \in 1..n  BY <1>3
  <1>7. PICK t : CallState(t) /\ Become(t)
    <2>1. PICK st : st = State  OBVIOUS
    <2>2. CallState(st)  BY <2>1, TreeMeans DEF IInv, TypeOK, State, CallState
    <2>3. CASE Head(applied).backup = <<>>  BY <2>1, <2>2, <2>3 DEF Commit
    <2>4. CASE Head(applied).backup # <<>>
      <3>1. PICK yes : yes = TRUE  OBVIOUS
      <3>2. PICK b : b = Head(applied).backup  OBVIOUS
      <3>3. PICK s \in Delete(st, b, yes) : Become(s)  BY <2>1, <2>4, <3>1, <3>2 DEF Commit
      <3>4. b \in PathSet /\ yes \in BOOLEAN  BY <1>4, <3>1, <3>2 DEF IInv
      <3>5. CallState(s)  BY <2>2, <3>4, DeleteMeans
      <3> QED BY <3>3, <3>5
    <2> QED BY <2>3, <2>4
  <1>8. TypeOK'
    <2>1. IsTree(t.fs)  BY <1>7, TreeMeans DEF CallState
    <2>2. IsTree(fs)'  BY <1>7, <2>1 DEF IsTree, Become
    <2>3. \A i \in DOMAIN applied' : applied'[i].index \in 1..Len(operations')
      BY <1>2, <1>3, <1>4, <1>5, <1>6 DEF IInv, TypeOK
    <2> QED BY <1>2, <1>7, <2>2, <2>3 DEF TypeOK, IInv, CallState, Become
  <1>9. \A i \in DOMAIN applied' : applied'[i].backup \in PathSet /\ IsTree(applied'[i].tree)
    BY <1>3, <1>4, <1>5, <1>6 DEF IInv
  <1>10. \A f : IsTree(f)' <=> IsTree(f)  BY DEF IsTree, IsDirectory
  <1> QED BY <1>2, <1>5, <1>8, <1>9, <1>10 DEF IInv

----------------------------------------------------------------------------
(* The theorems *)

\* Every step keeps the inductive invariant.
LEMMA NextIInv == IInv /\ [Next]_vars => IInv'
  <1> SUFFICES ASSUME IInv, [Next]_vars PROVE IInv'
    OBVIOUS
  <1>1. CASE UNCHANGED vars
    <2>1. /\ phase' = phase
          /\ UNCHANGED <<fs, before, operations, next, applied, faults, cleanup>>
      BY <1>1 DEF vars
    <2> QED BY <2>1, PhaseIInv DEF IInv, TypeOK
  <1> QED BY <1>1, PrepareIInv, ApplyCreateIInv, ApplyRenameIInv, ApplyDeleteIInv, AppliedIInv,
             RollBackIInv, UndoLastIInv, RolledBackIInv, CommitIInv, CommittedIInv
          DEF Next

\* Whatever the tree, the edit and the faults: every applied operation can be undone, in the
\* reverse order, with no refusal by the file system, and each undoing gives the tree that the
\* operation was applied to (WorkspaceFileTransaction::rollback()).
THEOREM SpecIInv == Spec => []IInv
  BY InitIInv, NextIInv, PTL DEF Spec

\* A transaction that was rejected, that failed, or that its owner rolled back leaves exactly
\* the tree it found, unless undoing itself met a fault.
THEOREM SpecRollbackRestores == Spec => []RollbackRestores
  <1>1. IInv => RollbackRestores  BY DEF IInv, RollbackRestores
  <1> QED BY <1>1, SpecIInv, PTL

\* The tree stays a tree, and the indices of applied_ those of operations.
THEOREM SpecTypeOK == Spec => []TypeOK
  <1>1. IInv => TypeOK  BY DEF IInv
  <1> QED BY <1>1, SpecIInv, PTL

----------------------------------------------------------------------------
(* What the edit asks for *)

\* Performed() applies one operation after the other.
LEMMA PerformedMeans ==
  ASSUME NEW f, NEW S, NEW edit \in Seq(S)
  PROVE  /\ Performed(f, edit, 0) = f
         /\ \A n \in 1..Len(edit) : Performed(f, edit, n) = Perform(Performed(f, edit, n - 1), edit[n])
  <1> DEFINE Begins(a, m) == a = [i \in 0..m |-> IF i = 0 THEN f ELSE Perform(a[i - 1], edit[i])]
             Reached == {m \in 0..Len(edit) : \E a : Begins(a, m)}
  <1>1. Len(edit) \in Nat  BY LenProperties
  <1>2. 0 \in Reached
    <2> DEFINE a == [i \in 0..0 |-> f]
    <2>1. Begins(a, 0)
      <3>1. \A i \in 0..0 : i = 0  OBVIOUS
      <3> QED BY <3>1
    <2> HIDE DEF a, Begins
    <2>2. \E x : Begins(x, 0)  BY <2>1
    <2>3. 0 \in 0..Len(edit)  BY <1>1
    <2> QED BY <2>2, <2>3
  <1>3. ASSUME NEW m \in 0..(Len(edit) - 1), m \in Reached PROVE m + 1 \in Reached
    <2>1. PICK a : Begins(a, m)  BY <1>3
    <2> DEFINE b == [i \in 0..(m + 1) |-> IF i = 0 THEN f ELSE Perform(a[i - 1], edit[i])]
    <2>2. \A i \in 0..m : b[i] = a[i]
      <3>1. \A i \in 0..m : i \in 0..(m + 1)  BY <1>1
      <3>2. \A i \in 0..m : a[i] = IF i = 0 THEN f ELSE Perform(a[i - 1], edit[i])  BY <2>1
      <3> QED BY <3>1, <3>2
    <2>3. \A i \in 0..(m + 1) : i # 0 => i - 1 \in 0..m  BY <1>1
    <2>4. Begins(b, m + 1)
      <3>1. b = [i \in 0..(m + 1) |-> IF i = 0 THEN f ELSE Perform(b[i - 1], edit[i])]
        BY <2>2, <2>3
      <3> QED BY <3>1
    <2>5. m + 1 \in 0..Len(edit)  BY <1>1
    <2> QED BY <2>4, <2>5
  <1>4. Len(edit) \in Reached
    <2> HIDE DEF Reached
    <2>1. 0..Len(edit) \subseteq Reached  BY <1>1, <1>2, <1>3, IntervalInduction
    <2> QED BY <1>1, <2>1
  <1> DEFINE after == CHOOSE a : Begins(a, Len(edit))
  <1>5. Begins(after, Len(edit))  BY <1>4
  <1>6. \A n : Performed(f, edit, n) = after[n]  BY DEF Performed
  <1> HIDE DEF after, Reached
  <1>7. \A n \in 0..Len(edit) : after[n] = IF n = 0 THEN f ELSE Perform(after[n - 1], edit[n])
    BY <1>5
  <1> QED BY <1>1, <1>6, <1>7

\* What has been refused stays refused.
LEMMA RefusedForGood ==
  ASSUME NEW f, NEW S, NEW edit \in Seq(S), NEW n \in 0..Len(edit), Performed(f, edit, n) = Refused
  PROVE  Performed(f, edit, Len(edit)) = Refused
  <1> DEFINE T == {m \in 0..Len(edit) : m < n \/ Performed(f, edit, m) = Refused}
  <1>0. \A m \in 1..Len(edit) :
          Performed(f, edit, m) = Perform(Performed(f, edit, m - 1), edit[m])
    BY PerformedMeans
  <1>1. Len(edit) \in Nat  BY LenProperties
  <1>2. 0 \in T  BY <1>1
  <1>3. ASSUME NEW m \in 0..(Len(edit) - 1), m \in T PROVE m + 1 \in T
    <2>1. m + 1 \in 1..Len(edit) /\ m + 1 - 1 = m  BY <1>1
    <2>2. Performed(f, edit, m + 1) = Perform(Performed(f, edit, m), edit[m + 1])
      BY <1>0, <2>1
    <2>3. CASE m + 1 < n  BY <1>1, <2>1, <2>3
    <2>4. CASE m + 1 = n  BY <1>1, <2>1, <2>4
    <2>5. CASE m + 1 > n
      <3>1. Performed(f, edit, m) = Refused  BY <1>3, <2>5
      <3> QED BY <2>1, <2>2, <3>1 DEF Perform
    <2> QED BY <2>3, <2>4, <2>5
  <1> HIDE DEF T
  <1>4. 0..Len(edit) \subseteq T  BY <1>1, <1>2, <1>3, IntervalInduction
  <1> QED BY <1>1, <1>4 DEF T

\* A path before a user's path is a user's path.
LEMMA UserPrefix ==
  ASSUME NEW p \in PathSet, NEW r \in PathSet, IsPrefix(p, r), ~HasBackup(r)
  PROVE  ~HasBackup(p)
  <1> DEFINE S == Bases \X Nat
  <1>1. p \in Seq(S) /\ r \in Seq(S)  BY DEF PathSet
  <1> HIDE DEF S
  <1>2. Len(p) <= Len(r) /\ \A i \in 1..Len(p) : p[i] = r[i]  BY <1>1, PrefixMeans
  <1>3. DOMAIN p = 1..Len(p) /\ DOMAIN r = 1..Len(r) /\ Len(p) \in Nat /\ Len(r) \in Nat
    BY <1>1, LenProperties
  <1> QED BY <1>2, <1>3 DEF HasBackup

\* What a move between two users' paths does to a user's path gives one.
LEMMA UserMoved ==
  ASSUME NEW p \in PathSet, NEW q \in PathSet, NEW r \in PathSet, IsPrefix(p, r),
         ~HasBackup(q), ~HasBackup(r)
  PROVE  ~HasBackup(Moved(p, q, r))
  <1> DEFINE S == Bases \X Nat
             m == Moved(p, q, r)
  <1>1. p \in Seq(S) /\ q \in Seq(S) /\ r \in Seq(S)  BY DEF PathSet
  <1> HIDE DEF S
  <1>2. Len(p) <= Len(r)  BY <1>1, PrefixMeans
  <1>3. m \in Seq(S) /\ Spliced(m, p, q, r)  BY <1>1, <1>2, MovedMeans
  <1> HIDE DEF m
  <1>4. /\ DOMAIN q = 1..Len(q) /\ DOMAIN r = 1..Len(r) /\ DOMAIN m = 1..Len(m)
        /\ Len(p) \in Nat /\ Len(q) \in Nat /\ Len(r) \in Nat /\ Len(m) \in Nat
    BY <1>1, <1>3, LenProperties
  <1>5. ASSUME NEW i \in DOMAIN m PROVE ~(m[i][2] > 0)
    <2>1. /\ i \in 1..(Len(q) + Len(r) - Len(p))
          /\ m[i] = IF i <= Len(q) THEN q[i] ELSE r[i - Len(q) + Len(p)]
      BY <1>3, <1>4 DEF Spliced
    <2>2. CASE i <= Len(q)
      <3>1. i \in DOMAIN q  BY <1>4, <2>1, <2>2
      <3> QED BY <2>1, <2>2, <3>1 DEF HasBackup
    <2>3. CASE ~(i <= Len(q))
      <3>1. i - Len(q) + Len(p) \in DOMAIN r  BY <1>4, <2>1, <2>3
      <3> QED BY <2>1, <2>3, <3>1 DEF HasBackup
    <2> QED BY <2>2, <2>3
  <1> QED BY <1>5 DEF HasBackup, m

\* The tree f shows what the plain tree g holds.
Shows(f, g) == Rooted(g) /\ SameFiles(f, g) /\ (Clean => \A p \in DOMAIN g : ~HasBackup(p))

\* Agreed() by Shows(): a tree is not Refused.
LEMMA AgreedMeans ==
  ASSUME NEW f, NEW g
  PROVE  /\ Agreed(f, g) => IF g = Refused THEN ~Clean ELSE Shows(f, g)
         /\ Shows(f, g) => g # Refused /\ Agreed(f, g)
         /\ g = Refused /\ ~Clean => Agreed(f, g)
  <1>1. DOMAIN Refused = {<<>>}  BY DEF Refused
  <1>2. Rooted(g) => g # Refused  BY <1>1 DEF Rooted
  <1> QED BY <1>2, TreeMeans DEF Agreed, Shows

\* On a user's path both trees say the same.
LEMMA ShowsPath ==
  ASSUME NEW f, NEW g, Shows(f, g), NEW p \in PathSet, ~HasBackup(p)
  PROVE  /\ p \in DOMAIN f <=> p \in DOMAIN g
         /\ p \in DOMAIN f => f[p] = g[p]
         /\ Exists(f, p) <=> Exists(g, p)
         /\ IsDirectory(f, p) <=> IsDirectory(g, p)
         /\ p # <<>> => (IsDirectory(f, Parent(p)) <=> IsDirectory(g, Parent(p)))
  <1>1. \A q \in PathSet : ~HasBackup(q) =>
          /\ q \in DOMAIN f <=> q \in DOMAIN g
          /\ q \in DOMAIN f => f[q] = g[q]
    BY DEF Shows, SameFiles
  <1>2. p # <<>> => Parent(p) \in PathSet /\ ~HasBackup(Parent(p))
    BY PathParent, UserPrefix DEF IsStrictPrefix
  <1> QED BY <1>1, <1>2 DEF Exists, IsDirectory

\* rename(2) on users' paths does the same in both.
LEMMA ShowsMove ==
  ASSUME NEW f, NEW g, Rooted(f), Shows(f, g), NEW p \in PathSet, ~HasBackup(p),
         NEW q \in PathSet, ~HasBackup(q), q # <<>>
  PROVE  /\ CanMove(f, p, q) <=> CanMove(g, p, q)
         /\ CanMove(f, p, q) => Shows(Move(f, p, q), Move(g, p, q))
  <1>1. CanMove(f, p, q) <=> CanMove(g, p, q)
    <2>1. /\ p \in DOMAIN f <=> p \in DOMAIN g
          /\ p \in DOMAIN f => f[p] = g[p]
      BY ShowsPath
    <2>2. /\ Exists(f, q) <=> Exists(g, q)
          /\ IsDirectory(f, q) <=> IsDirectory(g, q)
          /\ IsDirectory(f, Parent(q)) <=> IsDirectory(g, Parent(q))
      BY ShowsPath
    <2> QED BY <2>1, <2>2 DEF CanMove
  <1>2. ASSUME CanMove(f, p, q) PROVE Shows(Move(f, p, q), Move(g, p, q))
    <2>1. PICK f1 : f1 = Move(f, p, q)  OBVIOUS
    <2>2. PICK g1 : g1 = Move(g, p, q)  OBVIOUS
    <2>3. CanMove(g, p, q) /\ Rooted(g)  BY <1>1, <1>2 DEF Shows
    <2>4. /\ \A r \in PathSet : IsPrefix(q, r) =>
               /\ r \in DOMAIN f1 <=> Moved(q, p, r) \in DOMAIN f
               /\ r \in DOMAIN f1 => f1[r] = f[Moved(q, p, r)]
          /\ \A r \in PathSet : ~IsPrefix(q, r) =>
               /\ r \in DOMAIN f1 <=> r \in DOMAIN f /\ ~IsPrefix(p, r)
               /\ r \in DOMAIN f1 => f1[r] = f[r]
      BY <1>2, <2>1, MoveMeans
    <2>5. /\ DOMAIN g1 \subseteq PathSet
          /\ \A r \in PathSet : IsPrefix(q, r) =>
               /\ r \in DOMAIN g1 <=> Moved(q, p, r) \in DOMAIN g
               /\ r \in DOMAIN g1 => g1[r] = g[Moved(q, p, r)]
          /\ \A r \in PathSet : ~IsPrefix(q, r) =>
               /\ r \in DOMAIN g1 <=> r \in DOMAIN g /\ ~IsPrefix(p, r)
               /\ r \in DOMAIN g1 => g1[r] = g[r]
      BY <2>2, <2>3, MoveMeans
    <2>6. Rooted(g1)  BY <2>2, <2>3, MoveRooted
    <2>7. \A r \in PathSet : ~HasBackup(r) =>
            /\ r \in DOMAIN f <=> r \in DOMAIN g
            /\ r \in DOMAIN f => f[r] = g[r]
      BY ShowsPath
    <2>8. ASSUME NEW r \in PathSet, ~HasBackup(r)
          PROVE  (r \in DOMAIN f1 <=> r \in DOMAIN g1) /\ (r \in DOMAIN f1 => f1[r] = g1[r])
      <3>1. CASE IsPrefix(q, r)
        <4>1. Moved(q, p, r) \in PathSet /\ ~HasBackup(Moved(q, p, r))
          BY <2>8, <3>1, PathMoved, UserMoved
        <4> QED BY <2>4, <2>5, <2>7, <3>1, <4>1
      <3>2. CASE ~IsPrefix(q, r)
        BY <2>4, <2>5, <2>7, <2>8, <3>2
      <3> QED BY <3>1, <3>2
    <2>9. ASSUME Clean, NEW r \in DOMAIN g1 PROVE ~HasBackup(r)
      <3>1. r \in PathSet  BY <2>5
      <3>2. CASE IsPrefix(q, r)
        <4>1. /\ Moved(q, p, r) \in PathSet /\ Moved(q, p, r) \in DOMAIN g
              /\ IsPrefix(p, Moved(q, p, r)) /\ Moved(p, q, Moved(q, p, r)) = r
          BY <2>5, <2>9, <3>1, <3>2, PathMoved
        <4>2. ~HasBackup(Moved(q, p, r))  BY <2>9, <4>1 DEF Shows
        <4> QED BY <4>1, <4>2, UserMoved
      <3>3. CASE ~IsPrefix(q, r)
        BY <2>5, <2>9, <3>1, <3>3 DEF Shows
      <3> QED BY <3>2, <3>3
    <2>10. SameFiles(f1, g1)  BY <2>8 DEF SameFiles
    <2> QED BY <2>1, <2>2, <2>6, <2>9, <2>10 DEF Shows
  <1> QED BY <1>1, <1>2

\* A file is made at the same place in both.
LEMMA ShowsNew ==
  ASSUME NEW f, NEW g, Shows(f, g), NEW p \in PathSet, ~HasBackup(p), p # <<>>,
         p \notin DOMAIN f, IsDirectory(f, Parent(p))
  PROVE  Shows(WithNew(f, p), WithNew(g, p))
  <1>1. p \notin DOMAIN g /\ IsDirectory(g, Parent(p))  BY ShowsPath
  <1>2. Rooted(WithNew(g, p))  BY <1>1, CreateReturns DEF Shows
  <1>3. PICK f1 : f1 = WithNew(f, p)  OBVIOUS
  <1>4. PICK g1 : g1 = WithNew(g, p)  OBVIOUS
  <1>5. /\ DOMAIN f1 = DOMAIN f \union {p} /\ f1[p] = "new"
        /\ \A r \in DOMAIN f : r # p => f1[r] = f[r]
    BY <1>3 DEF WithNew
  <1>6. /\ DOMAIN g1 = DOMAIN g \union {p} /\ g1[p] = "new"
        /\ \A r \in DOMAIN g : r # p => g1[r] = g[r]
    BY <1>4 DEF WithNew
  <1>7. SameFiles(f1, g1)
    <2>1. \A r \in PathSet : ~HasBackup(r) =>
            /\ r \in DOMAIN f <=> r \in DOMAIN g
            /\ r \in DOMAIN f => f[r] = g[r]
      BY ShowsPath
    <2> QED BY <1>5, <1>6, <2>1 DEF SameFiles
  <1>8. Clean => \A r \in DOMAIN g1 : ~HasBackup(r)
    <2>1. Clean => \A r \in DOMAIN g : ~HasBackup(r)  BY DEF Shows
    <2> QED BY <1>6, <2>1
  <1> QED BY <1>2, <1>3, <1>4, <1>7, <1>8 DEF Shows

\* What is moved to a backup is gone for the user.
LEMMA ShowsPreserved ==
  ASSUME TypeOK, NEW g, Shows(fs, g), NEW target \in PathSet, target # <<>>, ~HasBackup(target),
         NEW kept \in Preserve(target)
  PROVE  /\ kept.state.ok => Shows(kept.state.fs, RemoveAll(g, target))
         /\ kept.state.faults = 0 => kept.state.ok
  <1> DEFINE g1 == RemoveAll(g, target)
  <1>1. /\ CallState(State) /\ State.fs = fs /\ State.ok /\ Rooted(fs)
    BY TreeMeans DEF TypeOK, State, CallState
  <1>2. /\ DOMAIN g1 = {r \in DOMAIN g : ~IsPrefix(target, r)}
        /\ \A r \in DOMAIN g1 : g1[r] = g[r]
    BY DEF RemoveAll
  <1>3. Rooted(g) /\ Rooted(g1)  BY RemoveRooted DEF Shows
  <1> HIDE DEF g1
  <1>4. \A r \in PathSet : ~HasBackup(r) =>
          /\ r \in DOMAIN fs <=> r \in DOMAIN g
          /\ r \in DOMAIN fs => fs[r] = g[r]
    BY ShowsPath
  <1>5. Clean => \A r \in DOMAIN g1 : ~HasBackup(r)  BY <1>2 DEF Shows
  <1>6. CASE ~Exists(fs, target)
    <2>1. kept = [state |-> State, backup |-> <<>>]  BY <1>6 DEF Preserve
    <2>2. kept.state = State  BY <2>1
    <2>3. ~Exists(g, target)  BY <1>6, ShowsPath
    <2>4. \A r \in DOMAIN g : ~IsPrefix(target, r)
      BY <1>3, <2>3 DEF Rooted, IsStrictPrefix, IsDirectory, Exists
    <2>5. SameFiles(fs, g1)  BY <1>2, <1>4, <2>4 DEF SameFiles
    <2> QED BY <1>1, <1>3, <1>5, <2>2, <2>5 DEF Shows, g1
  <1>7. CASE Exists(fs, target)
    <2> DEFINE b == BackupPath(fs, target)
    <2>1. target \in DOMAIN fs  BY <1>7 DEF Exists
    <2>2. b \in PathSet /\ b # <<>> /\ CanMove(fs, target, b) /\ HasBackup(b)
      BY <1>1, <2>1, BackupFree
    <2>3. PICK s \in Rename(State, target, b, FALSE) : kept = [state |-> s, backup |-> b]
      BY <1>7 DEF Preserve
    <2> HIDE DEF b
    <2>4. kept.state = s  BY <2>3
    <2>5. CASE s \in Failures(State, FALSE)
      <3>1. /\ State.faults \in Nat
            /\ s = [State EXCEPT !.faults = @ + 1,
                                 !.cleanup = IF FALSE THEN @ + 1 ELSE @, !.ok = FALSE]
        BY <1>1, <2>5 DEF Failures, CallState
      <3>2. ~s.ok /\ s.faults = faults + 1 /\ faults \in Nat  BY <3>1 DEF State
      <3> QED BY <2>4, <3>2
    <2>6. CASE s = [State EXCEPT !.fs = Move(@, target, b), !.ok = TRUE]
      <3>1. s.ok /\ s.fs = Move(fs, target, b)  BY <2>6 DEF State
      <3>2. PICK f1 : f1 = Move(fs, target, b)  OBVIOUS
      <3>3. \A r \in PathSet : ~IsPrefix(b, r) =>
              /\ r \in DOMAIN f1 <=> r \in DOMAIN fs /\ ~IsPrefix(target, r)
              /\ r \in DOMAIN f1 => f1[r] = fs[r]
        BY <1>1, <2>2, <3>2, MoveMeans
      <3>4. \A r \in PathSet : ~HasBackup(r) => ~IsPrefix(b, r)
        BY <2>2, UserPrefix
      <3>5. SameFiles(f1, g1)  BY <1>2, <1>4, <3>3, <3>4 DEF SameFiles
      <3> QED BY <1>3, <1>5, <2>4, <3>1, <3>2, <3>5 DEF Shows, g1
    <2>7. CanMove(State.fs, target, b)  BY <1>1, <2>2
    <2> QED BY <2>3, <2>5, <2>6, <2>7 DEF Rename
  <1> QED BY <1>6, <1>7

\* A call that failed for no visible reason is counted.
LEMMA FailureCounts ==
  ASSUME NEW s, CallState(s), NEW undoing \in BOOLEAN, NEW t \in Failures(s, undoing)
  PROVE  ~t.ok /\ t.faults = s.faults + 1 /\ s.faults \in Nat /\ t.faults # 0
  <1>1. /\ s = [fs |-> s.fs, faults |-> s.faults, cleanup |-> s.cleanup, ok |-> s.ok]
        /\ s.faults \in Nat
    BY DEF CallState
  <1>2. t = [s EXCEPT !.faults = @ + 1, !.cleanup = IF undoing THEN @ + 1 ELSE @, !.ok = FALSE]
    BY DEF Failures
  <1>3. t = [fs |-> s.fs, faults |-> s.faults + 1,
             cleanup |-> IF undoing THEN s.cleanup + 1 ELSE s.cleanup, ok |-> FALSE]
    BY <1>1, <1>2
  <1> QED BY <1>1, <1>3

\* Without a fault rename(2) does what it can.
LEMMA RenameExactly ==
  ASSUME NEW s, CallState(s), NEW p, NEW q, NEW undoing \in BOOLEAN,
         NEW t \in Rename(s, p, q, undoing)
  PROVE  /\ t.ok => CanMove(s.fs, p, q) /\ t.fs = Move(s.fs, p, q)
         /\ t.faults = 0 => s.faults = 0 /\ (t.ok <=> CanMove(s.fs, p, q))
  <1>1. s = [fs |-> s.fs, faults |-> s.faults, cleanup |-> s.cleanup, ok |-> s.ok]
    BY DEF CallState
  <1>2. CASE t \in Failures(s, undoing)
    BY <1>2, FailureCounts
  <1>3. CASE CanMove(s.fs, p, q) /\ t = [s EXCEPT !.fs = Move(@, p, q), !.ok = TRUE]
    <2>1. t = [fs |-> Move(s.fs, p, q), faults |-> s.faults, cleanup |-> s.cleanup, ok |-> TRUE]
      BY <1>1, <1>3
    <2> QED BY <1>3, <2>1
  <1>4. CASE ~CanMove(s.fs, p, q) /\ t = [s EXCEPT !.ok = FALSE]
    <2>1. t = [fs |-> s.fs, faults |-> s.faults, cleanup |-> s.cleanup, ok |-> FALSE]
      BY <1>1, <1>4
    <2> QED BY <1>4, <2>1
  <1> QED BY <1>2, <1>3, <1>4 DEF Rename

\* Without a fault a file is created at a free place.
LEMMA CreateExactly ==
  ASSUME NEW s, CallState(s), NEW p, p # <<>>, p \notin DOMAIN s.fs, NEW t \in CreateFile(s, p)
  PROVE  /\ t.ok => t.fs = WithNew(s.fs, p)
         /\ t.faults = 0 => t.ok
  <1>1. s = [fs |-> s.fs, faults |-> s.faults, cleanup |-> s.cleanup, ok |-> s.ok]
    BY DEF CallState
  <1>2. CASE t \in Failures(s, FALSE)
    BY <1>2, FailureCounts
  <1>3. CASE t = [s EXCEPT !.fs = WithNew(@, p), !.ok = TRUE]
    <2>1. t = [fs |-> WithNew(s.fs, p), faults |-> s.faults, cleanup |-> s.cleanup, ok |-> TRUE]
      BY <1>1, <1>3
    <2> QED BY <2>1
  <1>4. ~IsDirectory(s.fs, p)  BY DEF IsDirectory
  <1> QED BY <1>2, <1>3, <1>4 DEF CreateFile

\* A fault is not forgotten.
LEMMA RestoreCounts ==
  ASSUME NEW s, CallState(s), NEW backup, NEW target, NEW t \in Restore(s, backup, target),
         t.faults = 0
  PROVE  s.faults = 0
  <1>1. CASE backup = <<>>  BY <1>1 DEF Restore
  <1>2. CASE backup # <<>>
    <2>1. PICK yes \in BOOLEAN : yes = TRUE  OBVIOUS
    <2>2. t \in Rename(s, backup, target, yes)  BY <1>2, <2>1 DEF Restore
    <2> QED BY <2>2, RenameExactly
  <1> QED BY <1>1, <1>2

----------------------------------------------------------------------------
(* What apply() does, against what the edit asks for *)

\* apply() is past an operation, and the user sees what it asks for; or it has failed, which
\* without faults it does only when the operation cannot be performed.
Answered(h) ==
  \/ phase' = "applying" /\ next' = next + 1 /\ Agreed(fs', h)
  \/ /\ phase' = "failing"
     /\ faults' = 0 => h = Refused \/ (Op.kind = "delete" /\ ~Op.recursive /\ HoldsBackup(Op.path))

\* The operation apply() is at has users' paths.
LEMMA UserOp ==
  ASSUME IInv, RInv, phase = "applying", next <= Len(operations)
  PROVE  /\ Op.path \in PathSet /\ Op.path # <<>> /\ ~HasBackup(Op.path)
         /\ Op.newPath \in PathSet /\ ~HasBackup(Op.newPath)
         /\ Op.kind = "rename" => Op.newPath # <<>>
         /\ TypeOK /\ CallState(State) /\ State.fs = fs /\ State.faults = faults /\ Rooted(fs)
  <1>1. Valid(Op) /\ Op.path \in PathSet /\ Op.newPath \in PathSet /\ next \in 1..Len(operations)
    BY OpMeans
  <1>2. operations \in Seq(OperationSet)  BY DEF IInv
  <1>3. next \in DOMAIN operations  BY <1>1, <1>2, LenProperties
  <1>4. ~HasBackup(Op.path) /\ ~HasBackup(Op.newPath)  BY <1>3 DEF RInv, Op
  <1>5. CallState(State) /\ State.fs = fs /\ State.faults = faults /\ Rooted(fs)
    BY TreeMeans DEF IInv, TypeOK, State, CallState
  <1> QED BY <1>1, <1>4, <1>5 DEF Valid, IInv

\* Creating a file.
LEMMA CreateAnswered ==
  ASSUME IInv, RInv, ApplyCreate, NEW g, Shows(fs, g)
  PROVE  Answered(Perform(g, Op))
  <1> DEFINE p == Op.path
             h == Perform(g, Op)
  <1>1. phase = "applying" /\ next <= Len(operations) /\ Op.kind = "create"
    BY DEF ApplyCreate, Applying
  <1>2. /\ p \in PathSet /\ p # <<>> /\ ~HasBackup(p)
        /\ TypeOK /\ CallState(State) /\ State.fs = fs /\ State.faults = faults /\ Rooted(fs)
    BY <1>1, UserOp
  <1>3. g # Refused  BY AgreedMeans
  <1>4. h = CASE Exists(g, p) /\ Op.ignoreIfExists -> g
              [] ~Exists(g, p) /\ ~IsDirectory(g, Parent(p)) -> Refused
              [] Exists(g, p) /\ ~Op.ignoreIfExists /\ ~Op.overwrite -> Refused
              [] OTHER -> WithNew(RemoveAll(g, p), p)
    BY <1>1, <1>3 DEF Perform
  <1>5. /\ Exists(fs, p) <=> Exists(g, p)
        /\ IsDirectory(fs, Parent(p)) <=> IsDirectory(g, Parent(p))
    BY <1>2, ShowsPath
  <1> HIDE DEF p, h
  <1>6. CASE Exists(fs, p) /\ Op.ignoreIfExists /\ Skip
    <2>1. h = g  BY <1>4, <1>5, <1>6
    <2>2. Agreed(fs, g)  BY AgreedMeans
    <2> QED BY <1>1, <1>6, <2>1, <2>2 DEF Skip, Answered, h
  <1>7. CASE Exists(fs, p) /\ ~Op.ignoreIfExists /\ ~Op.overwrite /\ Stop(State)
    <2>1. h = Refused  BY <1>4, <1>5, <1>7
    <2> QED BY <1>7, <2>1 DEF Stop, Answered, h
  <1>8. CASE ~Exists(fs, p) /\ ~IsDirectory(fs, Parent(p)) /\ Stop(State)
    <2>1. h = Refused  BY <1>4, <1>5, <1>8
    <2> QED BY <1>8, <2>1 DEF Stop, Answered, h
  <1>9. ASSUME ~(Exists(fs, p) /\ Op.ignoreIfExists),
               ~(Exists(fs, p) /\ ~Op.ignoreIfExists /\ ~Op.overwrite),
               ~(~Exists(fs, p) /\ ~IsDirectory(fs, Parent(p))),
               NEW kept \in Preserve(p),
               IF ~kept.state.ok THEN Stop(kept.state)
               ELSE \E made \in CreateFile(kept.state, p) :
                      IF made.ok THEN Done(made, kept.backup)
                      ELSE \E back \in Restore(made, kept.backup, p) : Stop(back)
        PROVE  Answered(h)
    <2>1. h = WithNew(RemoveAll(g, p), p)  BY <1>4, <1>5, <1>9
    <2>2. /\ CallState(kept.state)
          /\ kept.state.ok => p \notin DOMAIN kept.state.fs /\ IsDirectory(kept.state.fs, Parent(p))
      <3>1. Exists(fs, p) \/ IsDirectory(fs, Parent(p))  BY <1>9
      <3> QED BY <1>2, <1>9, <3>1, PreserveMeans
    <2>3. /\ kept.state.ok => Shows(kept.state.fs, RemoveAll(g, p))
          /\ kept.state.faults = 0 => kept.state.ok
      BY <1>2, <1>9, ShowsPreserved
    <2>4. CASE ~kept.state.ok
      <3>1. Stop(kept.state)  BY <1>9, <2>4
      <3> QED BY <2>3, <2>4, <3>1 DEF Stop, Become, Answered
    <2>5. CASE kept.state.ok
      <3>1. PICK made \in CreateFile(kept.state, p) :
              IF made.ok THEN Done(made, kept.backup)
              ELSE \E back \in Restore(made, kept.backup, p) : Stop(back)
        BY <1>9, <2>5
      <3>2. /\ made.ok => made.fs = WithNew(kept.state.fs, p)
            /\ made.faults = 0 => made.ok
        BY <1>2, <2>2, <2>5, <3>1, CreateExactly
      <3>3. CASE made.ok
        <4>1. Shows(made.fs, h)
          BY <1>2, <2>1, <2>2, <2>3, <2>5, <3>2, <3>3, ShowsNew
        <4>2. Agreed(made.fs, h)  BY <4>1, AgreedMeans
        <4>3. Done(made, kept.backup)  BY <3>1, <3>3
        <4> QED BY <1>1, <4>2, <4>3 DEF Done, Become, Answered
      <3>4. CASE ~made.ok
        <4>1. PICK back \in Restore(made, kept.backup, p) : Stop(back)  BY <3>1, <3>4
        <4>2. CallState(made)  BY <1>2, <2>2, <2>5, <3>1, CreateMeans
        <4>3. back.faults # 0  BY <3>2, <3>4, <4>1, <4>2, RestoreCounts
        <4> QED BY <4>1, <4>3 DEF Stop, Become, Answered
      <3> QED BY <3>3, <3>4
    <2> QED BY <2>4, <2>5
  <1> QED BY <1>6, <1>7, <1>8, <1>9 DEF ApplyCreate, p, h

\* Renaming.
LEMMA RenameAnswered ==
  ASSUME IInv, RInv, ApplyRename, NEW g, Shows(fs, g)
  PROVE  Answered(Perform(g, Op))
  <1> DEFINE p == Op.path
             q == Op.newPath
             h == Perform(g, Op)
             cleared == RemoveAll(g, q)
  <1>1. phase = "applying" /\ next <= Len(operations) /\ Op.kind = "rename"
    BY DEF ApplyRename, Applying
  <1>2. /\ p \in PathSet /\ p # <<>> /\ ~HasBackup(p)
        /\ q \in PathSet /\ q # <<>> /\ ~HasBackup(q)
        /\ TypeOK /\ CallState(State) /\ State.fs = fs /\ State.faults = faults /\ Rooted(fs)
    BY <1>1, UserOp
  <1>3. g # Refused  BY AgreedMeans
  <1>4. h = CASE ~Exists(g, p) -> Refused
              [] Exists(g, p) /\ Exists(g, q) /\ Op.ignoreIfExists -> g
              [] Exists(g, p) /\ Exists(g, q) /\ ~Op.ignoreIfExists /\ ~Op.overwrite -> Refused
              [] OTHER -> IF CanMove(cleared, p, q) THEN Move(cleared, p, q) ELSE Refused
    BY <1>1, <1>3 DEF Perform
  <1>5. /\ Exists(fs, p) <=> Exists(g, p)
        /\ Exists(fs, q) <=> Exists(g, q)
        /\ IsDirectory(fs, Parent(q)) <=> IsDirectory(g, Parent(q))
    BY <1>2, ShowsPath
  <1> HIDE DEF p, q, h, cleared
  <1>6. CASE ~Exists(fs, p) /\ Stop(State)
    <2>1. h = Refused  BY <1>4, <1>5, <1>6
    <2> QED BY <1>6, <2>1 DEF Stop, Answered, h
  <1>7. CASE Exists(fs, p) /\ Exists(fs, q) /\ Op.ignoreIfExists /\ Skip
    <2>1. h = g  BY <1>4, <1>5, <1>7
    <2>2. Agreed(fs, g)  BY AgreedMeans
    <2> QED BY <1>1, <1>7, <2>1, <2>2 DEF Skip, Answered, h
  <1>8. CASE Exists(fs, p) /\ Exists(fs, q) /\ ~Op.ignoreIfExists /\ ~Op.overwrite /\ Stop(State)
    <2>1. h = Refused  BY <1>4, <1>5, <1>8
    <2> QED BY <1>8, <2>1 DEF Stop, Answered, h
  <1>9. CASE Exists(fs, p) /\ ~Exists(fs, q) /\ ~IsDirectory(fs, Parent(q)) /\ Stop(State)
    <2>1. ~IsDirectory(cleared, Parent(q))
      <3>1. /\ DOMAIN cleared \subseteq DOMAIN g
            /\ \A r \in DOMAIN cleared : cleared[r] = g[r]
        BY DEF cleared, RemoveAll
      <3> QED BY <1>5, <1>9, <3>1 DEF IsDirectory
    <2>2. h = Refused  BY <1>4, <1>5, <1>9, <2>1 DEF CanMove
    <2> QED BY <1>9, <2>2 DEF Stop, Answered, h
  <1>10. ASSUME Exists(fs, p),
                ~(Exists(fs, q) /\ Op.ignoreIfExists),
                ~(Exists(fs, q) /\ ~Op.ignoreIfExists /\ ~Op.overwrite),
                ~(~Exists(fs, q) /\ ~IsDirectory(fs, Parent(q))),
                NEW kept \in Preserve(q),
                IF ~kept.state.ok THEN Stop(kept.state)
                ELSE \E moved \in Rename(kept.state, p, q, FALSE) :
                       IF moved.ok THEN Done(moved, kept.backup)
                       ELSE \E back \in Restore(moved, kept.backup, q) : Stop(back)
         PROVE  Answered(h)
    <2>1. h = IF CanMove(cleared, p, q) THEN Move(cleared, p, q) ELSE Refused
      BY <1>4, <1>5, <1>10
    <2>2. CallState(kept.state)
      <3>1. Exists(fs, q) \/ IsDirectory(fs, Parent(q))  BY <1>10
      <3> QED BY <1>2, <1>10, <3>1, PreserveMeans
    <2>3. /\ kept.state.ok => Shows(kept.state.fs, cleared)
          /\ kept.state.faults = 0 => kept.state.ok
      BY <1>2, <1>10, ShowsPreserved DEF cleared
    <2>4. CASE ~kept.state.ok
      <3>1. Stop(kept.state)  BY <1>10, <2>4
      <3> QED BY <2>3, <2>4, <3>1 DEF Stop, Become, Answered
    <2>5. CASE kept.state.ok
      <3>1. PICK moved \in Rename(kept.state, p, q, FALSE) :
              IF moved.ok THEN Done(moved, kept.backup)
              ELSE \E back \in Restore(moved, kept.backup, q) : Stop(back)
        BY <1>10, <2>5
      <3>2. /\ CallState(moved)
            /\ moved.ok => CanMove(kept.state.fs, p, q) /\ moved.fs = Move(kept.state.fs, p, q)
            /\ moved.faults = 0 => (moved.ok <=> CanMove(kept.state.fs, p, q))
        <4>1. PICK no \in BOOLEAN : no = FALSE  OBVIOUS
        <4>2. moved \in Rename(kept.state, p, q, no)  BY <3>1, <4>1
        <4>3. CallState(moved)  BY <1>2, <2>2, <4>2, RenameMeans
        <4> QED BY <2>2, <4>2, <4>3, RenameExactly
      <3>3. /\ CanMove(kept.state.fs, p, q) <=> CanMove(cleared, p, q)
            /\ CanMove(kept.state.fs, p, q) => Shows(Move(kept.state.fs, p, q), Move(cleared, p, q))
        <4>1. Rooted(kept.state.fs)  BY <2>2 DEF CallState
        <4> QED BY <1>2, <2>3, <2>5, <4>1, ShowsMove
      <3>4. CASE moved.ok
        <4>1. Shows(moved.fs, h)  BY <2>1, <3>2, <3>3, <3>4
        <4>2. Agreed(moved.fs, h)  BY <4>1, AgreedMeans
        <4>3. Done(moved, kept.backup)  BY <3>1, <3>4
        <4> QED BY <1>1, <4>2, <4>3 DEF Done, Become, Answered
      <3>5. CASE ~moved.ok
        <4>1. PICK back \in Restore(moved, kept.backup, q) : Stop(back)  BY <3>1, <3>5
        <4>2. back.faults = 0 => h = Refused
          BY <2>1, <3>2, <3>3, <3>5, <4>1, RestoreCounts
        <4> QED BY <4>1, <4>2 DEF Stop, Become, Answered
      <3> QED BY <3>4, <3>5
    <2> QED BY <2>4, <2>5
  <1> QED BY <1>6, <1>7, <1>8, <1>9, <1>10 DEF ApplyRename, p, q, h

\* Deleting: a directory in which the user sees nothing may hold a backup.
LEMMA DeleteAnswered ==
  ASSUME IInv, RInv, ApplyDelete, NEW g, Shows(fs, g)
  PROVE  Answered(Perform(g, Op))
  <1> DEFINE p == Op.path
             h == Perform(g, Op)
  <1>1. phase = "applying" /\ next <= Len(operations) /\ Op.kind = "delete"
    BY DEF ApplyDelete, Applying
  <1>2. /\ p \in PathSet /\ p # <<>> /\ ~HasBackup(p)
        /\ TypeOK /\ CallState(State) /\ State.fs = fs /\ State.faults = faults /\ Rooted(fs)
    BY <1>1, UserOp
  <1>3. g # Refused  BY AgreedMeans
  <1>4. h = CASE ~Exists(g, p) /\ Op.ignoreIfNotExists -> g
              [] ~Exists(g, p) /\ ~Op.ignoreIfNotExists -> Refused
              [] Exists(g, p) /\ ~Op.recursive /\ ~IsEmpty(g, p) -> Refused
              [] OTHER -> RemoveAll(g, p)
    BY <1>1, <1>3 DEF Perform
  <1>5. /\ Exists(fs, p) <=> Exists(g, p)
        /\ \A r \in PathSet : ~HasBackup(r) => (r \in DOMAIN fs <=> r \in DOMAIN g)
    BY <1>2, ShowsPath
  <1>6. DOMAIN fs \subseteq PathSet /\ DOMAIN g \subseteq PathSet  BY <1>2 DEF Shows, Rooted
  <1> HIDE DEF p, h
  <1>7. CASE ~Exists(fs, p) /\ Op.ignoreIfNotExists /\ Skip
    <2>1. h = g  BY <1>4, <1>5, <1>7
    <2>2. Agreed(fs, g)  BY AgreedMeans
    <2> QED BY <1>1, <1>7, <2>1, <2>2 DEF Skip, Answered, h
  <1>8. CASE ~Exists(fs, p) /\ ~Op.ignoreIfNotExists /\ Stop(State)
    <2>1. h = Refused  BY <1>4, <1>5, <1>8
    <2> QED BY <1>8, <2>1 DEF Stop, Answered, h
  <1>9. CASE Exists(fs, p) /\ ~Op.recursive /\ ~IsEmpty(fs, p) /\ Stop(State)
    <2>1. PICK r \in DOMAIN fs : IsStrictPrefix(p, r)  BY <1>9 DEF IsEmpty, Below
    <2>2. CASE HasBackup(r)
      <3>1. HoldsBackup(p)  BY <2>1, <2>2 DEF HoldsBackup, IsStrictPrefix
      <3> QED BY <1>1, <1>9, <3>1 DEF Stop, Answered, p
    <2>3. CASE ~HasBackup(r)
      <3>1. r \in DOMAIN g  BY <1>5, <1>6, <2>3
      <3>2. ~IsEmpty(g, p)  BY <2>1, <3>1 DEF IsEmpty, Below
      <3>3. h = Refused  BY <1>4, <1>5, <1>9, <3>2
      <3> QED BY <1>9, <3>3 DEF Stop, Answered, h
    <2> QED BY <2>2, <2>3
  <1>10. ASSUME Exists(fs, p), ~(~Op.recursive /\ ~IsEmpty(fs, p)), NEW kept \in Preserve(p),
                IF kept.state.ok THEN Done(kept.state, kept.backup) ELSE Stop(kept.state)
         PROVE  Answered(h)
    <2>1. /\ kept.state.ok => Shows(kept.state.fs, RemoveAll(g, p))
          /\ kept.state.faults = 0 => kept.state.ok
      BY <1>2, <1>10, ShowsPreserved
    <2>2. CASE ~kept.state.ok
      <3>1. Stop(kept.state)  BY <1>10, <2>2
      <3> QED BY <2>1, <2>2, <3>1 DEF Stop, Become, Answered
    <2>3. CASE kept.state.ok
      <3>1. Done(kept.state, kept.backup)  BY <1>10, <2>3
      <3>2. CASE ~Op.recursive /\ ~IsEmpty(g, p)
        <4>1. h = Refused  BY <1>4, <1>5, <1>10, <3>2
        <4>2. ~Clean
          <5> SUFFICES ASSUME Clean PROVE FALSE
            OBVIOUS
          <5>1. PICK r \in DOMAIN g : IsStrictPrefix(p, r)  BY <3>2 DEF IsEmpty, Below
          <5>2. ~HasBackup(r)  BY DEF Shows
          <5>3. r \in DOMAIN fs  BY <1>5, <1>6, <5>1, <5>2
          <5>4. ~IsEmpty(fs, p)  BY <5>1, <5>3 DEF IsEmpty, Below
          <5> QED BY <1>10, <3>2, <5>4
        <4>3. Agreed(kept.state.fs, h)  BY <4>1, <4>2, AgreedMeans
        <4> QED BY <1>1, <3>1, <4>3 DEF Done, Become, Answered
      <3>3. CASE ~(~Op.recursive /\ ~IsEmpty(g, p))
        <4>1. h = RemoveAll(g, p)  BY <1>4, <1>5, <1>10, <3>3
        <4>2. Agreed(kept.state.fs, h)  BY <2>1, <2>3, <4>1, AgreedMeans
        <4> QED BY <1>1, <3>1, <4>2 DEF Done, Become, Answered
      <3> QED BY <3>2, <3>3
    <2> QED BY <2>2, <2>3
  <1> QED BY <1>7, <1>8, <1>9, <1>10 DEF ApplyDelete, p, h

\* Each operation does what it is asked to, on what the operations before it were to leave.
LEMMA OperationAnswered ==
  ASSUME IInv, RInv, ApplyCreate \/ ApplyRename \/ ApplyDelete
  PROVE  /\ phase = "applying" /\ next \in 1..Len(operations)
         /\ UNCHANGED <<before, operations>>
         /\ Answered(Performed(before, operations, next))
  <1> DEFINE g == Performed(before, operations, next - 1)
  <1>1. /\ phase = "applying" /\ next <= Len(operations)
        /\ Op.kind \in {"create", "rename", "delete"}
    BY DEF ApplyCreate, ApplyRename, ApplyDelete, Applying
  <1>2. next \in 1..Len(operations)  BY <1>1, OpMeans
  <1>3. UNCHANGED <<before, operations>>
    BY DEF ApplyCreate, ApplyRename, ApplyDelete, Skip, Stop, Done
  <1>4. Performed(before, operations, next) = Perform(g, Op)
    <2>1. operations \in Seq(OperationSet)  BY DEF IInv
    <2> QED BY <1>2, <2>1, PerformedMeans DEF Op
  <1>5. Agreed(fs, g)  BY <1>1 DEF RInv
  <1> HIDE DEF g
  <1>6. CASE Shows(fs, g)
    <2>1. Answered(Perform(g, Op))  BY <1>6, CreateAnswered, RenameAnswered, DeleteAnswered
    <2> QED BY <1>1, <1>2, <1>3, <1>4, <2>1 DEF Answered
  <1>7. CASE g = Refused /\ ~Clean
    <2>1. Perform(g, Op) = Refused  BY <1>7 DEF Perform
    <2>2. Agreed(fs', Refused)  BY <1>7, AgreedMeans
    <2>3. \/ phase' = "applying" /\ next' = next + 1
          \/ phase' = "failing"
      BY <1>1 DEF ApplyCreate, ApplyRename, ApplyDelete, Skip, Stop, Done
    <2> QED BY <1>1, <1>2, <1>3, <1>4, <2>1, <2>2, <2>3 DEF Answered
  <1>8. Shows(fs, g) \/ (g = Refused /\ ~Clean)  BY <1>5, AgreedMeans
  <1> QED BY <1>6, <1>7, <1>8

\* What apply() has done stays what was asked for.
LEMMA NextRInv == IInv /\ RInv /\ [Next]_vars => RInv'
  <1> SUFFICES ASSUME IInv, RInv, [Next]_vars PROVE RInv'
    OBVIOUS
  <1>1. before' = before /\ operations' = operations
    BY DEF Next, vars, Prepare, ApplyCreate, ApplyRename, ApplyDelete, Applied, RollBack, UndoLast,
           RolledBack, Commit, Committed, Skip, Stop, Done
  <1>2. \A f, g : Agreed(f, g)' <=> Agreed(f, g)
    BY <1>1 DEF Agreed, Clean, SameFiles, IsTree, IsDirectory
  <1>3. Agreed(fs', Performed(before, operations, next' - 1)) =>
          Agreed(fs, Performed(before, operations, next - 1))'
    BY <1>1, <1>2
  <1>4. ASSUME phase' = "applying", Agreed(fs', Performed(before, operations, next' - 1))
        PROVE  RInv'
    BY <1>1, <1>3, <1>4 DEF RInv
  <1>5. ASSUME phase' # "applying", phase' # "received" PROVE RInv'
    BY <1>1, <1>5 DEF RInv
  <1>6. CASE Prepare
    <2>1. phase = "received" /\ fs' = fs /\ next' = next /\ phase' \in {"applying", "rejected"}
      BY <1>6 DEF Prepare
    <2>2. fs = before /\ next = 1 /\ Rooted(fs)
      BY <2>1, TreeMeans DEF IInv, RInv, TypeOK
    <2>3. Performed(before, operations, 0) = before
      <3>1. operations \in Seq(OperationSet)  BY DEF IInv
      <3> QED BY <3>1, PerformedMeans
    <2>4. Shows(fs, fs)  BY <2>2 DEF Shows, SameFiles, Clean
    <2>5. Agreed(fs', Performed(before, operations, next' - 1))
      BY <2>1, <2>2, <2>3, <2>4, AgreedMeans
    <2> QED BY <1>4, <1>5, <2>1, <2>5
  <1>7. CASE ApplyCreate \/ ApplyRename \/ ApplyDelete
    <2>1. next \in 1..Len(operations) /\ Answered(Performed(before, operations, next))
      BY <1>7, OperationAnswered
    <2>2. CASE phase' = "applying" /\ next' = next + 1 /\ Agreed(fs', Performed(before, operations, next))
      <3>1. next' - 1 = next  BY <2>1, <2>2
      <3>2. Agreed(fs', Performed(before, operations, next' - 1))  BY <2>2, <3>1
      <3> QED BY <1>4, <2>2, <3>2
    <2> QED BY <1>5, <2>1, <2>2 DEF Answered
  <1>8. CASE Applied \/ RollBack \/ UndoLast \/ RolledBack \/ Commit \/ Committed
    BY <1>5, <1>8 DEF Applied, RollBack, UndoLast, RolledBack, Commit, Committed
  <1>9. CASE UNCHANGED vars
    <2>1. fs' = fs /\ next' = next /\ phase' = phase  BY <1>9 DEF vars
    <2>2. CASE phase = "applying"
      <3>1. Agreed(fs', Performed(before, operations, next' - 1))  BY <2>1, <2>2 DEF RInv
      <3> QED BY <1>4, <2>1, <2>2, <3>1
    <2> QED BY <1>1, <1>5, <2>1, <2>2 DEF RInv
  <1> QED BY <1>6, <1>7, <1>8, <1>9 DEF Next

\* The plans of clangd name users' paths.
LEMMA InitRInv == Init => RInv
  BY NamesAssumption DEF Init, RInv

\* Whatever the tree, the edit and the faults: as long as apply() has not failed, what the user
\* sees, the backups left out, is the tree that the operations so far ask for.
THEOREM SpecRInv == Spec => []RInv
  BY InitRInv, NextRInv, SpecIInv, PTL DEF Spec

\* WorkspaceFileTransaction::apply() refuses, when no system call fails without a visible
\* reason, only an edit that cannot be performed, or whose deletion of an empty directory
\* finds a backup there.
THEOREM SpecRefusedRightly == Spec => RefusedRightly
  <1>1. ASSUME IInv, RInv, [Next]_vars, phase = "applying", phase' = "failing", faults' = 0
        PROVE  Requested = Refused \/ (Op.kind = "delete" /\ ~Op.recursive /\ HoldsBackup(Op.path))
    <2>1. ApplyCreate \/ ApplyRename \/ ApplyDelete
      BY <1>1 DEF Next, vars, Prepare, Applied, RollBack, UndoLast, RolledBack, Commit, Committed
    <2>2. next \in 1..Len(operations) /\ Answered(Performed(before, operations, next))
      BY <1>1, <2>1, OperationAnswered
    <2>3. \/ Performed(before, operations, next) = Refused
          \/ Op.kind = "delete" /\ ~Op.recursive /\ HoldsBackup(Op.path)
      BY <1>1, <2>2 DEF Answered
    <2>4. Performed(before, operations, next) = Refused => Requested = Refused
      <3>1. operations \in Seq(OperationSet) /\ next \in 0..Len(operations)
        BY <1>1, <2>2 DEF IInv
      <3> QED BY <3>1, RefusedForGood DEF Requested
    <2> QED BY <2>3, <2>4
  <1>2. IInv /\ RInv /\ [Next]_vars =>
          [phase = "applying" /\ phase' = "failing" /\ faults' = 0 =>
             Requested = Refused \/ (Op.kind = "delete" /\ ~Op.recursive /\ HoldsBackup(Op.path))]_vars
    BY <1>1
  <1> QED BY <1>2, SpecIInv, SpecRInv, PTL DEF Spec, RefusedRightly

\* When apply() succeeds on a project without left-over backups, the user sees exactly the
\* tree the edit asks for, and the edit was one that can be performed.
THEOREM SpecAppliedAsRequested == Spec => AppliedAsRequested
  <1>1. ASSUME IInv, RInv, [Next]_vars, phase = "applying", phase' = "applied", Clean
        PROVE  Visible(fs') = Requested
    <2>1. Applied
      <3>1. ~(ApplyCreate \/ ApplyRename \/ ApplyDelete)
        BY <1>1, OperationAnswered DEF Answered
      <3> QED BY <1>1, <3>1
            DEF Next, vars, Prepare, RollBack, UndoLast, RolledBack, Commit, Committed
    <2>2. fs' = fs /\ next - 1 = Len(operations)
      <3>1. operations \in Seq(OperationSet) /\ next \in 1..(Len(operations) + 1)
        BY <1>1 DEF IInv, TypeOK
      <3>2. Len(operations) \in Nat  BY <3>1, LenProperties
      <3> QED BY <2>1, <3>1, <3>2 DEF Applied
    <2>3. Shows(fs, Requested)
      <3>1. Agreed(fs, Requested)  BY <1>1, <2>2 DEF RInv, Requested
      <3> QED BY <1>1, <3>1, AgreedMeans
    <2>4. PICK g : g = Requested  OBVIOUS
    <2>5. /\ g = [p \in DOMAIN g |-> g[p]]
          /\ \A p \in DOMAIN g : p \in PathSet /\ ~HasBackup(p)
      BY <1>1, <2>3, <2>4 DEF Shows, Rooted
    <2>6. DOMAIN fs \subseteq PathSet  BY <1>1 DEF IInv, TypeOK, IsTree
    <2>7. \A p \in PathSet : ~HasBackup(p) =>
            /\ p \in DOMAIN fs <=> p \in DOMAIN g
            /\ p \in DOMAIN fs => fs[p] = g[p]
      BY <2>3, <2>4, ShowsPath
    <2>8. {q \in DOMAIN fs : ~HasBackup(q)} = DOMAIN g  BY <2>5, <2>6, <2>7
    <2>9. [p \in DOMAIN g |-> fs[p]] = g  BY <2>5, <2>7
    <2> QED BY <2>2, <2>4, <2>8, <2>9 DEF Visible
  <1>2. IInv /\ RInv /\ [Next]_vars =>
          [phase = "applying" /\ phase' = "applied" /\ Clean => Visible(fs') = Requested]_vars
    BY <1>1
  <1> QED BY <1>2, SpecIInv, SpecRInv, PTL DEF Spec, AppliedAsRequested

\* Both: apply() succeeds with the tree the edit asks for, and refuses no other edits
\* than those that cannot be performed, but for the directory that holds a backup.
THEOREM SpecOutcomeAsRequested == Spec => OutcomeAsRequested
  BY SpecRefusedRightly, SpecAppliedAsRequested DEF OutcomeAsRequested
=============================================================================
