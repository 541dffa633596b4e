--------------------------- MODULE Projects_proofs ---------------------------
(***************************************************************************)
(* Proofs for Projects: every set of projects, build directories, presets  *)
(* and targets, any number of commands, writes that fail and changes by    *)
(* other programs.                                                         *)
(***************************************************************************)
EXTENDS Projects, DataLemmas

----------------------------------------------------------------------------
(* The list of projects *)

\* g has what Only() has kept of the first entries.
Kept(g, s, K, T) ==
  /\ g \in [0..Len(s) -> Seq(T)] /\ g[0] = <<>>
  /\ \A n \in 1..Len(s) : g[n] = IF s[n] \in K THEN Append(g[n - 1], s[n]) ELSE g[n - 1]

\* Only() goes through the list from its head.
LEMMA OnlyKept ==
  ASSUME NEW T, NEW s \in Seq(T), NEW K
  PROVE  \E g : Kept(g, s, K, T) /\ Only(s, K) = g[Len(s)]
  <1> DEFINE L == Len(s)
             V == Seq(T)
             Next1(x, n) == IF s[n] \in K THEN Append(x, s[n]) ELSE x
             Round(g, n) == IF n = 0 THEN <<>> ELSE IF s[n] \in K THEN Append(g[n - 1], s[n]) ELSE g[n - 1]
             G == [n \in 1..L |-> [x \in V |-> Next1(x, n)]]
             Upto == CHOOSE g : g = [n \in 0..L |-> Round(g, n)]
  <1>1. L \in Nat /\ \A n \in 1..L : s[n] \in T
    BY LenProperties, ElementOfSeq
  <1>2. G \in [1..L -> [V -> V]]
    <2>1. \A x \in V, n \in 1..L : Next1(x, n) \in V  BY <1>1, AppendProperties
    <2> HIDE DEF Next1
    <2> QED BY <2>1
  <1>3. <<>> \in V  OBVIOUS
  <1>4. PICK f : Rounds(f, L, V, <<>>, G)
    <2> HIDE DEF G, V, L
    <2> QED BY <1>1, <1>2, <1>3, Recursion
  <1>5. f = [n \in 0..L |-> Round(f, n)]
    <2>1. ASSUME NEW n \in 0..L PROVE f[n] = Round(f, n)
      <3>1. CASE n = 0  BY <1>4, <3>1 DEF Rounds
      <3>2. CASE n # 0
        <4>1. n \in 1..L /\ n - 1 \in 0..L  BY <1>1, <3>2
        <4>2. G[n] = [x \in V |-> Next1(x, n)]
          <5> HIDE DEF Next1
          <5> QED BY <4>1
        <4>3. f[n - 1] \in V
          <5> HIDE DEF V
          <5> QED BY <1>4, <4>1 DEF Rounds
        <4>4. f[n] = G[n][f[n - 1]]
          <5> HIDE DEF G
          <5> QED BY <1>4, <4>1 DEF Rounds
        <4> HIDE DEF V, G
        <4>5. f[n] = Next1(f[n - 1], n)
          <5> HIDE DEF Next1
          <5> QED BY <4>2, <4>3, <4>4
        <4> QED BY <3>2, <4>5
      <3> QED BY <3>1, <3>2
    <2>2. f \in [0..L -> V]  BY <1>4 DEF Rounds
    <2> HIDE DEF Round, G
    <2> QED BY <2>1, <2>2
  <1>6. Upto = [n \in 0..L |-> Round(Upto, n)]
    <2> HIDE DEF Round, L
    <2> QED BY <1>5, Zenon
  <1>7. Only(s, K) = Upto[L]
    BY Zenon DEF Only
  <1> HIDE DEF Upto
  <1>8. \A n \in 0..L : Upto[n] = Round(Upto, n)
    <2> HIDE DEF Round
    <2> QED BY <1>6
  <1> DEFINE Good == {n \in 0..L : Upto[n] \in V}
  <1>9. 0 \in Good
    <2>1. Upto[0] = <<>>  BY <1>1, <1>8
    <2> HIDE DEF V
    <2> QED BY <1>1, <1>3, <2>1
  <1>10. ASSUME NEW n \in 0..(L - 1), n \in Good PROVE n + 1 \in Good
    <2>1. n + 1 \in 1..L /\ n + 1 \in 0..L /\ n + 1 # 0 /\ (n + 1) - 1 = n /\ s[n + 1] \in T
      BY <1>1
    <2>2. Upto[n + 1] = Next1(Upto[n], n + 1)  BY <1>8, <2>1
    <2>3. Upto[n] \in V  BY <1>10
    <2>4. Upto[n + 1] \in V  BY <2>1, <2>2, <2>3, AppendProperties
    <2> HIDE DEF V
    <2> QED BY <2>1, <2>4
  <1>11. 0..L \subseteq Good
    <2> HIDE DEF Good, L
    <2> QED BY <1>1, <1>9, <1>10, IntervalInduction
  <1>12. Upto \in [0..L -> V]
    <2> HIDE DEF Round, L, V
    <2> QED BY <1>6, <1>11
  <1>13. \A n \in 1..L : n \in 0..L /\ n # 0  BY <1>1
  <1>14. Upto[0] = <<>>  BY <1>1, <1>8
  <1> QED BY <1>7, <1>8, <1>12, <1>13, <1>14 DEF Kept

\* What is before what after one more entry.
LEMMA FollowsAppend ==
  ASSUME NEW T, NEW s \in Seq(T), NEW z \in T, NEW x, NEW y
  PROVE  /\ ToSet(Append(s, z)) = ToSet(s) \cup {z}
         /\ Follows(Append(s, z), x, y) <=> Follows(s, x, y) \/ (x \in ToSet(s) /\ y = z)
  <1> DEFINE a == Append(s, z)
             L == Len(s)
  <1>1. L \in Nat /\ Len(a) = L + 1 /\ a[L + 1] = z /\ \A i \in 1..L : a[i] = s[i]
    BY LenProperties, AppendProperties
  <1>2. ToSet(a) = {a[i] : i \in 1..(L + 1)} /\ ToSet(s) = {s[i] : i \in 1..L}
    BY <1>1, LenProperties, AppendProperties DEF ToSet
  <1> HIDE DEF a, L
  <1>3. ToSet(a) = ToSet(s) \cup {z}
    BY <1>1, <1>2
  <1>4. Follows(a, x, y) <=> \E m, n \in 1..(L + 1) : m < n /\ a[m] = x /\ a[n] = y
    BY <1>1 DEF Follows
  <1>5. Follows(s, x, y) <=> \E m, n \in 1..L : m < n /\ s[m] = x /\ s[n] = y
    BY DEF Follows, L
  <1>6. ASSUME Follows(a, x, y) PROVE Follows(s, x, y) \/ (x \in ToSet(s) /\ y = z)
    <2>1. PICK m, n \in 1..(L + 1) : m < n /\ a[m] = x /\ a[n] = y  BY <1>4, <1>6
    <2>2. m \in 1..L /\ x = s[m]  BY <1>1, <2>1
    <2>3. CASE n = L + 1  BY <1>1, <1>2, <2>1, <2>2, <2>3
    <2>4. CASE n # L + 1
      <3>1. n \in 1..L  BY <1>1, <2>1, <2>4
      <3> QED BY <1>1, <1>5, <2>1, <2>2, <3>1
    <2> QED BY <2>3, <2>4
  <1>7. ASSUME Follows(s, x, y) PROVE Follows(a, x, y)
    <2>1. PICK m, n \in 1..L : m < n /\ s[m] = x /\ s[n] = y  BY <1>5, <1>7
    <2>2. m \in 1..(L + 1) /\ n \in 1..(L + 1)  BY <1>1, <2>1
    <2> QED BY <1>1, <1>4, <2>1, <2>2
  <1>8. ASSUME x \in ToSet(s), y = z PROVE Follows(a, x, y)
    <2>1. PICK m \in 1..L : s[m] = x  BY <1>2, <1>8
    <2>2. m \in 1..(L + 1) /\ L + 1 \in 1..(L + 1) /\ m < L + 1  BY <1>1, <2>1
    <2> QED BY <1>1, <1>4, <1>8, <2>1, <2>2
  <1> QED BY <1>3, <1>6, <1>7, <1>8 DEF a

\* Only() keeps those it is asked to keep, in their order.
LEMMA OnlyProperties ==
  ASSUME NEW T, NEW s \in Seq(T), NEW K
  PROVE  /\ Only(s, K) \in Seq(T)
         /\ ToSet(Only(s, K)) = ToSet(s) \cap K
         /\ \A x, y : Follows(Only(s, K), x, y) <=> Follows(s, x, y) /\ x \in K /\ y \in K
         /\ Len(Only(s, K)) <= Len(s)
  <1> DEFINE L == Len(s)
             First(n) == {s[i] : i \in 1..n}
             Both(n, x, y) == \E i, j \in 1..n : i < j /\ s[i] = x /\ s[j] = y
  <1>1. PICK g : Kept(g, s, K, T) /\ Only(s, K) = g[L]  BY OnlyKept
  <1>2. L \in Nat /\ \A n \in 1..L : s[n] \in T  BY LenProperties, ElementOfSeq
  <1> DEFINE Good(n) ==
        /\ g[n] \in Seq(T) /\ Len(g[n]) <= n /\ ToSet(g[n]) = First(n) \cap K
        /\ \A x, y : Follows(g[n], x, y) <=> Both(n, x, y) /\ x \in K /\ y \in K
             All == {n \in 0..L : Good(n)}
  <1>3. 0 \in All
    <2>1. g[0] = <<>>  BY <1>1 DEF Kept
    <2>2. \A e : e = <<>> => ToSet(e) = {} /\ Len(e) = 0 /\ e \in Seq(T)  BY DEF ToSet
    <2>3. \A x, y : ~Follows(g[0], x, y)  BY <2>1, <2>2 DEF Follows
    <2>4. First(0) = {} /\ \A x, y : ~Both(0, x, y)  OBVIOUS
    <2> QED BY <1>2, <2>1, <2>2, <2>3, <2>4
  <1>4. ASSUME NEW n \in 0..(L - 1), n \in All PROVE n + 1 \in All
    <2>1. n + 1 \in 1..L /\ n + 1 \in 0..L /\ (n + 1) - 1 = n /\ s[n + 1] \in T /\ n \in Nat
      BY <1>2
    <2>2. g[n + 1] = IF s[n + 1] \in K THEN Append(g[n], s[n + 1]) ELSE g[n]
      BY <1>1, <2>1 DEF Kept
    <2>3. Good(n)  BY <1>4
    <2>4. First(n + 1) = First(n) \cup {s[n + 1]}  BY <2>1
    <2>5. \A x, y : Both(n + 1, x, y) <=> Both(n, x, y) \/ (x \in First(n) /\ y = s[n + 1])
      <3> SUFFICES ASSUME NEW x, NEW y
                   PROVE Both(n + 1, x, y) <=> Both(n, x, y) \/ (x \in First(n) /\ y = s[n + 1])
        OBVIOUS
      <3>1. ASSUME Both(n + 1, x, y) PROVE Both(n, x, y) \/ (x \in First(n) /\ y = s[n + 1])
        <4>1. PICK i, j \in 1..(n + 1) : i < j /\ s[i] = x /\ s[j] = y  BY <3>1
        <4>2. i \in 1..n  BY <2>1, <4>1
        <4>3. CASE j = n + 1  BY <4>1, <4>2, <4>3
        <4>4. CASE j # n + 1
          <5>1. j \in 1..n  BY <2>1, <4>1, <4>4
          <5> QED BY <4>1, <4>2, <5>1
        <4> QED BY <4>3, <4>4
      <3>2. ASSUME Both(n, x, y) PROVE Both(n + 1, x, y)
        <4>1. PICK i, j \in 1..n : i < j /\ s[i] = x /\ s[j] = y  BY <3>2
        <4>2. i \in 1..(n + 1) /\ j \in 1..(n + 1)  BY <2>1, <4>1
        <4> QED BY <4>1, <4>2
      <3>3. ASSUME x \in First(n), y = s[n + 1] PROVE Both(n + 1, x, y)
        <4>1. PICK i \in 1..n : s[i] = x  BY <3>3
        <4>2. i \in 1..(n + 1) /\ n + 1 \in 1..(n + 1) /\ i < n + 1  BY <2>1, <4>1
        <4> QED BY <3>3, <4>1, <4>2
      <3> HIDE DEF Both, First
      <3> QED BY <3>1, <3>2, <3>3
    <2> HIDE DEF Both, First
    <2>6. CASE s[n + 1] \in K
      <3>1. g[n + 1] \in Seq(T) /\ Len(g[n + 1]) = Len(g[n]) + 1
        BY <2>1, <2>2, <2>3, <2>6, AppendProperties
      <3>2. /\ ToSet(g[n + 1]) = ToSet(g[n]) \cup {s[n + 1]}
            /\ \A x, y : Follows(g[n + 1], x, y) <=> Follows(g[n], x, y) \/ (x \in ToSet(g[n]) /\ y = s[n + 1])
        BY <2>1, <2>2, <2>3, <2>6, FollowsAppend
      <3>3. Len(g[n + 1]) <= n + 1  BY <2>1, <2>3, <3>1, LenProperties
      <3> QED BY <2>1, <2>3, <2>4, <2>5, <2>6, <3>1, <3>2, <3>3
    <2>7. CASE s[n + 1] \notin K
      <3>1. g[n + 1] = g[n]  BY <2>2, <2>7
      <3>2. Len(g[n + 1]) <= n + 1  BY <2>1, <2>3, <3>1, LenProperties
      <3> QED BY <2>1, <2>3, <2>4, <2>5, <2>7, <3>1, <3>2
    <2> QED BY <2>6, <2>7
  <1> HIDE DEF Good
  <1>5. 0..L \subseteq All
    <2> HIDE DEF All, L
    <2> QED BY <1>2, <1>3, <1>4, IntervalInduction
  <1>6. Good(L)  BY <1>2, <1>5
  <1>7. First(L) = ToSet(s)
    BY LenProperties DEF ToSet
  <1>8. \A x, y : Both(L, x, y) <=> Follows(s, x, y)
    BY DEF Follows
  <1> HIDE DEF First, Both
  <1> QED BY <1>1, <1>6, <1>7, <1>8 DEF Good

\* What is before what with one more entry at the head.
LEMMA Headed ==
  ASSUME NEW T, NEW t \in Seq(T), NEW p \in T
  PROVE  /\ <<p>> \o t \in Seq(T) /\ Len(<<p>> \o t) = Len(t) + 1 /\ Head(<<p>> \o t) = p
         /\ ToSet(<<p>> \o t) = {p} \cup ToSet(t)
         /\ \A x, y : Follows(<<p>> \o t, x, y) <=> Follows(t, x, y) \/ (x = p /\ y \in ToSet(t))
  <1> DEFINE h == <<p>>
             a == h \o t
             L == Len(t)
  <1>1. h \in Seq(T) /\ Len(h) = 1 /\ h[1] = p  OBVIOUS
  <1> HIDE DEF h
  <1>2. L \in Nat  BY LenProperties
  <1>3. a \in Seq(T) /\ Len(a) = L + 1
    <2> HIDE DEF L
    <2>1. a \in Seq(T) /\ Len(a) = Len(h) + Len(t)
      BY <1>1, ConcatProperties
    <2> QED BY <1>1, <1>2, <2>1 DEF L
  <1>4. a[1] = p /\ \A i \in 1..L : a[i + 1] = t[i]
    <2>1. \A i \in 1..(1 + L) : a[i] = IF i <= 1 THEN h[i] ELSE t[i - 1]
      <3>1. \A i \in 1..(Len(h) + L) : a[i] = IF i <= Len(h) THEN h[i] ELSE t[i - Len(h)]
        BY <1>1, ConcatProperties
      <3> HIDE DEF L, a
      <3> QED BY <1>1, <1>2, <3>1
    <2> HIDE DEF a, L
    <2>2. \A i \in 1..L : i + 1 \in 1..(1 + L) /\ ~(i + 1 <= 1) /\ (i + 1) - 1 = i  BY <1>2
    <2>3. 1 \in 1..(1 + L)  BY <1>2
    <2> QED BY <1>1, <2>1, <2>2, <2>3
  <1>5. a # <<>> /\ Head(a) = a[1]
    <2>1. a # <<>>
      <3> HIDE DEF a
      <3> QED BY <1>2, <1>3, EmptySeq
    <2> HIDE DEF a
    <2> QED BY <1>3, <2>1, HeadTailProperties
  <1>6. ToSet(a) = {a[i] : i \in 1..(L + 1)} /\ ToSet(t) = {t[i] : i \in 1..L}
    BY <1>3, LenProperties DEF ToSet
  <1>7. \A x, y : Follows(a, x, y) <=> \E m, n \in 1..(L + 1) : m < n /\ a[m] = x /\ a[n] = y
    BY <1>3 DEF Follows
  <1>8. \A x, y : Follows(t, x, y) <=> \E m, n \in 1..L : m < n /\ t[m] = x /\ t[n] = y
    BY DEF Follows
  <1> HIDE DEF a, L
  <1>9. ToSet(a) = {p} \cup ToSet(t)
    <2>1. ASSUME NEW i \in 1..(L + 1) PROVE a[i] \in {p} \cup ToSet(t)
      <3>1. CASE i = 1  BY <1>4, <3>1
      <3>2. CASE i # 1
        <4>1. i - 1 \in 1..L /\ (i - 1) + 1 = i  BY <1>2, <3>2
        <4> QED BY <1>4, <1>6, <4>1
      <3> QED BY <3>1, <3>2
    <2>2. ASSUME NEW i \in 1..L PROVE t[i] \in ToSet(a)
      <3>1. i + 1 \in 1..(L + 1)  BY <1>2
      <3> QED BY <1>4, <1>6, <3>1
    <2>3. p \in ToSet(a)
      <3>1. 1 \in 1..(L + 1)  BY <1>2
      <3> QED BY <1>4, <1>6, <3>1
    <2> QED BY <1>6, <2>1, <2>2, <2>3
  <1>10. \A x, y : Follows(a, x, y) <=> Follows(t, x, y) \/ (x = p /\ y \in ToSet(t))
    <2> SUFFICES ASSUME NEW x, NEW y
                 PROVE Follows(a, x, y) <=> Follows(t, x, y) \/ (x = p /\ y \in ToSet(t))
      OBVIOUS
    <2>1. ASSUME Follows(a, x, y) PROVE Follows(t, x, y) \/ (x = p /\ y \in ToSet(t))
      <3>1. PICK m, n \in 1..(L + 1) : m < n /\ a[m] = x /\ a[n] = y  BY <1>7, <2>1
      <3>2. n - 1 \in 1..L /\ (n - 1) + 1 = n  BY <1>2, <3>1
      <3>3. y = t[n - 1]  BY <1>4, <3>1, <3>2
      <3>4. CASE m = 1  BY <1>4, <1>6, <3>1, <3>2, <3>3, <3>4
      <3>5. CASE m # 1
        <4>1. m - 1 \in 1..L /\ (m - 1) + 1 = m /\ m - 1 < n - 1  BY <1>2, <3>1, <3>5
        <4>2. x = t[m - 1]  BY <1>4, <3>1, <4>1
        <4> QED BY <1>8, <3>2, <3>3, <4>1, <4>2
      <3> QED BY <3>4, <3>5
    <2>2. ASSUME Follows(t, x, y) PROVE Follows(a, x, y)
      <3>1. PICK m, n \in 1..L : m < n /\ t[m] = x /\ t[n] = y  BY <1>8, <2>2
      <3>2. m + 1 \in 1..(L + 1) /\ n + 1 \in 1..(L + 1) /\ m + 1 < n + 1  BY <1>2, <3>1
      <3> QED BY <1>4, <1>7, <3>1, <3>2
    <2>3. ASSUME x = p, y \in ToSet(t) PROVE Follows(a, x, y)
      <3>1. PICK n \in 1..L : t[n] = y  BY <1>6, <2>3
      <3>2. 1 \in 1..(L + 1) /\ n + 1 \in 1..(L + 1) /\ 1 < n + 1  BY <1>2, <3>1
      <3> QED BY <1>4, <1>7, <2>3, <3>1, <3>2
    <2> QED BY <2>1, <2>2, <2>3
  <1> QED BY <1>3, <1>4, <1>5, <1>9, <1>10 DEF a, h, L

\* What is cut off at the end leaves the order of the rest.
LEMMA CutShort ==
  ASSUME NEW T, NEW s \in Seq(T), NEW n \in Nat, n < Len(s)
  PROVE  /\ SubSeq(s, 1, n) \in Seq(T) /\ Len(SubSeq(s, 1, n)) = n
         /\ \A i \in 1..n : SubSeq(s, 1, n)[i] = s[i]
         /\ ToSet(SubSeq(s, 1, n)) \subseteq ToSet(s)
         /\ \A x, y : Follows(SubSeq(s, 1, n), x, y) => Follows(s, x, y)
  <1> DEFINE a == SubSeq(s, 1, n)
             L == Len(s)
  <1>1. L \in Nat /\ n <= L  BY LenProperties
  <1>2. a \in Seq(T) /\ Len(a) = n /\ \A i \in 1..n : a[i] = s[i]
    <2>1. /\ a \in Seq(T)
          /\ Len(a) = IF 1 <= n THEN n - 1 + 1 ELSE 0
          /\ \A i \in 1..(n - 1 + 1) : a[i] = s[1 + i - 1]
      <3>1. 1 \in 1..(L + 1) /\ n \in 0..L  BY <1>1
      <3>2. \A i \in 1..n : s[i] \in T  BY <1>1, ElementOfSeq
      <3> QED BY <1>1, <3>1, <3>2, SubSeqProperties
    <2> HIDE DEF a
    <2>2. Len(a) = n  BY <2>1
    <2>3. \A i \in 1..n : 1 + i - 1 = i /\ i \in 1..(n - 1 + 1)  OBVIOUS
    <2> QED BY <2>1, <2>2, <2>3
  <1>3. ToSet(a) = {a[i] : i \in 1..n} /\ ToSet(s) = {s[i] : i \in 1..L}
    BY <1>2, LenProperties DEF ToSet
  <1>4. \A i \in 1..n : i \in 1..L  BY <1>1
  <1>5. ASSUME NEW x, NEW y, Follows(a, x, y) PROVE Follows(s, x, y)
    <2> HIDE DEF a
    <2> QED BY <1>2, <1>4, <1>5 DEF Follows
  <1> HIDE DEF a
  <1>6. ToSet(a) \subseteq ToSet(s)  BY <1>2, <1>3, <1>4
  <1> QED BY <1>2, <1>5, <1>6 DEF a

\* remembered() puts the project at the head, once, and keeps the order of the others.
LEMMA RememberedFirst ==
  ASSUME NEW d, d.history \in Seq(Root), NEW p \in Root
  PROVE  LET h == Remembered(d, p)
         IN /\ h \in Seq(Root) /\ Len(h) <= Limit /\ (h # <<>> => Head(h) = p)
            /\ ToSet(h) \subseteq {p} \cup (ToSet(d.history) \ {p})
            /\ \A x, y : Follows(h, x, y) =>
                 (x = p /\ y \in ToSet(d.history) \ {p}) \/ (x # p /\ y # p /\ Follows(d.history, x, y))
  <1> DEFINE s == d.history
             V == {q \in Root : Valid(d, q)}
             l == LoadRecentProjects(d)
             o == Only(l, Root \ {p})
             list == <<p>> \o o
             h == Remembered(d, p)
  <1>1. /\ l \in Seq(Root) /\ ToSet(l) = ToSet(s) \cap V
        /\ \A x, y : Follows(l, x, y) <=> Follows(s, x, y) /\ x \in V /\ y \in V
    <2> HIDE DEF V
    <2> QED BY OnlyProperties DEF LoadRecentProjects, V
  <1> HIDE DEF l
  <1>2. /\ o \in Seq(Root) /\ ToSet(o) = ToSet(l) \cap (Root \ {p})
        /\ \A x, y : Follows(o, x, y) <=> Follows(l, x, y) /\ x \in Root \ {p} /\ y \in Root \ {p}
    BY <1>1, OnlyProperties
  <1> HIDE DEF o, V
  <1>3. /\ list \in Seq(Root) /\ Len(list) = Len(o) + 1 /\ Head(list) = p
        /\ ToSet(list) = {p} \cup ToSet(o)
        /\ \A x, y : Follows(list, x, y) <=> Follows(o, x, y) \/ (x = p /\ y \in ToSet(o))
    BY <1>2, Headed
  <1>4. h = IF Len(list) > Limit THEN SubSeq(list, 1, Limit) ELSE list
    BY DEF Remembered, o, l
  <1> HIDE DEF list, h
  <1>5. Len(list) \in Nat /\ Limit \in Nat  BY <1>3, Constants, LenProperties
  <1>6. list # <<>> /\ Head(list) = list[1]
    <2>1. list # <<>>  BY <1>2, <1>3, EmptySeq, LenProperties
    <2> QED BY <1>3, <2>1, HeadTailProperties
  <1>7. /\ h \in Seq(Root) /\ Len(h) <= Limit /\ ToSet(h) \subseteq ToSet(list)
        /\ \A x, y : Follows(h, x, y) => Follows(list, x, y)
        /\ h # <<>> => Head(h) = p
    <2>1. CASE Len(list) > Limit
      <3>1. h = SubSeq(list, 1, Limit)  BY <1>4, <2>1
      <3>2. /\ h \in Seq(Root) /\ Len(h) = Limit /\ \A i \in 1..Limit : h[i] = list[i]
            /\ ToSet(h) \subseteq ToSet(list) /\ \A x, y : Follows(h, x, y) => Follows(list, x, y)
        BY <1>3, <1>5, <2>1, <3>1, CutShort
      <3>3. ASSUME h # <<>> PROVE Head(h) = p
        <4>1. Head(h) = h[1] /\ Len(h) # 0  BY <3>2, <3>3, EmptySeq, HeadTailProperties
        <4>2. 1 \in 1..Limit  BY <1>5, <3>2, <4>1
        <4> QED BY <1>3, <1>6, <3>2, <4>1, <4>2
      <3>4. Len(h) <= Limit  BY <1>5, <3>2
      <3> QED BY <3>2, <3>3, <3>4
    <2>2. CASE ~(Len(list) > Limit)
      <3>1. h = list  BY <1>4, <2>2
      <3>2. Len(h) <= Limit  BY <1>5, <2>2, <3>1
      <3> QED BY <1>3, <3>1, <3>2
    <2> QED BY <2>1, <2>2
  <1>8. ToSet(o) \subseteq ToSet(s) \ {p}  BY <1>1, <1>2
  <1>9. \A x, y : Follows(o, x, y) => x # p /\ y # p /\ Follows(s, x, y)  BY <1>1, <1>2
  <1>10. ToSet(h) \subseteq {p} \cup (ToSet(s) \ {p})  BY <1>3, <1>7, <1>8
  <1>11. \A x, y : Follows(h, x, y) => (x = p /\ y \in ToSet(s) \ {p}) \/ (x # p /\ y # p /\ Follows(s, x, y))
    <2> HIDE DEF s
    <2> QED BY <1>3, <1>7, <1>8, <1>9
  <1> QED BY <1>7, <1>10, <1>11, Zenon DEF h, s

\* The lists stay in step when a project is opened, whether its list could be written or not.
LEMMA OpenedRecent ==
  ASSUME NEW d, d.history \in Seq(Root), NEW p \in Root, NEW opened \in Seq(Root),
         Recent(d.history, opened), NEW h, h = Remembered(d, p) \/ h = d.history
  PROVE  LET o == IF h # <<>> /\ Head(h) = p THEN <<p>> \o Only(opened, Root \ {p}) ELSE opened
         IN o \in Seq(Root) /\ Recent(h, o)
  <1> DEFINE s == d.history
             k == Only(opened, Root \ {p})
             o == IF h # <<>> /\ Head(h) = p THEN <<p>> \o k ELSE opened
  <1>1. /\ ToSet(s) \subseteq ToSet(opened)
        /\ \A x, y \in Root : Follows(s, x, y) => Follows(opened, x, y)
        /\ \A x \in Root : ~Follows(opened, x, x)
    BY DEF Recent
  <1>2. /\ k \in Seq(Root) /\ ToSet(k) = ToSet(opened) \cap (Root \ {p})
        /\ \A x, y : Follows(k, x, y) <=> Follows(opened, x, y) /\ x \in Root \ {p} /\ y \in Root \ {p}
    BY OnlyProperties
  <1>3. /\ <<p>> \o k \in Seq(Root) /\ ToSet(<<p>> \o k) = {p} \cup ToSet(k)
        /\ \A x, y : Follows(<<p>> \o k, x, y) <=> Follows(k, x, y) \/ (x = p /\ y \in ToSet(k))
    <2> HIDE DEF k
    <2> QED BY <1>2, Headed
  <1>4. \A e \in Seq(Root) : ToSet(e) \subseteq Root
    BY LenProperties, ElementOfSeq DEF ToSet
  <1>5. CASE h # <<>> /\ Head(h) = p
    <2>1. o = <<p>> \o k  BY <1>5
    <2> HIDE DEF o, k
    <2>2. ToSet(h) \subseteq {p} \cup (ToSet(s) \ {p})
      <3>1. CASE h = Remembered(d, p)  BY <3>1, RememberedFirst
      <3>2. CASE h = s  BY <3>2
      <3> QED BY <3>1, <3>2
    <2>3. \A x, y \in Root : Follows(h, x, y) =>
            (x = p /\ y \in ToSet(s) \ {p}) \/ (x # p /\ y # p /\ Follows(s, x, y))
      <3>1. CASE h = Remembered(d, p)  BY <3>1, RememberedFirst
      <3>2. CASE h = s
        <4>1. h \in Seq(Root) /\ h[1] = p  BY <1>5, <3>2, HeadTailProperties
        <4> SUFFICES ASSUME NEW x \in Root, NEW y \in Root, Follows(h, x, y)
                     PROVE (x # p /\ y # p) \/ (x = p /\ y \in ToSet(s) \ {p})
          BY <3>2
        <4>2. PICK m, n \in 1..Len(h) : m < n /\ h[m] = x /\ h[n] = y  BY DEF Follows
        <4>3. ~Follows(h, p, p)  BY <1>1, <3>2
        <4>4. 1 \in 1..Len(h) /\ 1 < n  BY <4>1, <4>2, LenProperties
        <4>5. y # p  BY <4>1, <4>2, <4>3, <4>4 DEF Follows
        <4>6. y \in ToSet(h)  BY <4>1, <4>2, LenProperties DEF ToSet
        <4> QED BY <3>2, <4>5, <4>6
      <3> QED BY <3>1, <3>2
    <2>4. ToSet(h) \subseteq ToSet(o)  BY <1>1, <1>2, <1>3, <1>4, <2>1, <2>2
    <2>5. \A x, y \in Root : Follows(h, x, y) => Follows(o, x, y)
      BY <1>1, <1>2, <1>3, <2>1, <2>3
    <2>6. \A x \in Root : ~Follows(o, x, x)  BY <1>1, <1>2, <1>3, <2>1
    <2> QED BY <1>3, <2>1, <2>4, <2>5, <2>6 DEF o, k, Recent
  <1>6. CASE ~(h # <<>> /\ Head(h) = p)
    <2>1. o = opened  BY <1>6
    <2>2. h = s \/ h = <<>>
      <3>1. CASE h = Remembered(d, p)  BY <1>6, <3>1, RememberedFirst
      <3> QED BY <3>1
    <2>3. CASE h = s  BY <2>1, <2>3
    <2>4. CASE h = <<>>
      <3>1. \A e : e = <<>> => ToSet(e) = {} /\ \A x, y : ~Follows(e, x, y)  BY DEF ToSet, Follows
      <3> HIDE DEF o
      <3> QED BY <1>1, <2>1, <2>4, <3>1 DEF Recent, o
    <2> QED BY <2>2, <2>3, <2>4
  <1> QED BY <1>5, <1>6

----------------------------------------------------------------------------
(* CMakeSession *)

\* The names of what may be absent are none of those that are there.
LEMMA Names ==
  /\ None \notin Root /\ None \notin Dirs /\ None \notin ConfigureNames /\ None \notin BuildNames
  /\ None \notin Targets /\ Dirs \subseteq Places
  /\ \A p \in Root : DirsOf[p] \subseteq Dirs /\ DefaultDir[p] \in DirsOf[p]
  BY Constants DEF Dirs, Places

\* A list of targets is a sequence of targets.
LEMMA ListTyped ==
  ASSUME NEW list \in TargetLists \cup {<<>>}
  PROVE  /\ list \in Seq(Targets) /\ Len(list) \in Nat /\ DOMAIN list = 1..Len(list)
         /\ \A n \in 1..Len(list) : list[n] \in Targets
         /\ list = <<>> <=> Len(list) = 0
  <1>1. list \in Seq(Targets)
    <2>1. CASE list = <<>>  BY <2>1, EmptySeq
    <2>2. CASE list \in TargetLists  BY <2>2, Constants
    <2> QED BY <2>1, <2>2
  <1> QED BY <1>1, LenProperties, ElementOfSeq, EmptySeq

\* The selected target is a target or none.
LEMMA SelectedTyped ==
  ASSUME NEW c, CMakeOK(c)
  PROVE  SelectedTarget(c) \in Targets \cup {None}
  <1>1. c.targets \in TargetLists \cup {<<>>}  BY DEF CMakeOK, CMakeSet
  <1> QED BY <1>1, ListTyped DEF SelectedTarget

\* Reading the presets changes the two lists and the directory.
LEMMA RefreshedOK ==
  ASSUME NEW c, CMakeOK(c), NEW file \in PresetFiles, NEW default \in Dirs
  PROVE  LET r == RefreshPresets(c, file, default)
         IN /\ CMakeOK(r) /\ r.dir \in Places
            /\ r.cpreset = c.cpreset /\ r.bpreset = c.bpreset /\ r.preferred = c.preferred
  <1> DEFINE loaded == [c EXCEPT !.configure = IF file.bad THEN {} ELSE file.configure,
                                 !.build = IF file.bad \/ file.badBuild THEN <<>> ELSE file.build]
             r == RefreshPresets(c, file, default)
  <1>1. c \in CMakeSet  BY DEF CMakeOK
  <1>2. /\ (IF file.bad THEN {} ELSE file.configure) \in SUBSET ConfigureNames
        /\ (IF file.bad \/ file.badBuild THEN <<>> ELSE file.build) \in {f.build : f \in PresetFiles} \cup {<<>>}
    BY Constants
  <1>3. loaded \in CMakeSet
    BY <1>1, <1>2 DEF CMakeSet
  <1>4. /\ loaded.cpreset = c.cpreset /\ loaded.bpreset = c.bpreset /\ loaded.preferred = c.preferred
        /\ loaded.targets = c.targets /\ loaded.selected = c.selected
    BY <1>1 DEF CMakeSet
  <1> HIDE DEF loaded
  <1>5. PICK dir \in Places : r = [loaded EXCEPT !.dir = dir]
    <2>1. r = [loaded EXCEPT !.dir = default] \/ r = UpdateBuildDirectory(loaded, default)
      BY DEF RefreshPresets, loaded
    <2>2. default \in Places  BY Names
    <2>3. ASSUME loaded.cpreset \in loaded.configure PROVE BinaryDir[loaded.cpreset] \in Places
      <3>1. loaded.cpreset \in ConfigureNames  BY <1>3, <2>3 DEF CMakeSet
      <3> QED BY <3>1 DEF Places
    <2> QED BY <2>1, <2>2, <2>3 DEF UpdateBuildDirectory
  <1> HIDE DEF r
  <1>6. /\ r \in CMakeSet /\ r.dir = dir /\ r.cpreset = c.cpreset /\ r.bpreset = c.bpreset
        /\ r.preferred = c.preferred /\ r.targets = c.targets /\ r.selected = c.selected
    BY <1>3, <1>4, <1>5 DEF CMakeSet
  <1>7. CMakeOK(r)  BY <1>6 DEF CMakeOK, Paired
  <1> QED BY <1>6, <1>7 DEF r

\* updateBuildDirectory() changes the directory only.
LEMMA DirectoryOK ==
  ASSUME NEW c, c \in CMakeSet, NEW default \in Dirs
  PROVE  \E dir \in Places : UpdateBuildDirectory(c, default) = [c EXCEPT !.dir = dir]
  <1>1. default \in Places  BY Names
  <1>2. ASSUME c.cpreset \in c.configure PROVE BinaryDir[c.cpreset] \in Places
    <2>1. c.cpreset \in ConfigureNames  BY <1>2 DEF CMakeSet
    <2> QED BY <2>1 DEF Places
  <1> QED BY <1>1, <1>2 DEF UpdateBuildDirectory

\* Choosing presets, none or one of those listed, forgets the targets.
LEMMA ChosenOK ==
  ASSUME NEW c, c \in CMakeSet, NEW default \in Dirs,
         NEW cpreset \in ConfigureNames \cup {None}, NEW bpreset \in BuildNames \cup {None},
         bpreset # None => cpreset # None
  PROVE  LET r == ClearTargets(UpdateBuildDirectory([c EXCEPT !.cpreset = cpreset, !.bpreset = bpreset], default))
         IN CMakeOK(r) /\ r.dir \in Places
  <1> DEFINE chosen == [c EXCEPT !.cpreset = cpreset, !.bpreset = bpreset]
             r == ClearTargets(UpdateBuildDirectory(chosen, default))
  <1>1. chosen \in CMakeSet /\ chosen.cpreset = cpreset /\ chosen.bpreset = bpreset
    BY DEF CMakeSet
  <1> HIDE DEF chosen
  <1>2. PICK dir \in Places : UpdateBuildDirectory(chosen, default) = [chosen EXCEPT !.dir = dir]
    BY <1>1, DirectoryOK
  <1>3. r = [[chosen EXCEPT !.dir = dir] EXCEPT !.targets = <<>>, !.selected = 0, !.preferred = None]
    BY <1>2 DEF ClearTargets
  <1> HIDE DEF r
  <1>4. \A e : e = <<>> => Len(e) = 0  OBVIOUS
  <1>5. /\ r \in CMakeSet /\ r.dir = dir /\ r.cpreset = cpreset /\ r.bpreset = bpreset
        /\ r.targets = <<>> /\ r.selected = 0
    BY <1>1, <1>3 DEF CMakeSet
  <1>6. r.selected \in 0..Len(r.targets)  BY <1>4, <1>5
  <1>7. (r.selected = 0) = (r.targets = <<>>)
    <2>1. r.selected = 0 /\ r.targets = <<>>  BY <1>5
    <2> QED BY <2>1, Zenon
  <1>8. Paired(r)  BY <1>5 DEF Paired
  <1>9. CMakeOK(r)  BY <1>5, <1>6, <1>7, <1>8 DEF CMakeOK
  <1>10. r.dir \in Places  BY <1>5
  <1> QED BY <1>9, <1>10 DEF r, chosen

\* A configure preset takes its build preset with it.
LEMMA SelectConfigureOK ==
  ASSUME NEW c, CMakeOK(c), NEW default \in Dirs, NEW name, CanSelectConfigurePreset(c, name)
  PROVE  LET r == SelectConfigurePreset(c, name, default) IN CMakeOK(r) /\ r.dir \in Places
  <1>1. c \in CMakeSet  BY DEF CMakeOK
  <1>2. name \in ConfigureNames \cup {None}
    BY <1>1 DEF CanSelectConfigurePreset, CMakeSet
  <1>3. c.bpreset \in BuildNames \cup {None}  BY <1>1 DEF CMakeSet
  <1> DEFINE keeps == c.bpreset \in DOMAIN c.build /\ c.build[c.bpreset] = name
             b == IF name # None /\ keeps THEN c.bpreset ELSE None
  <1>4. [c EXCEPT !.cpreset = name, !.bpreset = IF name # None /\ keeps THEN @ ELSE None]
          = [c EXCEPT !.cpreset = name, !.bpreset = b]
    <2> HIDE DEF keeps
    <2> QED BY <1>1 DEF CMakeSet
  <1>5. b \in BuildNames \cup {None} /\ (b # None => name # None)
    <2> HIDE DEF keeps
    <2> QED BY <1>3
  <1> HIDE DEF b
  <1>6. SelectConfigurePreset(c, name, default)
          = ClearTargets(UpdateBuildDirectory([c EXCEPT !.cpreset = name, !.bpreset = b], default))
    BY <1>4 DEF SelectConfigurePreset
  <1> QED BY <1>1, <1>2, <1>5, <1>6, ChosenOK

\* A build preset brings its configure preset.
LEMMA SelectBuildOK ==
  ASSUME NEW c, CMakeOK(c), c.dir \in Places, NEW default \in Dirs, NEW name \in BuildNames \cup {None},
         CanSelectBuildPreset(c, name)
  PROVE  LET r == SelectBuildPreset(c, name, default) IN CMakeOK(r) /\ r.dir \in Places
  <1>1. c \in CMakeSet  BY DEF CMakeOK
  <1>2. CASE name = None
    <2>1. SelectBuildPreset(c, name, default) = [c EXCEPT !.bpreset = None]  BY <1>2 DEF SelectBuildPreset
    <2> DEFINE r == [c EXCEPT !.bpreset = None]
    <2>2. /\ r \in CMakeSet /\ r.dir = c.dir /\ r.bpreset = None
          /\ r.targets = c.targets /\ r.selected = c.selected
      BY <1>1 DEF CMakeSet
    <2> HIDE DEF r
    <2>3. CMakeOK(r) /\ r.dir \in Places  BY <2>2 DEF CMakeOK, Paired
    <2> QED BY <2>1, <2>3 DEF r
  <1>3. CASE name # None
    <2> DEFINE parent == c.build[name]
    <2>1. parent \in c.configure  BY <1>3 DEF CanSelectBuildPreset
    <2>2. parent \in ConfigureNames  BY <1>1, <2>1 DEF CMakeSet
    <2>3. [c EXCEPT !.bpreset = name, !.cpreset = parent] = [c EXCEPT !.cpreset = parent, !.bpreset = name]
      <3> HIDE DEF parent
      <3> QED BY <1>1 DEF CMakeSet
    <2>4. SelectBuildPreset(c, name, default)
            = ClearTargets(UpdateBuildDirectory([c EXCEPT !.cpreset = parent, !.bpreset = name], default))
      BY <1>3, <2>3 DEF SelectBuildPreset
    <2> HIDE DEF parent
    <2>5. parent # None  BY <2>2, Names
    <2> QED BY <1>1, <2>2, <2>4, <2>5, ChosenOK
  <1> QED BY <1>2, <1>3

\* After the targets are read, one of them is selected if there are any.
LEMMA ReplacedOK ==
  ASSUME NEW c, CMakeOK(c), NEW targets \in TargetLists
  PROVE  LET r == ReplaceTargets(c, targets)
         IN /\ CMakeOK(r) /\ r.dir = c.dir /\ r.targets = targets
            /\ r.cpreset = c.cpreset /\ r.bpreset = c.bpreset /\ r.preferred = c.preferred
  <1> DEFINE previous == IF SelectedTarget(c) # None THEN SelectedTarget(c) ELSE c.preferred
             places == {i \in 1..Len(targets) : targets[i] = previous}
             n == IF targets = <<>> THEN 0
                  ELSE SelectInSeq(targets, LAMBDA t : t = previous)
                       + (IF previous \in ToSet(targets) THEN 0 ELSE 1)
             r == [c EXCEPT !.targets = targets, !.selected = n]
  <1>1. c \in CMakeSet  BY DEF CMakeOK
  <1>2. /\ Len(targets) \in Nat /\ (targets = <<>> <=> Len(targets) = 0)
        /\ ToSet(targets) = {targets[i] : i \in 1..Len(targets)}
    BY ListTyped DEF ToSet
  <1>3. SelectInSeq(targets, LAMBDA t : t = previous) = IF places # {} THEN Min(places) ELSE 0
    BY DEF SelectInSeq
  <1>4. n \in 0..Len(targets) /\ (n = 0) = (targets = <<>>)
    <2> HIDE DEF previous
    <2>1. CASE places # {}
      <3>1. places \in SUBSET Nat  OBVIOUS
      <3>2. \E x \in places : \A y \in places : x <= y
        <4> HIDE DEF places
        <4> QED BY <2>1, <3>1, LeastNumber
      <3>3. Min(places) \in places
        <4> HIDE DEF places
        <4> QED BY <3>2 DEF Min
      <3>4. previous \in ToSet(targets)  BY <1>2, <3>3
      <3>5. Min(places) \in 1..Len(targets) /\ targets # <<>>  BY <1>2, <3>3
      <3>6. n = Min(places)
        <4> HIDE DEF places
        <4> QED BY <1>2, <1>3, <2>1, <3>4, <3>5
      <3> QED BY <1>2, <3>5, <3>6
    <2>2. CASE places = {}
      <3>1. previous \notin ToSet(targets)  BY <1>2, <2>2
      <3>2. n = IF targets = <<>> THEN 0 ELSE 1
        <4> HIDE DEF places
        <4> QED BY <1>3, <2>2, <3>1
      <3> QED BY <1>2, <3>2
    <2> QED BY <2>1, <2>2
  <1>5. ReplaceTargets(c, targets) = r
    BY DEF ReplaceTargets
  <1> HIDE DEF n
  <1>6. n \in Nat  BY <1>2, <1>4
  <1>7. /\ r \in CMakeSet /\ r.dir = c.dir /\ r.targets = targets /\ r.selected = n
        /\ r.cpreset = c.cpreset /\ r.bpreset = c.bpreset /\ r.preferred = c.preferred
    BY <1>1, <1>6 DEF CMakeSet
  <1> HIDE DEF r
  <1>8. CMakeOK(r)  BY <1>4, <1>7 DEF CMakeOK, Paired
  <1> QED BY <1>5, <1>7, <1>8

\* Preferring a target and selecting one of the list change nothing else.
LEMMA PreferredOK ==
  ASSUME NEW c, CMakeOK(c), NEW t \in Targets, NEW n \in 1..Len(c.targets)
  PROVE  /\ LET r == RememberTarget(c, t) IN CMakeOK(r) /\ r.dir = c.dir
         /\ LET r == RememberTarget([c EXCEPT !.selected = n], t) IN CMakeOK(r) /\ r.dir = c.dir
  <1>1. c \in CMakeSet  BY DEF CMakeOK
  <1>2. n \in Nat /\ Len(c.targets) \in Nat /\ n # 0 /\ c.targets # <<>>
    <2>1. c.targets \in TargetLists \cup {<<>>}  BY <1>1 DEF CMakeSet
    <2> QED BY <2>1, ListTyped
  <1> DEFINE r == RememberTarget(c, t)
             q == RememberTarget([c EXCEPT !.selected = n], t)
  <1>3. /\ r \in CMakeSet /\ r.dir = c.dir /\ r.targets = c.targets /\ r.selected = c.selected
        /\ r.cpreset = c.cpreset /\ r.bpreset = c.bpreset
    BY <1>1 DEF CMakeSet, RememberTarget
  <1>4. /\ q \in CMakeSet /\ q.dir = c.dir /\ q.targets = c.targets /\ q.selected = n
        /\ q.cpreset = c.cpreset /\ q.bpreset = c.bpreset
    BY <1>1, <1>2 DEF CMakeSet, RememberTarget
  <1> HIDE DEF r, q
  <1>5. CMakeOK(r)  BY <1>3 DEF CMakeOK, Paired
  <1>6. CMakeOK(q)  BY <1>2, <1>4 DEF CMakeOK, Paired
  <1> QED BY <1>3, <1>4, <1>5, <1>6 DEF r, q

\* A selection that has just been reset.
LEMMA ResetOK ==
  ASSUME NEW dir \in Places \cup {None}
  PROVE  CMakeOK(CMakeReset(dir)) /\ CMakeReset(dir).dir = dir
  <1>1. \A e : e = <<>> => Len(e) = 0  OBVIOUS
  <1> DEFINE r == CMakeReset(dir)
  <1>2. /\ r.dir = dir /\ r.configure = {} /\ r.build = <<>> /\ r.targets = <<>> /\ r.selected = 0
        /\ r.cpreset = None /\ r.bpreset = None /\ r.preferred = None
    BY DEF CMakeReset
  <1>3. r \in CMakeSet
    BY DEF CMakeReset, CMakeSet
  <1> HIDE DEF r
  <1>4. r.selected \in 0..Len(r.targets)  BY <1>1, <1>2
  <1> QED BY <1>2, <1>3, <1>4 DEF CMakeOK, Paired, r

----------------------------------------------------------------------------
(* The debug model and its file *)

\* A project is around itself, and around the same projects as one it shares a directory with.
LEMMA NearTyped ==
  ASSUME NEW p \in Root
  PROVE  /\ p \in Around(p) /\ Marks[p] \subseteq NearMarks[p]
         /\ \A q \in Root : DirsOf[p] \cap DirsOf[q] # {} => NearMarks[q] = NearMarks[p]
         /\ Apart({p}) => NearMarks[p] = Marks[p]
  <1>1. p \in Around(p)  BY DEF Around
  <1>2. \A q \in Root : NearMarks[q] = UNION {Marks[r] : r \in Around(q)}  BY DEF NearMarks
  <1>3. ASSUME NEW q \in Root, DirsOf[p] \cap DirsOf[q] # {} PROVE Around(q) = Around(p)
    <2>1. ASSUME NEW group \in SUBSET Root, Apart(group) PROVE p \in group <=> q \in group
      BY <1>3, <2>1 DEF Apart
    <2>2. \A r : r \in Around(p) <=> r \in Around(q)
      BY <2>1 DEF Around
    <2> QED BY <2>2
  <1>4. ASSUME Apart({p}) PROVE NearMarks[p] = Marks[p]
    <2>1. Around(p) \subseteq {p}  BY <1>4 DEF Around
    <2>2. Around(p) = {p}  BY <1>1, <2>1
    <2> QED BY <1>2, <2>2
  <1> QED BY <1>1, <1>2, <1>3, <1>4

\* What a session file stands for.
LEMMA StoredTyped ==
  /\ NoSession \in SessionSet /\ Stored(Bad) = NoSession /\ Stored(None) = NoSession
  /\ \A s \in SessionSet : Stored(s) = s
  /\ \A s \in SessionSet \cup {None, Bad} : Stored(s) \in SessionSet
  <1>1. NoSession \in SessionSet  BY DEF NoSession, SessionSet
  <1>2. \A s \in SessionSet : s \notin {None, Bad}  BY Constants
  <1> QED BY <1>1, <1>2 DEF Stored

\* Each backend has a model.
LEMMA ModelTyped ==
  ASSUME NEW i, IdeOK(i)
  PROVE  /\ ModelOf(i) \in ModelSet /\ i.backend \in Backends
         /\ ModelOf(i).marks \subseteq (IF i.root = None THEN {} ELSE NearMarks[i.root])
         /\ i.root # None => i.root \in Root /\ i.dir \in DirsOf[i.root] /\ i.dir \in Dirs /\ i.cmake.dir \in Places
  <1>1. i \in IdeSet  BY DEF IdeOK
  <1>2. i.backend \in Backends /\ i.model \in [Backends -> ModelSet] /\ i.root \in Root \cup {None}
    BY <1>1 DEF IdeSet
  <1>3. i.root # None => i.dir \in Dirs  BY <1>2, Names DEF IdeOK
  <1> QED BY <1>2, <1>3 DEF IdeOK, ModelOf

\* What the window would save.
LEMMA CurrentTyped ==
  ASSUME NEW i, IdeOK(i)
  PROVE  LET s == CurrentSession(i)
         IN /\ s \in SessionSet /\ Paired(s) /\ s.marks = ModelOf(i).marks
            /\ s.registers = ModelOf(i).registers /\ s.target = i.cmake.preferred
            /\ s.cpreset = i.cmake.cpreset /\ s.bpreset = i.cmake.bpreset
  <1> DEFINE s == CurrentSession(i)
  <1>1. i.cmake \in CMakeSet /\ Paired(i.cmake)  BY DEF IdeOK, CMakeOK
  <1>2. ModelOf(i) \in ModelSet  BY ModelTyped
  <1>3. /\ s.marks = ModelOf(i).marks /\ s.registers = ModelOf(i).registers
        /\ s.target = i.cmake.preferred /\ s.cpreset = i.cmake.cpreset /\ s.bpreset = i.cmake.bpreset
    BY DEF CurrentSession
  <1>4. s \in SessionSet
    BY <1>1, <1>2 DEF CurrentSession, SessionSet, CMakeSet, ModelSet
  <1> HIDE DEF s
  <1>5. Paired(s)  BY <1>1, <1>3 DEF Paired
  <1> QED BY <1>3, <1>4, <1>5 DEF s

\* The disk is another one in its other files only.
Elsewhere(e, d) == DiskOK(e) /\ e.history = d.history /\ e.session = d.session

\* A disk with an entry of one of its files changed.
LEMMA DiskWith ==
  ASSUME NEW d, DiskOK(d)
  PROVE  /\ \A h \in Seq(Root) : Len(h) <= Limit => DiskOK([d EXCEPT !.history = h])
         /\ Elsewhere(Fault(d), d)
         /\ \A p \in Root, k \in Kinds : Elsewhere([d EXCEPT !.content[p] = k], d)
         /\ \A p \in Root : Elsewhere([d EXCEPT !.sources[p] = @ + 1], d)
         /\ \A p \in Root, f \in PresetFiles : Elsewhere([d EXCEPT !.presets[p] = f], d)
         /\ \A dir \in Places, list \in TargetLists : Elsewhere([d EXCEPT !.targets[dir] = list], d)
         /\ \A p \in Root : \A s \in [dir : DirsOf[p], backend : Backends] \cup {Bad} :
              Elsewhere([d EXCEPT !.settings[p] = s], d)
  <1>1. d \in DiskSet  BY DEF DiskOK
  <1>2. ASSUME NEW h \in Seq(Root), Len(h) <= Limit PROVE DiskOK([d EXCEPT !.history = h])
    <2> DEFINE e == [d EXCEPT !.history = h]
    <2>1. e \in DiskSet /\ e.history = h /\ e.settings = d.settings /\ e.session = d.session  BY <1>1 DEF DiskSet
    <2> HIDE DEF e
    <2>2. DiskOK(e)  BY <1>2, <2>1 DEF DiskOK
    <2> QED BY <2>2 DEF e
  <1>3. Elsewhere(Fault(d), d)
    <2> DEFINE n == d.trouble + 1
               e == [d EXCEPT !.trouble = n]
    <2>0. n \in Nat /\ Fault(d) = e  BY <1>1 DEF DiskSet, Fault
    <2> HIDE DEF n
    <2>1. e \in DiskSet /\ e.history = d.history /\ e.settings = d.settings /\ e.session = d.session  BY <1>1, <2>0 DEF DiskSet
    <2> HIDE DEF e
    <2>2. Elsewhere(e, d)  BY <2>1 DEF DiskOK, Elsewhere
    <2> QED BY <2>0, <2>2
  <1>4. ASSUME NEW p \in Root, NEW k \in Kinds PROVE Elsewhere([d EXCEPT !.content[p] = k], d)
    <2> DEFINE e == [d EXCEPT !.content[p] = k]
    <2>1. e \in DiskSet /\ e.history = d.history /\ e.settings = d.settings /\ e.session = d.session  BY <1>1 DEF DiskSet
    <2> HIDE DEF e
    <2>2. Elsewhere(e, d)  BY <2>1 DEF DiskOK, Elsewhere
    <2> QED BY <2>2 DEF e
  <1>5. ASSUME NEW p \in Root PROVE Elsewhere([d EXCEPT !.sources[p] = @ + 1], d)
    <2> DEFINE n == d.sources[p] + 1
               e == [d EXCEPT !.sources[p] = n]
    <2>0. n \in Nat /\ [d EXCEPT !.sources[p] = @ + 1] = e  BY <1>1 DEF DiskSet
    <2> HIDE DEF n
    <2>1. e \in DiskSet /\ e.history = d.history /\ e.settings = d.settings /\ e.session = d.session
      BY <1>1, <2>0 DEF DiskSet
    <2> HIDE DEF e
    <2>2. Elsewhere(e, d)  BY <2>1 DEF DiskOK, Elsewhere
    <2> QED BY <2>0, <2>2
  <1>6. ASSUME NEW p \in Root, NEW f \in PresetFiles PROVE Elsewhere([d EXCEPT !.presets[p] = f], d)
    <2> DEFINE e == [d EXCEPT !.presets[p] = f]
    <2>1. e \in DiskSet /\ e.history = d.history /\ e.settings = d.settings /\ e.session = d.session  BY <1>1 DEF DiskSet
    <2> HIDE DEF e
    <2>2. Elsewhere(e, d)  BY <2>1 DEF DiskOK, Elsewhere
    <2> QED BY <2>2 DEF e
  <1>7. ASSUME NEW dir \in Places, NEW list \in TargetLists PROVE Elsewhere([d EXCEPT !.targets[dir] = list], d)
    <2> DEFINE e == [d EXCEPT !.targets[dir] = list]
    <2>1. e \in DiskSet /\ e.history = d.history /\ e.settings = d.settings /\ e.session = d.session  BY <1>1 DEF DiskSet
    <2> HIDE DEF e
    <2>2. Elsewhere(e, d)  BY <2>1 DEF DiskOK, Elsewhere
    <2> QED BY <2>2 DEF e
  <1>8. ASSUME NEW p \in Root, NEW s \in [dir : DirsOf[p], backend : Backends] \cup {Bad}
        PROVE Elsewhere([d EXCEPT !.settings[p] = s], d)
    <2> DEFINE e == [d EXCEPT !.settings[p] = s]
    <2>1. s \in SettingsSet \cup {Bad}  BY Names DEF SettingsSet
    <2>2. e \in DiskSet /\ e.history = d.history /\ e.session = d.session  BY <1>1, <2>1 DEF DiskSet
    <2>3. e.settings = [d.settings EXCEPT ![p] = s] /\ d.settings \in [Root -> SettingsSet \cup {Bad}]
      BY <1>1 DEF DiskSet
    <2> HIDE DEF e
    <2>4. \A q \in Root : e.settings[q] # Bad => e.settings[q].dir \in DirsOf[q]
      BY <2>3 DEF DiskOK
    <2>5. Elsewhere(e, d)  BY <2>2, <2>4 DEF DiskOK, Elsewhere
    <2> QED BY <2>5 DEF e
  <1> QED BY <1>2, <1>3, <1>4, <1>5, <1>6, <1>7, <1>8

\* A directory that becomes a project and has its settings.
LEMMA CreatedOK ==
  ASSUME NEW d, DiskOK(d), NEW p \in Root, NEW dir \in DirsOf[p]
  PROVE  Elsewhere([d EXCEPT !.content[p] = "project", !.settings[p] = [dir |-> dir, backend |-> "gdb-mi"]], d)
  <1> DEFINE s == [dir |-> dir, backend |-> "gdb-mi"]
             e == [d EXCEPT !.content[p] = "project"]
  <1>1. s \in [dir : DirsOf[p], backend : Backends] \cup {Bad} /\ "project" \in Kinds
    BY DEF Backends, Kinds
  <1>2. Elsewhere(e, d)  BY <1>1, DiskWith
  <1>3. d \in DiskSet /\ e \in DiskSet  BY <1>2 DEF Elsewhere, DiskOK
  <1> HIDE DEF s
  <1>4. [d EXCEPT !.content[p] = "project", !.settings[p] = s] = [e EXCEPT !.settings[p] = s]
    BY <1>3 DEF DiskSet
  <1> HIDE DEF e
  <1>5. Elsewhere([e EXCEPT !.settings[p] = s], e)  BY <1>1, <1>2, DiskWith DEF Elsewhere
  <1>6. Elsewhere([e EXCEPT !.settings[p] = s], d)
    <2> DEFINE f == [e EXCEPT !.settings[p] = s]
    <2>1. Elsewhere(f, e)  BY <1>5
    <2> HIDE DEF f
    <2>2. Elsewhere(f, d)  BY <1>2, <2>1 DEF Elsewhere
    <2> QED BY <2>2 DEF f
  <1> QED BY <1>4, <1>6 DEF s

\* A disk with another session file, of what belongs to its project.
LEMMA DiskWithSession ==
  ASSUME NEW d, DiskOK(d), NEW p \in Root, NEW dir \in DirsOf[p], NEW s \in SessionSet \cup {None, Bad},
         Stored(s).marks \subseteq NearMarks[p], Paired(Stored(s))
  PROVE  LET e == [d EXCEPT !.session[dir] = s]
         IN DiskOK(e) /\ e.history = d.history /\ e.session = [d.session EXCEPT ![dir] = s] /\ e.session[dir] = s
  <1> DEFINE e == [d EXCEPT !.session[dir] = s]
  <1>1. d \in DiskSet /\ dir \in Dirs  BY Names DEF DiskOK
  <1>2. /\ e \in DiskSet /\ e.history = d.history /\ e.settings = d.settings
        /\ e.session = [d.session EXCEPT ![dir] = s] /\ d.session \in [Dirs -> SessionSet \cup {None, Bad}]
    BY <1>1 DEF DiskSet
  <1> HIDE DEF e
  <1>3. ASSUME NEW q \in Root, NEW f \in DirsOf[q]
        PROVE  Stored(e.session[f]).marks \subseteq NearMarks[q] /\ Paired(Stored(e.session[f]))
    <2>1. CASE f = dir
      <3>1. NearMarks[q] = NearMarks[p]  BY <2>1, NearTyped
      <3>2. e.session[f] = s  BY <1>1, <1>2, <2>1
      <3> QED BY <3>1, <3>2
    <2>2. CASE f # dir
      <3>1. e.session[f] = d.session[f]  BY <1>2, <2>2, Names
      <3> QED BY <3>1 DEF DiskOK
    <2> QED BY <2>1, <2>2
  <1>4. DiskOK(e)  BY <1>2, <1>3 DEF DiskOK
  <1>5. e.session[dir] = s  BY <1>1, <1>2
  <1> QED BY <1>2, <1>4, <1>5 DEF e

\* The window differs in nothing but in being dirty.
Like(j, i) ==
  /\ j.root = i.root /\ j.dir = i.dir /\ j.backend = i.backend /\ j.model = i.model
  /\ j.cmake = i.cmake /\ j.dirty \in BOOLEAN

\* A window with another mark of being dirty.
LEMMA IdeDirty ==
  ASSUME NEW i, IdeOK(i), NEW j, j = [i EXCEPT !.dirty = TRUE] \/ j = [i EXCEPT !.dirty = FALSE]
  PROVE  /\ IdeOK(j) /\ Like(j, i) /\ CurrentSession(j) = CurrentSession(i)
         /\ j = [i EXCEPT !.dirty = TRUE] => j.dirty
  <1>1. i \in IdeSet  BY DEF IdeOK
  <1>2. /\ j \in IdeSet /\ j.root = i.root /\ j.dir = i.dir /\ j.backend = i.backend /\ j.model = i.model
        /\ j.cmake = i.cmake /\ (j = [i EXCEPT !.dirty = TRUE] => j.dirty)
    BY <1>1 DEF IdeSet
  <1>3. IdeOK(j)  BY <1>2 DEF IdeOK
  <1>4. CurrentSession(j) = CurrentSession(i)  BY <1>2 DEF CurrentSession, ModelOf
  <1>5. j.dirty \in BOOLEAN  BY <1>2 DEF IdeSet
  <1> QED BY <1>2, <1>3, <1>4, <1>5 DEF Like

\* What has just been saved would be brought back.
LEMMA SameWeaker ==
  ASSUME NEW d, NEW i, Same(d, i, FALSE, FALSE), NEW moved \in BOOLEAN, NEW forgot \in BOOLEAN
  PROVE  Same(d, i, moved, forgot)
  BY DEF Same

\* saveDebugState() leaves a session file as before or with all that the window shows.
LEMMA SavedOK ==
  ASSUME NEW d, DiskOK(d), NEW i, IdeOK(i), NEW o \in SaveDebugState(d, i)
  PROVE  /\ DiskOK(o[1]) /\ IdeOK(o[2]) /\ Same(o[1], o[2], FALSE, FALSE)
         /\ o[1].history = d.history /\ Like(o[2], i)
  <1>1. CASE i.root = None
    <2>1. o = <<d, [i EXCEPT !.dirty = FALSE]>>  BY <1>1 DEF SaveDebugState
    <2>2. o[1] = d /\ o[2] = [i EXCEPT !.dirty = FALSE]  BY <2>1
    <2>3. IdeOK(o[2]) /\ Like(o[2], i)  BY <2>2, IdeDirty
    <2> QED BY <1>1, <2>2, <2>3 DEF Same, Like
  <1>2. CASE i.root # None
    <2> DEFINE s == CurrentSession(i)
    <2>1. i.root \in Root /\ i.dir \in DirsOf[i.root]  BY <1>2, ModelTyped
    <2>2. s \in SessionSet /\ Paired(s) /\ s.marks \subseteq NearMarks[i.root] /\ Stored(s) = s
      BY <1>2, CurrentTyped, ModelTyped, StoredTyped
    <2> HIDE DEF s
    <2>3. CASE o = <<[d EXCEPT !.session[i.dir] = s], [i EXCEPT !.dirty = FALSE]>>
      <3>1. o[1] = [d EXCEPT !.session[i.dir] = s] /\ o[2] = [i EXCEPT !.dirty = FALSE]  BY <2>3
      <3>2. DiskOK(o[1]) /\ o[1].history = d.history /\ o[1].session[i.dir] = s
        BY <2>1, <2>2, <3>1, DiskWithSession
      <3>3. IdeOK(o[2]) /\ Like(o[2], i) /\ CurrentSession(o[2]) = s
        BY <3>1, IdeDirty DEF s
      <3>4. Same(o[1], o[2], FALSE, FALSE)
        <4>1. Stored(o[1].session[o[2].dir]) = CurrentSession(o[2])  BY <2>2, <3>2, <3>3 DEF Like
        <4> QED BY <4>1 DEF Same
      <3> QED BY <3>2, <3>3, <3>4
    <2>4. CASE o = <<Fault(d), [i EXCEPT !.dirty = TRUE]>>
      <3>1. o[1] = Fault(d) /\ o[2] = [i EXCEPT !.dirty = TRUE]  BY <2>4
      <3>2. o[1].history = d.history
        <4>1. d \in DiskSet  BY DEF DiskOK
        <4> QED BY <3>1, <4>1 DEF Fault, DiskSet
      <3>3. IdeOK(o[2]) /\ Like(o[2], i) /\ o[2].dirty  BY <3>1, IdeDirty
      <3>4. DiskOK(o[1])  BY <3>1, DiskWith DEF Elsewhere
      <3> QED BY <3>2, <3>3, <3>4 DEF Same
    <2>5. o \in {<<[d EXCEPT !.session[i.dir] = s], [i EXCEPT !.dirty = FALSE]>>,
                 <<Fault(d), [i EXCEPT !.dirty = TRUE]>>}
      BY <1>2 DEF SaveDebugState, s
    <2> QED BY <2>3, <2>4, <2>5
  <1> QED BY <1>1, <1>2

\* saveDebugStateIfDirty() keeps what was already as saved.
LEMMA SavedIfDirtyOK ==
  ASSUME NEW d, DiskOK(d), NEW i, IdeOK(i), NEW o \in SaveIfDirty(d, i)
  PROVE  /\ DiskOK(o[1]) /\ IdeOK(o[2]) /\ o[1].history = d.history /\ Like(o[2], i)
         /\ \A moved, forgot \in BOOLEAN : Same(d, i, moved, forgot) => Same(o[1], o[2], moved, forgot)
  <1>1. CASE i.dirty /\ i.root # None
    <2>1. o \in SaveDebugState(d, i)  BY <1>1 DEF SaveIfDirty
    <2> QED BY <2>1, SavedOK, SameWeaker
  <1>2. CASE ~(i.dirty /\ i.root # None)
    <2>1. o = <<d, i>>  BY <1>2 DEF SaveIfDirty
    <2>2. o[1] = d /\ o[2] = i  BY <2>1
    <2>3. i.dirty \in BOOLEAN  BY DEF IdeOK, IdeSet
    <2> QED BY <2>2, <2>3 DEF Like
  <1> QED BY <1>1, <1>2

----------------------------------------------------------------------------
(* Opening and closing *)

\* A change of backend takes the model with it.
LEMMA ConfigureOK ==
  ASSUME NEW i, IdeOK(i), NEW backend \in Backends
  PROVE  LET j == Configure(i, backend)
         IN /\ IdeOK(j) /\ j.root = i.root /\ j.dir = i.dir /\ j.cmake = i.cmake /\ j.dirty = i.dirty
            /\ j.backend = backend /\ CurrentSession(j) = CurrentSession(i)
  <1> DEFINE j == Configure(i, backend)
  <1>1. i \in IdeSet /\ i.backend \in Backends  BY DEF IdeOK, IdeSet
  <1>2. CASE backend = i.backend
    BY <1>2 DEF Configure
  <1>3. CASE backend # i.backend
    <2>1. j = [i EXCEPT !.model[backend] = i.model[i.backend], !.backend = backend]
      BY <1>3 DEF Configure
    <2>2. /\ j \in IdeSet /\ j.root = i.root /\ j.dir = i.dir /\ j.cmake = i.cmake /\ j.dirty = i.dirty
          /\ j.backend = backend /\ j.model = [i.model EXCEPT ![backend] = i.model[i.backend]]
      BY <1>1, <2>1 DEF IdeSet
    <2> HIDE DEF j
    <2>3. i.model \in [Backends -> ModelSet]  BY <1>1 DEF IdeSet
    <2>4. /\ j.model[backend] = i.model[i.backend]
          /\ \A b \in Backends : j.model[b] = i.model[b] \/ j.model[b] = i.model[i.backend]
      BY <2>2, <2>3
    <2>5. IdeOK(j)
      <3>1. \A b \in Backends : j.model[b].marks \subseteq (IF i.root = None THEN {} ELSE NearMarks[i.root])
        BY <1>1, <2>4 DEF IdeOK
      <3> QED BY <2>2, <3>1 DEF IdeOK
    <2>6. CurrentSession(j) = CurrentSession(i)
      BY <2>2, <2>4 DEF CurrentSession, ModelOf
    <2> QED BY <2>2, <2>5, <2>6 DEF j
  <1> QED BY <1>2, <1>3

\* j is the window with another project, build directory and selection.
Become(j, i, root, dir, c) == j = [i EXCEPT !.root = root, !.dir = dir, !.cmake = c]

\* It is one if nothing of another project is in it.
LEMMA IdeWith ==
  ASSUME NEW i, IdeOK(i), NEW root \in Root, NEW dir \in DirsOf[root], NEW c, CMakeOK(c), c.dir \in Places,
         root = i.root \/ \A b \in Backends : i.model[b].marks = {},
         NEW j, Become(j, i, root, dir, c)
  PROVE  /\ IdeOK(j) /\ j.root = root /\ j.dir = dir /\ j.cmake = c /\ j.backend = i.backend
         /\ j.model = i.model /\ j.dirty = i.dirty
  <1>1. i \in IdeSet /\ c \in CMakeSet  BY DEF IdeOK, CMakeOK
  <1>2. dir \in Dirs /\ root # None  BY Names
  <1>3. /\ j \in IdeSet /\ j.root = root /\ j.dir = dir /\ j.cmake = c /\ j.backend = i.backend
        /\ j.model = i.model /\ j.dirty = i.dirty
    BY <1>1, <1>2 DEF IdeSet, Become
  <1>4. \A b \in Backends : j.model[b].marks \subseteq NearMarks[root]
    BY <1>2, <1>3 DEF IdeOK
  <1>5. IdeOK(j)  BY <1>2, <1>3, <1>4 DEF IdeOK
  <1> QED BY <1>3, <1>5

\* Both models and the selection are empty after a project is closed.
Empty(i) ==
  /\ i.root = None /\ i.dirty = FALSE /\ i.model = [b \in Backends |-> NoModel]

\* unloadProject() leaves nothing of the project in the window.
LEMMA UnloadedOK ==
  ASSUME NEW i, IdeOK(i)
  PROVE  IdeOK(Unloaded(i)) /\ Empty(Unloaded(i))
  <1> DEFINE cleared == ClearSessionState(i)
             k == Configure(cleared, "gdb-mi")
             none == [b \in Backends |-> NoModel]
             j == [k EXCEPT !.root = None, !.dir = None, !.cmake = CMakeReset(None), !.dirty = FALSE]
  <1>1. i \in IdeSet /\ i.cmake \in CMakeSet  BY DEF IdeOK, CMakeOK
  <1>2. NoModel \in ModelSet /\ NoModel.marks = {} /\ "gdb-mi" \in Backends
    BY DEF NoModel, ModelSet, Backends
  <1>3. none \in [Backends -> ModelSet] /\ \A b \in Backends : none[b] = NoModel
    BY <1>2
  <1>4. cleared \in IdeSet /\ cleared.model = none /\ cleared.backend = i.backend
    <2>1. cleared = [i EXCEPT !.model = none]  BY DEF ClearSessionState
    <2> HIDE DEF cleared, none
    <2> QED BY <1>1, <1>3, <2>1 DEF IdeSet
  <1> HIDE DEF cleared
  <1>5. k \in IdeSet /\ k.model = none
    <2>1. CASE cleared.backend = "gdb-mi"
      <3>1. k = cleared  BY <2>1 DEF Configure
      <3> QED BY <1>4, <3>1
    <2>2. CASE cleared.backend # "gdb-mi"
      <3>1. k = [cleared EXCEPT !.model["gdb-mi"] = cleared.model[cleared.backend], !.backend = "gdb-mi"]
        BY <2>2 DEF Configure
      <3>2. cleared.backend \in Backends  BY <1>4 DEF IdeSet
      <3>3. cleared.model[cleared.backend] = NoModel  BY <1>3, <1>4, <3>2
      <3>4. [none EXCEPT !["gdb-mi"] = NoModel] = none
        BY <1>2
      <3> HIDE DEF none, k
      <3>5. k.model = [none EXCEPT !["gdb-mi"] = NoModel]
        BY <1>4, <3>1, <3>3 DEF IdeSet
      <3>6. k \in IdeSet
        BY <1>2, <1>4, <3>1, <3>3 DEF IdeSet
      <3> QED BY <3>4, <3>5, <3>6
    <2> QED BY <2>1, <2>2
  <1> HIDE DEF k
  <1>6. CMakeOK(CMakeReset(None)) /\ CMakeReset(None) \in CMakeSet
    BY ResetOK DEF CMakeOK
  <1>7. j \in IdeSet /\ j.root = None /\ j.dir = None /\ j.cmake = CMakeReset(None) /\ j.model = none
    <2> HIDE DEF none
    <2> QED BY <1>5, <1>6 DEF IdeSet
  <1>8. j.dirty = FALSE  BY <1>5 DEF IdeSet
  <1>9. Unloaded(i) = j  BY DEF Unloaded, cleared, k
  <1> HIDE DEF j
  <1>10. \A b \in Backends : j.model[b].marks = {}  BY <1>2, <1>3, <1>7
  <1>11. IdeOK(j)  BY <1>6, <1>7, <1>10 DEF IdeOK
  <1> QED BY <1>7, <1>8, <1>9, <1>11 DEF Empty

\* A project is closed with its session saved or not.
LEMMA UnloadOK ==
  ASSUME NEW d, DiskOK(d), NEW i, IdeOK(i), NEW o \in UnloadProject(d, i)
  PROVE  DiskOK(o[1]) /\ IdeOK(o[2]) /\ Empty(o[2]) /\ o[1].history = d.history
  <1>1. PICK s \in SaveIfDirty(d, i) : o = <<s[1], Unloaded(s[2])>>  BY DEF UnloadProject
  <1>2. o[1] = s[1] /\ o[2] = Unloaded(s[2])  BY <1>1
  <1>3. DiskOK(s[1]) /\ IdeOK(s[2]) /\ s[1].history = d.history  BY SavedIfDirtyOK
  <1> QED BY <1>2, <1>3, UnloadedOK

\* loadDebugState() brings back what the session file holds, and nothing else.
LEMMA LoadDebugStateOK ==
  ASSUME NEW d, DiskOK(d), NEW i, IdeOK(i), i.root # None, i.cmake = CMakeReset(i.dir),
         \A b \in Backends : i.model[b] = NoModel
  PROVE  LET j == LoadDebugState(d, i) IN IdeOK(j) /\ Same(d, j, FALSE, FALSE)
  <1> DEFINE j == LoadDebugState(d, i)
             stored == d.session[i.dir]
             session == Stored(stored)
  <1>1. /\ i \in IdeSet /\ i.backend \in Backends /\ i.root \in Root /\ i.dir \in DirsOf[i.root]
        /\ i.dir \in Dirs
    BY ModelTyped DEF IdeOK
  <1>2. d \in DiskSet /\ stored \in SessionSet \cup {None, Bad} /\ d.presets[i.root] \in PresetFiles
    BY <1>1 DEF DiskOK, DiskSet
  <1>3. session \in SessionSet /\ session.marks \subseteq NearMarks[i.root] /\ Paired(session)
    BY <1>1, <1>2, StoredTyped DEF DiskOK
  <1>4. NoModel.marks = {} /\ NoModel.registers = FALSE  BY DEF NoModel
  <1>5. CASE stored = Bad
    <2>1. j = i  BY <1>5 DEF LoadDebugState
    <2>2. session = NoSession  BY <1>5, StoredTyped
    <2>3. ModelOf(i) = NoModel  BY <1>1 DEF ModelOf
    <2>4. CurrentSession(i) = NoSession
      <3>1. i.cmake.preferred = None /\ i.cmake.cpreset = None /\ i.cmake.bpreset = None
        BY DEF CMakeReset
      <3>2. ModelOf(i).marks = {} /\ ModelOf(i).registers = FALSE  BY <1>4, <2>3
      <3> QED BY <3>1, <3>2, Zenon DEF CurrentSession, NoSession
    <2>5. Same(d, i, FALSE, FALSE)  BY <2>2, <2>4 DEF Same
    <2> QED BY <2>1, <2>5
  <1>6. CASE stored # Bad
    <2> DEFINE restored == RestoreSelection(i.cmake, session)
               c == RefreshPresets(restored, d.presets[i.root], i.dir)
               m == [marks |-> session.marks, registers |-> session.registers]
               k == [i EXCEPT !.model[i.backend] = m, !.cmake = c]
    <2>1. CMakeOK(i.cmake) /\ i.cmake.targets = <<>> /\ i.cmake.dir = i.dir
      BY DEF IdeOK, CMakeReset
    <2>2. /\ restored \in CMakeSet /\ restored.targets = <<>> /\ restored.selected = 0
          /\ restored.cpreset = session.cpreset /\ restored.bpreset = session.bpreset
          /\ restored.preferred = session.target
      <3> HIDE DEF session
      <3> QED BY <1>3, <2>1 DEF RestoreSelection, CMakeOK, CMakeSet, SessionSet
    <2> HIDE DEF restored
    <2>3. CMakeOK(restored)
      <3>1. \A e : e = <<>> => Len(e) = 0  OBVIOUS
      <3>2. restored.selected \in 0..Len(restored.targets)  BY <2>2, <3>1
      <3>3. (restored.selected = 0) = (restored.targets = <<>>)  BY <2>2, Zenon
      <3>4. Paired(restored)
        <4> HIDE DEF session
        <4> QED BY <1>3, <2>2 DEF Paired
      <3> QED BY <2>2, <3>2, <3>3, <3>4 DEF CMakeOK
    <2>4. /\ CMakeOK(c) /\ c.dir \in Places /\ c.cpreset = session.cpreset /\ c.bpreset = session.bpreset
          /\ c.preferred = session.target
      BY <1>1, <1>2, <2>2, <2>3, RefreshedOK
    <2>5. m = [marks |-> i.model[i.backend].marks \cup session.marks, registers |-> session.registers]
      BY <1>1, <1>4
    <2>6. j = k
      BY <1>6, <2>5 DEF LoadDebugState, restored
    <2>7. m \in ModelSet /\ m.marks = session.marks /\ m.registers = session.registers
      <3> HIDE DEF session
      <3> QED BY <1>3 DEF SessionSet, ModelSet
    <2> HIDE DEF c, m, session
    <2>8. /\ k \in IdeSet /\ k.root = i.root /\ k.dir = i.dir /\ k.backend = i.backend /\ k.cmake = c
          /\ k.model = [i.model EXCEPT ![i.backend] = m] /\ i.model \in [Backends -> ModelSet]
      BY <1>1, <2>4, <2>7 DEF IdeSet, CMakeOK
    <2> HIDE DEF k, j
    <2>9. k.model[i.backend] = m /\ \A b \in Backends : k.model[b] = m \/ k.model[b] = i.model[b]
      BY <1>1, <2>8
    <2>10. \A b \in Backends : k.model[b].marks \subseteq NearMarks[i.root]
      BY <1>3, <2>7, <2>9 DEF IdeOK
    <2>11. IdeOK(k)  BY <2>4, <2>8, <2>10 DEF IdeOK
    <2>12. /\ CurrentSession(k).marks = session.marks /\ CurrentSession(k).registers = session.registers
           /\ CurrentSession(k).target = session.target /\ CurrentSession(k).cpreset = session.cpreset
           /\ CurrentSession(k).bpreset = session.bpreset
      <3>1. ModelOf(k) = m  BY <2>8, <2>9 DEF ModelOf
      <3> QED BY <2>4, <2>7, <2>8, <3>1, CurrentTyped, <2>11
    <2>13. Stored(d.session[k.dir]) = session  BY <2>8 DEF session
    <2>14. Same(d, k, FALSE, FALSE)  BY <2>12, <2>13 DEF Same
    <2> QED BY <2>6, <2>11, <2>14 DEF j
  <1> QED BY <1>5, <1>6

\* The list after p was opened, whether it could be written or not.
Recalled(h, history, p) ==
  \E e : e.history = history /\ (h = Remembered(e, p) \/ h = e.history)

\* A loaded project has its own session, and is at the head of the list if that could be written.
LEMMA LoadedOK ==
  ASSUME NEW d, DiskOK(d), NEW i, IdeOK(i), NEW p \in Root, NEW dir0 \in DirsOf[p] \cup {None},
         NEW o \in LoadProject(d, i, p, dir0)
  PROVE  /\ DiskOK(o[1]) /\ IdeOK(o[2]) /\ Same(o[1], o[2], FALSE, FALSE)
         /\ Recalled(o[1].history, d.history, p)
  <1> DEFINE settings == LoadedSettings(d, p)
             dir == IF dir0 = None THEN settings.dir ELSE dir0
             Bare(j) == [j EXCEPT !.root = p, !.dir = dir, !.cmake = CMakeReset(dir)]
             Opened(j) == Configure(Bare(j), settings.backend)
  <1>1. settings.dir \in DirsOf[p] /\ settings.backend \in Backends
    <2>1. CASE d.settings[p] = Bad
      <3>1. settings = [dir |-> DefaultDir[p], backend |-> "gdb-mi"]  BY <2>1 DEF LoadedSettings
      <3> QED BY <3>1, Names DEF Backends
    <2>2. CASE d.settings[p] # Bad
      <3>1. settings = d.settings[p]  BY <2>2 DEF LoadedSettings
      <3>2. d.settings[p] \in SettingsSet  BY <2>2 DEF DiskOK, DiskSet
      <3> QED BY <2>2, <3>1, <3>2 DEF DiskOK, SettingsSet
    <2> QED BY <2>1, <2>2
  <1> HIDE DEF settings
  <1>2. dir \in DirsOf[p] /\ dir \in Dirs /\ dir \in Places  BY <1>1, Names
  <1> HIDE DEF dir
  <1>3. \E s \in UnloadProject(d, i) : \E kept \in RememberRecentProject(s[1], p) :
          o = <<kept, LoadDebugState(s[1], Opened(s[2]))>>
    BY DEF LoadProject, settings, dir
  <1>4. PICK s \in UnloadProject(d, i) : \E kept \in RememberRecentProject(s[1], p) :
          o = <<kept, LoadDebugState(s[1], Opened(s[2]))>>
    BY <1>3
  <1>5. PICK kept \in RememberRecentProject(s[1], p) : o = <<kept, LoadDebugState(s[1], Opened(s[2]))>>
    BY <1>4
  <1>6. o[1] = kept /\ o[2] = LoadDebugState(s[1], Opened(s[2]))  BY <1>5
  <1>7. DiskOK(s[1]) /\ IdeOK(s[2]) /\ Empty(s[2]) /\ s[1].history = d.history  BY UnloadOK
  <1>70. PICK u : u = s[2]  OBVIOUS
  <1> DEFINE e == s[1]
             b == Bare(u)
             j == Opened(u)
  <1>8. \A x \in Backends : u.model[x] = NoModel /\ u.model[x].marks = {}
    <2>1. u.model = [x \in Backends |-> NoModel]  BY <1>7, <1>70 DEF Empty
    <2> QED BY <2>1 DEF NoModel
  <1>9. CMakeOK(CMakeReset(dir)) /\ CMakeReset(dir).dir = dir  BY <1>2, ResetOK
  <1>10. /\ IdeOK(b) /\ b.root = p /\ b.dir = dir /\ b.cmake = CMakeReset(dir) /\ b.model = u.model
    <2> DEFINE c == CMakeReset(dir)
    <2>1. CMakeOK(c) /\ c.dir \in Places  BY <1>2, <1>9
    <2> HIDE DEF c
    <2>2. \A x \in Backends : u.model[x].marks = {}  BY <1>8
    <2>3. Become(b, u, p, dir, c)  BY DEF Become, c
    <2> HIDE DEF b
    <2>4. IdeOK(b) /\ b.root = p /\ b.dir = dir /\ b.cmake = c /\ b.model = u.model
      BY <1>2, <1>7, <1>70, <2>1, <2>2, <2>3, IdeWith
    <2> QED BY <2>4 DEF c
  <1>11. b.backend \in Backends  BY <1>10 DEF IdeOK, IdeSet
  <1> HIDE DEF Bare
  <1>12. IdeOK(j) /\ j.root = p /\ j.dir = dir /\ j.cmake = CMakeReset(dir)
    BY <1>1, <1>10, ConfigureOK
  <1>13. \A x \in Backends : j.model[x] = NoModel
    <2> HIDE DEF b
    <2>1. CASE settings.backend = b.backend
      <3>1. j = b  BY <2>1 DEF Configure, b
      <3> QED BY <1>8, <1>10, <3>1
    <2>2. CASE settings.backend # b.backend
      <3>1. j = [b EXCEPT !.model[settings.backend] = b.model[b.backend], !.backend = settings.backend]
        BY <2>2 DEF Configure, b
      <3>2. b \in IdeSet  BY <1>10 DEF IdeOK
      <3>3. j.model = [b.model EXCEPT ![settings.backend] = b.model[b.backend]] /\ b.model \in [Backends -> ModelSet]
        <4> HIDE DEF j
        <4> QED BY <3>1, <3>2 DEF IdeSet
      <3> HIDE DEF j
      <3> QED BY <1>8, <1>10, <1>11, <3>3
    <2> QED BY <2>1, <2>2
  <1> HIDE DEF Opened, b
  <1>14. p # None  BY Names
  <1>15. IdeOK(o[2]) /\ Same(e, o[2], FALSE, FALSE)
    BY <1>6, <1>7, <1>70, <1>12, <1>13, <1>14, LoadDebugStateOK
  <1>16. e \in DiskSet /\ e.history \in Seq(Root)  BY <1>7 DEF DiskOK, DiskSet
  <1>17. /\ DiskOK(kept) /\ kept.session = e.session
         /\ kept.history = Remembered(e, p) \/ kept.history = e.history
    <2>1. CASE kept = [e EXCEPT !.history = Remembered(e, p)]
      <3>1. Remembered(e, p) \in Seq(Root) /\ Len(Remembered(e, p)) <= Limit  BY <1>16, RememberedFirst
      <3>2. DiskOK(kept)  BY <1>7, <2>1, <3>1, DiskWith
      <3> HIDE DEF e
      <3> QED BY <1>16, <2>1, <3>2 DEF DiskSet
    <2>2. CASE kept = Fault(e)
      <3>1. DiskOK(kept)  BY <1>7, <2>2, DiskWith DEF Elsewhere
      <3> HIDE DEF e
      <3> QED BY <1>16, <2>2, <3>1 DEF Fault, DiskSet
    <2> QED BY <2>1, <2>2 DEF RememberRecentProject
  <1>18. Same(o[1], o[2], FALSE, FALSE)  BY <1>6, <1>15, <1>17 DEF Same
  <1>19. Recalled(o[1].history, d.history, p)  BY <1>6, <1>7, <1>17 DEF Recalled
  <1> QED BY <1>6, <1>15, <1>17, <1>18, <1>19

----------------------------------------------------------------------------
(* The commands *)

\* The window is the same, with another selection that is one of its project.
LEMMA WithCMake ==
  ASSUME NEW i, IdeOK(i), i.root # None, NEW c, CMakeOK(c), c.dir \in Places
  PROVE  LET j == [i EXCEPT !.cmake = c]
         IN /\ IdeOK(j) /\ j.root = i.root /\ j.dir = i.dir /\ j.dirty = i.dirty /\ j.cmake = c
            /\ CurrentSession(j).marks = CurrentSession(i).marks
            /\ CurrentSession(j).registers = CurrentSession(i).registers
            /\ CurrentSession(j).target = c.preferred
            /\ CurrentSession(j).cpreset = c.cpreset /\ CurrentSession(j).bpreset = c.bpreset
  <1> DEFINE j == [i EXCEPT !.cmake = c]
  <1>1. i \in IdeSet /\ c \in CMakeSet  BY DEF IdeOK, CMakeOK
  <1>2. /\ j \in IdeSet /\ j.root = i.root /\ j.dir = i.dir /\ j.backend = i.backend /\ j.model = i.model
        /\ j.cmake = c /\ j.dirty = i.dirty
    BY <1>1 DEF IdeSet
  <1> HIDE DEF j
  <1>3. IdeOK(j)  BY <1>2 DEF IdeOK
  <1>4. /\ CurrentSession(j).marks = CurrentSession(i).marks
        /\ CurrentSession(j).registers = CurrentSession(i).registers
        /\ CurrentSession(j).target = c.preferred
        /\ CurrentSession(j).cpreset = c.cpreset /\ CurrentSession(j).bpreset = c.bpreset
    BY <1>2 DEF CurrentSession, ModelOf
  <1> QED BY <1>2, <1>3, <1>4 DEF j

\* What a step must give for the invariant to hold after it. No build was started.
LEMMA Stepped ==
  ASSUME NEW o, Step(o), DiskOK(o[1]), IdeOK(o[2]), Same(o[1], o[2], log'.moved, log'.forgot),
         log' \in LogSet, plan' \in [project : Root, sources : Nat] \cup {None},
         Recent(o[1].history, log'.opened), \A i \in log'.imported : i.listed = i.found
  PROVE  IInv'
  <1>1. disk' = o[1] /\ ide' = o[2] /\ build' = None  BY DEF Step, StepBuilding
  <1>2. DiskOK(disk)' /\ IdeOK(ide)' /\ SessionSaved'  BY <1>1 DEF SessionSaved
  <1>3. Recent(disk.history, log.opened)' /\ BuildAsSelected'  BY <1>1 DEF BuildAsSelected
  <1>4. ImportIsCurrent'  BY DEF ImportIsCurrent
  <1> QED BY <1>2, <1>3, <1>4 DEF IInv

\* The same for a step that opens no project and does not change the list.
LEMMA SteppedAside ==
  ASSUME IInv, NEW o, Step(o), DiskOK(o[1]), IdeOK(o[2]), o[1].history = disk.history,
         Same(o[1], o[2], log'.moved, log'.forgot),
         NEW moved \in BOOLEAN, NEW forgot \in BOOLEAN,
         log' = log \/ log' = [log EXCEPT !.moved = moved, !.forgot = forgot],
         plan' \in [project : Root, sources : Nat] \cup {None}
  PROVE  IInv'
  <1>1. log \in LogSet /\ Recent(disk.history, log.opened) /\ \A i \in log.imported : i.listed = i.found
    BY DEF IInv, ImportIsCurrent
  <1>2. log' \in LogSet /\ log'.opened = log.opened /\ log'.imported = log.imported
    BY <1>1 DEF LogSet
  <1> QED BY <1>1, <1>2, Stepped

\* The flags of the log after a step that may have saved the session.
LEMMA LogSavedOK ==
  ASSUME IInv, log' = LogSaved
  PROVE  /\ log' = log \/ log' = [log EXCEPT !.moved = FALSE, !.forgot = FALSE]
         /\ log'.moved \in BOOLEAN /\ log'.forgot \in BOOLEAN
  <1>1. log \in LogSet  BY DEF IInv
  <1>2. log' = log \/ log' = [log EXCEPT !.moved = FALSE, !.forgot = FALSE]  BY DEF LogSaved
  <1>3. log' \in LogSet  BY <1>1, <1>2 DEF LogSet
  <1> QED BY <1>2, <1>3 DEF LogSet

\* A command that ends by saving the session.
LEMMA SteppedSaving ==
  ASSUME IInv, NEW i, IdeOK(i), NEW o \in SaveDebugState(disk, i), Step(o), log' = LogSaved, UNCHANGED plan
  PROVE  IInv'
  <1>1. DiskOK(disk) /\ plan \in [project : Root, sources : Nat] \cup {None}  BY DEF IInv
  <1>2. DiskOK(o[1]) /\ IdeOK(o[2]) /\ Same(o[1], o[2], FALSE, FALSE) /\ o[1].history = disk.history
    BY <1>1, SavedOK
  <1>3. /\ log' = log \/ log' = [log EXCEPT !.moved = FALSE, !.forgot = FALSE]
        /\ log'.moved \in BOOLEAN /\ log'.forgot \in BOOLEAN
    BY LogSavedOK
  <1>4. Same(o[1], o[2], log'.moved, log'.forgot)  BY <1>2, <1>3, SameWeaker
  <1>5. plan' \in [project : Root, sources : Nat] \cup {None}  BY <1>1
  <1> QED BY <1>2, <1>3, <1>4, <1>5, SteppedAside

\* A command that reads the presets or the targets again and keeps the selection.
LEMMA SteppedReading ==
  ASSUME IInv, ide.root # None, NEW c, CMakeOK(c), c.dir \in Places, c.preferred = ide.cmake.preferred,
         c.cpreset = ide.cmake.cpreset, c.bpreset = ide.cmake.bpreset
  PROVE  /\ IdeOK([ide EXCEPT !.cmake = c])
         /\ Same(disk, [ide EXCEPT !.cmake = c], log.moved, log.forgot)
         /\ Step(<<disk, [ide EXCEPT !.cmake = c]>>) /\ UNCHANGED <<plan, log>> => IInv'
  <1> DEFINE j == [ide EXCEPT !.cmake = c]
  <1>1. /\ DiskOK(disk) /\ IdeOK(ide) /\ Same(disk, ide, log.moved, log.forgot)
        /\ plan \in [project : Root, sources : Nat] \cup {None}
    BY DEF IInv, SessionSaved
  <1>2. /\ IdeOK(j) /\ j.root = ide.root /\ j.dir = ide.dir /\ j.dirty = ide.dirty
        /\ CurrentSession(j).marks = CurrentSession(ide).marks
        /\ CurrentSession(j).registers = CurrentSession(ide).registers
        /\ CurrentSession(j).target = c.preferred
        /\ CurrentSession(j).cpreset = c.cpreset /\ CurrentSession(j).bpreset = c.bpreset
    BY <1>1, WithCMake
  <1> HIDE DEF j
  <1>3. /\ CurrentSession(ide).target = ide.cmake.preferred
        /\ CurrentSession(ide).cpreset = ide.cmake.cpreset /\ CurrentSession(ide).bpreset = ide.cmake.bpreset
    BY DEF CurrentSession
  <1>4. Same(disk, j, log.moved, log.forgot)  BY <1>1, <1>2, <1>3 DEF Same
  <1>5. ASSUME Step(<<disk, j>>), UNCHANGED <<plan, log>> PROVE IInv'
    <2>1. <<disk, j>>[1] = disk /\ <<disk, j>>[2] = j  OBVIOUS
    <2>2. Same(disk, j, log'.moved, log'.forgot)  BY <1>4, <1>5
    <2>3. log' = log /\ plan' \in [project : Root, sources : Nat] \cup {None}  BY <1>1, <1>5
    <2> QED BY <1>1, <1>2, <1>5, <2>1, <2>2, <2>3, SteppedAside
  <1> QED BY <1>2, <1>4, <1>5 DEF j

\* What a command of an open project finds.
LEMMA OpenProjectFacts ==
  ASSUME IInv, ide.root # None
  PROVE  /\ DiskOK(disk) /\ IdeOK(ide) /\ CMakeOK(ide.cmake) /\ ide.cmake.dir \in Places
         /\ ide.root \in Root /\ ide.dir \in DirsOf[ide.root] /\ ide.dir \in Dirs
         /\ disk.presets[ide.root] \in PresetFiles /\ TargetsOnDisk \in TargetLists
         /\ Same(disk, ide, log.moved, log.forgot)
         /\ plan \in [project : Root, sources : Nat] \cup {None}
         /\ log \in LogSet /\ log.moved \in BOOLEAN /\ log.forgot \in BOOLEAN
  <1>1. DiskOK(disk) /\ IdeOK(ide) /\ log \in LogSet /\ Same(disk, ide, log.moved, log.forgot)
        /\ plan \in [project : Root, sources : Nat] \cup {None}
    BY DEF IInv, SessionSaved
  <1>2. /\ ide.root \in Root /\ ide.dir \in DirsOf[ide.root] /\ ide.dir \in Dirs /\ ide.cmake.dir \in Places
        /\ CMakeOK(ide.cmake)
    BY <1>1, ModelTyped DEF IdeOK
  <1>3. disk.presets[ide.root] \in PresetFiles /\ TargetsOnDisk \in TargetLists
    BY <1>1, <1>2 DEF DiskOK, DiskSet, TargetsOnDisk
  <1>4. log.moved \in BOOLEAN /\ log.forgot \in BOOLEAN  BY <1>1 DEF LogSet
  <1> QED BY <1>1, <1>2, <1>3, <1>4

\* toggleBreakpoint() and its like edit the model of the open project.
LEMMA EditDebugModelStep ==
  ASSUME IInv, EditDebugModel
  PROVE  IInv'
  <1>1. ide.root # None  BY DEF EditDebugModel
  <1>2. DiskOK(disk) /\ IdeOK(ide) /\ ide.root \in Root  BY <1>1, OpenProjectFacts
  <1> DEFINE model == ModelOf(ide)
             Edited(m) == IF m = None THEN [model EXCEPT !.registers = ~@]
                          ELSE [model EXCEPT !.marks = IF m \in @ THEN @ \ {m} ELSE @ \cup {m}]
  <1>3. PICK m \in Marks[ide.root] \cup model.marks \cup {None} :
          \E o \in SaveDebugState(disk, [ide EXCEPT !.model[ide.backend] = Edited(m)]) : Step(o)
    BY DEF EditDebugModel
  <1> DEFINE e == Edited(m)
             j == [ide EXCEPT !.model[ide.backend] = e]
  <1>4. PICK o \in SaveDebugState(disk, j) : Step(o)  BY <1>3
  <1>5. model \in ModelSet /\ model.marks \subseteq NearMarks[ide.root] /\ ide.backend \in Backends
    BY <1>1, <1>2, ModelTyped
  <1>6. e \in ModelSet /\ e.marks \subseteq NearMarks[ide.root]
    <2> HIDE DEF model
    <2>1. CASE m = None
      <3>1. e = [model EXCEPT !.registers = ~@]  BY <2>1
      <3> QED BY <1>5, <3>1 DEF ModelSet
    <2>2. CASE m # None
      <3>1. e = [model EXCEPT !.marks = IF m \in @ THEN @ \ {m} ELSE @ \cup {m}]  BY <2>2
      <3>2. m \in Marks[ide.root] \cup model.marks  BY <1>3, <2>2
      <3>3. m \in NearMarks[ide.root] /\ m \in UNION {Marks[p] : p \in Root}
        BY <1>2, <1>5, <3>2, NearTyped DEF ModelSet
      <3> QED BY <1>5, <3>1, <3>3 DEF ModelSet
    <2> QED BY <2>1, <2>2
  <1> HIDE DEF e
  <1>7. ide \in IdeSet  BY <1>2 DEF IdeOK
  <1>8. /\ j \in IdeSet /\ j.root = ide.root /\ j.dir = ide.dir /\ j.cmake = ide.cmake
        /\ j.model = [ide.model EXCEPT ![ide.backend] = e] /\ ide.model \in [Backends -> ModelSet]
    BY <1>5, <1>6, <1>7 DEF IdeSet
  <1> HIDE DEF j
  <1>9. \A b \in Backends : j.model[b].marks \subseteq NearMarks[ide.root]
    <2>1. \A b \in Backends : j.model[b] = e \/ j.model[b] = ide.model[b]  BY <1>8
    <2> QED BY <1>1, <1>2, <1>6, <2>1 DEF IdeOK
  <1>10. IdeOK(j)  BY <1>1, <1>2, <1>8, <1>9 DEF IdeOK
  <1>11. log' = LogSaved /\ UNCHANGED plan  BY DEF EditDebugModel
  <1> QED BY <1>4, <1>10, <1>11, SteppedSaving

\* The presets are read and one is chosen, or refused.
LEMMA ChoosePresetStep ==
  ASSUME IInv, ide.root # None,
         NEW c, c = RefreshPresets(ide.cmake, disk.presets[ide.root], ide.dir),
         NEW chosen, UNCHANGED plan,
         \/ /\ CMakeOK(chosen) /\ chosen.dir \in Places
            /\ \E o \in SaveDebugState(disk, [[ide EXCEPT !.cmake = c] EXCEPT !.cmake = chosen]) : Step(o)
            /\ log' = LogSaved
         \/ Step(<<disk, [ide EXCEPT !.cmake = c]>>) /\ UNCHANGED log
  PROVE  IInv'
  <1>1. /\ IdeOK(ide) /\ CMakeOK(ide.cmake) /\ ide.dir \in Dirs /\ disk.presets[ide.root] \in PresetFiles
    BY OpenProjectFacts
  <1>2. /\ CMakeOK(c) /\ c.dir \in Places /\ c.preferred = ide.cmake.preferred
        /\ c.cpreset = ide.cmake.cpreset /\ c.bpreset = ide.cmake.bpreset
    BY <1>1, RefreshedOK
  <1>3. CASE Step(<<disk, [ide EXCEPT !.cmake = c]>>) /\ UNCHANGED log
    BY <1>2, <1>3, SteppedReading
  <1>4. CASE /\ CMakeOK(chosen) /\ chosen.dir \in Places
             /\ \E o \in SaveDebugState(disk, [[ide EXCEPT !.cmake = c] EXCEPT !.cmake = chosen]) : Step(o)
             /\ log' = LogSaved
    <2>1. [[ide EXCEPT !.cmake = c] EXCEPT !.cmake = chosen] = [ide EXCEPT !.cmake = chosen]
      BY <1>1 DEF IdeOK, IdeSet
    <2> DEFINE j == [ide EXCEPT !.cmake = chosen]
    <2>2. IdeOK(j)  BY <1>1, <1>4, WithCMake
    <2>3. PICK o \in SaveDebugState(disk, j) : Step(o)  BY <1>4, <2>1
    <2> HIDE DEF j
    <2> QED BY <1>4, <2>2, <2>3, SteppedSaving
  <1> QED BY <1>3, <1>4

\* chooseCMakePreset()
LEMMA SelectCMakePresetStep ==
  ASSUME IInv, NEW name \in ConfigureNames \cup {None}, SelectCMakePreset(name)
  PROVE  IInv'
  <1> DEFINE c == RefreshPresets(ide.cmake, disk.presets[ide.root], ide.dir)
             chosen == SelectConfigurePreset(c, name, ide.dir)
             read == [ide EXCEPT !.cmake = c]
  <1>1. /\ ide.root # None /\ UNCHANGED plan
        /\ \/ /\ CanSelectConfigurePreset(c, name)
              /\ \E o \in SaveDebugState(disk, [read EXCEPT !.cmake = chosen]) : Step(o)
              /\ log' = LogSaved
           \/ Step(<<disk, read>>) /\ UNCHANGED log
    BY DEF SelectCMakePreset, ChoosePreset
  <1>2. /\ IdeOK(ide) /\ CMakeOK(ide.cmake) /\ ide.dir \in Dirs /\ disk.presets[ide.root] \in PresetFiles
    BY <1>1, OpenProjectFacts
  <1>3. CMakeOK(c)  BY <1>2, RefreshedOK
  <1>4. CanSelectConfigurePreset(c, name) => CMakeOK(chosen) /\ chosen.dir \in Places
    <2> HIDE DEF c
    <2> QED BY <1>2, <1>3, SelectConfigureOK
  <1> HIDE DEF chosen
  <1> QED BY <1>1, <1>4, ChoosePresetStep

\* chooseCMakeBuildPreset()
LEMMA SelectCMakeBuildPresetStep ==
  ASSUME IInv, NEW name \in BuildNames \cup {None}, SelectCMakeBuildPreset(name)
  PROVE  IInv'
  <1> DEFINE c == RefreshPresets(ide.cmake, disk.presets[ide.root], ide.dir)
             chosen == SelectBuildPreset(c, name, ide.dir)
             read == [ide EXCEPT !.cmake = c]
  <1>1. /\ ide.root # None /\ UNCHANGED plan
        /\ \/ /\ CanSelectBuildPreset(c, name)
              /\ \E o \in SaveDebugState(disk, [read EXCEPT !.cmake = chosen]) : Step(o)
              /\ log' = LogSaved
           \/ Step(<<disk, read>>) /\ UNCHANGED log
    BY DEF SelectCMakeBuildPreset, ChoosePreset
  <1>2. /\ IdeOK(ide) /\ CMakeOK(ide.cmake) /\ ide.dir \in Dirs /\ disk.presets[ide.root] \in PresetFiles
    BY <1>1, OpenProjectFacts
  <1>3. CMakeOK(c) /\ c.dir \in Places  BY <1>2, RefreshedOK
  <1>4. CanSelectBuildPreset(c, name) => CMakeOK(chosen) /\ chosen.dir \in Places
    <2> HIDE DEF c
    <2> QED BY <1>2, <1>3, SelectBuildOK
  <1> HIDE DEF chosen
  <1> QED BY <1>1, <1>4, ChoosePresetStep

\* refreshCMakeTargets()
LEMMA RefreshCMakeTargetsStep ==
  ASSUME IInv, RefreshCMakeTargets
  PROVE  IInv'
  <1> DEFINE c == ReplaceTargets(ide.cmake, TargetsOnDisk)
  <1>1. ide.root # None /\ Step(<<disk, [ide EXCEPT !.cmake = c]>>) /\ UNCHANGED <<plan, log>>
    BY DEF RefreshCMakeTargets
  <1>2. /\ CMakeOK(ide.cmake) /\ ide.cmake.dir \in Places /\ TargetsOnDisk \in TargetLists
    BY <1>1, OpenProjectFacts
  <1>3. /\ CMakeOK(c) /\ c.dir \in Places /\ c.preferred = ide.cmake.preferred
        /\ c.cpreset = ide.cmake.cpreset /\ c.bpreset = ide.cmake.bpreset
    BY <1>2, ReplacedOK
  <1> HIDE DEF c
  <1> QED BY <1>1, <1>3, SteppedReading

\* The target that is chosen from the list is preferred.
LEMMA SelectCMakeTargetStep ==
  ASSUME IInv, SelectCMakeTarget
  PROVE  IInv'
  <1> DEFINE c == ReplaceTargets(ide.cmake, TargetsOnDisk)
             Chosen(n) == RememberTarget([c EXCEPT !.selected = n], c.targets[n])
  <1>1. /\ ide.root # None /\ log' = LogSaved /\ UNCHANGED plan
        /\ \E n \in DOMAIN c.targets :
             \E o \in SaveDebugState(disk, [ide EXCEPT !.cmake = Chosen(n)]) : Step(o)
    BY DEF SelectCMakeTarget
  <1>2. /\ IdeOK(ide) /\ CMakeOK(ide.cmake) /\ ide.cmake.dir \in Places /\ TargetsOnDisk \in TargetLists
    BY <1>1, OpenProjectFacts
  <1>3. CMakeOK(c) /\ c.dir \in Places /\ c.targets \in TargetLists
    BY <1>2, ReplacedOK
  <1> HIDE DEF c
  <1>4. PICK n \in DOMAIN c.targets : \E o \in SaveDebugState(disk, [ide EXCEPT !.cmake = Chosen(n)]) : Step(o)
    BY <1>1
  <1> DEFINE r == Chosen(n)
             j == [ide EXCEPT !.cmake = r]
  <1>5. n \in 1..Len(c.targets) /\ c.targets[n] \in Targets  BY <1>3, ListTyped
  <1>6. CMakeOK(r) /\ r.dir \in Places  BY <1>3, <1>5, PreferredOK
  <1>7. PICK o \in SaveDebugState(disk, j) : Step(o)  BY <1>4
  <1> HIDE DEF r
  <1>8. IdeOK(j)  BY <1>1, <1>2, <1>6, WithCMake
  <1> HIDE DEF j
  <1> QED BY <1>1, <1>7, <1>8, SteppedSaving

\* launchCommand() prefers the target it starts.
LEMMA LaunchTargetStep ==
  ASSUME IInv, LaunchTarget
  PROVE  IInv'
  <1> DEFINE c == ReplaceTargets(ide.cmake, TargetsOnDisk)
             r == RememberTarget(c, SelectedTarget(c))
             j == [ide EXCEPT !.cmake = r]
  <1>1. /\ ide.root # None /\ log' = LogSaved /\ UNCHANGED plan /\ SelectedTarget(c) # None
        /\ \E o \in SaveDebugState(disk, j) : Step(o)
    BY DEF LaunchTarget
  <1>2. /\ IdeOK(ide) /\ CMakeOK(ide.cmake) /\ ide.cmake.dir \in Places /\ TargetsOnDisk \in TargetLists
    BY <1>1, OpenProjectFacts
  <1>3. CMakeOK(c) /\ c.dir \in Places /\ c.targets \in TargetLists
    BY <1>2, ReplacedOK
  <1>4. PICK o \in SaveDebugState(disk, j) : Step(o)  BY <1>1
  <1> HIDE DEF c
  <1>5. SelectedTarget(c) \in Targets /\ c.selected \in 1..Len(c.targets)
    <2>1. c.selected \in DOMAIN c.targets  BY <1>1 DEF SelectedTarget
    <2> QED BY <1>1, <1>3, <2>1, ListTyped, SelectedTyped
  <1>6. CMakeOK(r) /\ r.dir \in Places  BY <1>3, <1>5, PreferredOK
  <1> HIDE DEF r
  <1>7. IdeOK(j)  BY <1>1, <1>2, <1>6, WithCMake
  <1> HIDE DEF j
  <1> QED BY <1>1, <1>4, <1>7, SteppedSaving

\* A build is started with the presets that the file has.
LEMMA StartBuildStep ==
  ASSUME IInv, StartBuild
  PROVE  IInv'
  <1> DEFINE file == disk.presets[ide.root]
             c == RefreshPresets(ide.cmake, file, ide.dir)
             command == IF PresetsValid(ide.cmake, file)
                        THEN [dir |-> c.dir, cpreset |-> c.cpreset, bpreset |-> c.bpreset] ELSE None
             j == [ide EXCEPT !.cmake = c]
  <1>1. /\ ide.root # None /\ StepBuilding(<<disk, j>>, command) /\ UNCHANGED <<plan, log>>
    BY DEF StartBuild
  <1>2. disk' = disk /\ ide' = j /\ build' = command  BY <1>1 DEF StepBuilding
  <1>3. /\ DiskOK(disk) /\ IdeOK(ide) /\ CMakeOK(ide.cmake) /\ ide.dir \in Dirs /\ file \in PresetFiles
        /\ plan \in [project : Root, sources : Nat] \cup {None} /\ log \in LogSet
    BY <1>1, OpenProjectFacts
  <1>4. /\ CMakeOK(c) /\ c.dir \in Places /\ c.preferred = ide.cmake.preferred
        /\ c.cpreset = ide.cmake.cpreset /\ c.bpreset = ide.cmake.bpreset
    BY <1>3, RefreshedOK
  <1>5. IdeOK(j) /\ Same(disk, j, log.moved, log.forgot)  BY <1>1, <1>4, SteppedReading
  <1>6. j.root = ide.root /\ j.dir = ide.dir  BY <1>1, <1>3, <1>4, WithCMake
  <1>7. ASSUME PresetsValid(ide.cmake, file)
        PROVE  /\ c.cpreset # None => c.cpreset \in file.configure
               /\ c.bpreset # None => c.bpreset \in DOMAIN file.build /\ file.build[c.bpreset] = c.cpreset
               /\ c.dir = IF c.cpreset = None \/ BinaryDir[c.cpreset] = None THEN ide.dir
                          ELSE BinaryDir[c.cpreset]
    <2> DEFINE k == ide.cmake
               configure == IF file.bad THEN {} ELSE file.configure
               loaded == [k EXCEPT !.configure = configure,
                                   !.build = IF file.bad \/ file.badBuild THEN <<>> ELSE file.build]
    <2>1. k \in CMakeSet /\ (k.bpreset # None => k.cpreset # None)  BY <1>3 DEF CMakeOK, Paired
    <2>2. /\ k.cpreset # None => ~file.bad /\ k.cpreset \in file.configure
          /\ k.bpreset # None => /\ ~file.bad /\ ~file.badBuild
                                /\ k.bpreset \in DOMAIN file.build /\ file.build[k.bpreset] = k.cpreset
      BY <1>7, <2>1 DEF PresetsValid
    <2>3. loaded.cpreset = k.cpreset /\ loaded.configure = configure  BY <2>1 DEF CMakeSet
    <2>4. c = UpdateBuildDirectory(loaded, ide.dir)
      BY <2>2 DEF RefreshPresets
    <2>5. None \notin file.configure  BY <1>3, Constants
    <2> DEFINE dir == IF loaded.cpreset \in loaded.configure /\ BinaryDir[loaded.cpreset] # None
                      THEN BinaryDir[loaded.cpreset] ELSE ide.dir
    <2>6. c.dir = dir
      <3>1. "dir" \in DOMAIN loaded  BY <2>1 DEF CMakeSet
      <3> HIDE DEF loaded, c
      <3> QED BY <2>4, <3>1 DEF UpdateBuildDirectory
    <2> HIDE DEF loaded, c, k
    <2>7. c.dir = IF k.cpreset = None \/ BinaryDir[k.cpreset] = None THEN ide.dir ELSE BinaryDir[k.cpreset]
      BY <2>2, <2>3, <2>5, <2>6
    <2> QED BY <1>4, <2>2, <2>7 DEF k
  <1> HIDE DEF c, j, file
  <1>8. BuildAsSelected'
    <2> SUFFICES ASSUME build' # None PROVE BuildAsSelected'  BY DEF BuildAsSelected
    <2>1. PresetsValid(ide.cmake, file) /\ build' = [dir |-> c.dir, cpreset |-> c.cpreset, bpreset |-> c.bpreset]
      BY <1>2
    <2>2. build'.dir = c.dir /\ build'.cpreset = c.cpreset /\ build'.bpreset = c.bpreset  BY <2>1
    <2>3. disk'.presets[ide'.root] = file /\ ide'.dir = ide.dir  BY <1>2, <1>6 DEF file
    <2> QED BY <1>7, <2>1, <2>2, <2>3 DEF BuildAsSelected
  <1>9. DiskOK(disk)' /\ IdeOK(ide)' /\ SessionSaved'  BY <1>1, <1>2, <1>3, <1>5 DEF SessionSaved
  <1>10. Recent(disk.history, log.opened)' /\ ImportIsCurrent' /\ log' \in LogSet
         /\ plan' \in [project : Root, sources : Nat] \cup {None}
    BY <1>1, <1>2, <1>3 DEF IInv, ImportIsCurrent
  <1> QED BY <1>8, <1>9, <1>10 DEF IInv

\* New settings: the build directory and the backend change, the selection is forgotten.
LEMMA AppliedOK ==
  ASSUME NEW i, IdeOK(i), i.root # None, NEW settings, settings.dir \in DirsOf[i.root], settings.backend \in Backends
  PROVE  LET j == ApplySettings(i, settings)
         IN /\ IdeOK(j) /\ j.root = i.root /\ j.dir = settings.dir /\ j.dirty = i.dirty
            /\ CurrentSession(j).marks = CurrentSession(i).marks
            /\ CurrentSession(j).registers = CurrentSession(i).registers
  <1> DEFINE dir == settings.dir
             backend == settings.backend
             c == CMakeReset(dir)
             k == [i EXCEPT !.dir = dir, !.cmake = c]
             j == Configure(k, backend)
  <1>1. i \in IdeSet /\ i.root \in Root  BY ModelTyped DEF IdeOK
  <1>2. dir \in Dirs /\ dir \in Places  BY <1>1, Names
  <1>3. CMakeOK(c) /\ c.dir = dir /\ c \in CMakeSet  BY <1>2, ResetOK DEF CMakeOK
  <1>4. ApplySettings(i, settings) = j  BY DEF ApplySettings
  <1>5. dir \in DirsOf[i.root] /\ backend \in Backends  OBVIOUS
  <1> HIDE DEF c, dir, backend
  <1>6. /\ k \in IdeSet /\ k.root = i.root /\ k.dir = dir /\ k.cmake = c /\ k.backend = i.backend
        /\ k.model = i.model /\ k.dirty = i.dirty
    BY <1>1, <1>2, <1>3 DEF IdeSet
  <1> HIDE DEF k
  <1>7. IdeOK(k)  BY <1>2, <1>3, <1>5, <1>6 DEF IdeOK
  <1>8. CurrentSession(k).marks = CurrentSession(i).marks /\ CurrentSession(k).registers = CurrentSession(i).registers
    BY <1>6 DEF CurrentSession, ModelOf
  <1>9. /\ IdeOK(j) /\ j.root = k.root /\ j.dir = k.dir /\ j.dirty = k.dirty
        /\ CurrentSession(j) = CurrentSession(k)
    BY <1>5, <1>7, ConfigureOK
  <1> HIDE DEF j
  <1> QED BY <1>4, <1>6, <1>8, <1>9 DEF dir

\* projectSettings()
LEMMA ProjectSettingsStep ==
  ASSUME IInv, ProjectSettings
  PROVE  IInv'
  <1>1. ide.root # None /\ UNCHANGED plan  BY DEF ProjectSettings
  <1>2. PICK settings \in [dir : DirsOf[ide.root], backend : Backends] :
          \/ /\ \E s \in SaveIfDirty([disk EXCEPT !.settings[ide.root] = settings], ide) :
                  Step(<<s[1], ApplySettings(s[2], settings)>>)
             /\ log' = [log EXCEPT !.moved = @ \/ settings.dir # ide.dir, !.forgot = TRUE]
          \/ Step(<<Fault([disk EXCEPT !.settings[ide.root] = settings]), ide>>) /\ UNCHANGED log
    BY Zenon DEF ProjectSettings
  <1> DEFINE d == [disk EXCEPT !.settings[ide.root] = settings]
  <1>a. /\ DiskOK(disk) /\ IdeOK(ide) /\ ide.root \in Root /\ Same(disk, ide, log.moved, log.forgot)
        /\ plan \in [project : Root, sources : Nat] \cup {None} /\ log \in LogSet
    BY <1>1, OpenProjectFacts
  <1>b. Elsewhere(d, disk)  BY <1>a, DiskWith
  <1>c. CASE Step(<<Fault(d), ide>>) /\ UNCHANGED log
    <2> HIDE DEF d
    <2>1. Elsewhere(Fault(d), d)  BY <1>b, DiskWith DEF Elsewhere
    <2>2. Same(Fault(d), ide, log.moved, log.forgot) /\ DiskOK(Fault(d)) /\ Fault(d).history = disk.history
      BY <1>a, <1>b, <2>1 DEF Same, Elsewhere
    <2> DEFINE o == <<Fault(d), ide>>
    <2>3. Step(o) /\ o[1] = Fault(d) /\ o[2] = ide  BY <1>c
    <2> HIDE DEF o
    <2> QED BY <1>1, <1>a, <1>c, <2>2, <2>3, SteppedAside DEF LogSet
  <1>d. SUFFICES ASSUME \E s \in SaveIfDirty(d, ide) : Step(<<s[1], ApplySettings(s[2], settings)>>),
                         log' = [log EXCEPT !.moved = @ \/ settings.dir # ide.dir, !.forgot = TRUE]
                  PROVE  IInv'
    BY <1>2, <1>c
  <1>3. PICK s \in SaveIfDirty(d, ide) : Step(<<s[1], ApplySettings(s[2], settings)>>)  BY <1>d
  <1>4. /\ DiskOK(disk) /\ IdeOK(ide) /\ ide.root \in Root /\ Same(disk, ide, log.moved, log.forgot)
        /\ plan \in [project : Root, sources : Nat] \cup {None} /\ log \in LogSet
        /\ log.moved \in BOOLEAN /\ log.forgot \in BOOLEAN
    BY <1>1, OpenProjectFacts
  <1>5. Elsewhere(d, disk)  BY <1>b
  <1> HIDE DEF d
  <1>6. Same(d, ide, log.moved, log.forgot) /\ DiskOK(d) /\ d.history = disk.history
    BY <1>4, <1>5 DEF Same, Elsewhere
  <1>7. /\ DiskOK(s[1]) /\ IdeOK(s[2]) /\ s[1].history = disk.history /\ Like(s[2], ide)
        /\ Same(s[1], s[2], log.moved, log.forgot)
    BY <1>4, <1>6, SavedIfDirtyOK
  <1> DEFINE j == ApplySettings(s[2], settings)
  <1>8. settings.dir \in DirsOf[ide.root] /\ settings.backend \in Backends  OBVIOUS
  <1>9. s[2].root = ide.root /\ s[2].dir = ide.dir  BY <1>7 DEF Like
  <1>10. /\ IdeOK(j) /\ j.root = ide.root /\ j.dir = settings.dir /\ j.dirty = s[2].dirty
         /\ CurrentSession(j).marks = CurrentSession(s[2]).marks
         /\ CurrentSession(j).registers = CurrentSession(s[2]).registers
    BY <1>1, <1>7, <1>8, <1>9, AppliedOK
  <1> HIDE DEF j
  <1> DEFINE moved == log.moved \/ settings.dir # ide.dir
  <1>11. /\ log' = [log EXCEPT !.moved = moved, !.forgot = TRUE] /\ moved \in BOOLEAN
         /\ (~log'.moved => ~log.moved /\ settings.dir = ide.dir) /\ log'.forgot
    BY <1>d, <1>4 DEF LogSet
  <1>12. Same(s[1], j, log'.moved, log'.forgot)
    <2> HIDE DEF moved
    <2> QED BY <1>7, <1>9, <1>10, <1>11 DEF Same
  <1>13. Step(<<s[1], j>>) /\ <<s[1], j>>[1] = s[1] /\ <<s[1], j>>[2] = j  BY <1>3 DEF j
  <1>14. plan' \in [project : Root, sources : Nat] \cup {None}  BY <1>1, <1>4
  <1> HIDE DEF moved
  <1>15. TRUE \in BOOLEAN  OBVIOUS
  <1> QED BY <1>7, <1>10, <1>11, <1>12, <1>13, <1>14, <1>15, SteppedAside

\* manageToolchainKits()
LEMMA ManageToolchainKitsStep ==
  ASSUME IInv, ManageToolchainKits
  PROVE  IInv'
  <1>1. ide.root # None /\ UNCHANGED plan /\ log' = [log EXCEPT !.forgot = TRUE]  BY DEF ManageToolchainKits
  <1>2. PICK backend \in Backends :
          Step(<<[disk EXCEPT !.settings[ide.root] = [dir |-> ide.dir, backend |-> backend]],
                 ApplySettings(ide, [dir |-> ide.dir, backend |-> backend])>>)
    BY DEF ManageToolchainKits
  <1> DEFINE settings == [dir |-> ide.dir, backend |-> backend]
             d == [disk EXCEPT !.settings[ide.root] = settings]
             j == ApplySettings(ide, settings)
  <1>3. /\ DiskOK(disk) /\ IdeOK(ide) /\ ide.root \in Root /\ Same(disk, ide, log.moved, log.forgot)
        /\ plan \in [project : Root, sources : Nat] \cup {None} /\ log \in LogSet /\ ide.dir \in DirsOf[ide.root]
        /\ log.moved \in BOOLEAN
    BY <1>1, OpenProjectFacts
  <1>4. settings.dir = ide.dir /\ settings.backend \in Backends /\ settings \in [dir : DirsOf[ide.root], backend : Backends]
    BY <1>3
  <1>5. Step(<<d, j>>) /\ <<d, j>>[1] = d /\ <<d, j>>[2] = j  BY <1>2
  <1> HIDE DEF settings
  <1>6. Elsewhere(d, disk)  BY <1>3, <1>4, DiskWith
  <1>7. /\ IdeOK(j) /\ j.root = ide.root /\ j.dir = ide.dir /\ j.dirty = ide.dirty
        /\ CurrentSession(j).marks = CurrentSession(ide).marks
        /\ CurrentSession(j).registers = CurrentSession(ide).registers
    BY <1>1, <1>3, <1>4, AppliedOK
  <1> HIDE DEF d, j
  <1>8. log'.moved = log.moved /\ log'.forgot /\ log' = [log EXCEPT !.moved = log.moved, !.forgot = TRUE]
    BY <1>1, <1>3 DEF LogSet
  <1>9. Same(d, j, log'.moved, log'.forgot)  BY <1>3, <1>6, <1>7, <1>8 DEF Same, Elsewhere
  <1>10. plan' \in [project : Root, sources : Nat] \cup {None}  BY <1>1, <1>3
  <1>11. DiskOK(d) /\ d.history = disk.history /\ TRUE \in BOOLEAN  BY <1>6 DEF Elsewhere
  <1> QED BY <1>3, <1>5, <1>7, <1>8, <1>9, <1>10, <1>11, SteppedAside

\* What is loaded becomes the head of the opened, if its list says so.
LEMMA SteppedOpening ==
  ASSUME IInv, NEW d, DiskOK(d), d.history = disk.history, NEW p \in Root, NEW dir \in DirsOf[p] \cup {None},
         NEW o \in LoadProject(d, ide, p, dir), Step(o),
         NEW imported \in SUBSET [listed : Nat, found : Nat], \A i \in imported : i.listed = i.found,
         log' = [LogOpened(p) EXCEPT !.imported = imported],
         plan' \in [project : Root, sources : Nat] \cup {None}
  PROVE  IInv'
  <1>1. IdeOK(ide) /\ log \in LogSet /\ Recent(disk.history, log.opened) /\ disk' = o[1]
    BY DEF IInv, Step, StepBuilding
  <1>2. /\ DiskOK(o[1]) /\ IdeOK(o[2]) /\ Same(o[1], o[2], FALSE, FALSE)
        /\ Recalled(o[1].history, d.history, p)
    BY <1>1, LoadedOK
  <1>3. PICK e : e.history = d.history /\ (o[1].history = Remembered(e, p) \/ o[1].history = e.history)
    BY <1>2 DEF Recalled
  <1> DEFINE h == o[1].history
             opened == IF h # <<>> /\ Head(h) = p THEN <<p>> \o Only(log.opened, Root \ {p}) ELSE log.opened
             l == [log EXCEPT !.opened = opened, !.moved = FALSE, !.forgot = FALSE]
  <1>4. log.opened \in Seq(Root) /\ e.history \in Seq(Root)  BY <1>1, <1>3 DEF LogSet, IInv, DiskOK, DiskSet
  <1>5. opened \in Seq(Root) /\ Recent(h, opened)
    <2> HIDE DEF h
    <2>1. Recent(e.history, log.opened) /\ (h = Remembered(e, p) \/ h = e.history)  BY <1>1, <1>3 DEF h
    <2> QED BY <1>4, <2>1, OpenedRecent
  <1>6. LogOpened(p) = l  BY <1>1 DEF LogOpened
  <1> HIDE DEF opened
  <1>7. /\ log' \in LogSet /\ log'.opened = opened /\ log'.imported = imported
        /\ log'.moved \in BOOLEAN /\ log'.forgot \in BOOLEAN
    BY <1>1, <1>5, <1>6 DEF LogSet
  <1>8. Same(o[1], o[2], log'.moved, log'.forgot)  BY <1>2, <1>7, SameWeaker
  <1>9. Recent(o[1].history, log'.opened)  BY <1>5, <1>7 DEF h
  <1>10. \A i \in log'.imported : i.listed = i.found  BY <1>7
  <1> HIDE DEF h
  <1> QED BY <1>2, <1>7, <1>8, <1>9, <1>10, Stepped

\* The same, when nothing was imported.
LEMMA LogOpenedOK ==
  ASSUME IInv, NEW p \in Root, log' = LogOpened(p)
  PROVE  /\ log.imported \in SUBSET [listed : Nat, found : Nat] /\ \A i \in log.imported : i.listed = i.found
         /\ log' = [LogOpened(p) EXCEPT !.imported = log.imported] /\ LogOpened(p).imported = log.imported
  <1> DEFINE opened == IF disk'.history # <<>> /\ Head(disk'.history) = p
                       THEN <<p>> \o Only(log.opened, Root \ {p}) ELSE log.opened
             l == [log EXCEPT !.opened = opened, !.moved = FALSE, !.forgot = FALSE]
  <1>1. log \in LogSet /\ \A i \in log.imported : i.listed = i.found  BY DEF IInv, ImportIsCurrent
  <1>2. LogOpened(p) = l  BY <1>1 DEF LogOpened, LogSet
  <1> HIDE DEF opened
  <1>3. l = [l EXCEPT !.imported = log.imported] /\ l.imported = log.imported
    BY <1>1 DEF LogSet
  <1> QED BY <1>1, <1>2, <1>3 DEF LogSet

\* openProject()
LEMMA OpenProjectStep ==
  ASSUME IInv, NEW p \in Root, OpenProject(p)
  PROVE  IInv'
  <1>1. PICK o \in LoadProject(disk, ide, p, None) : Step(o)  BY DEF OpenProject
  <1>2. log' = LogOpened(p) /\ UNCHANGED plan  BY DEF OpenProject
  <1>3. DiskOK(disk) /\ plan' \in [project : Root, sources : Nat] \cup {None}  BY <1>2 DEF IInv
  <1>4. /\ log.imported \in SUBSET [listed : Nat, found : Nat] /\ \A i \in log.imported : i.listed = i.found
        /\ log' = [LogOpened(p) EXCEPT !.imported = log.imported]
    BY <1>2, LogOpenedOK
  <1> QED BY <1>1, <1>3, <1>4, SteppedOpening

\* A step that changes other files and no project.
LEMMA SteppedElsewhere ==
  ASSUME IInv, NEW d, Elsewhere(d, disk), Step(<<d, ide>>), UNCHANGED log,
         plan' \in [project : Root, sources : Nat] \cup {None}
  PROVE  IInv'
  <1>1. <<d, ide>>[1] = d /\ <<d, ide>>[2] = ide  OBVIOUS
  <1>2. DiskOK(d) /\ d.history = disk.history /\ IdeOK(ide) /\ Same(d, ide, log'.moved, log'.forgot)
    BY DEF IInv, SessionSaved, Elsewhere, Same
  <1>3. log' = log /\ TRUE \in BOOLEAN  OBVIOUS
  <1> QED BY <1>1, <1>2, <1>3, SteppedAside

\* The window of a program that has just been started.
LEMMA IdleOK == IdeOK(IdleIde) /\ IdleIde.root = None
  <1> DEFINE i == IdleIde
  <1>1. CMakeOK(CMakeReset(None)) /\ CMakeReset(None) \in CMakeSet  BY ResetOK DEF CMakeOK
  <1>2. NoModel \in ModelSet /\ NoModel.marks = {}  BY DEF NoModel, ModelSet
  <1>3. /\ i.root = None /\ i.dir = None /\ i.cmake = CMakeReset(None)
        /\ i.model = [b \in Backends |-> NoModel] /\ i.backend \in Backends
    BY DEF IdleIde, Backends
  <1>4. i \in IdeSet  BY <1>1, <1>2 DEF IdleIde, IdeSet, Backends
  <1> HIDE DEF i
  <1>5. \A b \in Backends : i.model[b].marks = {}  BY <1>2, <1>3
  <1>6. IdeOK(i)  BY <1>1, <1>3, <1>4, <1>5 DEF IdeOK
  <1> QED BY <1>3, <1>6 DEF i

\* closeProject() and the end of the process.
LEMMA CloseSteps ==
  ASSUME IInv, CloseProject \/ \E crashed \in BOOLEAN : Restart(crashed)
  PROVE  IInv'
  <1>1. DiskOK(disk) /\ IdeOK(ide) /\ plan \in [project : Root, sources : Nat] \cup {None}  BY DEF IInv
  <1>2. TRUE \in BOOLEAN  OBVIOUS
  <1>3. CASE CloseProject
    <2>1. PICK o \in UnloadProject(disk, ide) : Step(o)  BY <1>3 DEF CloseProject
    <2>2. DiskOK(o[1]) /\ IdeOK(o[2]) /\ Empty(o[2]) /\ o[1].history = disk.history  BY <1>1, UnloadOK
    <2>3. Same(o[1], o[2], log'.moved, log'.forgot)  BY <2>2 DEF Same, Empty
    <2>4. log' = log /\ plan' \in [project : Root, sources : Nat] \cup {None}  BY <1>1, <1>3 DEF CloseProject
    <2> QED BY <1>2, <2>1, <2>2, <2>3, <2>4, SteppedAside
  <1>4. ASSUME NEW crashed \in BOOLEAN, Restart(crashed) PROVE IInv'
    <2>1. PICK s \in IF crashed THEN {<<disk, ide>>} ELSE SaveIfDirty(disk, ide) : Step(<<s[1], IdleIde>>)
      BY <1>4 DEF Restart
    <2>2. DiskOK(s[1]) /\ s[1].history = disk.history
      <3>1. CASE crashed
        <4>1. s = <<disk, ide>>  BY <2>1, <3>1
        <4>2. s[1] = disk  BY <4>1
        <4> QED BY <1>1, <4>2
      <3>2. CASE ~crashed
        <4>1. s \in SaveIfDirty(disk, ide)  BY <2>1, <3>2
        <4> QED BY <1>1, <4>1, SavedIfDirtyOK
      <3> QED BY <3>1, <3>2
    <2>3. IdeOK(IdleIde) /\ IdleIde.root = None  BY IdleOK
    <2> DEFINE o == <<s[1], IdleIde>>
    <2>4. o[1] = s[1] /\ o[2] = IdleIde  OBVIOUS
    <2>5. Same(o[1], o[2], log'.moved, log'.forgot)  BY <2>3, <2>4 DEF Same
    <2>6. log' = log /\ plan' \in [project : Root, sources : Nat] \cup {None}  BY <1>4 DEF Restart
    <2>7. Step(o)  BY <2>1
    <2> HIDE DEF o
    <2> QED BY <1>2, <2>2, <2>3, <2>4, <2>5, <2>6, <2>7, SteppedAside
  <1> QED BY <1>3, <1>4

\* createNewProject()
LEMMA NewProjectStep ==
  ASSUME IInv, NEW p \in Root, NewProject(p)
  PROVE  IInv'
  <1>1. PICK dir \in DirsOf[p] :
          LET created == [disk EXCEPT !.content[p] = "project", !.settings[p] = [dir |-> dir, backend |-> "gdb-mi"]]
          IN \/ /\ \E o \in LoadProject(created, ide, p, dir) : Step(o)
                /\ log' = LogOpened(p)
             \/ /\ \E left \in {"partial", "project"} : Step(<<Fault([disk EXCEPT !.content[p] = left]), ide>>)
                /\ UNCHANGED log
    BY DEF NewProject
  <1>2. DiskOK(disk) /\ plan' \in [project : Root, sources : Nat] \cup {None}  BY DEF IInv, NewProject
  <1> DEFINE settings == [dir |-> dir, backend |-> "gdb-mi"]
             created == [disk EXCEPT !.content[p] = "project", !.settings[p] = settings]
  <1>3. CASE \E o \in LoadProject(created, ide, p, dir) : Step(o) /\ log' = LogOpened(p)
    <2>1. PICK o \in LoadProject(created, ide, p, dir) : Step(o)  BY <1>3
    <2>2. Elsewhere(created, disk)  BY <1>2, CreatedOK
    <2> HIDE DEF created
    <2>3. DiskOK(created) /\ created.history = disk.history  BY <2>2 DEF Elsewhere
    <2>4. /\ log.imported \in SUBSET [listed : Nat, found : Nat] /\ \A i \in log.imported : i.listed = i.found
          /\ log' = [LogOpened(p) EXCEPT !.imported = log.imported]
      BY <1>3, LogOpenedOK
    <2> QED BY <1>2, <2>1, <2>3, <2>4, SteppedOpening
  <1>4. CASE /\ \E left \in {"partial", "project"} : Step(<<Fault([disk EXCEPT !.content[p] = left]), ide>>)
             /\ UNCHANGED log
    <2>1. PICK left \in {"partial", "project"} : Step(<<Fault([disk EXCEPT !.content[p] = left]), ide>>)
      BY <1>4
    <2> DEFINE e == [disk EXCEPT !.content[p] = left]
    <2>2. left \in Kinds  BY DEF Kinds
    <2>3. Elsewhere(e, disk)  BY <1>2, <2>2, DiskWith
    <2> HIDE DEF e
    <2>4. Elsewhere(Fault(e), e)  BY <2>3, DiskWith DEF Elsewhere
    <2>5. Elsewhere(Fault(e), disk)  BY <2>3, <2>4 DEF Elsewhere
    <2>6. Step(<<Fault(e), ide>>)  BY <2>1 DEF e
    <2> QED BY <1>2, <1>4, <2>5, <2>6, SteppedElsewhere
  <1> QED BY <1>1, <1>3, <1>4

\* planProjectImport()
LEMMA PlanImportStep ==
  ASSUME IInv, NEW p \in Root, PlanImport(p)
  PROVE  IInv'
  <1>1. Step(<<disk, ide>>) /\ UNCHANGED log /\ plan' = [project |-> p, sources |-> disk.sources[p]]
    BY DEF PlanImport
  <1>2. DiskOK(disk)  BY DEF IInv
  <1>3. disk.sources[p] \in Nat  BY <1>2 DEF DiskOK, DiskSet
  <1>4. plan' \in [project : Root, sources : Nat] \cup {None}  BY <1>1, <1>3
  <1>5. Elsewhere(disk, disk)  BY <1>2 DEF Elsewhere
  <1> QED BY <1>1, <1>4, <1>5, SteppedElsewhere

\* createImportedProject()
LEMMA ImportProjectStep ==
  ASSUME IInv, ImportProject
  PROVE  IInv'
  <1> DEFINE p == plan.project
  <1>1. plan # None /\ plan' = None  BY DEF ImportProject
  <1>2. /\ DiskOK(disk) /\ disk \in DiskSet /\ log \in LogSet /\ p \in Root /\ plan.sources \in Nat
        /\ plan' \in [project : Root, sources : Nat] \cup {None} /\ disk.sources[p] \in Nat
    <2>1. DiskOK(disk) /\ log \in LogSet /\ plan \in [project : Root, sources : Nat]  BY <1>1 DEF IInv
    <2>2. disk \in DiskSet /\ p \in Root  BY <2>1 DEF DiskOK
    <2> QED BY <1>1, <2>1, <2>2 DEF DiskSet
  <1>3. \/ Step(<<disk, ide>>) /\ UNCHANGED log
        \/ /\ Unchanged(p)
           /\ \E dir \in DirsOf[p] :
                \E o \in LoadProject([disk EXCEPT !.content[p] = "project",
                                                !.settings[p] = [dir |-> dir, backend |-> "gdb-mi"]], ide, p, dir) : Step(o)
           /\ log' = [LogOpened(p) EXCEPT !.imported = @ \cup {[listed |-> plan.sources, found |-> disk.sources[p]]}]
        \/ /\ \E settings \in {disk.settings[p], Bad} : Step(<<Fault([disk EXCEPT !.settings[p] = settings]), ide>>)
           /\ UNCHANGED log
    BY DEF ImportProject
  <1> HIDE DEF p
  <1>4. CASE Step(<<disk, ide>>) /\ UNCHANGED log
    <2>1. Elsewhere(disk, disk)  BY <1>2 DEF Elsewhere
    <2> QED BY <1>2, <1>4, <2>1, SteppedElsewhere
  <1>5. CASE /\ Unchanged(p)
             /\ \E dir \in DirsOf[p] :
                  \E o \in LoadProject([disk EXCEPT !.content[p] = "project",
                                                  !.settings[p] = [dir |-> dir, backend |-> "gdb-mi"]], ide, p, dir) : Step(o)
             /\ log' = [LogOpened(p) EXCEPT !.imported = @ \cup {[listed |-> plan.sources, found |-> disk.sources[p]]}]
    <2>1. PICK dir \in DirsOf[p] :
            \E o \in LoadProject([disk EXCEPT !.content[p] = "project",
                                            !.settings[p] = [dir |-> dir, backend |-> "gdb-mi"]], ide, p, dir) : Step(o)
      BY <1>5
    <2> DEFINE created == [disk EXCEPT !.content[p] = "project", !.settings[p] = [dir |-> dir, backend |-> "gdb-mi"]]
               entry == [listed |-> plan.sources, found |-> disk.sources[p]]
               imported == log.imported \cup {entry}
    <2>2. PICK o \in LoadProject(created, ide, p, dir) : Step(o)  BY <2>1
    <2>3. Elsewhere(created, disk)  BY <1>2, CreatedOK
    <2> HIDE DEF created
    <2>4. DiskOK(created) /\ created.history = disk.history  BY <2>3 DEF Elsewhere
    <2>5. entry \in [listed : Nat, found : Nat] /\ entry.listed = entry.found
      BY <1>2, <1>5 DEF Unchanged
    <2>6. \A i \in log.imported : i.listed = i.found  BY DEF IInv, ImportIsCurrent
    <2>7. log.imported \in SUBSET [listed : Nat, found : Nat]  BY <1>2 DEF LogSet
    <2> HIDE DEF entry
    <2>8. imported \in SUBSET [listed : Nat, found : Nat] /\ \A i \in imported : i.listed = i.found
      BY <2>5, <2>6, <2>7
    <2>9. log' = [LogOpened(p) EXCEPT !.imported = imported]
      <3> DEFINE opened == IF disk'.history # <<>> /\ Head(disk'.history) = p
                           THEN <<p>> \o Only(log.opened, Root \ {p}) ELSE log.opened
                 l == [log EXCEPT !.opened = opened, !.moved = FALSE, !.forgot = FALSE]
      <3>1. LogOpened(p) = l  BY <1>2 DEF LogOpened, LogSet
      <3> HIDE DEF opened
      <3>2. "imported" \in DOMAIN l /\ l.imported = log.imported  BY <1>2 DEF LogSet
      <3> HIDE DEF l
      <3> QED BY <1>5, <3>1, <3>2 DEF entry
    <2> HIDE DEF imported
    <2> QED BY <1>2, <2>2, <2>4, <2>8, <2>9, SteppedOpening
  <1>6. CASE /\ \E settings \in {disk.settings[p], Bad} : Step(<<Fault([disk EXCEPT !.settings[p] = settings]), ide>>)
             /\ UNCHANGED log
    <2>1. PICK settings \in {disk.settings[p], Bad} : Step(<<Fault([disk EXCEPT !.settings[p] = settings]), ide>>)
      BY <1>6
    <2> DEFINE e == [disk EXCEPT !.settings[p] = settings]
    <2>2. settings \in [dir : DirsOf[p], backend : Backends] \cup {Bad}
      <3>1. CASE settings = Bad  BY <3>1
      <3>2. CASE settings # Bad
        <4>1. settings = disk.settings[p] /\ settings \in SettingsSet  BY <1>2, <3>2 DEF DiskSet
        <4>2. settings.dir \in DirsOf[p]  BY <1>2, <3>2, <4>1 DEF DiskOK
        <4> QED BY <4>1, <4>2 DEF SettingsSet
      <3> QED BY <3>1, <3>2
    <2>3. Elsewhere(e, disk)  BY <1>2, <2>2, DiskWith
    <2> HIDE DEF e
    <2>4. Elsewhere(Fault(e), e)  BY <2>3, DiskWith DEF Elsewhere
    <2>5. Elsewhere(Fault(e), disk)  BY <2>3, <2>4 DEF Elsewhere
    <2>6. Step(<<Fault(e), ide>>)  BY <2>1 DEF e
    <2> QED BY <1>2, <1>6, <2>5, <2>6, SteppedElsewhere
  <1> QED BY <1>3, <1>4, <1>5, <1>6

\* Other programs change what is not the session file of the open project.
LEMMA OtherProgramsStep ==
  ASSUME IInv, OtherPrograms
  PROVE  IInv'
  <1>1. DiskOK(disk) /\ disk \in DiskSet  BY DEF IInv, DiskOK
  <1>2. build' = None /\ UNCHANGED <<ide, plan, log>>  BY DEF OtherPrograms
  <1>3. ASSUME NEW d, DiskOK(d), d.history = disk.history, Same(d, ide, log.moved, log.forgot), Change(d)
        PROVE  IInv'
    <2>1. disk' = Fault(d)  BY <1>3 DEF Change, Fault
    <2>2. Elsewhere(disk', d)  BY <1>3, <2>1, DiskWith
    <2>3. /\ DiskOK(disk') /\ disk'.history = disk.history /\ Same(disk', ide, log.moved, log.forgot)
      BY <1>3, <2>2 DEF Elsewhere, Same
    <2>4. IdeOK(ide)' /\ SessionSaved' /\ (log \in LogSet)' /\ (plan \in [project : Root, sources : Nat] \cup {None})'
      BY <1>2, <2>3 DEF IInv, SessionSaved
    <2>5. Recent(disk.history, log.opened)' /\ ImportIsCurrent' /\ BuildAsSelected'
      BY <1>2, <2>3 DEF IInv, ImportIsCurrent, BuildAsSelected
    <2> QED BY <2>3, <2>4, <2>5 DEF IInv
  <1>4. ASSUME NEW d, Elsewhere(d, disk), Change(d) PROVE IInv'
    <2>1. DiskOK(d) /\ d.history = disk.history /\ Same(d, ide, log.moved, log.forgot)
      BY <1>4 DEF IInv, SessionSaved, Elsewhere, Same
    <2> QED BY <1>3, <1>4, <2>1
  <1>5. ASSUME NEW p \in Root, NEW f \in PresetFiles, Change([disk EXCEPT !.presets[p] = f]) PROVE IInv'
    BY <1>1, <1>4, <1>5, DiskWith
  <1>6. ASSUME NEW dir \in Places, NEW list \in TargetLists, Change([disk EXCEPT !.targets[dir] = list]) PROVE IInv'
    BY <1>1, <1>4, <1>6, DiskWith
  <1>7. ASSUME NEW p \in Root, Change([disk EXCEPT !.sources[p] = @ + 1]) PROVE IInv'
    BY <1>1, <1>4, <1>7, DiskWith
  <1>8. ASSUME NEW p \in Root, NEW c \in {"sources", "project"}, Change([disk EXCEPT !.content[p] = c]) PROVE IInv'
    <2>1. c \in Kinds  BY DEF Kinds
    <2> QED BY <1>1, <1>4, <1>8, <2>1, DiskWith
  <1>9. ASSUME NEW p \in Root, Change([disk EXCEPT !.settings[p] = Bad]) PROVE IInv'
    BY <1>1, <1>4, <1>9, DiskWith
  <1>10. ASSUME NEW dir \in Dirs, ide.dir # dir, Change([disk EXCEPT !.session[dir] = Bad]) PROVE IInv'
    <2> DEFINE e == [disk EXCEPT !.session[dir] = Bad]
    <2>1. PICK p \in Root : dir \in DirsOf[p]  BY DEF Dirs
    <2>2. Stored(Bad).marks \subseteq NearMarks[p] /\ Paired(Stored(Bad))
      BY StoredTyped DEF NoSession, Paired
    <2>3. /\ DiskOK(e) /\ e.history = disk.history /\ e.session = [disk.session EXCEPT ![dir] = Bad]
      BY <1>1, <2>1, <2>2, DiskWithSession
    <2> HIDE DEF e
    <2>4. Same(e, ide, log.moved, log.forgot)
      <3> SUFFICES ASSUME ide.root # None PROVE Same(e, ide, log.moved, log.forgot)  BY DEF Same
      <3>1. ide.dir \in Dirs /\ Same(disk, ide, log.moved, log.forgot)  BY OpenProjectFacts
      <3>2. disk.session \in [Dirs -> SessionSet \cup {None, Bad}]  BY <1>1 DEF DiskSet
      <3>3. e.session[ide.dir] = disk.session[ide.dir]  BY <1>10, <2>3, <3>1, <3>2
      <3> QED BY <3>1, <3>3 DEF Same
    <2>5. Change(e)  BY <1>10 DEF e
    <2> QED BY <1>3, <2>3, <2>4, <2>5
  <1>11. \/ \E p \in Root, f \in PresetFiles : Change([disk EXCEPT !.presets[p] = f])
         \/ \E dir \in Places, list \in TargetLists : Change([disk EXCEPT !.targets[dir] = list])
         \/ \E p \in Root : Change([disk EXCEPT !.sources[p] = @ + 1])
         \/ \E p \in Root : \E c \in {"sources", "project"} : Change([disk EXCEPT !.content[p] = c])
         \/ \E p \in Root : Change([disk EXCEPT !.settings[p] = Bad])
         \/ \E dir \in Dirs : ide.dir # dir /\ Change([disk EXCEPT !.session[dir] = Bad])
    BY DEF OtherPrograms
  <1> QED BY <1>5, <1>6, <1>7, <1>8, <1>9, <1>10, <1>11

----------------------------------------------------------------------------
(* The specification *)

\* Nothing is open, saved or remembered at first.
LEMMA InitIInv ==
  ASSUME Init
  PROVE  IInv
  <1>1. PICK content \in Contents, file \in FirstPresets, list \in FirstTargets :
          disk = [content |-> content, sources |-> [p \in Root |-> 0],
                  settings |-> [p \in Root |-> [dir |-> DefaultDir[p], backend |-> "gdb-mi"]],
                  presets |-> [p \in Root |-> file],
                  targets |-> [dir \in Places |-> list],
                  session |-> [dir \in Dirs |-> None], history |-> <<>>, trouble |-> 0]
    BY DEF Init
  <1>2. /\ ide = IdleIde /\ plan = None /\ build = None
        /\ log = [opened |-> <<>>, moved |-> FALSE, forgot |-> FALSE, imported |-> {}]
    BY DEF Init
  <1>3. \A e : e = <<>> => /\ e \in Seq(Root) /\ Len(e) = 0 /\ ToSet(e) = {}
                           /\ \A x, y : ~Follows(e, x, y)
    BY DEF ToSet, Follows
  <1>4. content \in [Root -> Kinds] /\ file \in PresetFiles /\ list \in TargetLists  BY Constants
  <1>5. /\ disk.settings = [p \in Root |-> [dir |-> DefaultDir[p], backend |-> "gdb-mi"]]
        /\ disk.session = [dir \in Dirs |-> None] /\ disk.history = <<>>
    BY <1>1
  <1>6. disk \in DiskSet
    <2>1. \A p \in Root : [dir |-> DefaultDir[p], backend |-> "gdb-mi"] \in SettingsSet
      BY Names DEF SettingsSet, Backends
    <2>2. [p \in Root |-> [dir |-> DefaultDir[p], backend |-> "gdb-mi"]] \in [Root -> SettingsSet \cup {Bad}]
      BY <2>1
    <2>3. [dir \in Dirs |-> None] \in [Dirs -> SessionSet \cup {None, Bad}]  OBVIOUS
    <2>4. [dir \in Places |-> list] \in [Places -> TargetLists] /\ [p \in Root |-> file] \in [Root -> PresetFiles]
          /\ [p \in Root |-> 0] \in [Root -> Nat]
      BY <1>4
    <2> DEFINE settings == [p \in Root |-> [dir |-> DefaultDir[p], backend |-> "gdb-mi"]]
               session == [dir \in Dirs |-> None]
               targets == [dir \in Places |-> list]
               presets == [p \in Root |-> file]
               sources == [p \in Root |-> 0]
    <2>5. PICK history \in Seq(Root) : history = <<>>  BY <1>3
    <2>6. disk = [content |-> content, sources |-> sources, settings |-> settings, presets |-> presets,
                  targets |-> targets, session |-> session, history |-> history, trouble |-> 0]
      BY <1>1, <2>5
    <2> HIDE DEF settings, session, targets, presets, sources
    <2>7. /\ settings \in [Root -> SettingsSet \cup {Bad}] /\ session \in [Dirs -> SessionSet \cup {None, Bad}]
          /\ targets \in [Places -> TargetLists] /\ presets \in [Root -> PresetFiles] /\ sources \in [Root -> Nat]
      BY <2>2, <2>3, <2>4 DEF settings, session, targets, presets, sources
    <2> QED BY <1>4, <2>6, <2>7 DEF DiskSet
  <1>7. DiskOK(disk)
    <2>1. Len(disk.history) <= Limit  BY <1>3, <1>5, Constants
    <2>2. \A p \in Root : disk.settings[p].dir \in DirsOf[p]  BY <1>5, Names
    <2>3. \A p \in Root : \A dir \in DirsOf[p] : Stored(disk.session[dir]) = NoSession
      BY <1>5, Names, StoredTyped
    <2>4. NoSession.marks = {} /\ Paired(NoSession)  BY DEF NoSession, Paired
    <2> QED BY <1>6, <2>1, <2>2, <2>3, <2>4 DEF DiskOK
  <1>8. IdeOK(ide) /\ ide.root = None  BY <1>2, IdleOK
  <1>9. SessionSaved  BY <1>8 DEF SessionSaved, Same
  <1>10. log \in LogSet /\ log.opened = <<>> /\ log.imported = {}
    <2>1. PICK opened \in Seq(Root) : opened = <<>>  BY <1>3
    <2>2. log = [opened |-> opened, moved |-> FALSE, forgot |-> FALSE, imported |-> {}]  BY <1>2, <2>1
    <2> QED BY <2>1, <2>2 DEF LogSet
  <1>11. Recent(disk.history, log.opened)  BY <1>3, <1>5, <1>10 DEF Recent
  <1>12. ImportIsCurrent /\ BuildAsSelected  BY <1>2, <1>10 DEF ImportIsCurrent, BuildAsSelected
  <1> QED BY <1>2, <1>7, <1>8, <1>9, <1>10, <1>11, <1>12 DEF IInv

\* Every step keeps the invariant.
LEMMA NextIInv ==
  ASSUME IInv, [Next]_all
  PROVE  IInv'
  <1>1. CASE UNCHANGED all
    BY <1>1 DEF all, IInv, SessionSaved, ImportIsCurrent, BuildAsSelected
  <1>2. ASSUME NEW p \in Root, OpenProject(p) \/ NewProject(p) \/ PlanImport(p) PROVE IInv'
    BY <1>2, OpenProjectStep, NewProjectStep, PlanImportStep
  <1>3. CASE CloseProject \/ \E crashed \in BOOLEAN : Restart(crashed)  BY <1>3, CloseSteps
  <1>4. CASE ImportProject  BY <1>4, ImportProjectStep
  <1>5. CASE EditDebugModel  BY <1>5, EditDebugModelStep
  <1>6. CASE RefreshCMakeTargets  BY <1>6, RefreshCMakeTargetsStep
  <1>7. CASE SelectCMakeTarget  BY <1>7, SelectCMakeTargetStep
  <1>8. CASE LaunchTarget  BY <1>8, LaunchTargetStep
  <1>9. CASE StartBuild  BY <1>9, StartBuildStep
  <1>10. ASSUME NEW name \in ConfigureNames \cup {None}, SelectCMakePreset(name) PROVE IInv'
    BY <1>10, SelectCMakePresetStep
  <1>11. ASSUME NEW name \in BuildNames \cup {None}, SelectCMakeBuildPreset(name) PROVE IInv'
    BY <1>11, SelectCMakeBuildPresetStep
  <1>12. CASE ProjectSettings  BY <1>12, ProjectSettingsStep
  <1>13. CASE ManageToolchainKits  BY <1>13, ManageToolchainKitsStep
  <1>14. CASE OtherPrograms  BY <1>14, OtherProgramsStep
  <1> QED BY <1>1, <1>2, <1>3, <1>4, <1>5, <1>6, <1>7, <1>8, <1>9, <1>10, <1>11, <1>12, <1>13, <1>14 DEF Next

\* The inductive invariant: the session file of the open project is what the window shows,
\* everything in a window or a session file belongs to its project or to one that shared build
\* directories join to it, the build directories and the list of projects are in order.
THEOREM SpecIInv == Spec => []IInv
  <1>1. Init => IInv  BY InitIInv
  <1>2. IInv /\ [Next]_all => IInv'  BY NextIInv
  <1> QED BY <1>1, <1>2, PTL DEF Spec

\* Opening a project brings back the session last saved in its build directory, whatever was
\* opened, closed, changed, saved or not before, and with it no mark of a project that no chain of
\* shared build directories joins to it. Projects may share directories in any way.
THEOREM SpecSessionKept == Spec => []SessionKept
  <1>1. ASSUME IInv PROVE SessionKept
    <2>1. /\ DiskOK(disk) /\ IdeOK(ide) /\ SessionSaved /\ disk \in DiskSet /\ ide \in IdeSet
          /\ CMakeOK(ide.cmake) /\ ide.cmake \in CMakeSet
      BY <1>1 DEF IInv, DiskOK, IdeOK, CMakeOK
    <2>2. /\ ide.root \in Root \cup {None} /\ ide.backend \in Backends /\ ide.dirty \in BOOLEAN
          /\ ide.dir \in (IF ide.root = None THEN {None} ELSE DirsOf[ide.root])
      BY <2>1 DEF IdeSet, IdeOK
    <2>3. \A b \in Backends : /\ ide.model[b].marks \subseteq UNION {Marks[p] : p \in Root}
                              /\ ide.model[b].registers \in BOOLEAN
      BY <2>1 DEF IdeSet, ModelSet
    <2>4. /\ ide.cmake.targets \in TargetLists \cup {<<>>}
          /\ ide.cmake.cpreset \in ConfigureNames \cup {None} /\ ide.cmake.bpreset \in BuildNames \cup {None}
      BY <2>1 DEF CMakeSet
    <2>5. ide.cmake.selected \in 0..Len(ide.cmake.targets) /\ (ide.cmake.selected = 0) = (ide.cmake.targets = <<>>)
      BY <2>1 DEF CMakeOK
    <2>6. ToSet(disk.history) \subseteq Root /\ Len(disk.history) <= Limit
      <3>1. disk.history \in Seq(Root)  BY <2>1 DEF DiskSet
      <3>2. ToSet(disk.history) \subseteq Root  BY <3>1, LenProperties, ElementOfSeq DEF ToSet
      <3> QED BY <2>1, <3>2 DEF DiskOK
    <2>7. TypeOK  BY <2>2, <2>3, <2>4, <2>5, <2>6 DEF TypeOK
    <2>8. MarksStayHome  BY <2>1 DEF MarksStayHome, DiskOK, IdeOK
    <2> QED BY <2>1, <2>7, <2>8 DEF SessionKept
  <1> QED BY <1>1, SpecIInv, PTL

\* A project whose build directories no other project may name sees none but its own marks, in
\* either backend and in its session files, whatever directories the other projects share.
THEOREM SpecOwnDirectories ==
  Spec => [](\A p \in Root : Apart({p}) =>
               /\ ide.root = p => \A b \in Backends : ide.model[b].marks \subseteq Marks[p]
               /\ \A dir \in DirsOf[p] : Stored(disk.session[dir]).marks \subseteq Marks[p])
  <1> DEFINE Own == \A p \in Root : Apart({p}) =>
               /\ ide.root = p => \A b \in Backends : ide.model[b].marks \subseteq Marks[p]
               /\ \A dir \in DirsOf[p] : Stored(disk.session[dir]).marks \subseteq Marks[p]
  <1>1. ASSUME IInv PROVE Own
    <2>1. ASSUME NEW p \in Root, Apart({p})
          PROVE  /\ ide.root = p => \A b \in Backends : ide.model[b].marks \subseteq Marks[p]
                 /\ \A dir \in DirsOf[p] : Stored(disk.session[dir]).marks \subseteq Marks[p]
      <3>1. NearMarks[p] = Marks[p] /\ p # None  BY <2>1, NearTyped, Names
      <3> QED BY <1>1, <3>1 DEF IInv, DiskOK, IdeOK
    <2> QED BY <2>1
  <1> HIDE DEF Own
  <1>2. Spec => []Own  BY <1>1, SpecIInv, PTL
  <1> QED BY <1>2 DEF Own

\* A build is started with presets that belong together and are in the file, in the directory
\* that CMake would use for them.
THEOREM SpecBuildAsSelected == Spec => []BuildAsSelected
  <1>1. IInv => BuildAsSelected  BY DEF IInv
  <1> QED BY <1>1, SpecIInv, PTL

\* An import lists the sources that are there, and the recent projects are in the order of their
\* last opening, none twice.
THEOREM SpecFilesTellTheTruth == Spec => []FilesTellTheTruth
  <1>1. ASSUME IInv PROVE FilesTellTheTruth
    <2> DEFINE h == disk.history
               o == log.opened
    <2>1. /\ h \in Seq(Root) /\ o \in Seq(Root) /\ Recent(h, o) /\ ImportIsCurrent
      BY <1>1 DEF IInv, DiskOK, DiskSet, LogSet
    <2> HIDE DEF h, o
    <2>2. DOMAIN h = 1..Len(h) /\ DOMAIN o = 1..Len(o) /\ Len(o) \in Nat /\ Len(h) \in Nat
          /\ \A n \in 1..Len(h) : h[n] \in Root
      BY <2>1, LenProperties, ElementOfSeq
    <2>3. ASSUME NEW a \in 1..Len(o), o[a] \in Root PROVE Position(o[a]) = a
      <3>1. \A n \in 1..Len(o) : o[n] = o[a] => n = a
        <4> SUFFICES ASSUME NEW n \in 1..Len(o), o[n] = o[a], n # a PROVE FALSE  OBVIOUS
        <4>1. n < a \/ a < n  BY <2>2
        <4>2. Follows(o, o[a], o[a])  BY <4>1 DEF Follows
        <4> QED BY <2>1, <2>3, <4>2 DEF Recent
      <3>2. \A n \in DOMAIN o : o[n] = o[a] <=> n = a  BY <2>2, <3>1
      <3>3. Position(o[a]) = CHOOSE n \in DOMAIN o : o[n] = o[a]  BY DEF Position, o
      <3> QED BY <2>2, <3>2, <3>3
    <2>4. ASSUME NEW m \in 1..Len(h), NEW n \in 1..Len(h), m < n PROVE Position(h[m]) < Position(h[n])
      <3>1. Follows(h, h[m], h[n])  BY <2>4 DEF Follows
      <3>2. Follows(o, h[m], h[n])  BY <2>1, <2>2, <3>1 DEF Recent
      <3>3. PICK a, b \in 1..Len(o) : a < b /\ o[a] = h[m] /\ o[b] = h[n]  BY <3>2 DEF Follows
      <3>4. Position(h[m]) = a /\ Position(h[n]) = b  BY <2>2, <2>3, <3>3
      <3> QED BY <3>3, <3>4
    <2>5. HistoryIsRecency  BY <2>1, <2>2, <2>4 DEF HistoryIsRecency, Recent, h, o
    <2> QED BY <2>1, <2>5 DEF FilesTellTheTruth
  <1> QED BY <1>1, SpecIInv, PTL
=============================================================================
