----------------------------- MODULE DataLemmas -----------------------------
(***************************************************************************)
(* Lemmas about data that the proofs of several modules use.               *)
(*                                                                         *)
(* Induction and recursion over the natural numbers are stated for sets    *)
(* and functions: the provers can instantiate these, and not a theorem     *)
(* with an operator as its parameter. To prove P(n) for every n, define    *)
(* the set of the numbers that satisfy P and show that it has all of them. *)
(***************************************************************************)
EXTENDS Integers, Sequences, SequencesExt, SequenceTheorems, FiniteSetTheorems,
        WellFoundedInduction, TLAPS

\* Every set of natural numbers has a least element.
LEMMA LeastNumber ==
  ASSUME NEW T \in SUBSET Nat, T # {}
  PROVE  \E x \in T : \A y \in T : x <= y
  <1> DEFINE R == OpToRel(<, Nat)
  <1>1. IsWellFoundedOn(R, Nat)  BY NatLessThanWellFounded
  <1>2. PICK x \in T : \A y \in T : <<y, x>> \notin R
    <2> HIDE DEF R
    <2> QED BY <1>1, WFMin
  <1>3. \A y \in T : y < x => <<y, x>> \in R  BY DEF OpToRel
  <1> HIDE DEF R
  <1>4. \A y \in T : ~ y < x  BY <1>2, <1>3
  <1> QED BY <1>2, <1>4

\* Induction: a set with 0 and with the successor of each of its numbers has them all.
LEMMA NatSetInduction ==
  ASSUME NEW S, 0 \in S, \A n \in Nat : n \in S => n + 1 \in S
  PROVE  Nat \subseteq S
  <1> SUFFICES ASSUME Nat \ S # {} PROVE FALSE
    OBVIOUS
  <1>1. PICK x \in Nat \ S : \A y \in Nat \ S : x <= y
    BY LeastNumber
  <1>2. x # 0 OBVIOUS
  <1>3. x - 1 \in Nat \ S  BY <1>2
  <1> QED BY <1>1, <1>3

\* The same for the numbers up to L, as the positions of a sequence are.
LEMMA IntervalInduction ==
  ASSUME NEW L \in Nat, NEW S, 0 \in S, \A n \in 0..(L - 1) : n \in S => n + 1 \in S
  PROVE  0..L \subseteq S
  <1> DEFINE T == {n \in Nat : n \in 0..L => n \in S}
  <1>1. 0 \in T  OBVIOUS
  <1>2. \A n \in Nat : n \in T => n + 1 \in T  OBVIOUS
  <1> HIDE DEF T
  <1>3. Nat \subseteq T  BY <1>1, <1>2, NatSetInduction
  <1> QED BY <1>3 DEF T

\* f is the values in V of L rounds that begin with v, where G[n] is round n.
Rounds(f, L, V, v, G) ==
  f \in [0..L -> V] /\ f[0] = v /\ \A n \in 1..L : f[n] = G[n][f[n - 1]]

\* A recursion over the positions of a sequence has a solution.
LEMMA Recursion ==
  ASSUME NEW L \in Nat, NEW V, NEW v \in V, NEW G \in [1..L -> [V -> V]]
  PROVE  \E f : Rounds(f, L, V, v, G)
  <1> DEFINE Upto(m) == {f \in [0..m -> V] : f[0] = v /\ \A n \in 1..m : f[n] = G[n][f[n - 1]]}
             S == {m \in 0..L : Upto(m) # {}}
  <1>1. 0 \in S
    <2>1. [i \in 0..0 |-> v] \in Upto(0)  OBVIOUS
    <2> QED BY <2>1
  <1>2. ASSUME NEW m \in 0..(L - 1), m \in S PROVE m + 1 \in S
    <2>1. PICK f \in [0..m -> V] : f[0] = v /\ \A n \in 1..m : f[n] = G[n][f[n - 1]]
      BY <1>2
    <2> DEFINE g == [i \in 0..(m + 1) |-> IF i = m + 1 THEN G[m + 1][f[m]] ELSE f[i]]
    <2>2. g \in [0..(m + 1) -> V]  OBVIOUS
    <2>3. g[0] = v  BY <2>1
    <2>4. \A n \in 1..(m + 1) : g[n] = G[n][g[n - 1]]  BY <2>1
    <2>5. g \in Upto(m + 1)
      <3> HIDE DEF g
      <3> QED BY <2>2, <2>3, <2>4
    <2> HIDE DEF g
    <2> QED BY <2>5
  <1> HIDE DEF S
  <1>3. 0..L \subseteq S  BY <1>1, <1>2, IntervalInduction
  <1>4. L \in S  BY <1>3
  <1>5. PICK f \in [0..L -> V] : f[0] = v /\ \A n \in 1..L : f[n] = G[n][f[n - 1]]
    BY <1>4 DEF S
  <1> QED BY <1>5 DEF Rounds

----------------------------------------------------------------------------
(* Sequences *)

\* Appending to a sequence adds the element to those it has.
LEMMA RangeAppend ==
  ASSUME NEW T, NEW s \in Seq(T), NEW x \in T
  PROVE  Range(Append(s, x)) = Range(s) \union {x}
  <1> DEFINE a == Append(s, x)
  <1>1. /\ a \in Seq(T) /\ Len(a) = Len(s) + 1 /\ a[Len(s) + 1] = x
        /\ \A i \in 1..Len(s) : a[i] = s[i]
    BY AppendProperties
  <1>2. DOMAIN a = 1..(Len(s) + 1) /\ DOMAIN s = 1..Len(s) /\ Len(s) \in Nat
    BY <1>1
  <1> HIDE DEF a
  <1>3. Range(a) = {a[i] : i \in 1..(Len(s) + 1)} /\ Range(s) = {s[i] : i \in 1..Len(s)}
    BY <1>2 DEF Range
  <1>4. \A i \in 1..(Len(s) + 1) : i \in 1..Len(s) \/ i = Len(s) + 1
    BY <1>2
  <1>5. \A i \in 1..Len(s) : i \in 1..(Len(s) + 1)
    BY <1>2
  <1>6. Len(s) + 1 \in 1..(Len(s) + 1)
    BY <1>2
  <1> QED BY <1>1, <1>3, <1>4, <1>5, <1>6 DEF a

\* Front() and Last() take a nonempty sequence apart.
LEMMA FrontLastProperties ==
  ASSUME NEW T, NEW s \in Seq(T), s # <<>>
  PROVE  /\ Front(s) \in Seq(T) /\ Last(s) \in T /\ Last(s) \in Range(s)
         /\ Len(Front(s)) = Len(s) - 1
         /\ \A i \in 1..(Len(s) - 1) : Front(s)[i] = s[i]
         /\ Range(Front(s)) \subseteq Range(s)
  <1>1. Len(s) \in Nat \ {0} /\ DOMAIN s = 1..Len(s) /\ \A i \in 1..Len(s) : s[i] \in T
    BY EmptySeq
  <1>2. Front(s) \in Seq(T) /\ Len(Front(s)) = Len(s) - 1
    BY <1>1, SubSeqProperties DEF Front
  <1>3. \A i \in 1..(Len(s) - 1) : Front(s)[i] = s[i]
    BY <1>1, SubSeqProperties DEF Front
  <1>4. DOMAIN Front(s) = 1..(Len(s) - 1)
    BY <1>1, <1>2
  <1> QED BY <1>1, <1>2, <1>3, <1>4 DEF Last, Range

\* A tail has only elements of its sequence.
LEMMA RangeTail ==
  ASSUME NEW T, NEW s \in Seq(T), s # <<>>
  PROVE  Tail(s) \in Seq(T) /\ Len(Tail(s)) = Len(s) - 1 /\ Range(Tail(s)) \subseteq Range(s)
  <1>1. /\ Len(s) \in Nat \ {0} /\ DOMAIN s = 1..Len(s)
        /\ Tail(s) \in Seq(T) /\ Len(Tail(s)) = Len(s) - 1
        /\ \A i \in 1..(Len(s) - 1) : Tail(s)[i] = s[i + 1]
    BY EmptySeq, HeadTailProperties
  <1>2. DOMAIN Tail(s) = 1..(Len(s) - 1)
    BY <1>1
  <1> QED BY <1>1, <1>2 DEF Range

\* RemoveAt() keeps the other elements, those after the place one place earlier.
LEMMA RemoveAtProperties ==
  ASSUME NEW T, NEW s \in Seq(T), NEW i \in 1..Len(s)
  PROVE  /\ RemoveAt(s, i) \in Seq(T) /\ Len(RemoveAt(s, i)) = Len(s) - 1
         /\ \A j \in 1..(Len(s) - 1) : RemoveAt(s, i)[j] = IF j < i THEN s[j] ELSE s[j + 1]
  <1> DEFINE a == SubSeq(s, 1, i - 1)
             b == SubSeq(s, i + 1, Len(s))
  <1>1. /\ a \in Seq(T) /\ Len(a) = i - 1
        /\ \A j \in 1..(i - 1) : a[j] = s[j]
    BY SubSeqProperties
  <1>2. /\ b \in Seq(T) /\ Len(b) = Len(s) - i
        /\ \A j \in 1..(Len(s) - i) : b[j] = s[i + j]
    BY SubSeqProperties
  <1> HIDE DEF a, b
  <1> DEFINE c == a \o b
  <1>3. /\ c \in Seq(T) /\ Len(c) = Len(a) + Len(b)
        /\ \A j \in 1..(Len(a) + Len(b)) : c[j] = IF j <= Len(a) THEN a[j] ELSE b[j - Len(a)]
    <2>1. a \in Seq(T) /\ b \in Seq(T)  BY <1>1, <1>2
    <2> QED BY <2>1, ConcatProperties
  <1>4. RemoveAt(s, i) = c
    BY DEF RemoveAt, a, b
  <1> HIDE DEF c
  <1>5. ASSUME NEW j \in 1..(Len(s) - 1)
        PROVE  c[j] = IF j < i THEN s[j] ELSE s[j + 1]
    <2> HIDE DEF c
    <2>1. CASE j < i
      <3>1. j \in 1..(i - 1) /\ j \in 1..(Len(a) + Len(b)) /\ j <= Len(a)
        BY <1>1, <1>2, <2>1
      <3>2. c[j] = a[j]  BY <1>3, <3>1
      <3> QED BY <1>1, <2>1, <3>1, <3>2
    <2>2. CASE i <= j
      <3>1. j - (i - 1) \in 1..(Len(s) - i) /\ i + (j - (i - 1)) = j + 1  BY <2>2
      <3>2. j \in 1..(Len(a) + Len(b)) /\ ~(j <= Len(a))
        <4>1. Len(a) = i - 1 /\ Len(a) + Len(b) = Len(s) - 1  BY <1>1, <1>2
        <4> QED BY <2>2, <4>1
      <3>3. c[j] = b[j - Len(a)]  BY <1>3, <3>2
      <3> QED BY <1>1, <1>2, <2>2, <3>1, <3>3
    <2> QED BY <2>1, <2>2
  <1>6. c \in Seq(T) /\ Len(c) = Len(s) - 1
    BY <1>1, <1>2, <1>3
  <1> QED BY <1>4, <1>5, <1>6

\* SetToSeq() lists a finite set, each element once.
LEMMA Listed ==
  ASSUME NEW S, IsFiniteSet(S)
  PROVE  /\ SetToSeq(S) \in Seq(S) /\ Len(SetToSeq(S)) \in Nat
         /\ \A i \in 1..Len(SetToSeq(S)) : SetToSeq(S)[i] \in S
         /\ \A i, j \in 1..Len(SetToSeq(S)) : SetToSeq(S)[i] = SetToSeq(S)[j] => i = j
         /\ \A x \in S : \E i \in 1..Len(SetToSeq(S)) : SetToSeq(S)[i] = x
  <1> DEFINE N == Cardinality(S)
             f == SetToSeq(S)
  <1>1. N \in Nat /\ ExistsBijection(1..N, S)  BY FS_CardinalityType
  <1>2. PICK g : g \in [1..N -> S] /\ IsInjective(g)
    BY <1>1 DEF ExistsBijection, Bijection, Injection
  <1>3. f \in [1..N -> S] /\ IsInjective(f)  BY <1>2, Zenon DEF SetToSeq
  <1> HIDE DEF f
  <1>4. f \in Injection(1..N, S)  BY <1>3 DEF Injection
  <1>5. Cardinality(1..N) = N  BY <1>1, FS_Interval
  <1>6. f \in Surjection(1..N, S)
    <2> HIDE DEF N
    <2>1. Cardinality(1..N) = Cardinality(S) <=> f \in Surjection(1..N, S)  BY <1>4, FS_Injection
    <2> QED BY <1>5, <2>1 DEF N
  <1> HIDE DEF N
  <1>7. f \in Seq(S) /\ Len(f) = N  BY <1>1, <1>3
  <1>8. \A x \in S : \E i \in 1..N : f[i] = x  BY <1>6 DEF Surjection
  <1>9. \A i, j \in 1..N : f[i] = f[j] => i = j  BY <1>3 DEF IsInjective
  <1> QED BY <1>1, <1>3, <1>7, <1>8, <1>9 DEF f
=============================================================================
