-------------------------- MODULE LspClient_proofs --------------------------
(***************************************************************************)
(* Proofs about LspClient: clangd always has the client's documents, and   *)
(* every answer is about the text it is shown for.                         *)
(***************************************************************************)
EXTENDS LspClient, DataLemmas, FiniteSetTheorems

----------------------------------------------------------------------------
(* What clangd has been told *)

Maps(T) == UNION {[D -> T] : D \in SUBSET (Paths \union {NoPath})}

\* A map with another entry, or one less, is a map.
LEMMA MapsClosed ==
  ASSUME NEW T, NEW docs \in Maps(T), NEW m \in MessageSet(T)
  PROVE  DocsAfter(docs, m) \in Maps(T)
  <1>1. PICK D \in SUBSET (Paths \union {NoPath}) : docs \in [D -> T]
    BY DEF Maps
  <1>2. m.path \in Paths \union {NoPath} /\ m.text \in T
    BY DEF MessageSet
  <1>3. With(docs, m.path, m.text) \in [D \union {m.path} -> T]
    BY <1>1, <1>2 DEF With
  <1>4. Without(docs, m.path) \in [D \ {m.path} -> T]
    BY <1>1, <1>2 DEF Without
  <1>5. With(docs, m.path, m.text) \in Maps(T)
    BY <1>2, <1>3, D \union {m.path} \in SUBSET (Paths \union {NoPath}) DEF Maps
  <1>6. Without(docs, m.path) \in Maps(T)
    BY <1>2, <1>4, D \ {m.path} \in SUBSET (Paths \union {NoPath}) DEF Maps
  <1> QED BY <1>5, <1>6 DEF DocsAfter

\* A map of documents, as it is in the server, is one of these maps.
LEMMA ServerMaps ==
  ASSUME NEW T, NEW s, ServerTyped(s, T)
  PROVE  s.docs \in Maps(T)
  <1>1. DOMAIN s.docs \in SUBSET (Paths \union {NoPath}) /\ s.docs \in [DOMAIN s.docs -> T]
    BY DEF ServerTyped, MapOf
  <1> QED BY <1>1 DEF Maps

\* f has the maps after each of the messages.
Trace(f, docs, messages, T) ==
  /\ f \in [0..Len(messages) -> Maps(T)] /\ f[0] = docs
  /\ \A n \in 1..Len(messages) : f[n] = DocsAfter(f[n - 1], messages[n])

\* Told() reads one message after the other.
LEMMA ToldTrace ==
  ASSUME NEW T, NEW docs \in Maps(T), NEW messages \in Seq(MessageSet(T))
  PROVE  Trace(Told(docs, messages), docs, messages, T)
  <1> DEFINE L == Len(messages)
             V == Maps(T)
             Round(g, n) == IF n = 0 THEN docs ELSE DocsAfter(g[n - 1], messages[n])
             G == [n \in 1..L |-> [x \in V |-> DocsAfter(x, messages[n])]]
             After == CHOOSE g : g = [n \in 0..L |-> Round(g, n)]
  <1>1. L \in Nat /\ \A n \in 1..L : messages[n] \in MessageSet(T)
    BY LenProperties, ElementOfSeq
  <1>2. G \in [1..L -> [V -> V]]
    BY <1>1, MapsClosed
  <1>3. PICK f : Rounds(f, L, V, docs, G)
    <2> HIDE DEF G
    <2> QED BY <1>1, <1>2, Recursion
  <1>4. f = [n \in 0..L |-> Round(f, n)]
    <2>1. ASSUME NEW n \in 0..L PROVE f[n] = Round(f, n)
      <3>1. CASE n = 0  BY <1>3, <3>1 DEF Rounds
      <3>2. CASE n # 0
        <4>1. n \in 1..L /\ n - 1 \in 0..L  BY <1>1, <3>2
        <4>2. G[n] = [x \in V |-> DocsAfter(x, messages[n])]  BY <4>1
        <4>3. f[n - 1] \in V  BY <1>3, <4>1 DEF Rounds
        <4> QED BY <1>3, <3>2, <4>1, <4>2, <4>3 DEF Rounds
      <3> QED BY <3>1, <3>2
    <2>2. f \in [0..L -> V]  BY <1>3 DEF Rounds
    <2> HIDE DEF Round, G
    <2> QED BY <2>1, <2>2
  <1>5. After = [n \in 0..L |-> Round(After, n)]
    <2> HIDE DEF Round, L
    <2> QED BY <1>4, Zenon
  <1>6. Told(docs, messages) = After
    BY Zenon DEF Told
  <1> HIDE DEF After
  <1>7. \A n \in 0..L : After[n] = Round(After, n)
    <2> HIDE DEF Round
    <2> QED BY <1>5
  <1> DEFINE Good == {n \in 0..L : After[n] \in V}
  <1>8. 0 \in Good  BY <1>1, <1>7
  <1>9. ASSUME NEW n \in 0..(L - 1), n \in Good PROVE n + 1 \in Good
    <2>1. n + 1 \in 1..L /\ n + 1 \in 0..L /\ n + 1 # 0 /\ (n + 1) - 1 = n /\ messages[n + 1] \in MessageSet(T)
      BY <1>1
    <2>2. After[n + 1] = DocsAfter(After[n], messages[n + 1])  BY <1>7, <2>1
    <2> QED BY <1>9, <2>1, <2>2, MapsClosed
  <1>10. 0..L \subseteq Good
    <2> HIDE DEF Good, L
    <2> QED BY <1>1, <1>8, <1>9, IntervalInduction
  <1>11. After \in [0..L -> V]
    <2> HIDE DEF Round, L, V
    <2> QED BY <1>5, <1>10
  <1>12. \A n \in 1..L : n \in 0..L /\ n # 0  BY <1>1
  <1> QED BY <1>1, <1>6, <1>7, <1>11, <1>12 DEF Trace

\* One more message does not change what clangd makes of the earlier ones.
LEMMA ToldAppend ==
  ASSUME NEW T, NEW docs \in Maps(T), NEW q \in Seq(MessageSet(T)), NEW m \in MessageSet(T)
  PROVE  /\ \A n \in 0..Len(q) : Told(docs, Append(q, m))[n] = Told(docs, q)[n]
         /\ Told(docs, Append(q, m))[Len(q) + 1] = DocsAfter(Told(docs, q)[Len(q)], m)
  <1> DEFINE f == Told(docs, q)
             a == Append(q, m)
             g == Told(docs, a)
             L == Len(q)
             Good == {n \in 0..L : g[n] = f[n]}
  <1>1. /\ a \in Seq(MessageSet(T)) /\ Len(a) = L + 1 /\ L \in Nat /\ a[L + 1] = m
        /\ \A n \in 1..L : a[n] = q[n]
    BY AppendProperties, LenProperties
  <1>2. Trace(f, docs, q, T)  BY ToldTrace
  <1>3. Trace(g, docs, a, T)
    <2> HIDE DEF a
    <2> QED BY <1>1, ToldTrace
  <1> HIDE DEF f, g, a, L
  <1>4. f[0] = docs /\ \A n \in 1..L : f[n] = DocsAfter(f[n - 1], q[n])
    BY <1>2 DEF Trace, L
  <1>5. g[0] = docs /\ \A n \in 1..(L + 1) : g[n] = DocsAfter(g[n - 1], a[n])
    BY <1>1, <1>3 DEF Trace
  <1>6. 0 \in Good  BY <1>1, <1>4, <1>5
  <1>7. ASSUME NEW n \in 0..(L - 1), n \in Good PROVE n + 1 \in Good
    <2>1. n + 1 \in 1..L /\ n + 1 \in 1..(L + 1) /\ (n + 1) - 1 = n  BY <1>1
    <2>2. g[n + 1] = DocsAfter(g[n], a[n + 1]) /\ f[n + 1] = DocsAfter(f[n], q[n + 1])
      BY <1>4, <1>5, <2>1
    <2> QED BY <1>1, <1>7, <2>1, <2>2
  <1>8. 0..L \subseteq Good
    <2> HIDE DEF Good
    <2> QED BY <1>1, <1>6, <1>7, IntervalInduction
  <1>9. g[L + 1] = DocsAfter(g[L], a[L + 1])
    <2>1. L + 1 \in 1..(L + 1) /\ (L + 1) - 1 = L  BY <1>1
    <2> QED BY <1>5, <2>1
  <1>10. L \in 0..L  BY <1>1
  <1>11. g[L] = f[L]  BY <1>8, <1>10
  <1>12. \A n \in 0..L : g[n] = f[n]  BY <1>8
  <1> QED BY <1>1, <1>9, <1>11, <1>12 DEF f, g, a, L

\* A message read is one message less to be read.
LEMMA ToldTail ==
  ASSUME NEW T, NEW docs \in Maps(T), NEW q \in Seq(MessageSet(T)), q # <<>>
  PROVE  \A n \in 0..(Len(q) - 1) : Told(DocsAfter(docs, Head(q)), Tail(q))[n] = Told(docs, q)[n + 1]
  <1> DEFINE f == Told(docs, q)
             r == Tail(q)
             d == DocsAfter(docs, Head(q))
             g == Told(d, r)
             L == Len(q) - 1
             Good == {n \in 0..L : g[n] = f[n + 1]}
  <1>1. /\ r \in Seq(MessageSet(T)) /\ Len(r) = L /\ L \in Nat /\ Len(q) = L + 1
        /\ Head(q) = q[1] /\ Head(q) \in MessageSet(T)
        /\ \A n \in 1..L : r[n] = q[n + 1]
    BY HeadTailProperties, EmptySeq, LenProperties, ElementOfSeq
  <1>2. Trace(f, docs, q, T)  BY ToldTrace
  <1>3. d \in Maps(T)  BY <1>1, MapsClosed
  <1>4. Trace(g, d, r, T)
    <2> HIDE DEF d, r
    <2> QED BY <1>1, <1>3, ToldTrace
  <1> HIDE DEF f, g, r, L
  <1>5. f[0] = docs /\ \A n \in 1..(L + 1) : f[n] = DocsAfter(f[n - 1], q[n])
    BY <1>1, <1>2 DEF Trace
  <1>6. g[0] = d /\ \A n \in 1..L : g[n] = DocsAfter(g[n - 1], r[n])
    BY <1>1, <1>4 DEF Trace
  <1>7. 0 \in Good
    <2>1. 1 \in 1..(L + 1) /\ 1 - 1 = 0 /\ 0 + 1 = 1  BY <1>1
    <2> QED BY <1>1, <1>5, <1>6, <2>1
  <1>8. ASSUME NEW n \in 0..(L - 1), n \in Good PROVE n + 1 \in Good
    <2>1. n + 1 \in 1..L /\ n + 2 \in 1..(L + 1) /\ (n + 1) - 1 = n /\ (n + 2) - 1 = n + 1
          /\ (n + 1) + 1 = n + 2  BY <1>1
    <2>2. g[n + 1] = DocsAfter(g[n], r[n + 1]) /\ f[n + 2] = DocsAfter(f[n + 1], q[n + 2])
      BY <1>5, <1>6, <2>1
    <2>3. r[n + 1] = q[n + 2]  BY <1>1, <2>1
    <2> QED BY <1>8, <2>1, <2>2, <2>3
  <1>9. 0..L \subseteq Good
    <2> HIDE DEF Good
    <2> QED BY <1>1, <1>7, <1>8, IntervalInduction
  <1> QED BY <1>9 DEF f, g, r, L

\* Texts as the editor makes them, NoText among them.
Texts(T) == NoText \in T /\ T \subseteq Nat \X Nat

\* What clangd knows when it has read all its input.
Heard(s, stdin) == Told(s.docs, stdin)[Len(stdin)]

\* With one more message it knows what that message adds.
LEMMA HeardAppend ==
  ASSUME NEW T, NEW s, ServerTyped(s, T), NEW q \in Seq(MessageSet(T)), NEW m \in MessageSet(T)
  PROVE  /\ Heard(s, q) \in Maps(T)
         /\ Heard(s, Append(q, m)) = DocsAfter(Heard(s, q), m)
         /\ \A n \in 0..Len(q) : Told(s.docs, Append(q, m))[n] = Told(s.docs, q)[n]
  <1>1. s.docs \in Maps(T)  BY ServerMaps
  <1>2. Len(Append(q, m)) = Len(q) + 1 /\ Len(q) \in Nat  BY AppendProperties, LenProperties
  <1>3. Trace(Told(s.docs, q), s.docs, q, T)  BY <1>1, ToldTrace
  <1>4. Heard(s, q) \in Maps(T)  BY <1>2, <1>3 DEF Trace, Heard
  <1>5. /\ \A n \in 0..Len(q) : Told(s.docs, Append(q, m))[n] = Told(s.docs, q)[n]
        /\ Told(s.docs, Append(q, m))[Len(q) + 1] = DocsAfter(Told(s.docs, q)[Len(q)], m)
    BY <1>1, ToldAppend
  <1> QED BY <1>2, <1>4, <1>5 DEF Heard

\* A message that it may get makes no fault.
LEMMA FaultlessAppend ==
  ASSUME NEW T, NEW s, ServerTyped(s, T), NEW q \in Seq(MessageSet(T)), NEW m \in MessageSet(T),
         Faultless(s.docs, q), ~Wrong(Heard(s, q), m)
  PROVE  Faultless(s.docs, Append(q, m))
  <1> DEFINE a == Append(q, m)
  <1>1. /\ Len(a) = Len(q) + 1 /\ Len(q) \in Nat /\ a[Len(q) + 1] = m
        /\ \A n \in 1..Len(q) : a[n] = q[n]
    BY AppendProperties, LenProperties
  <1>2. \A n \in 0..Len(q) : Told(s.docs, a)[n] = Told(s.docs, q)[n]  BY HeardAppend
  <1> HIDE DEF a
  <1>3. ASSUME NEW n \in 1..Len(a) PROVE ~Wrong(Told(s.docs, a)[n - 1], a[n])
    <2>1. CASE n \in 1..Len(q)
      <3>1. n - 1 \in 0..Len(q)  BY <1>1, <2>1
      <3> QED BY <1>1, <1>2, <2>1, <3>1 DEF Faultless
    <2>2. CASE n = Len(q) + 1
      <3>1. n - 1 = Len(q) /\ Len(q) \in 0..Len(q)  BY <1>1, <2>2
      <3> QED BY <1>1, <1>2, <2>2, <3>1 DEF Heard
    <2> QED BY <1>1, <2>1, <2>2
  <1> QED BY <1>3 DEF Faultless, a

\* A message of another id leaves an answer due as it was.
LEMMA DueSend ==
  ASSUME NEW T, NEW s, ServerTyped(s, T), NEW q \in Seq(MessageSet(T)), NEW m \in MessageSet(T),
         NEW a, NEW output, Due(a, q, output, s), m.id # a.id
  PROVE  Due(a, Append(q, m), output, s)
  <1> DEFINE r == Append(q, m)
  <1>1. /\ Len(r) = Len(q) + 1 /\ Len(q) \in Nat /\ r[Len(q) + 1] = m
        /\ \A n \in 1..Len(q) : r[n] = q[n]
    BY AppendProperties, LenProperties
  <1>2. \A n \in 0..Len(q) : Told(s.docs, r)[n] = Told(s.docs, q)[n]  BY HeardAppend
  <1> HIDE DEF r
  <1>3. ASSUME NEW n \in 1..Len(r), r[n].id = a.id
        PROVE  /\ r[n].type \in {"request", "semantic"} /\ r[n].path = a.path
               /\ a.path \in DOMAIN Told(s.docs, r)[n - 1]
               /\ Told(s.docs, r)[n - 1][a.path] = a.text
    <2>1. n \in 1..Len(q)  BY <1>1, <1>3
    <2>2. n - 1 \in 0..Len(q)  BY <1>1, <2>1
    <2> QED BY <1>1, <1>2, <1>3, <2>1, <2>2 DEF Due
  <1> QED BY <1>3 DEF Due, r

\* Nothing with this id is on its way.
Unused(i, q, output, s) ==
  /\ \A n \in 1..Len(q) : q[n].id # i
  /\ \A j \in s.jobs : j.type = "response" => j.id # i
  /\ \A n \in 1..Len(output) : output[n].type = "response" => output[n].id # i

\* A new question gets the answer that clangd's text gives.
LEMMA DueAsk ==
  ASSUME NEW T, NEW s, ServerTyped(s, T), NEW q \in Seq(MessageSet(T)), NEW m \in MessageSet(T),
         NEW a, NEW output, Unused(a.id, q, output, s),
         m.type \in {"request", "semantic"}, m.path = a.path,
         a.path \in DOMAIN Heard(s, q), Heard(s, q)[a.path] = a.text
  PROVE  Due(a, Append(q, m), output, s)
  <1> DEFINE r == Append(q, m)
  <1>1. /\ Len(r) = Len(q) + 1 /\ Len(q) \in Nat /\ r[Len(q) + 1] = m
        /\ \A n \in 1..Len(q) : r[n] = q[n]
    BY AppendProperties, LenProperties
  <1>2. \A n \in 0..Len(q) : Told(s.docs, r)[n] = Told(s.docs, q)[n]  BY HeardAppend
  <1> HIDE DEF r
  <1>3. ASSUME NEW n \in 1..Len(r), r[n].id = a.id
        PROVE  /\ r[n].type \in {"request", "semantic"} /\ r[n].path = a.path
               /\ a.path \in DOMAIN Told(s.docs, r)[n - 1]
               /\ Told(s.docs, r)[n - 1][a.path] = a.text
    <2>1. n = Len(q) + 1  BY <1>1, <1>3 DEF Unused
    <2>2. n - 1 = Len(q) /\ Len(q) \in 0..Len(q)  BY <1>1, <2>1
    <2> QED BY <1>1, <1>2, <2>1, <2>2 DEF Heard
  <1>4. \A j \in s.jobs : Answers(j, a)  BY DEF Unused, Answers
  <1>5. \A n \in 1..Len(output) : Answers(output[n], a)  BY DEF Unused, Answers
  <1> QED BY <1>3, <1>4, <1>5 DEF Due, r

\* A question that is lost gets no answer.
LEMMA DueLost ==
  ASSUME NEW s, NEW q, NEW a, NEW output, Unused(a.id, q, output, s)
  PROVE  Due(a, q, output, s)
  <1>4. \A j \in s.jobs : Answers(j, a)  BY DEF Unused, Answers
  <1>5. \A n \in 1..Len(output) : Answers(output[n], a)  BY DEF Unused, Answers
  <1> QED BY <1>4, <1>5 DEF Due, Unused

\* A message that the client has taken is no longer in the output.
LEMMA DueTake ==
  ASSUME NEW T, NEW output \in Seq(AnswerSet(T)), output # <<>>, NEW s, NEW q, NEW a,
         Due(a, q, output, s)
  PROVE  Due(a, q, Tail(output), s)
  <1>1. Len(output) \in Nat \ {0} /\ Len(Tail(output)) = Len(output) - 1
        /\ \A i \in 1..(Len(output) - 1) : Tail(output)[i] = output[i + 1]
    BY EmptySeq, HeadTailProperties
  <1>2. \A i \in 1..(Len(output) - 1) : i + 1 \in 1..Len(output)  BY <1>1
  <1>3. \A i \in 1..Len(Tail(output)) : Answers(Tail(output)[i], a)  BY <1>1, <1>2 DEF Due
  <1> QED BY <1>3 DEF Due

----------------------------------------------------------------------------
(* Steps of the client that keep it sound *)

\* told is what the client c believes clangd has been told.
Mirrors(c, told) ==
  /\ DOMAIN told = {p \in DOMAIN c.open : c.open[p].announced}
  /\ \A p \in DOMAIN told :
       /\ VersionOf(told[p]) <= c.open[p].version
       /\ ~c.open[p].changePending => told[p] = TextOf(c.open[p])

\* The next id is in no message, and every question has an earlier one.
LEMMA NextIdUnused ==
  ASSUME NEW T, NEW c, NEW s, Sound(c, s, T)
  PROVE  /\ Unused(c.nextId, c.stdin, c.output, s)
         /\ \A a \in Asked(c) : 0 < a.id /\ a.id < c.nextId
  <1>1. c.nextId \in Nat /\ c.stdin \in Seq(MessageSet(T)) /\ c.output \in Seq(AnswerSet(T))
    BY DEF Sound, ClientTyped
  <1>2. Unused(c.nextId, c.stdin, c.output, s)
    BY <1>1 DEF Sound, Tracked, JobsTracked, Unused
  <1>3. \A a \in Asked(c) : a.id \in WaitingIds(c)
    BY DEF Asked, WaitingIds
  <1> QED BY <1>2, <1>3 DEF Sound, Tracked

\* A step that sends m.
LEMMA SendSound ==
  ASSUME NEW T, NEW c, NEW s, Sound(c, s, T), NEW e, ClientTyped(e, T), Tracked(e), Painted(e),
         e.nextId >= c.nextId, e.running = c.running, e.output = c.output,
         NEW m \in MessageSet(T), e.stdin = IF c.running THEN Append(c.stdin, m) ELSE c.stdin,
         c.running => Mirrors(e, DocsAfter(Heard(s, c.stdin), m)),
         c.running /\ ~MaySaveAs => ~Wrong(Heard(s, c.stdin), m),
         \A a \in Asked(e) :
           \/ a \in Asked(c) /\ a.id # m.id
           \/ /\ a.id = c.nextId /\ m.type \in {"request", "semantic"} /\ m.path = a.path
              /\ c.running => a.path \in DOMAIN Heard(s, c.stdin) /\ Heard(s, c.stdin)[a.path] = a.text
  PROVE  Sound(e, s, T)
  <1>1. ServerTyped(s, T) /\ c.stdin \in Seq(MessageSet(T)) /\ c.nextId \in Nat /\ e.nextId \in Nat
        /\ c.running \in BOOLEAN
    BY DEF Sound, ClientTyped
  <1>2. JobsTracked(e, s)
    <2>1. \A j \in s.jobs : j.type = "response" => j.id \in Nat
      BY <1>1 DEF ServerTyped, AnswerSet
    <2> QED BY <1>1, <2>1 DEF Sound, JobsTracked
  <1>3. c.running => Heard(s, Append(c.stdin, m)) = DocsAfter(Heard(s, c.stdin), m)
    BY <1>1, HeardAppend
  <1>4. Linked(e, s)
    <2>1. CASE c.running
      <3>1. Mirrored(e, s.docs)  BY <1>3, <2>1 DEF Mirrored, Mirrors, Heard
      <3>2. ~MaySaveAs => ~s.fault /\ Faultless(s.docs, e.stdin)
        BY <1>1, <2>1, FaultlessAppend DEF Sound, Linked
      <3> QED BY <2>1, <3>1, <3>2 DEF Linked
    <2>2. CASE ~c.running  BY <2>2 DEF Sound, Linked
    <2> QED BY <2>1, <2>2
  <1>5. ASSUME NEW a \in Asked(e) PROVE Due(a, e.stdin, e.output, s)
    <2>1. CASE a \in Asked(c) /\ a.id # m.id
      <3>1. Due(a, c.stdin, c.output, s)  BY <2>1 DEF Sound, Answered
      <3> QED BY <1>1, <2>1, <3>1, DueSend
    <2>2. CASE /\ a.id = c.nextId /\ m.type \in {"request", "semantic"} /\ m.path = a.path
               /\ c.running => a.path \in DOMAIN Heard(s, c.stdin) /\ Heard(s, c.stdin)[a.path] = a.text
      <3>1. Unused(a.id, c.stdin, c.output, s)  BY <2>2, NextIdUnused
      <3>2. CASE c.running
        <4>1. Due(a, Append(c.stdin, m), c.output, s)  BY <1>1, <2>2, <3>1, <3>2, DueAsk
        <4> QED BY <3>2, <4>1
      <3>3. CASE ~c.running  BY <3>1, <3>3, DueLost
      <3> QED BY <3>2, <3>3
    <2> QED BY <1>5, <2>1, <2>2
  <1> QED BY <1>1, <1>2, <1>4, <1>5 DEF Sound, Answered

\* A step that sends nothing.
LEMMA QuietSound ==
  ASSUME NEW T, NEW c, NEW s, Sound(c, s, T), NEW e, ClientTyped(e, T), Tracked(e), Painted(e),
         e.nextId >= c.nextId, e.running = c.running, e.output = c.output, e.stdin = c.stdin,
         c.running => Mirrors(e, Heard(s, c.stdin)), Asked(e) \subseteq Asked(c)
  PROVE  Sound(e, s, T)
  <1>1. ServerTyped(s, T) /\ c.nextId \in Nat /\ e.nextId \in Nat
    BY DEF Sound, ClientTyped
  <1>2. JobsTracked(e, s)
    <2>1. \A j \in s.jobs : j.type = "response" => j.id \in Nat
      BY <1>1 DEF ServerTyped, AnswerSet
    <2> QED BY <1>1, <2>1 DEF Sound, JobsTracked
  <1>3. Linked(e, s)
    BY DEF Sound, Linked, Mirrored, Mirrors, Heard
  <1>4. Answered(e, s)
    BY DEF Sound, Answered
  <1> QED BY <1>1, <1>2, <1>3, <1>4 DEF Sound

\* What a sound client with a running process believes is true.
LEMMA SoundMirrors ==
  ASSUME NEW T, NEW c, NEW s, Sound(c, s, T), c.running
  PROVE  Mirrors(c, Heard(s, c.stdin))
  BY DEF Sound, Linked, Mirrored, Mirrors, Heard

\* The fields that a step may leave alone.
Rest1(c, e) == e.running = c.running /\ e.output = c.output /\ e.started = c.started
               /\ e.exitReported = c.exitReported /\ e.initialized = c.initialized
               /\ e.typesKnown = c.typesKnown
Rest2(c, e) == e.initId = c.initId /\ e.nextId = c.nextId /\ e.slot = c.slot /\ e.pending = c.pending
Rest3(c, e) == e.open = c.open /\ e.tokens = c.tokens /\ e.diags = c.diags /\ e.result = c.result
               /\ e.active = c.active

\* A message put on the wire, or lost.
Sent(c, m) == IF c.running THEN Append(c.stdin, m) ELSE c.stdin

\* Send() only writes.
LEMMA SendFields ==
  ASSUME NEW T, NEW c, ClientTyped(c, T), NEW m \in MessageSet(T)
  PROVE  LET e == Send(c, m) IN
         /\ e = [c EXCEPT !.stdin = Sent(c, m)] /\ Sent(c, m) \in Seq(MessageSet(T))
         /\ ClientTyped(e, T)
  <1>1. c.running \in BOOLEAN /\ c.stdin \in Seq(MessageSet(T))  BY DEF ClientTyped
  <1>2. Sent(c, m) \in Seq(MessageSet(T))  BY <1>1 DEF Sent
  <1>3. c = [c EXCEPT !.stdin = c.stdin]  BY DEF ClientTyped
  <1>4. Send(c, m) = [c EXCEPT !.stdin = Sent(c, m)]  BY <1>1, <1>3 DEF Send, Sent
  <1> HIDE DEF Sent
  <1>5. ClientTyped([c EXCEPT !.stdin = Sent(c, m)], T)
    BY <1>2 DEF ClientTyped, MapOf
  <1> QED BY <1>2, <1>4, <1>5

\* When queueSemanticTokens() asks.
Queues(c, p) ==
  /\ c.initialized /\ p \in DOMAIN c.open /\ p \in c.dirty /\ c.typesKnown
  /\ c.open[p].announced /\ ~c.open[p].changePending
  /\ \A r \in c.semantic : r.path # p

\* What it asks, and notes.
TokensAsked(c, p) == [id |-> c.nextId, path |-> p, version |-> c.open[p].version, load |-> c.open[p].load]
TokensMessage(c, p) == Msg("semantic", c.nextId, p, NoText)

\* What becomes of the fields of a client that asks for tokens.
LEMMA QueueFields ==
  ASSUME NEW T, Texts(T), NEW c, ClientTyped(c, T), NEW p \in Paths, Queues(c, p)
  PROVE  LET e == QueueSemanticTokens(c, p) IN
         /\ e = [c EXCEPT !.stdin = Sent(c, TokensMessage(c, p)), !.nextId = c.nextId + 1,
                          !.pending = c.pending \union {c.nextId}, !.dirty = c.dirty \ {p},
                          !.semantic = c.semantic \union {TokensAsked(c, p)}]
         /\ ClientTyped(e, T) /\ TokensMessage(c, p) \in MessageSet(T)
  <1> DEFINE m == TokensMessage(c, p)
             r == TokensAsked(c, p)
             q == Sent(c, m)
  <1>1. c.nextId \in Nat \ {0} /\ MapOf(c.open, Paths, OpenSet(T))  BY DEF ClientTyped
  <1>2. m \in MessageSet(T)  BY <1>1 DEF MessageSet, TokensMessage, Msg, Texts
  <1>3. c.open[p] \in OpenState  BY <1>1 DEF Queues, MapOf, OpenSet
  <1>4. r \in SemanticSet  BY <1>1, <1>3 DEF SemanticSet, TokensAsked, OpenState
  <1>5. Send(c, m) = [c EXCEPT !.stdin = q] /\ q \in Seq(MessageSet(T))  BY <1>2, SendFields
  <1>6. QueueSemanticTokens(c, p) =
          [[[c EXCEPT !.stdin = q] EXCEPT !.nextId = @ + 1, !.pending = @ \union {c.nextId}]
             EXCEPT !.dirty = @ \ {p}, !.semantic = @ \union {r}]
    BY <1>5, Zenon DEF QueueSemanticTokens, Queues, Request, TokensMessage, TokensAsked
  <1> HIDE DEF q, m, r
  <1> DEFINE e == [c EXCEPT !.stdin = q, !.nextId = c.nextId + 1,
                          !.pending = c.pending \union {c.nextId}, !.dirty = c.dirty \ {p},
                          !.semantic = c.semantic \union {r}]
  <1>7. QueueSemanticTokens(c, p) = e
    BY <1>6 DEF ClientTyped
  <1>8. ClientTyped(e, T)
    <2>1. /\ c.nextId + 1 \in Nat \ {0} /\ c.pending \union {c.nextId} \in SUBSET Nat
          /\ c.dirty \ {p} \in SUBSET Paths /\ c.semantic \union {r} \in SUBSET SemanticSet
      BY <1>1, <1>4 DEF ClientTyped
    <2>2. e.open = c.open  BY DEF ClientTyped
    <2> QED BY <1>1, <1>5, <2>1, <2>2 DEF ClientTyped
  <1> HIDE DEF e
  <1>9. ClientTyped(QueueSemanticTokens(c, p), T)  BY <1>7, <1>8
  <1> QED BY <1>2, <1>7, <1>9 DEF e, q, m, r

\* Ids in messages grow with the next id.
LEMMA WireIds ==
  ASSUME NEW T, NEW c, ClientTyped(c, T), Tracked(c), NEW m \in MessageSet(T), NEW N \in Nat,
         N >= c.nextId, m.id < N
  PROVE  /\ \A i \in 1..Len(Sent(c, m)) : Sent(c, m)[i].id < N
         /\ \A i \in 1..Len(c.output) : c.output[i].type = "response" => c.output[i].id < N
  <1>1. c.stdin \in Seq(MessageSet(T)) /\ c.output \in Seq(AnswerSet(T)) /\ c.nextId \in Nat
    BY DEF ClientTyped
  <1>2. /\ Len(Append(c.stdin, m)) = Len(c.stdin) + 1 /\ Len(c.stdin) \in Nat
        /\ Append(c.stdin, m)[Len(c.stdin) + 1] = m
        /\ \A n \in 1..Len(c.stdin) : Append(c.stdin, m)[n] = c.stdin[n]
    BY <1>1, AppendProperties, LenProperties
  <1>3. \A i \in 1..Len(c.stdin) : c.stdin[i].id \in Nat /\ c.stdin[i].id < N
    <2>1. \A i \in 1..Len(c.stdin) : c.stdin[i] \in MessageSet(T)  BY <1>1, ElementOfSeq
    <2>2. \A i \in 1..Len(c.stdin) : c.stdin[i].id \in Nat  BY <2>1 DEF MessageSet
    <2> QED BY <1>1, <2>2 DEF Tracked
  <1>4. \A i \in 1..Len(c.output) : c.output[i].type = "response" => c.output[i].id < N
    <2>1. \A i \in 1..Len(c.output) : c.output[i] \in AnswerSet(T)  BY <1>1, ElementOfSeq
    <2>2. \A i \in 1..Len(c.output) : c.output[i].type = "response" => c.output[i].id \in Nat
      BY <2>1 DEF AnswerSet
    <2> QED BY <1>1, <2>2 DEF Tracked
  <1>5. ASSUME NEW i \in 1..Len(Sent(c, m)) PROVE Sent(c, m)[i].id < N
    <2>1. CASE c.running
      <3>1. Sent(c, m) = Append(c.stdin, m)  BY <2>1 DEF Sent
      <3>2. i \in 1..Len(c.stdin) \/ i = Len(c.stdin) + 1  BY <1>2, <3>1
      <3> QED BY <1>2, <1>3, <3>1, <3>2
    <2>2. CASE ~c.running  BY <1>3, <2>2 DEF Sent
    <2> QED BY <2>1, <2>2
  <1> QED BY <1>4, <1>5

\* A request for tokens keeps the client sound and its copies as they are.
LEMMA QueueSound ==
  ASSUME NEW T, Texts(T), NEW c, NEW s, Sound(c, s, T), NEW p \in Paths
  PROVE  LET e == QueueSemanticTokens(c, p) IN
         /\ Sound(e, s, T) /\ Rest1(c, e) /\ Rest3(c, e)
         /\ e.initId = c.initId /\ e.slot = c.slot /\ e.document = c.document
  <1> DEFINE m == TokensMessage(c, p)
             r == TokensAsked(c, p)
             e == QueueSemanticTokens(c, p)
  <1>1. CASE ~Queues(c, p)
    <2>1. e = c  BY <1>1 DEF QueueSemanticTokens, Queues
    <2> QED BY <2>1 DEF Rest1, Rest3
  <1>2. CASE Queues(c, p)
    <2>1. ClientTyped(c, T) /\ Tracked(c) /\ Painted(c)  BY DEF Sound
    <2>2. /\ e = [c EXCEPT !.stdin = Sent(c, m), !.nextId = c.nextId + 1,
                          !.pending = c.pending \union {c.nextId}, !.dirty = c.dirty \ {p},
                          !.semantic = c.semantic \union {r}]
          /\ ClientTyped(e, T) /\ m \in MessageSet(T)
      BY <1>2, <2>1, QueueFields
    <2> HIDE DEF e
    <2>3. /\ e.stdin = Sent(c, m) /\ e.nextId = c.nextId + 1 /\ e.pending = c.pending \union {c.nextId}
          /\ e.dirty = c.dirty \ {p} /\ e.semantic = c.semantic \union {r}
      BY <2>1, <2>2 DEF ClientTyped
    <2>4. /\ Rest1(c, e) /\ Rest3(c, e) /\ e.initId = c.initId /\ e.slot = c.slot
          /\ e.document = c.document
      BY <2>1, <2>2 DEF ClientTyped, Rest1, Rest3
    <2>5. /\ m.id = c.nextId /\ m.type = "semantic" /\ m.path = p
          /\ r.id = c.nextId /\ r.path = p /\ <<r.load, r.version>> = TextOf(c.open[p])
      BY DEF TokensMessage, TokensAsked, Msg, TextOf
    <2> HIDE DEF m, r
    <2>6. c.nextId \in Nat \ {0} /\ c.slot \in [Kinds -> Nat] /\ c.initId \in Nat
          /\ c.document \subseteq DocumentSet /\ c.semantic \subseteq SemanticSet
      BY <2>1 DEF ClientTyped
    <2>7. Tracked(e)
      <3>1. WaitingIds(e) = WaitingIds(c) \union {c.nextId}
        BY <2>3, <2>4, <2>5 DEF WaitingIds
      <3>2. \A i \in WaitingIds(c) : i \in Nat
        BY <2>6 DEF WaitingIds, DocumentSet, SemanticSet
      <3>3. e.pending = WaitingIds(e)  BY <2>1, <2>3, <3>1 DEF Tracked
      <3>4. \A i \in WaitingIds(e) : 0 < i /\ i < e.nextId
        BY <2>1, <2>3, <2>6, <3>1, <3>2 DEF Tracked
      <3>5. e.initId < e.nextId /\ \A k \in Kinds : e.slot[k] < e.nextId
        BY <2>1, <2>3, <2>4, <2>6 DEF Tracked
      <3>6. /\ \A i \in 1..Len(e.stdin) : e.stdin[i].id < e.nextId
            /\ \A i \in 1..Len(e.output) : e.output[i].type = "response" => e.output[i].id < e.nextId
        <4>1. c.nextId + 1 \in Nat /\ c.nextId + 1 >= c.nextId /\ m.id < c.nextId + 1
          BY <2>5, <2>6
        <4> QED BY <2>1, <2>2, <2>3, <2>4, <4>1, WireIds DEF Rest1
      <3>7. \A d \in c.document : d.id \in WaitingIds(c)  BY DEF WaitingIds
      <3>8. \A q \in c.semantic : q.id \in WaitingIds(c) /\ q.path # p
        BY <1>2 DEF WaitingIds, Queues
      <3>9. \A i \in WaitingIds(c) : i # c.nextId  BY <2>1, <2>6 DEF Tracked
      <3>10. \A d1, d2 \in e.document : d1.id = d2.id => d1 = d2
        BY <2>1, <2>4 DEF Tracked
      <3>11. \A q1, q2 \in e.semantic : q1.id = q2.id \/ q1.path = q2.path => q1 = q2
        BY <2>1, <2>3, <2>5, <3>8, <3>9 DEF Tracked
      <3>12. \A d \in e.document, q \in e.semantic : d.id # q.id
        BY <2>1, <2>3, <2>4, <2>5, <3>7, <3>9 DEF Tracked
      <3>13. \A d \in e.document : d.id # e.initId  BY <2>1, <2>4 DEF Tracked
      <3>14. ASSUME NEW q \in e.semantic
             PROVE  q.id # e.initId /\ \A k \in Kinds : e.slot[k] # q.id
        <4>1. CASE q \in c.semantic  BY <2>1, <2>4, <4>1 DEF Tracked
        <4>2. CASE q = r
          <5>1. c.initId # c.nextId /\ \A k \in Kinds : c.slot[k] # c.nextId
            BY <2>1, <2>6 DEF Tracked
          <5> QED BY <2>4, <2>5, <4>2, <5>1
        <4> QED BY <2>3, <4>1, <4>2
      <3>15. /\ \A d \in e.document : \E k \in Kinds : e.slot[k] = d.id
             /\ e.initId # 0 => \A k \in Kinds : e.slot[k] # e.initId
             /\ e.initialized => e.initId = 0
        BY <2>1, <2>4 DEF Tracked, Rest1
      <3> QED BY <3>3, <3>4, <3>5, <3>6, <3>10, <3>11, <3>12, <3>13, <3>14, <3>15 DEF Tracked
    <2>8. Painted(e)
      <3>1. \A x \in DOMAIN e.open :
              x \in e.dirty \/ (\E q \in e.semantic : q.path = x) \/ e.tokens[x] = TextOf(e.open[x])
        BY <2>1, <2>3, <2>4, <2>5 DEF Painted, Rest3
      <3>2. ASSUME NEW q \in e.semantic, q.path \in DOMAIN e.open, q.path \notin e.dirty
            PROVE  <<q.load, q.version>> = TextOf(e.open[q.path])
        <4>1. CASE q = r  BY <2>4, <2>5, <4>1 DEF Rest3
        <4>2. CASE q \in c.semantic
          <5>1. q.path # p  BY <1>2, <4>2 DEF Queues
          <5> QED BY <2>1, <2>3, <2>4, <3>2, <4>2, <5>1 DEF Painted, Rest3
        <4> QED BY <2>3, <4>1, <4>2
      <3>3. \A d \in e.document : d.path \in DOMAIN e.open /\ d.version = e.open[d.path].version
        BY <2>1, <2>4 DEF Painted, Rest3
      <3> QED BY <3>1, <3>2, <3>3 DEF Painted
    <2>9. c.running => /\ Mirrors(e, DocsAfter(Heard(s, c.stdin), m))
                       /\ ~Wrong(Heard(s, c.stdin), m)
                       /\ p \in DOMAIN Heard(s, c.stdin) /\ Heard(s, c.stdin)[p] = TextOf(c.open[p])
      <3> SUFFICES ASSUME c.running
                   PROVE  /\ Mirrors(e, DocsAfter(Heard(s, c.stdin), m))
                          /\ ~Wrong(Heard(s, c.stdin), m)
                          /\ p \in DOMAIN Heard(s, c.stdin) /\ Heard(s, c.stdin)[p] = TextOf(c.open[p])
        OBVIOUS
      <3>1. Mirrors(c, Heard(s, c.stdin))  BY SoundMirrors
      <3>2. DocsAfter(Heard(s, c.stdin), m) = Heard(s, c.stdin)  BY <2>5 DEF DocsAfter
      <3>3. ~Wrong(Heard(s, c.stdin), m)  BY <2>5 DEF Wrong
      <3>4. Mirrors(e, Heard(s, c.stdin))  BY <2>4, <3>1 DEF Mirrors, Rest3
      <3>5. p \in DOMAIN Heard(s, c.stdin)  BY <1>2, <3>1 DEF Mirrors, Queues
      <3>6. Heard(s, c.stdin)[p] = TextOf(c.open[p])  BY <1>2, <3>1, <3>5 DEF Mirrors, Queues
      <3> QED BY <3>2, <3>3, <3>4, <3>5, <3>6
    <2>10. ASSUME NEW a \in Asked(e)
           PROVE  \/ a \in Asked(c) /\ a.id # m.id
                  \/ a.id = c.nextId /\ a.path = p /\ a.text = TextOf(c.open[p])
      <3>1. a \in Asked(c) \/ a = [id |-> r.id, path |-> r.path, text |-> <<r.load, r.version>>]
        BY <2>3, <2>4 DEF Asked, Rest3
      <3>2. a \in Asked(c) => a.id # c.nextId
        <4>1. a \in Asked(c) => a.id \in WaitingIds(c)  BY DEF Asked, WaitingIds
        <4>2. \A i \in WaitingIds(c) : i # c.nextId
          <5>1. \A i \in WaitingIds(c) : i \in Nat
            BY <2>6 DEF WaitingIds, DocumentSet, SemanticSet
          <5> QED BY <2>1, <2>6, <5>1 DEF Tracked
        <4> QED BY <4>1, <4>2
      <3> QED BY <2>5, <3>1, <3>2
    <2>11. Sound(e, s, T)
      <3>1. e.nextId >= c.nextId  BY <2>3, <2>6
      <3>2. e.stdin = IF c.running THEN Append(c.stdin, m) ELSE c.stdin  BY <2>3 DEF Sent
      <3>3. \A a \in Asked(e) :
              \/ a \in Asked(c) /\ a.id # m.id
              \/ /\ a.id = c.nextId /\ m.type \in {"request", "semantic"} /\ m.path = a.path
                 /\ c.running => a.path \in DOMAIN Heard(s, c.stdin) /\ Heard(s, c.stdin)[a.path] = a.text
        BY <2>5, <2>9, <2>10
      <3> QED BY <2>2, <2>4, <2>7, <2>8, <2>9, <3>1, <3>2, <3>3, SendSound DEF Rest1
    <2> QED BY <2>4, <2>11 DEF e
  <1> QED BY <1>1, <1>2

\* Who waits for less waits for ids that are known.
LEMMA TrackedLess ==
  ASSUME NEW c, NEW e, Tracked(c), e.document \subseteq c.document, e.semantic \subseteq c.semantic,
         e.initId \in {0, c.initId}, e.initialized => e.initId = 0, e.pending = WaitingIds(e),
         e.nextId = c.nextId, e.slot = c.slot, 0 < c.nextId,
         \A i \in 1..Len(e.stdin) : e.stdin[i].id < c.nextId,
         \A i \in 1..Len(e.output) : e.output[i].type = "response" => e.output[i].id < c.nextId,
         \A r \in c.document : r.id # 0, \A r \in c.semantic : r.id # 0
  PROVE  Tracked(e)
  <1>1. WaitingIds(e) \subseteq WaitingIds(c)  BY DEF WaitingIds
  <1>2. \A i \in WaitingIds(e) : 0 < i /\ i < e.nextId  BY <1>1 DEF Tracked
  <1>3. e.initId < e.nextId /\ \A k \in Kinds : e.slot[k] < e.nextId  BY DEF Tracked
  <1>4. /\ \A r, q \in e.document : r.id = q.id => r = q
        /\ \A r, q \in e.semantic : r.id = q.id \/ r.path = q.path => r = q
        /\ \A r \in e.document, q \in e.semantic : r.id # q.id
    BY DEF Tracked
  <1>5. /\ \A r \in e.document : r.id # e.initId
        /\ \A q \in e.semantic : q.id # e.initId /\ \A k \in Kinds : e.slot[k] # q.id
    BY DEF Tracked
  <1>6. \A r \in e.document : \E k \in Kinds : e.slot[k] = r.id  BY DEF Tracked
  <1>7. e.initId # 0 => \A k \in Kinds : e.slot[k] # e.initId  BY DEF Tracked
  <1> QED BY <1>2, <1>3, <1>4, <1>5, <1>6, <1>7 DEF Tracked

\* The ids of the requests that are waited for are not 0.
LEMMA WaitingNotZero ==
  ASSUME NEW T, NEW c, ClientTyped(c, T), Tracked(c)
  PROVE  /\ \A r \in c.document : r.id \in Nat /\ 0 < r.id /\ r.id < c.nextId
         /\ \A r \in c.semantic : r.id \in Nat /\ 0 < r.id /\ r.id < c.nextId
         /\ c.nextId \in Nat /\ 0 < c.nextId
         /\ \A a \in Asked(c) : a.id # 0
  <1>1. c.document \subseteq DocumentSet /\ c.semantic \subseteq SemanticSet /\ c.nextId \in Nat \ {0}
    BY DEF ClientTyped
  <1>2. \A r \in c.document : r.id \in WaitingIds(c)  BY DEF WaitingIds
  <1>3. \A r \in c.semantic : r.id \in WaitingIds(c)  BY DEF WaitingIds
  <1>4. \A r \in c.document : r.id \in Nat /\ 0 < r.id /\ r.id < c.nextId
    BY <1>1, <1>2 DEF DocumentSet, Tracked
  <1>5. \A r \in c.semantic : r.id \in Nat /\ 0 < r.id /\ r.id < c.nextId
    BY <1>1, <1>3 DEF SemanticSet, Tracked
  <1>6. \A a \in Asked(c) : a.id # 0  BY <1>4, <1>5 DEF Asked
  <1> QED BY <1>1, <1>4, <1>5, <1>6

\* A notification is sent, and the copy of one document changes with it.
LEMMA TellSound ==
  ASSUME NEW T, NEW c, NEW s, Sound(c, s, T), NEW e, ClientTyped(e, T), Painted(e),
         Rest1(c, e) \/ (e.running = c.running /\ e.output = c.output /\ c.initId = 0),
         Rest2(c, e), e.document = c.document, e.semantic = c.semantic,
         NEW m \in MessageSet(T), m.id = 0, e.stdin = Sent(c, m),
         c.running => Mirrors(e, DocsAfter(Heard(s, c.stdin), m)),
         c.running /\ ~MaySaveAs => ~Wrong(Heard(s, c.stdin), m),
         \A r \in c.document : TextOf(e.open[r.path]) = TextOf(c.open[r.path])
  PROVE  Sound(e, s, T)
  <1>1. ClientTyped(c, T) /\ Tracked(c)  BY DEF Sound
  <1>2. /\ \A r \in c.document : r.id # 0
        /\ \A r \in c.semantic : r.id # 0
        /\ c.nextId \in Nat /\ 0 < c.nextId
        /\ \A a \in Asked(c) : a.id # 0
    BY <1>1, WaitingNotZero
  <1>3. /\ \A i \in 1..Len(e.stdin) : e.stdin[i].id < c.nextId
        /\ \A i \in 1..Len(e.output) : e.output[i].type = "response" => e.output[i].id < c.nextId
    BY <1>1, <1>2, WireIds DEF Rest1
  <1>4. Tracked(e)
    <2>1. e.pending = WaitingIds(e)  BY <1>1 DEF Tracked, WaitingIds, Rest2
    <2>2. e.initialized => e.initId = 0  BY <1>1 DEF Tracked, Rest1, Rest2
    <2> QED BY <1>1, <1>2, <1>3, <2>1, <2>2, TrackedLess DEF Rest2
  <1>5. Asked(e) = Asked(c)  BY DEF Asked
  <1>6. \A a \in Asked(e) : a \in Asked(c) /\ a.id # m.id  BY <1>2, <1>5
  <1>7. e.nextId >= c.nextId  BY <1>2 DEF Rest2
  <1> QED BY <1>4, <1>6, <1>7, SendSound DEF Rest1, Sent

\* The copy of one document changes, or of none, and nothing is sent.
LEMMA CopySound ==
  ASSUME NEW T, NEW c, NEW s, Sound(c, s, T), NEW e, ClientTyped(e, T), Painted(e),
         Rest1(c, e), Rest2(c, e), e.document = c.document, e.semantic = c.semantic,
         e.stdin = c.stdin, c.running => Mirrors(e, Heard(s, c.stdin)),
         \A r \in c.document : TextOf(e.open[r.path]) = TextOf(c.open[r.path])
  PROVE  Sound(e, s, T)
  <1>1. ClientTyped(c, T) /\ Tracked(c)  BY DEF Sound
  <1>2. Tracked(e)
    <2>1. e.pending = WaitingIds(e)  BY <1>1 DEF Tracked, WaitingIds, Rest2
    <2>2. e.initialized => e.initId = 0  BY <1>1 DEF Tracked, Rest1, Rest2
    <2>3. /\ \A r \in c.document : r.id # 0
          /\ \A r \in c.semantic : r.id # 0
          /\ c.nextId \in Nat /\ 0 < c.nextId
      BY <1>1, WaitingNotZero
    <2>4. /\ \A i \in 1..Len(e.stdin) : e.stdin[i].id < c.nextId
          /\ \A i \in 1..Len(e.output) : e.output[i].type = "response" => e.output[i].id < c.nextId
      BY <1>1 DEF Tracked, Rest1
    <2> QED BY <1>1, <2>1, <2>2, <2>3, <2>4, TrackedLess DEF Rest2
  <1>3. Asked(e) = Asked(c)  BY DEF Asked
  <1>4. e.nextId >= c.nextId
    <2>1. c.nextId \in Nat  BY <1>1 DEF ClientTyped
    <2> QED BY <2>1 DEF Rest2
  <1> QED BY <1>2, <1>3, <1>4, QuietSound DEF Rest1

\* The client's copies have texts of T.
LEMMA OpenEntry ==
  ASSUME NEW T, NEW c, ClientTyped(c, T), NEW p \in DOMAIN c.open
  PROVE  p \in Paths /\ c.open[p] \in OpenState /\ TextOf(c.open[p]) \in T /\ c.open[p].version \in Nat
  <1>1. p \in Paths /\ c.open[p] \in OpenSet(T)  BY DEF ClientTyped, MapOf
  <1> QED BY <1>1 DEF OpenSet, OpenState

\* A client with other output to clangd, other copies and other paths that are dirty.
Changed(c, q, f, dirty) == [c EXCEPT !.stdin = q, !.open = f, !.dirty = dirty]

\* What becomes of its fields.
LEMMA TypedOpen ==
  ASSUME NEW T, NEW c, ClientTyped(c, T), NEW q \in Seq(MessageSet(T)), NEW dirty, dirty \subseteq Paths,
         NEW f, MapOf(f, Paths, OpenSet(T)), NEW e, e = Changed(c, q, f, dirty)
  PROVE  /\ ClientTyped(e, T) /\ e.stdin = q /\ e.open = f /\ e.dirty = dirty
         /\ Rest1(c, e) /\ Rest2(c, e) /\ e.document = c.document /\ e.semantic = c.semantic
         /\ e.tokens = c.tokens /\ e.diags = c.diags /\ e.result = c.result /\ e.active = c.active
  <1> USE DEF Changed
  <1>1. e.stdin = q /\ e.open = f /\ e.dirty = dirty  BY DEF ClientTyped
  <1>2. Rest1(c, e) /\ Rest2(c, e)  BY DEF ClientTyped, Rest1, Rest2
  <1>3. /\ e.document = c.document /\ e.semantic = c.semantic
        /\ e.tokens = c.tokens /\ e.diags = c.diags /\ e.result = c.result /\ e.active = c.active
    BY DEF ClientTyped
  <1>4. ClientTyped(e, T)
    BY <1>1 DEF ClientTyped
  <1> QED BY <1>1, <1>2, <1>3, <1>4

\* What is said of one document: clangd then has its text, and none of the others changes.
LEMMA MirrorsOne ==
  ASSUME NEW T, NEW c, NEW e, ClientTyped(c, T), NEW told, Mirrors(c, told), NEW p, NEW m, m.path = p,
         m.type \in {"didOpen", "didChange"}, p \in DOMAIN e.open, m.text = TextOf(e.open[p]),
         e.open[p].announced, e.open[p].version \in Nat,
         DOMAIN e.open = DOMAIN c.open \union {p},
         \A x \in DOMAIN c.open \ {p} : e.open[x] = c.open[x]
  PROVE  Mirrors(e, DocsAfter(told, m))
  <1> DEFINE t == DocsAfter(told, m)
  <1>1. t = With(told, p, m.text)  BY DEF DocsAfter
  <1>2. DOMAIN t = DOMAIN told \union {p} /\ \A x \in DOMAIN t : t[x] = IF x = p THEN m.text ELSE told[x]
    BY <1>1 DEF With
  <1> HIDE DEF t
  <1>3. DOMAIN told = {x \in DOMAIN c.open : c.open[x].announced}  BY DEF Mirrors
  <1>4. DOMAIN t = {x \in DOMAIN e.open : e.open[x].announced}  BY <1>2, <1>3
  <1>5. ASSUME NEW x \in DOMAIN t
        PROVE  /\ VersionOf(t[x]) <= e.open[x].version
               /\ ~e.open[x].changePending => t[x] = TextOf(e.open[x])
    <2>1. CASE x = p
      <3>1. t[x] = TextOf(e.open[p])  BY <1>2, <2>1
      <3>2. VersionOf(t[x]) = e.open[p].version  BY <3>1 DEF VersionOf, TextOf
      <3> QED BY <2>1, <3>1, <3>2
    <2>2. CASE x # p
      <3>1. x \in DOMAIN told /\ t[x] = told[x]  BY <1>2, <1>5, <2>2
      <3>2. e.open[x] = c.open[x]  BY <1>3, <2>2, <3>1
      <3> QED BY <3>1, <3>2 DEF Mirrors
    <2> QED BY <2>1, <2>2
  <1> QED BY <1>4, <1>5 DEF Mirrors, t

\* didOpen is sent for a document that clangd does not have; a dead clangd has none.
LEMMA AnnounceSound ==
  ASSUME NEW T, NEW c, NEW s, Sound(c, s, T), NEW p \in DOMAIN c.open,
         c.running => ~c.open[p].announced
  PROVE  LET e == Announce(c, p) IN
         /\ Sound(e, s, T) /\ Rest1(c, e) /\ Rest2(c, e) /\ e.document = c.document
         /\ e.open = [c.open EXCEPT ![p].announced = TRUE] /\ e.dirty = c.dirty
         /\ e.tokens = c.tokens /\ e.result = c.result /\ e.active = c.active
  <1> DEFINE m == Msg("didOpen", 0, p, TextOf(c.open[p]))
             q == Sent(c, m)
             f == [c.open EXCEPT ![p].announced = TRUE]
             e == Announce(c, p)
  <1>1. ClientTyped(c, T) /\ Painted(c)  BY DEF Sound
  <1>2. p \in Paths /\ c.open[p] \in OpenState /\ TextOf(c.open[p]) \in T  BY <1>1, OpenEntry
  <1>3. m \in MessageSet(T) /\ m.id = 0 /\ m.path = p /\ m.type = "didOpen" /\ m.text = TextOf(c.open[p])
    BY <1>2 DEF Msg, MessageSet
  <1> HIDE DEF m
  <1>4. Send(c, m) = [c EXCEPT !.stdin = q] /\ q \in Seq(MessageSet(T))  BY <1>1, <1>3, SendFields
  <1>5. e = [[c EXCEPT !.stdin = q] EXCEPT !.open[p].announced = TRUE]
    BY <1>4, Zenon DEF Announce, m
  <1> HIDE DEF q
  <1>6. e = Changed(c, q, f, c.dirty)
    BY <1>1, <1>5 DEF ClientTyped, Changed
  <1> HIDE DEF e
  <1>7. MapOf(c.open, Paths, OpenSet(T)) /\ c.dirty \subseteq Paths  BY <1>1 DEF ClientTyped
  <1>8. /\ DOMAIN f = DOMAIN c.open /\ \A x \in DOMAIN f \ {p} : f[x] = c.open[x]
        /\ f[p] = [c.open[p] EXCEPT !.announced = TRUE]
        /\ f = [x \in DOMAIN f |-> f[x]]
    BY <1>7 DEF MapOf
  <1> HIDE DEF f
  <1>9. /\ f[p] \in OpenState /\ TextOf(f[p]) = TextOf(c.open[p]) /\ f[p].announced
        /\ f[p].version = c.open[p].version /\ f[p].version \in Nat
    BY <1>2, <1>8 DEF OpenState, TextOf
  <1>10. MapOf(f, Paths, OpenSet(T))
    <2>1. \A x \in DOMAIN f : f[x] \in OpenSet(T)
      BY <1>2, <1>7, <1>8, <1>9 DEF MapOf, OpenSet
    <2> QED BY <1>7, <1>8, <2>1 DEF MapOf
  <1>11. /\ ClientTyped(e, T) /\ e.stdin = q /\ e.open = f /\ e.dirty = c.dirty
         /\ Rest1(c, e) /\ Rest2(c, e) /\ e.document = c.document /\ e.semantic = c.semantic
         /\ e.tokens = c.tokens /\ e.diags = c.diags /\ e.result = c.result /\ e.active = c.active
    BY <1>1, <1>4, <1>6, <1>7, <1>10, TypedOpen
  <1>12. \A x \in DOMAIN c.open : TextOf(f[x]) = TextOf(c.open[x]) /\ f[x].version = c.open[x].version
    BY <1>8, <1>9
  <1>13. Painted(e)  BY <1>1, <1>8, <1>11, <1>12 DEF Painted
  <1>14. c.running => /\ Mirrors(e, DocsAfter(Heard(s, c.stdin), m))
                      /\ ~Wrong(Heard(s, c.stdin), m)
    <2> SUFFICES ASSUME c.running
                 PROVE  Mirrors(e, DocsAfter(Heard(s, c.stdin), m)) /\ ~Wrong(Heard(s, c.stdin), m)
      OBVIOUS
    <2>1. Mirrors(c, Heard(s, c.stdin))  BY SoundMirrors
    <2>2. p \notin DOMAIN Heard(s, c.stdin)  BY <2>1 DEF Mirrors
    <2>3. ~Wrong(Heard(s, c.stdin), m)  BY <1>3, <2>2 DEF Wrong
    <2> DEFINE told == Heard(s, c.stdin)
    <2> HIDE DEF told
    <2>4. Mirrors(e, DocsAfter(told, m))
      <3>1. Mirrors(c, told)  BY <2>1 DEF told
      <3>2. p \in DOMAIN e.open /\ m.text = TextOf(e.open[p]) /\ DOMAIN e.open = DOMAIN c.open \union {p}
        BY <1>3, <1>8, <1>9, <1>11
      <3>3. \A x \in DOMAIN c.open \ {p} : e.open[x] = c.open[x]  BY <1>8, <1>11
      <3> QED BY <1>1, <1>3, <1>9, <1>11, <3>1, <3>2, <3>3, MirrorsOne
    <2> QED BY <2>3, <2>4 DEF told
  <1>15. \A r \in c.document : TextOf(e.open[r.path]) = TextOf(c.open[r.path])
    BY <1>1, <1>11, <1>12 DEF Painted
  <1>16. Sound(e, s, T)
    <2>1. e.stdin = Sent(c, m)  BY <1>11 DEF q
    <2> QED BY <1>3, <1>11, <1>13, <1>14, <1>15, <2>1, TellSound
  <1> QED BY <1>11, <1>16 DEF e, f

\* A change that was held back is sent, if clangd has the document.
LEMMA FlushSound ==
  ASSUME NEW T, Texts(T), NEW c, NEW s, Sound(c, s, T), NEW p \in Paths
  PROVE  LET e == FlushChange(c, p) IN
         /\ Sound(e, s, T) /\ Rest1(c, e) /\ e.initId = c.initId /\ e.slot = c.slot
         /\ e.document = c.document /\ e.tokens = c.tokens /\ e.result = c.result /\ e.active = c.active
         /\ DOMAIN e.open = DOMAIN c.open
         /\ \A x \in DOMAIN c.open : TextOf(e.open[x]) = TextOf(c.open[x])
                                     /\ e.open[x].announced = c.open[x].announced
                                     /\ e.open[x].version = c.open[x].version
         /\ c.initialized /\ p \in DOMAIN c.open /\ c.open[p].announced => ~e.open[p].changePending
  <1> DEFINE due == c.initialized /\ p \in DOMAIN c.open /\ c.open[p].announced /\ c.open[p].changePending
             m == Msg("didChange", 0, p, TextOf(c.open[p]))
             q == Sent(c, m)
             f == [c.open EXCEPT ![p].changePending = FALSE]
             a == [Send(c, m) EXCEPT !.open[p].changePending = FALSE]
             e == FlushChange(c, p)
  <1>1. ClientTyped(c, T) /\ Painted(c)  BY DEF Sound
  <1>2. CASE ~due
    <2>1. e = c  BY <1>2 DEF FlushChange
    <2> HIDE DEF e
    <2>2. p \in DOMAIN c.open => c.open[p].changePending \in BOOLEAN
      BY <1>1, OpenEntry DEF OpenState
    <2> QED BY <1>2, <2>1, <2>2 DEF Rest1, e
  <1>3. CASE due
    <2> USE <1>3
    <2>1. e = QueueSemanticTokens(a, p)  BY DEF FlushChange
    <2>2. c.open[p] \in OpenState /\ TextOf(c.open[p]) \in T /\ c.open[p].version \in Nat
      BY <1>1, OpenEntry
    <2>3. m \in MessageSet(T) /\ m.id = 0 /\ m.path = p /\ m.type = "didChange" /\ m.text = TextOf(c.open[p])
      BY <2>2 DEF Msg, MessageSet
    <2> HIDE DEF m
    <2>4. Send(c, m) = [c EXCEPT !.stdin = q] /\ q \in Seq(MessageSet(T))  BY <1>1, <2>3, SendFields
    <2>5. a = [[c EXCEPT !.stdin = q] EXCEPT !.open[p].changePending = FALSE]
      BY <2>4, Zenon DEF a
    <2> HIDE DEF q
    <2>6. a = Changed(c, q, f, c.dirty)
      BY <1>1, <2>5 DEF ClientTyped, Changed
    <2> HIDE DEF a, e
    <2>7. MapOf(c.open, Paths, OpenSet(T)) /\ c.dirty \subseteq Paths  BY <1>1 DEF ClientTyped
    <2>8. /\ DOMAIN f = DOMAIN c.open /\ \A x \in DOMAIN f \ {p} : f[x] = c.open[x]
          /\ f[p] = [c.open[p] EXCEPT !.changePending = FALSE]
          /\ f = [x \in DOMAIN f |-> f[x]]
      BY <2>7 DEF MapOf
    <2> HIDE DEF f
    <2>9. /\ f[p] \in OpenState /\ TextOf(f[p]) = TextOf(c.open[p]) /\ f[p].announced = c.open[p].announced
          /\ f[p].version = c.open[p].version /\ f[p].version \in Nat /\ ~f[p].changePending
      BY <2>2, <2>8 DEF OpenState, TextOf
    <2>10. MapOf(f, Paths, OpenSet(T))
      <3>1. \A x \in DOMAIN f : f[x] \in OpenSet(T)
        BY <2>2, <2>7, <2>8, <2>9 DEF MapOf, OpenSet
      <3> QED BY <2>7, <2>8, <3>1 DEF MapOf
    <2>11. /\ ClientTyped(a, T) /\ a.stdin = q /\ a.open = f /\ a.dirty = c.dirty
           /\ Rest1(c, a) /\ Rest2(c, a) /\ a.document = c.document /\ a.semantic = c.semantic
           /\ a.tokens = c.tokens /\ a.diags = c.diags /\ a.result = c.result /\ a.active = c.active
      BY <1>1, <2>4, <2>6, <2>7, <2>10, TypedOpen
    <2>12. \A x \in DOMAIN c.open : TextOf(f[x]) = TextOf(c.open[x]) /\ f[x].version = c.open[x].version
                                    /\ f[x].announced = c.open[x].announced
      BY <2>8, <2>9
    <2>13. Painted(a)  BY <1>1, <2>8, <2>11, <2>12 DEF Painted
    <2>14. c.running => /\ Mirrors(a, DocsAfter(Heard(s, c.stdin), m))
                        /\ ~Wrong(Heard(s, c.stdin), m)
      <3> DEFINE told == Heard(s, c.stdin)
      <3> HIDE DEF told
      <3> SUFFICES ASSUME c.running
                   PROVE  Mirrors(a, DocsAfter(told, m)) /\ ~Wrong(told, m)
        BY DEF told
      <3>1. Mirrors(c, told)  BY SoundMirrors DEF told
      <3>2. p \in DOMAIN told  BY <3>1 DEF Mirrors
      <3>3. VersionOf(told[p]) <= c.open[p].version  BY <3>1, <3>2 DEF Mirrors
      <3>4. VersionOf(m.text) = c.open[p].version  BY <2>3 DEF VersionOf, TextOf
      <3>5. VersionOf(told[p]) \in Nat
        <4>1. told \in Maps(T)
          BY <1>1, HeardAppend, <2>3 DEF told, Sound, ClientTyped
        <4>2. told[p] \in T  BY <3>2, <4>1 DEF Maps
        <4> QED BY <4>2 DEF Texts, VersionOf
      <3>6. ~Wrong(told, m)  BY <2>2, <2>3, <3>2, <3>3, <3>4, <3>5 DEF Wrong
      <3>7. Mirrors(a, DocsAfter(told, m))
        <4>1. p \in DOMAIN a.open /\ m.text = TextOf(a.open[p]) /\ DOMAIN a.open = DOMAIN c.open \union {p}
          BY <2>3, <2>8, <2>9, <2>11
        <4>2. \A x \in DOMAIN c.open \ {p} : a.open[x] = c.open[x]  BY <2>8, <2>11
        <4> QED BY <1>1, <2>3, <2>9, <2>11, <3>1, <4>1, <4>2, MirrorsOne
      <3> QED BY <3>6, <3>7
    <2>15. \A r \in c.document : TextOf(a.open[r.path]) = TextOf(c.open[r.path])
      BY <1>1, <2>11, <2>12 DEF Painted
    <2>16. Sound(a, s, T)
      <3>1. a.stdin = Sent(c, m)  BY <2>11 DEF q
      <3> QED BY <2>3, <2>11, <2>13, <2>14, <2>15, <3>1, TellSound
    <2>17. /\ Sound(e, s, T) /\ Rest1(a, e) /\ Rest3(a, e)
           /\ e.initId = a.initId /\ e.slot = a.slot /\ e.document = a.document
      BY <2>1, <2>16, QueueSound
    <2>18. Rest1(c, e) /\ e.initId = c.initId /\ e.slot = c.slot
           /\ e.document = c.document /\ e.tokens = c.tokens /\ e.result = c.result /\ e.active = c.active
      BY <2>11, <2>17 DEF Rest1, Rest2, Rest3
    <2>19. e.open = f  BY <2>11, <2>17 DEF Rest3
    <2> QED BY <2>8, <2>9, <2>12, <2>17, <2>18, <2>19 DEF e
  <1> QED BY <1>2, <1>3

\* The copy that openDocument() makes.
Copy(d, announced) == [version |-> d.version, load |-> d.load, announced |-> announced, changePending |-> FALSE]

\* The client takes a document over; with its handshake done it announces it.
LEMMA OpenSound ==
  ASSUME NEW T, Texts(T), NEW c, NEW s, Sound(c, s, T), AllOrNone(c), NEW p \in Paths,
         NEW d, d.version \in Nat, d.load \in Nat, TextOf(d) \in T,
         \A r \in c.document : r.path = p => TextOf(c.open[p]) = TextOf(d),
         ~MaySaveAs => p \notin DOMAIN c.open
  PROVE  LET e == OpenDocument(c, p, d) IN
         /\ Sound(e, s, T) /\ AllOrNone(e) /\ Rest1(c, e) /\ e.initId = c.initId /\ e.slot = c.slot
         /\ e.document = c.document /\ e.tokens = c.tokens /\ e.result = c.result /\ e.active = c.active
         /\ e.open = With(c.open, p, Copy(d, c.initialized))
  <1> DEFINE m == Msg("didOpen", 0, p, TextOf(d))
             q == IF c.initialized THEN Sent(c, m) ELSE c.stdin
             f0 == With(c.open, p, Copy(d, FALSE))
             f == With(c.open, p, Copy(d, c.initialized))
             c0 == [c EXCEPT !.open = f0]
             c1 == IF c.initialized THEN Announce(c0, p) ELSE c0
             a == [c1 EXCEPT !.dirty = @ \union {p}]
             e == OpenDocument(c, p, d)
  <1>1. ClientTyped(c, T) /\ Painted(c) /\ c.initialized \in BOOLEAN /\ c.running \in BOOLEAN
    BY DEF Sound, ClientTyped
  <1>2. e = QueueSemanticTokens(a, p)  BY DEF OpenDocument, Copy
  <1>3. m \in MessageSet(T) /\ m.id = 0 /\ m.path = p /\ m.type = "didOpen" /\ m.text = TextOf(d)
    BY DEF Msg, MessageSet
  <1>4. q \in Seq(MessageSet(T))
    <2>1. c.stdin \in Seq(MessageSet(T))  BY <1>1 DEF ClientTyped
    <2>2. Sent(c, m) \in Seq(MessageSet(T))  BY <1>1, <1>3, SendFields
    <2> QED BY <2>1, <2>2
  <1>5. /\ DOMAIN f = DOMAIN c.open \union {p} /\ \A x \in DOMAIN f \ {p} : f[x] = c.open[x]
        /\ f[p] = Copy(d, c.initialized) /\ f = [x \in DOMAIN f |-> f[x]]
    BY DEF With
  <1>6. /\ f0[p] = Copy(d, FALSE) /\ DOMAIN f0 = DOMAIN f
        /\ c.initialized => [f0 EXCEPT ![p].announced = TRUE] = f
        /\ ~c.initialized => f0 = f
    <2>1. f0[p] = Copy(d, FALSE) /\ DOMAIN f0 = DOMAIN f /\ f0 = [x \in DOMAIN f0 |-> f0[x]]
          /\ \A x \in DOMAIN f \ {p} : f0[x] = f[x]
      BY <1>5 DEF With
    <2>2. [Copy(d, FALSE) EXCEPT !.announced = TRUE] = Copy(d, TRUE)
      <3> DEFINE r == [Copy(d, FALSE) EXCEPT !.announced = TRUE]
      <3>1. r \in OpenState  BY DEF Copy, OpenState
      <3>2. r.version = d.version /\ r.load = d.load /\ r.announced = TRUE /\ r.changePending = FALSE
        BY DEF Copy
      <3> HIDE DEF r
      <3>3. r = [version |-> r.version, load |-> r.load, announced |-> r.announced,
                 changePending |-> r.changePending]
        BY <3>1 DEF OpenState
      <3>4. r = [version |-> d.version, load |-> d.load, announced |-> TRUE, changePending |-> FALSE]
        BY <3>2, <3>3
      <3> QED BY <3>4 DEF r, Copy
    <2>3. ASSUME c.initialized PROVE [f0 EXCEPT ![p].announced = TRUE] = f
      <3> DEFINE h == [f0 EXCEPT ![p].announced = TRUE]
      <3>1. DOMAIN h = DOMAIN f0 /\ h[p] = [f0[p] EXCEPT !.announced = TRUE]
            /\ h = [x \in DOMAIN f0 |-> h[x]] /\ \A x \in DOMAIN f0 \ {p} : h[x] = f0[x]
        BY <1>5, <2>1
      <3>2. c.initialized = TRUE  BY <1>1, <2>3
      <3>3. h[p] = f[p]  BY <1>5, <2>1, <2>2, <3>1, <3>2
      <3> HIDE DEF h, f, f0
      <3>4. \A x \in DOMAIN f : h[x] = f[x]  BY <1>5, <2>1, <3>1, <3>3
      <3>5. h = [x \in DOMAIN f |-> h[x]]  BY <2>1, <3>1
      <3>6. h = f  BY <1>5, <3>4, <3>5
      <3> QED BY <3>6 DEF h
    <2>4. ~c.initialized => c.initialized = FALSE  BY <1>1
    <2> QED BY <2>1, <2>3, <2>4
  <1> HIDE DEF f0, f, m, q
  <1>7. c0.open = f0 /\ c0.running = c.running /\ c0.stdin = c.stdin
    BY <1>1 DEF ClientTyped
  <1>8. a = Changed(c, q, f, c.dirty \union {p})
    <2>1. CASE ~c.initialized
      <3>1. q = c.stdin /\ f0 = f  BY <2>1, <1>6 DEF q
      <3> QED BY <1>1, <2>1, <3>1 DEF ClientTyped, Changed
    <2>2. CASE c.initialized
      <3>1. TextOf(f0[p]) = TextOf(d)  BY <1>6 DEF Copy, TextOf
      <3>2. Announce(c0, p) = [Send(c0, m) EXCEPT !.open[p].announced = TRUE]
        BY <1>7, <3>1 DEF Announce, m
      <3>3. Send(c0, m) = [c0 EXCEPT !.stdin = q]
        <4>1. c0 = [c0 EXCEPT !.stdin = c.stdin]  BY <1>1, <1>7 DEF ClientTyped
        <4> HIDE DEF c0
        <4>2. CASE c.running  BY <1>7, <2>2, <4>2 DEF Send, Sent, q
        <4>3. CASE ~c.running  BY <1>7, <2>2, <4>1, <4>3 DEF Send, Sent, q
        <4> QED BY <4>2, <4>3
      <3>4. [[c0 EXCEPT !.stdin = q] EXCEPT !.open[p].announced = TRUE] =
              [c0 EXCEPT !.stdin = q, !.open = [f0 EXCEPT ![p].announced = TRUE]]
        BY <1>1 DEF ClientTyped
      <3>5. [c0 EXCEPT !.stdin = q, !.open = [f0 EXCEPT ![p].announced = TRUE]] = [c0 EXCEPT !.stdin = q, !.open = f]
        BY <1>6, <2>2
      <3>6. c1 = [c0 EXCEPT !.stdin = q, !.open = f]
        <4> HIDE DEF c0
        <4> QED BY <2>2, <3>2, <3>3, <3>4, <3>5, Zenon
      <3> HIDE DEF c1
      <3> QED BY <1>1, <3>6 DEF ClientTyped, Changed
    <2> QED BY <1>1, <2>1, <2>2
  <1> HIDE DEF a, e
  <1>9. /\ f[p] \in OpenState /\ TextOf(f[p]) = TextOf(d) /\ f[p].announced = c.initialized
        /\ f[p].version \in Nat
    BY <1>1, <1>5 DEF OpenState, TextOf, Copy
  <1>10. MapOf(c.open, Paths, OpenSet(T)) /\ c.dirty \union {p} \subseteq Paths  BY <1>1 DEF ClientTyped
  <1>11. MapOf(f, Paths, OpenSet(T))
    <2>1. \A x \in DOMAIN f : f[x] \in OpenSet(T)
      BY <1>5, <1>9, <1>10 DEF MapOf, OpenSet
    <2> QED BY <1>5, <1>10, <2>1 DEF MapOf
  <1>12. /\ ClientTyped(a, T) /\ a.stdin = q /\ a.open = f /\ a.dirty = c.dirty \union {p}
         /\ Rest1(c, a) /\ Rest2(c, a) /\ a.document = c.document /\ a.semantic = c.semantic
         /\ a.tokens = c.tokens /\ a.diags = c.diags /\ a.result = c.result /\ a.active = c.active
    BY <1>1, <1>4, <1>8, <1>10, <1>11, TypedOpen
  <1>13. \A r \in c.document : /\ r.path \in DOMAIN f /\ TextOf(f[r.path]) = TextOf(c.open[r.path])
                               /\ r.version = f[r.path].version
    <2>1. \A r \in c.document : r.path \in DOMAIN c.open /\ r.version = c.open[r.path].version
      BY <1>1 DEF Painted
    <2>2. \A r \in c.document : TextOf(f[r.path]) = TextOf(c.open[r.path])
      BY <1>5, <1>9, <2>1
    <2>3. \A r \in c.document : f[r.path].version = c.open[r.path].version
      BY <2>2 DEF TextOf
    <2> QED BY <1>5, <2>1, <2>2, <2>3
  <1>14. Painted(a)
    <2>1. \A x \in DOMAIN f : x \in a.dirty \/ (x \in DOMAIN c.open /\ x # p)
      BY <1>5, <1>12
    <2>2. \A x \in DOMAIN a.open :
            x \in a.dirty \/ (\E r \in a.semantic : r.path = x) \/ a.tokens[x] = TextOf(a.open[x])
      BY <1>1, <1>5, <1>12, <2>1 DEF Painted
    <2>3. \A r \in a.semantic :
            r.path \in DOMAIN a.open /\ r.path \notin a.dirty => <<r.load, r.version>> = TextOf(a.open[r.path])
      BY <1>1, <1>5, <1>12, <2>1 DEF Painted
    <2> QED BY <1>12, <1>13, <2>2, <2>3 DEF Painted
  <1>15. \A r \in c.document : TextOf(a.open[r.path]) = TextOf(c.open[r.path])
    BY <1>12, <1>13
  <1>16. Sound(a, s, T)
    <2> DEFINE told == Heard(s, c.stdin)
    <2> HIDE DEF told
    <2>1. c.running => Mirrors(c, told)  BY SoundMirrors DEF told
    <2>2. CASE c.initialized
      <3>1. c.running => /\ Mirrors(a, DocsAfter(told, m))
                         /\ ~MaySaveAs => ~Wrong(told, m)
        <4> SUFFICES ASSUME c.running
                     PROVE  Mirrors(a, DocsAfter(told, m)) /\ (~MaySaveAs => ~Wrong(told, m))
          OBVIOUS
        <4>1. ~MaySaveAs => ~Wrong(told, m)
          BY <1>3, <2>1 DEF Wrong, Mirrors
        <4>2. p \in DOMAIN a.open /\ m.text = TextOf(a.open[p]) /\ DOMAIN a.open = DOMAIN c.open \union {p}
              /\ a.open[p].announced /\ a.open[p].version \in Nat
          BY <1>3, <1>5, <1>9, <1>12, <2>2
        <4>3. \A x \in DOMAIN c.open \ {p} : a.open[x] = c.open[x]  BY <1>5, <1>12
        <4>4. Mirrors(a, DocsAfter(told, m))
          BY <1>1, <1>3, <2>1, <4>2, <4>3, MirrorsOne
        <4> QED BY <4>1, <4>4
      <3>2. a.stdin = Sent(c, m)  BY <1>12, <2>2 DEF q
      <3> QED BY <1>3, <1>12, <1>14, <1>15, <3>1, <3>2, TellSound DEF told
    <2>3. CASE ~c.initialized
      <3>1. a.stdin = c.stdin  BY <1>12, <2>3 DEF q
      <3>2. c.running => Mirrors(a, told)
        <4> SUFFICES ASSUME c.running PROVE Mirrors(a, told)
          OBVIOUS
        <4>1. \A x \in DOMAIN c.open : ~c.open[x].announced  BY <2>3 DEF AllOrNone
        <4>2. DOMAIN told = {}  BY <2>1, <4>1 DEF Mirrors
        <4>3. \A x \in DOMAIN f : ~f[x].announced  BY <1>5, <1>9, <2>3, <4>1
        <4> QED BY <1>12, <4>2, <4>3 DEF Mirrors
      <3> QED BY <1>12, <1>14, <1>15, <3>1, <3>2, CopySound DEF told
    <2> QED BY <2>2, <2>3
  <1>17. /\ Sound(e, s, T) /\ Rest1(a, e) /\ Rest3(a, e)
         /\ e.initId = a.initId /\ e.slot = a.slot /\ e.document = a.document
    BY <1>2, <1>16, QueueSound
  <1>18. Rest1(c, e) /\ e.initId = c.initId /\ e.slot = c.slot /\ e.open = f
         /\ e.document = c.document /\ e.tokens = c.tokens /\ e.result = c.result /\ e.active = c.active
    BY <1>12, <1>17 DEF Rest1, Rest2, Rest3
  <1>19. AllOrNone(e)
    BY <1>5, <1>9, <1>18 DEF AllOrNone, Rest1
  <1> QED BY <1>17, <1>18, <1>19 DEF e, f

\* Requests about documents are given up; nothing else changes.
LEMMA CancelSound ==
  ASSUME NEW T, NEW c, NEW s, Sound(c, s, T), NEW ids,
         \A i \in ids : i \in c.pending => \E r \in c.document : r.id = i
  PROVE  LET e == CancelRequests(c, ids) IN
         /\ Sound(e, s, T) /\ Rest1(c, e) /\ Rest3(c, e) /\ e.stdin = c.stdin
         /\ e.initId = c.initId /\ e.slot = c.slot /\ e.nextId = c.nextId
         /\ e.dirty = c.dirty /\ e.semantic = c.semantic
         /\ e.document = {r \in c.document : r.id \notin ids}
  <1> DEFINE live == ids \intersect c.pending
             D == {r \in c.document : r.id \notin live}
             e == CancelRequests(c, ids)
  <1>1. ClientTyped(c, T) /\ Tracked(c) /\ Painted(c)  BY DEF Sound
  <1>2. e = [c EXCEPT !.pending = c.pending \ live, !.document = D]
    BY <1>1 DEF CancelRequests, ClientTyped
  <1> HIDE DEF e
  <1>3. e.pending = c.pending \ live /\ e.document = D  BY <1>1, <1>2 DEF ClientTyped
  <1>4. /\ Rest1(c, e) /\ Rest3(c, e) /\ e.stdin = c.stdin
        /\ e.initId = c.initId /\ e.slot = c.slot /\ e.nextId = c.nextId
        /\ e.dirty = c.dirty /\ e.semantic = c.semantic
    BY <1>1, <1>2 DEF ClientTyped, Rest1, Rest3
  <1>5. D = {r \in c.document : r.id \notin ids}
    <2>1. \A r \in c.document : r.id \in c.pending  BY <1>1 DEF Tracked, WaitingIds
    <2> QED BY <2>1
  <1>6. D \subseteq c.document /\ c.pending \ live \subseteq c.pending  OBVIOUS
  <1>7. ClientTyped(e, T)
    <2>1. D \in SUBSET DocumentSet /\ c.pending \ live \in SUBSET Nat
      BY <1>1, <1>6 DEF ClientTyped
    <2>2. e.open = c.open  BY <1>4 DEF Rest3
    <2> HIDE DEF D, live
    <2> QED BY <1>1, <1>2, <2>1, <2>2 DEF ClientTyped
  <1>8. e.pending = WaitingIds(e)
    <2>1. ASSUME NEW i \in c.pending \ live PROVE i \in WaitingIds(e)
      <3>1. i \in WaitingIds(c)  BY <1>1 DEF Tracked
      <3>2. CASE i \in {r.id : r \in c.document}  BY <1>3, <2>1, <3>2 DEF WaitingIds
      <3>3. CASE i \in {r.id : r \in c.semantic} \/ i \in {c.initId} \ {0}
        BY <1>4, <3>3 DEF WaitingIds
      <3> QED BY <3>1, <3>2, <3>3 DEF WaitingIds
    <2>2. ASSUME NEW i \in WaitingIds(e) PROVE i \in c.pending \ live
      <3>1. i \in WaitingIds(c)  BY <1>3, <1>4, <1>6 DEF WaitingIds
      <3>2. i \in c.pending  BY <1>1, <3>1 DEF Tracked
      <3>3. ASSUME i \in live PROVE FALSE
        <4>1. PICK r \in c.document : r.id = i  BY <3>3
        <4>2. CASE i \in {q.id : q \in D}
          <5>1. PICK q \in D : q.id = i  BY <4>2
          <5> QED BY <3>3, <5>1
        <4>3. CASE i \in {q.id : q \in c.semantic} \/ i = c.initId
          BY <1>1, <4>1, <4>3 DEF Tracked
        <4>4. i \in {q.id : q \in D} \/ i \in {q.id : q \in c.semantic} \/ i = c.initId
          BY <1>3, <1>4 DEF WaitingIds
        <4> QED BY <4>2, <4>3, <4>4
      <3> QED BY <3>2, <3>3
    <2> QED BY <1>3, <2>1, <2>2
  <1>9. Tracked(e)
    <2>1. /\ \A r \in c.document : r.id # 0
          /\ \A r \in c.semantic : r.id # 0
          /\ c.nextId \in Nat /\ 0 < c.nextId
      BY <1>1, WaitingNotZero
    <2>2. /\ \A i \in 1..Len(e.stdin) : e.stdin[i].id < c.nextId
          /\ \A i \in 1..Len(e.output) : e.output[i].type = "response" => e.output[i].id < c.nextId
      BY <1>1, <1>4 DEF Tracked, Rest1
    <2>3. e.initialized => e.initId = 0  BY <1>1, <1>4 DEF Tracked, Rest1
    <2>4. e.document \subseteq c.document /\ e.semantic \subseteq c.semantic  BY <1>3, <1>4
    <2> HIDE DEF D, live
    <2> QED BY <1>1, <1>4, <1>8, <2>1, <2>2, <2>3, <2>4, TrackedLess
  <1>10. Painted(e)  BY <1>1, <1>3, <1>4, <1>6 DEF Painted, Rest3
  <1>11. Asked(e) \subseteq Asked(c)  BY <1>3, <1>4, <1>6 DEF Asked, Rest3
  <1>12. c.running => Mirrors(e, Heard(s, c.stdin))
    <2>1. c.running => Mirrors(c, Heard(s, c.stdin))  BY SoundMirrors
    <2> QED BY <1>4, <2>1 DEF Mirrors, Rest3
  <1>13. e.nextId >= c.nextId
    <2>1. c.nextId \in Nat  BY <1>1 DEF ClientTyped
    <2> QED BY <1>4, <2>1
  <1>14. Sound(e, s, T)
    BY <1>4, <1>7, <1>9, <1>10, <1>11, <1>12, <1>13, QuietSound DEF Rest1
  <1> QED BY <1>3, <1>4, <1>5, <1>14 DEF e

\* The ids of the requests of D.
RequestIds(D) == {r.id : r \in D}

\* The requests of D are given up.
LEMMA CancelThese ==
  ASSUME NEW T, NEW c, NEW s, Sound(c, s, T), NEW D, D \subseteq c.document
  PROVE  LET e == CancelRequests(c, RequestIds(D)) IN
         /\ Sound(e, s, T) /\ Rest1(c, e) /\ Rest3(c, e) /\ e.stdin = c.stdin
         /\ e.initId = c.initId /\ e.slot = c.slot /\ e.nextId = c.nextId
         /\ e.dirty = c.dirty /\ e.semantic = c.semantic
         /\ e.document = c.document \ D
  <1> DEFINE ids == RequestIds(D)
  <1>1. \A i \in ids : i \in c.pending => \E r \in c.document : r.id = i  BY DEF RequestIds
  <1>2. {r \in c.document : r.id \notin ids} = c.document \ D
    <2>1. \A r, q \in c.document : r.id = q.id => r = q  BY DEF Sound, Tracked
    <2> QED BY <2>1 DEF RequestIds
  <1> HIDE DEF ids
  <1>3. LET e == CancelRequests(c, ids) IN
         /\ Sound(e, s, T) /\ Rest1(c, e) /\ Rest3(c, e) /\ e.stdin = c.stdin
         /\ e.initId = c.initId /\ e.slot = c.slot /\ e.nextId = c.nextId
         /\ e.dirty = c.dirty /\ e.semantic = c.semantic
         /\ e.document = {r \in c.document : r.id \notin ids}
    BY <1>1, CancelSound
  <1> QED BY <1>2, <1>3 DEF ids

\* The user is in another document: requests about the others are given up.
LEMMA ActiveSound ==
  ASSUME NEW T, NEW c, NEW s, Sound(c, s, T), NEW p \in Paths \union {NoPath}
  PROVE  LET e == SetActiveDocument(c, p) IN
         /\ Sound(e, s, T) /\ Rest1(c, e) /\ e.open = c.open /\ e.tokens = c.tokens /\ e.result = c.result
         /\ e.document = {r \in c.document : p = NoPath \/ r.path = p}
  <1> DEFINE a == [c EXCEPT !.active = p]
             D == {q \in c.document : p # NoPath /\ q.path # p}
             e == SetActiveDocument(c, p)
  <1>1. ClientTyped(c, T) /\ Painted(c)  BY DEF Sound
  <1>2. /\ Rest1(c, a) /\ Rest2(c, a) /\ a.open = c.open /\ a.tokens = c.tokens /\ a.result = c.result
        /\ a.document = c.document /\ a.semantic = c.semantic /\ a.stdin = c.stdin /\ a.dirty = c.dirty
    BY <1>1 DEF ClientTyped, Rest1, Rest2
  <1>3. ClientTyped(a, T)  BY <1>1, <1>2 DEF ClientTyped
  <1>4. e = CancelRequests(a, RequestIds(D))  BY DEF SetActiveDocument, RequestIds
  <1> HIDE DEF a, e
  <1>5. Painted(a)  BY <1>1, <1>2 DEF Painted
  <1>6. c.running => Mirrors(a, Heard(s, c.stdin))
    <2>1. c.running => Mirrors(c, Heard(s, c.stdin))  BY SoundMirrors
    <2> QED BY <1>2, <2>1 DEF Mirrors
  <1>7. Sound(a, s, T)
    BY <1>2, <1>3, <1>5, <1>6, CopySound
  <1>8. D \subseteq a.document  BY <1>2
  <1>9. c.document \ D = {r \in c.document : p = NoPath \/ r.path = p}  OBVIOUS
  <1> HIDE DEF D
  <1>10. /\ Sound(e, s, T) /\ Rest1(a, e) /\ Rest3(a, e) /\ e.document = a.document \ D
    <2> DEFINE x == CancelRequests(a, RequestIds(D))
    <2>1. Sound(x, s, T) /\ Rest1(a, x) /\ Rest3(a, x) /\ x.document = a.document \ D
      BY <1>7, <1>8, CancelThese
    <2> QED BY <1>4, <2>1
  <1> QED BY <1>2, <1>9, <1>10 DEF Rest1, Rest3, e

\* A change, or a save, of a document that the client has.
LEMMA ChangeSound ==
  ASSUME NEW T, Texts(T), NEW c, NEW s, Sound(c, s, T), AllOrNone(c), NEW p \in DOMAIN c.open,
         NEW d, d.version \in Nat, d.load \in Nat, TextOf(d) \in T,
         d.load = c.open[p].load, d.version >= c.open[p].version
  PROVE  LET e == ChangeDocument(c, p, d) IN
         /\ Sound(e, s, T) /\ AllOrNone(e) /\ Rest1(c, e)
         /\ e.tokens = c.tokens /\ e.result = c.result /\ e.active = c.active
         /\ e.document \subseteq c.document
         /\ DOMAIN e.open = DOMAIN c.open /\ TextOf(e.open[p]) = TextOf(d)
         /\ \A x \in DOMAIN c.open \ {p} : e.open[x] = c.open[x]
  <1> DEFINE D == {q \in c.document : q.path = p /\ q.version # d.version}
             b == CancelRequests(c, RequestIds(D))
             e == ChangeDocument(c, p, d)
             old == c.open[p]
             held == c.initialized \/ old.changePending
             new == [version |-> d.version, load |-> d.load, announced |-> old.announced,
                     changePending |-> held]
             f == With(c.open, p, new)
             f0 == With(c.open, p, [version |-> d.version, load |-> d.load, announced |-> old.announced,
                                    changePending |-> old.changePending])
             c0 == [c EXCEPT !.open = f0]
             s0 == CancelRequests(c0, RequestIds(D))
  <1>1. ClientTyped(c, T) /\ Painted(c) /\ c.initialized \in BOOLEAN /\ c.running \in BOOLEAN
    BY DEF Sound, ClientTyped
  <1>2. p \in Paths /\ old \in OpenState /\ old.version \in Nat /\ old.announced \in BOOLEAN
        /\ old.changePending \in BOOLEAN
    BY <1>1, OpenEntry DEF OpenState
  <1>3. c.initialized => old.announced  BY DEF AllOrNone
  <1>4. e = [(IF c.initialized THEN [s0 EXCEPT !.open[p].changePending = TRUE] ELSE s0)
               EXCEPT !.dirty = @ \union {p}]
    BY <1>1, <1>2, <1>3 DEF ChangeDocument, RequestIds
  <1>5. s0 = [b EXCEPT !.open = f0] /\ c0.pending = c.pending /\ c0.document = c.document
    BY <1>1 DEF ClientTyped, CancelRequests
  <1> HIDE DEF s0, c0, b
  <1>6. /\ Sound(b, s, T) /\ Rest1(c, b) /\ Rest3(c, b) /\ b.stdin = c.stdin
        /\ b.dirty = c.dirty /\ b.semantic = c.semantic /\ b.document = c.document \ D
        /\ b.initId = c.initId /\ b.slot = c.slot /\ b.nextId = c.nextId
    <2>1. D \subseteq c.document  OBVIOUS
    <2> HIDE DEF D
    <2> QED BY <2>1, CancelThese DEF b
  <1>7. ClientTyped(b, T) /\ Painted(b)  BY <1>6 DEF Sound
  <1>8. /\ DOMAIN f = DOMAIN c.open /\ \A x \in DOMAIN f \ {p} : f[x] = c.open[x]
        /\ f[p] = new /\ f = [x \in DOMAIN f |-> f[x]]
    BY DEF With
  <1>9. (IF c.initialized THEN [f0 EXCEPT ![p].changePending = TRUE] ELSE f0) = f
    <2>1. DOMAIN f0 = DOMAIN f /\ f0 = [x \in DOMAIN f0 |-> f0[x]]
          /\ f0[p] = [version |-> d.version, load |-> d.load, announced |-> old.announced,
                      changePending |-> old.changePending]
          /\ \A x \in DOMAIN f \ {p} : f0[x] = f[x]
      BY <1>8 DEF With
    <2>2. CASE c.initialized
      <3> DEFINE h == [f0 EXCEPT ![p].changePending = TRUE]
                 r == [f0[p] EXCEPT !.changePending = TRUE]
      <3>1. DOMAIN h = DOMAIN f0 /\ h[p] = r
            /\ h = [x \in DOMAIN f0 |-> h[x]] /\ \A x \in DOMAIN f0 \ {p} : h[x] = f0[x]
        BY <1>8, <2>1
      <3>2. r = new
        <4>1. r \in OpenState
          <5>1. f0[p] \in OpenState  BY <1>2, <2>1 DEF OpenState
          <5> HIDE DEF f0, h
          <5> QED BY <5>1 DEF OpenState
        <4>2. r.version = d.version /\ r.load = d.load /\ r.announced = old.announced /\ r.changePending = TRUE
          BY <2>1
        <4> HIDE DEF r
        <4>3. r = [version |-> r.version, load |-> r.load, announced |-> r.announced,
                   changePending |-> r.changePending]
          BY <4>1 DEF OpenState
        <4>4. held = TRUE  BY <1>1, <2>2
        <4> HIDE DEF held
        <4> QED BY <4>2, <4>3, <4>4
      <3> HIDE DEF h, f, f0, new, r
      <3>3. \A x \in DOMAIN f : h[x] = f[x]  BY <1>8, <2>1, <3>1, <3>2
      <3>4. h = f  BY <1>8, <2>1, <3>1, <3>3
      <3> QED BY <2>2, <3>4 DEF h
    <2>3. CASE ~c.initialized
      <3>1. held = old.changePending  BY <1>1, <1>2, <2>3
      <3> HIDE DEF held
      <3>2. f0 = f  BY <3>1
      <3> HIDE DEF f, f0
      <3> QED BY <2>3, <3>2
    <2> QED BY <1>1, <2>2, <2>3
  <1> HIDE DEF f0, f
  <1>10. e = Changed(b, b.stdin, f, b.dirty \union {p})
    <2>1. s0.open = f0  BY <1>5, <1>7 DEF ClientTyped
    <2>2. CASE c.initialized
      <3>1. [s0 EXCEPT !.open[p].changePending = TRUE] = [s0 EXCEPT !.open = f]
        BY <1>9, <2>1, <2>2
      <3> HIDE DEF e
      <3> QED BY <1>4, <1>5, <1>7, <2>2, <3>1 DEF ClientTyped, Changed
    <2>3. CASE ~c.initialized
      <3>1. f0 = f  BY <1>9, <2>3
      <3> HIDE DEF e
      <3> QED BY <1>4, <1>5, <1>7, <2>3, <3>1 DEF ClientTyped, Changed
    <2> QED BY <1>1, <2>2, <2>3
  <1> HIDE DEF e
  <1>11. /\ new \in OpenState /\ TextOf(new) = TextOf(d) /\ new.announced = old.announced
         /\ new.version = d.version /\ new.changePending = held
    BY <1>1, <1>2 DEF OpenState, TextOf
  <1> HIDE DEF new
  <1>12. MapOf(f, Paths, OpenSet(T)) /\ b.dirty \union {p} \subseteq Paths
    <2>1. MapOf(c.open, Paths, OpenSet(T)) /\ c.dirty \subseteq Paths  BY <1>1 DEF ClientTyped
    <2>2. \A x \in DOMAIN f : f[x] \in OpenSet(T)
      BY <1>8, <1>11, <2>1 DEF MapOf, OpenSet
    <2> QED BY <1>2, <1>6, <1>8, <2>1, <2>2 DEF MapOf
  <1>13. /\ ClientTyped(e, T) /\ e.stdin = b.stdin /\ e.open = f /\ e.dirty = b.dirty \union {p}
         /\ Rest1(b, e) /\ Rest2(b, e) /\ e.document = b.document /\ e.semantic = b.semantic
         /\ e.tokens = b.tokens /\ e.diags = b.diags /\ e.result = b.result /\ e.active = b.active
    <2>1. b.stdin \in Seq(MessageSet(T))  BY <1>7 DEF ClientTyped
    <2> QED BY <1>7, <1>10, <1>12, <2>1, TypedOpen
  <1>14. \A r \in b.document : /\ r.path \in DOMAIN f /\ r.version = f[r.path].version
                               /\ TextOf(f[r.path]) = TextOf(c.open[r.path])
    <2> SUFFICES ASSUME NEW r \in b.document
                 PROVE  /\ r.path \in DOMAIN f /\ r.version = f[r.path].version
                        /\ TextOf(f[r.path]) = TextOf(c.open[r.path])
      OBVIOUS
    <2>1. r.path \in DOMAIN c.open /\ r.version = c.open[r.path].version
      BY <1>1, <1>6 DEF Painted
    <2>2. CASE r.path = p
      <3>1. r.version = d.version  BY <1>6, <2>2
      <3>2. TextOf(new) = TextOf(old)  BY <1>11, <2>1, <2>2, <3>1 DEF TextOf
      <3> QED BY <1>8, <1>11, <2>1, <2>2, <3>1, <3>2
    <2>3. CASE r.path # p  BY <1>8, <2>1, <2>3
    <2> QED BY <2>2, <2>3
  <1>15. Painted(e)
    <2>1. \A x \in DOMAIN f : x \in e.dirty \/ (x \in DOMAIN c.open /\ x # p)
      BY <1>8, <1>13
    <2>2. \A x \in DOMAIN e.open :
            x \in e.dirty \/ (\E r \in e.semantic : r.path = x) \/ e.tokens[x] = TextOf(e.open[x])
      BY <1>1, <1>6, <1>8, <1>13, <2>1 DEF Painted, Rest3
    <2>3. \A r \in e.semantic :
            r.path \in DOMAIN e.open /\ r.path \notin e.dirty => <<r.load, r.version>> = TextOf(e.open[r.path])
      BY <1>1, <1>6, <1>8, <1>13, <2>1 DEF Painted
    <2> QED BY <1>13, <1>14, <2>2, <2>3 DEF Painted
  <1>16. b.running => Mirrors(e, Heard(s, b.stdin))
    <2> DEFINE told == Heard(s, c.stdin)
    <2> HIDE DEF told
    <2> SUFFICES ASSUME b.running PROVE Mirrors(e, told)
      BY <1>6 DEF told
    <2>1. Mirrors(c, told) /\ c.running  BY <1>6, SoundMirrors DEF told, Rest1
    <2>2. DOMAIN told = {x \in DOMAIN f : f[x].announced}  BY <1>8, <1>11, <2>1 DEF Mirrors
    <2>3. ASSUME NEW x \in DOMAIN told
          PROVE  /\ VersionOf(told[x]) <= f[x].version
                 /\ ~f[x].changePending => told[x] = TextOf(f[x])
      <3>1. CASE x = p
        <4>1. c.initialized  BY <2>1, <2>2, <2>3, <3>1, <1>8, <1>11 DEF AllOrNone
        <4>2. VersionOf(told[p]) <= old.version  BY <2>1, <2>3, <3>1 DEF Mirrors
        <4>3. VersionOf(told[p]) \in Nat
          <5>1. c.stdin \in Seq(MessageSet(T)) /\ ServerTyped(s, T)  BY <1>1 DEF ClientTyped, Sound
          <5>2. Msg("initialized", 0, NoPath, NoText) \in MessageSet(T)  BY DEF Msg, MessageSet, Texts
          <5>3. told \in Maps(T)  BY <5>1, <5>2, HeardAppend DEF told
          <5>4. told[p] \in T  BY <2>3, <3>1, <5>3 DEF Maps
          <5> QED BY <5>4 DEF Texts, VersionOf
        <4>4. VersionOf(told[p]) <= d.version  BY <1>2, <4>2, <4>3
        <4> QED BY <1>8, <1>11, <3>1, <4>1, <4>4
      <3>2. CASE x # p
        <4>1. f[x] = c.open[x]  BY <1>8, <2>2, <2>3, <3>2
        <4> QED BY <2>1, <2>3, <4>1 DEF Mirrors
      <3> QED BY <3>1, <3>2
    <2> QED BY <1>13, <2>2, <2>3 DEF Mirrors
  <1>17. \A r \in b.document : TextOf(e.open[r.path]) = TextOf(b.open[r.path])
    BY <1>6, <1>13, <1>14 DEF Rest3
  <1>18. Sound(e, s, T)
    BY <1>6, <1>13, <1>15, <1>16, <1>17, CopySound
  <1>19. Rest1(c, e) /\ e.tokens = c.tokens /\ e.result = c.result /\ e.active = c.active
         /\ e.document \subseteq c.document
    BY <1>6, <1>13 DEF Rest1, Rest3
  <1>20. AllOrNone(e)
    <2>1. \A x \in DOMAIN f : f[x].announced = c.open[x].announced  BY <1>8, <1>11
    <2> QED BY <1>8, <1>13, <1>19, <2>1 DEF AllOrNone, Rest1
  <1> QED BY <1>8, <1>11, <1>13, <1>18, <1>19, <1>20 DEF e

\* A document that nobody asks about is closed: clangd forgets it too.
LEMMA ForgetSound ==
  ASSUME NEW T, Texts(T), NEW c, NEW s, Sound(c, s, T), NEW p \in Paths,
         \A r \in c.document : r.path # p
  PROVE  LET e == Forget(c, p) IN
         /\ Sound(e, s, T) /\ Rest1(c, e) /\ Rest2(c, e) /\ e.document = c.document
         /\ e.open = Without(c.open, p) /\ e.result = c.result /\ e.active = c.active
         /\ e.tokens = [c.tokens EXCEPT ![p] = NoText]
  <1> DEFINE told == Heard(s, c.stdin)
             m == Msg("didClose", 0, p, NoText)
             tells == p \in DOMAIN c.open /\ c.open[p].announced
             q == IF tells THEN Sent(c, m) ELSE c.stdin
             f == Without(c.open, p)
             e == Forget(c, p)
  <1>1. ClientTyped(c, T) /\ Painted(c)  BY DEF Sound
  <1>2. m \in MessageSet(T) /\ m.id = 0 /\ m.path = p /\ m.type = "didClose"
    BY DEF Msg, MessageSet, Texts
  <1> HIDE DEF m
  <1>3. q \in Seq(MessageSet(T))
    <2>1. c.stdin \in Seq(MessageSet(T))  BY <1>1 DEF ClientTyped
    <2>2. Sent(c, m) \in Seq(MessageSet(T))  BY <1>1, <1>2, SendFields
    <2> QED BY <2>1, <2>2
  <1>4. DOMAIN f = DOMAIN c.open \ {p} /\ f = [x \in DOMAIN f |-> f[x]]
        /\ \A x \in DOMAIN f : f[x] = c.open[x]
    BY DEF Without
  <1>5. e = [c EXCEPT !.stdin = q, !.open = f, !.dirty = c.dirty \ {p},
                      !.tokens = [c.tokens EXCEPT ![p] = NoText], !.diags = [c.diags EXCEPT ![p] = NoText]]
    <2>1. CASE tells
      <3>1. Send(c, m) = [c EXCEPT !.stdin = q]  BY <1>1, <1>2, <2>1, SendFields
      <3>2. e = [[c EXCEPT !.stdin = q] EXCEPT !.open = Without(@, p), !.dirty = @ \ {p},
                                               !.tokens[p] = NoText, !.diags[p] = NoText]
        BY <2>1, <3>1, Zenon DEF Forget, m
      <3> HIDE DEF e, q
      <3> QED BY <1>1, <3>2 DEF ClientTyped
    <2>2. CASE ~tells
      <3>1. q = c.stdin  BY <2>2
      <3>2. e = [c EXCEPT !.open = Without(@, p), !.dirty = @ \ {p},
                          !.tokens[p] = NoText, !.diags[p] = NoText]
        BY <2>2 DEF Forget
      <3> HIDE DEF e, q
      <3> QED BY <1>1, <3>1, <3>2 DEF ClientTyped
    <2> QED BY <2>1, <2>2
  <1> HIDE DEF e, q, f, told
  <1>6. /\ e.stdin = q /\ e.open = f /\ e.dirty = c.dirty \ {p}
        /\ e.tokens = [c.tokens EXCEPT ![p] = NoText] /\ e.diags = [c.diags EXCEPT ![p] = NoText]
    BY <1>1, <1>5 DEF ClientTyped
  <1>7. Rest1(c, e) /\ Rest2(c, e) /\ e.document = c.document /\ e.semantic = c.semantic
        /\ e.result = c.result /\ e.active = c.active
    BY <1>1, <1>5 DEF ClientTyped, Rest1, Rest2
  <1>8. MapOf(f, Paths, OpenSet(T)) /\ c.dirty \ {p} \subseteq Paths
    <2>1. MapOf(c.open, Paths, OpenSet(T)) /\ c.dirty \subseteq Paths  BY <1>1 DEF ClientTyped
    <2> QED BY <1>4, <2>1 DEF MapOf
  <1>9. ClientTyped(e, T)
    <2> DEFINE tokens == [c.tokens EXCEPT ![p] = NoText]
               diags == [c.diags EXCEPT ![p] = NoText]
               dirty == c.dirty \ {p}
    <2>1. tokens \in [Paths -> T] /\ diags \in [Paths -> T] /\ dirty \in SUBSET Paths
      BY <1>1, <1>8 DEF ClientTyped, Texts
    <2>2. e = [c EXCEPT !.stdin = q, !.open = f, !.dirty = dirty, !.tokens = tokens, !.diags = diags]
      BY <1>5
    <2> HIDE DEF tokens, diags, dirty
    <2> QED BY <1>1, <1>3, <1>6, <1>8, <2>1, <2>2 DEF ClientTyped
  <1>10. Painted(e)
    <2>1. \A x \in DOMAIN f : x # p /\ x \in DOMAIN c.open /\ e.tokens[x] = c.tokens[x]
                              /\ (x \in c.dirty => x \in e.dirty) /\ (x \in e.dirty => x \in c.dirty)
      <3>1. c.tokens \in [Paths -> T] /\ DOMAIN c.open \subseteq Paths  BY <1>1 DEF ClientTyped, MapOf
      <3> QED BY <1>4, <1>6, <3>1
    <2>2. \A x \in DOMAIN e.open :
            x \in e.dirty \/ (\E r \in e.semantic : r.path = x) \/ e.tokens[x] = TextOf(e.open[x])
      BY <1>1, <1>4, <1>6, <1>7, <2>1 DEF Painted
    <2>3. \A r \in e.semantic :
            r.path \in DOMAIN e.open /\ r.path \notin e.dirty => <<r.load, r.version>> = TextOf(e.open[r.path])
      BY <1>1, <1>4, <1>6, <1>7, <2>1 DEF Painted
    <2>4. \A r \in e.document : r.path \in DOMAIN e.open /\ r.version = e.open[r.path].version
      BY <1>1, <1>4, <1>6, <1>7 DEF Painted
    <2> QED BY <2>2, <2>3, <2>4 DEF Painted
  <1>11. \A r \in c.document : TextOf(e.open[r.path]) = TextOf(c.open[r.path])
    <2>1. \A r \in c.document : r.path \in DOMAIN f  BY <1>1, <1>4 DEF Painted
    <2> QED BY <1>4, <1>6, <2>1
  <1>12. c.running => Mirrors(c, told)  BY SoundMirrors DEF told
  <1>13. Sound(e, s, T)
    <2>1. CASE tells
      <3>1. DocsAfter(told, m) = Without(told, p)  BY <1>2 DEF DocsAfter
      <3>2. DOMAIN Without(told, p) = DOMAIN told \ {p}
            /\ \A x \in DOMAIN told \ {p} : Without(told, p)[x] = told[x]
        BY DEF Without
      <3>3. c.running => Mirrors(e, DocsAfter(told, m)) /\ ~Wrong(told, m)
        <4> SUFFICES ASSUME c.running PROVE Mirrors(e, DocsAfter(told, m)) /\ ~Wrong(told, m)
          OBVIOUS
        <4>1. ~Wrong(told, m)  BY <1>2, <1>12, <2>1 DEF Wrong, Mirrors
        <4>2. DOMAIN DocsAfter(told, m) = {x \in DOMAIN f : f[x].announced}
          BY <1>4, <1>12, <3>1, <3>2 DEF Mirrors
        <4>3. Mirrors(e, DocsAfter(told, m))
          BY <1>4, <1>6, <1>12, <3>1, <3>2, <4>2 DEF Mirrors
        <4> QED BY <4>1, <4>3
      <3>4. e.stdin = Sent(c, m)  BY <1>6, <2>1 DEF q
      <3> QED BY <1>2, <1>7, <1>9, <1>10, <1>11, <3>3, <3>4, TellSound DEF told
    <2>2. CASE ~tells
      <3>1. c.running => Mirrors(e, told)
        <4> SUFFICES ASSUME c.running PROVE Mirrors(e, told)
          OBVIOUS
        <4>1. DOMAIN told = {x \in DOMAIN f : f[x].announced}  BY <1>4, <1>12, <2>2 DEF Mirrors
        <4> QED BY <1>4, <1>6, <1>12, <4>1 DEF Mirrors
      <3>2. e.stdin = c.stdin  BY <1>6, <2>2 DEF q
      <3> QED BY <1>7, <1>9, <1>10, <1>11, <3>1, <3>2, CopySound DEF told
    <2> QED BY <2>1, <2>2
  <1> QED BY <1>6, <1>7, <1>13 DEF e, f

\* Closing a document gives up what was asked about it first.
LEMMA CloseSound ==
  ASSUME NEW T, Texts(T), NEW c, NEW s, Sound(c, s, T), AllOrNone(c), NEW p \in Paths
  PROVE  LET e == CloseDocument(c, p) IN
         /\ Sound(e, s, T) /\ AllOrNone(e) /\ Rest1(c, e) /\ e.initId = c.initId /\ e.slot = c.slot
         /\ e.document = {r \in c.document : r.path # p}
         /\ e.open = Without(c.open, p) /\ e.result = c.result /\ e.active = c.active
         /\ e.tokens = [c.tokens EXCEPT ![p] = NoText]
  <1> DEFINE D == {q \in c.document : q.path = p}
             b == CancelRequests(c, RequestIds(D))
             e == CloseDocument(c, p)
  <1>1. e = Forget(b, p)  BY DEF CloseDocument, RequestIds
  <1>2. D \subseteq c.document /\ c.document \ D = {r \in c.document : r.path # p}  OBVIOUS
  <1> HIDE DEF D
  <1>3. /\ Sound(b, s, T) /\ Rest1(c, b) /\ Rest3(c, b)
        /\ b.initId = c.initId /\ b.slot = c.slot /\ b.document = c.document \ D
    BY <1>2, CancelThese
  <1> HIDE DEF b, e
  <1>4. \A r \in b.document : r.path # p  BY <1>2, <1>3
  <1>5. /\ Sound(e, s, T) /\ Rest1(b, e) /\ Rest2(b, e) /\ e.document = b.document
        /\ e.open = Without(b.open, p) /\ e.result = b.result /\ e.active = b.active
        /\ e.tokens = [b.tokens EXCEPT ![p] = NoText]
    BY <1>1, <1>3, <1>4, ForgetSound
  <1>6. /\ Rest1(c, e) /\ e.initId = c.initId /\ e.slot = c.slot
        /\ e.document = {r \in c.document : r.path # p}
        /\ e.open = Without(c.open, p) /\ e.result = c.result /\ e.active = c.active
        /\ e.tokens = [c.tokens EXCEPT ![p] = NoText]
    BY <1>2, <1>3, <1>5 DEF Rest1, Rest2, Rest3
  <1>7. AllOrNone(e)
    BY <1>6 DEF AllOrNone, Without, Rest1
  <1> QED BY <1>5, <1>6, <1>7 DEF e

\* A question about the document the user is in takes the place of the last of its kind.
LEMMA AskSound ==
  ASSUME NEW T, Texts(T), NEW c, NEW s, Sound(c, s, T), AllOrNone(c), c.initialized,
         NEW k \in Kinds, NEW p \in DOMAIN c.open, NEW d, d.version = c.open[p].version
  PROVE  LET e == AskDocument(c, k, p, d) IN
         /\ Sound(e, s, T) /\ AllOrNone(e) /\ Rest1(c, e)
         /\ e.tokens = c.tokens /\ e.active = c.active /\ e.result = [c.result EXCEPT ![k] = NoText]
         /\ \A r \in e.document : r \in c.document \/ r.path = p
         /\ DOMAIN e.open = DOMAIN c.open
         /\ \A x \in DOMAIN c.open : TextOf(e.open[x]) = TextOf(c.open[x])
  <1> DEFINE f == FlushChange(c, p)
             b == CancelRequests(f, {f.slot[k]})
             m == Msg("request", f.nextId, p, NoText)
             q == Sent(b, m)
             r == [id |-> f.nextId, path |-> p, version |-> d.version]
             e == AskDocument(c, k, p, d)
  <1>1. ClientTyped(c, T) /\ p \in Paths /\ c.open[p].announced
    <2>1. ClientTyped(c, T)  BY DEF Sound
    <2> QED BY <2>1, OpenEntry DEF AllOrNone
  <1>2. /\ Sound(f, s, T) /\ Rest1(c, f) /\ f.initId = c.initId /\ f.slot = c.slot
        /\ f.document = c.document /\ f.tokens = c.tokens /\ f.result = c.result /\ f.active = c.active
        /\ DOMAIN f.open = DOMAIN c.open
        /\ \A x \in DOMAIN c.open : TextOf(f.open[x]) = TextOf(c.open[x])
                                    /\ f.open[x].announced = c.open[x].announced
                                    /\ f.open[x].version = c.open[x].version
        /\ ~f.open[p].changePending
    BY <1>1, FlushSound
  <1> HIDE DEF f
  <1>3. ClientTyped(f, T) /\ Tracked(f) /\ f.slot \in [Kinds -> Nat]  BY <1>2 DEF Sound, ClientTyped
  <1>4. \A i \in {f.slot[k]} : i \in f.pending => \E x \in f.document : x.id = i
    <2> SUFFICES ASSUME f.slot[k] \in f.pending PROVE \E x \in f.document : x.id = f.slot[k]
      OBVIOUS
    <2>1. f.slot[k] \in WaitingIds(f)  BY <1>3 DEF Tracked
    <2>2. f.slot[k] \notin {x.id : x \in f.semantic}  BY <1>3 DEF Tracked
    <2>3. f.slot[k] \notin {f.initId} \ {0}  BY <1>3 DEF Tracked
    <2> QED BY <2>1, <2>2, <2>3 DEF WaitingIds
  <1>5. /\ Sound(b, s, T) /\ Rest1(f, b) /\ Rest3(f, b) /\ b.stdin = f.stdin
        /\ b.initId = f.initId /\ b.slot = f.slot /\ b.nextId = f.nextId
        /\ b.dirty = f.dirty /\ b.semantic = f.semantic
        /\ b.document = {x \in f.document : x.id \notin {f.slot[k]}}
    BY <1>2, <1>4, CancelSound
  <1>6. ClientTyped(b, T) /\ Tracked(b) /\ Painted(b)  BY <1>5 DEF Sound
  <1>7. f.nextId \in Nat \ {0} /\ b.slot \in [Kinds -> Nat] /\ b.initId \in Nat
        /\ b.document \subseteq DocumentSet /\ b.semantic \subseteq SemanticSet
        /\ b.result \in [Kinds -> T] /\ c.open[p].version \in Nat
    BY <1>1, <1>3, <1>6, OpenEntry DEF ClientTyped
  <1>8. m \in MessageSet(T) /\ m.id = f.nextId /\ m.path = p /\ m.type = "request"
    BY <1>1, <1>7 DEF Msg, MessageSet, Texts
  <1>9. r \in DocumentSet /\ r.id = f.nextId /\ r.path = p /\ r.version = d.version
    BY <1>1, <1>7 DEF DocumentSet
  <1>10. q \in Seq(MessageSet(T))  BY <1>6, <1>8, SendFields
  <1> DEFINE b1 == [b EXCEPT !.result[k] = NoText]
             slot == [b.slot EXCEPT ![k] = f.nextId]
             result == [b.result EXCEPT ![k] = NoText]
  <1>11. e = [Request(b1, "request", p) EXCEPT !.slot[k] = f.nextId, !.document = @ \union {r}]
    BY DEF AskDocument, f
  <1> HIDE DEF b, e
  <1>12. e = [b EXCEPT !.stdin = q, !.nextId = f.nextId + 1, !.pending = b.pending \union {f.nextId},
                       !.result = result, !.slot = slot, !.document = b.document \union {r}]
    <2>1. b1.running = b.running /\ b1.nextId = f.nextId /\ b1.stdin = b.stdin
      BY <1>5, <1>6 DEF ClientTyped
    <2>2. Send(b1, m) = [b EXCEPT !.stdin = q, !.result = result]
      <3>1. b = [b EXCEPT !.stdin = b.stdin]  BY <1>6 DEF ClientTyped
      <3>2. CASE b.running  BY <1>6, <2>1, <3>2 DEF Send, Sent, ClientTyped
      <3>3. CASE ~b.running
        <4>1. Send(b1, m) = b1 /\ q = b.stdin  BY <2>1, <3>3 DEF Send, Sent
        <4>2. b1 = [b EXCEPT !.stdin = b.stdin, !.result = result]  BY <1>6 DEF ClientTyped
        <4> HIDE DEF b1, result, m
        <4> QED BY <4>1, <4>2
      <3> QED BY <3>2, <3>3
    <2>3. Request(b1, "request", p) =
            [Send(b1, m) EXCEPT !.nextId = @ + 1, !.pending = @ \union {f.nextId}]
      BY <2>1 DEF Request
    <2> HIDE DEF b1, m, q, r, result
    <2>4. Request(b1, "request", p) =
            [b EXCEPT !.stdin = q, !.result = result, !.nextId = f.nextId + 1,
                      !.pending = b.pending \union {f.nextId}]
      BY <1>5, <1>6, <2>2, <2>3 DEF ClientTyped
    <2> QED BY <1>6, <1>11, <2>4 DEF ClientTyped
  <1> HIDE DEF q, m, r
  <1>13. /\ e.stdin = q /\ e.nextId = f.nextId + 1 /\ e.pending = b.pending \union {f.nextId}
         /\ e.result = result /\ e.slot = slot /\ e.document = b.document \union {r}
    BY <1>6, <1>12 DEF ClientTyped
  <1>14. /\ Rest1(b, e) /\ e.initId = b.initId /\ e.open = b.open /\ e.tokens = b.tokens
         /\ e.active = b.active /\ e.semantic = b.semantic /\ e.dirty = b.dirty
    BY <1>6, <1>12 DEF ClientTyped, Rest1
  <1>15. ClientTyped(e, T)
    <2>1. slot \in [Kinds -> Nat] /\ result \in [Kinds -> T] /\ f.nextId + 1 \in Nat \ {0}
          /\ b.document \union {r} \in SUBSET DocumentSet /\ b.pending \union {f.nextId} \in SUBSET Nat
      <3>1. slot \in [Kinds -> Nat]  BY <1>7
      <3>2. result \in [Kinds -> T]  BY <1>7 DEF Texts
      <3>3. b.pending \in SUBSET Nat  BY <1>6 DEF ClientTyped
      <3> QED BY <1>7, <1>9, <3>1, <3>2, <3>3
    <2> HIDE DEF slot, result
    <2> QED BY <1>6, <1>10, <1>12, <1>14, <2>1 DEF ClientTyped
  <1>16. Tracked(e)
    <2>1. WaitingIds(e) = WaitingIds(b) \union {f.nextId}
      BY <1>9, <1>13, <1>14 DEF WaitingIds
    <2>2. \A i \in WaitingIds(b) : i \in Nat
      BY <1>7 DEF WaitingIds, DocumentSet, SemanticSet
    <2>3. e.pending = WaitingIds(e)  BY <1>6, <1>13, <2>1 DEF Tracked
    <2>4. \A i \in WaitingIds(e) : 0 < i /\ i < e.nextId
      BY <1>5, <1>6, <1>7, <1>13, <2>1, <2>2 DEF Tracked
    <2>5. \A i \in Kinds : slot[i] = IF i = k THEN f.nextId ELSE b.slot[i]  BY <1>7
    <2>6. e.initId < e.nextId /\ \A i \in Kinds : e.slot[i] < e.nextId
      BY <1>5, <1>6, <1>7, <1>13, <1>14, <2>5 DEF Tracked
    <2>7. /\ \A i \in 1..Len(e.stdin) : e.stdin[i].id < e.nextId
          /\ \A i \in 1..Len(e.output) : e.output[i].type = "response" => e.output[i].id < e.nextId
      <3>1. f.nextId + 1 \in Nat /\ f.nextId + 1 >= b.nextId /\ m.id < f.nextId + 1
        BY <1>5, <1>7, <1>8
      <3> QED BY <1>6, <1>8, <1>13, <1>14, <3>1, WireIds DEF Rest1, q
    <2>8. \A x \in b.document : x.id \in WaitingIds(b) /\ x.id # b.slot[k]
      BY <1>5 DEF WaitingIds
    <2>9. \A x \in b.semantic : x.id \in WaitingIds(b)  BY DEF WaitingIds
    <2>10. \A i \in WaitingIds(b) : i # f.nextId  BY <1>5, <1>6, <1>7, <2>2 DEF Tracked
    <2>11. \A x, y \in e.document : x.id = y.id => x = y
      BY <1>6, <1>9, <1>13, <2>8, <2>10 DEF Tracked
    <2>12. \A x, y \in e.semantic : x.id = y.id \/ x.path = y.path => x = y
      BY <1>6, <1>14 DEF Tracked
    <2>13. \A x \in e.document, y \in e.semantic : x.id # y.id
      BY <1>6, <1>9, <1>13, <1>14, <2>9, <2>10 DEF Tracked
    <2>14. c.initId = 0 /\ e.initId = 0
      BY <1>2, <1>5, <1>14 DEF Sound, Tracked
    <2>15. \A x \in e.document : x.id # e.initId
      BY <1>6, <1>7, <1>9, <1>13, <1>14, <2>14 DEF Tracked
    <2>16. \A y \in e.semantic : y.id # e.initId /\ \A i \in Kinds : e.slot[i] # y.id
      BY <1>6, <1>13, <1>14, <2>5, <2>9, <2>10 DEF Tracked
    <2>17. ASSUME NEW x \in e.document PROVE \E i \in Kinds : e.slot[i] = x.id
      <3>1. CASE x = r  BY <1>9, <1>13, <2>5, <3>1
      <3>2. CASE x \in b.document
        <4>1. PICK i \in Kinds : b.slot[i] = x.id  BY <1>6, <3>2 DEF Tracked
        <4>2. i # k  BY <2>8, <3>2, <4>1
        <4> QED BY <1>13, <2>5, <4>1, <4>2
      <3> QED BY <1>13, <3>1, <3>2
    <2> HIDE DEF slot
    <2> QED BY <2>3, <2>4, <2>6, <2>7, <2>11, <2>12, <2>13, <2>14, <2>15, <2>16, <2>17 DEF Tracked
  <1>17. /\ p \in DOMAIN e.open /\ e.open[p].version = d.version /\ e.open = f.open
    BY <1>2, <1>5, <1>14 DEF Rest3
  <1>18. Painted(e)
    <2>1. \A x \in DOMAIN e.open :
            x \in e.dirty \/ (\E y \in e.semantic : y.path = x) \/ e.tokens[x] = TextOf(e.open[x])
      BY <1>6, <1>14 DEF Painted
    <2>2. \A x \in e.semantic :
            x.path \in DOMAIN e.open /\ x.path \notin e.dirty => <<x.load, x.version>> = TextOf(e.open[x.path])
      BY <1>6, <1>14 DEF Painted
    <2>3. \A x \in e.document : x.path \in DOMAIN e.open /\ x.version = e.open[x.path].version
      BY <1>6, <1>9, <1>13, <1>14, <1>17 DEF Painted
    <2> QED BY <2>1, <2>2, <2>3 DEF Painted
  <1>19. b.running => /\ Mirrors(e, DocsAfter(Heard(s, b.stdin), m))
                      /\ ~Wrong(Heard(s, b.stdin), m)
                      /\ p \in DOMAIN Heard(s, b.stdin) /\ Heard(s, b.stdin)[p] = TextOf(e.open[p])
    <2> DEFINE told == Heard(s, b.stdin)
    <2> HIDE DEF told
    <2> SUFFICES ASSUME b.running
                 PROVE  /\ Mirrors(e, DocsAfter(told, m)) /\ ~Wrong(told, m)
                        /\ p \in DOMAIN told /\ told[p] = TextOf(e.open[p])
      BY DEF told
    <2>1. Mirrors(b, told)  BY <1>5, SoundMirrors DEF told
    <2>2. DocsAfter(told, m) = told /\ ~Wrong(told, m)  BY <1>8 DEF DocsAfter, Wrong
    <2>3. Mirrors(e, told)  BY <1>14, <2>1 DEF Mirrors
    <2>4. p \in DOMAIN told  BY <1>1, <1>2, <1>17, <2>3 DEF Mirrors
    <2>5. told[p] = TextOf(e.open[p])  BY <1>2, <1>17, <2>3, <2>4 DEF Mirrors
    <2> QED BY <2>2, <2>3, <2>4, <2>5
  <1>20. ASSUME NEW a \in Asked(e)
         PROVE  \/ a \in Asked(b) /\ a.id # m.id
                \/ a.id = b.nextId /\ a.path = p /\ a.text = TextOf(e.open[p])
    <2>1. a \in Asked(b) \/ a = [id |-> r.id, path |-> r.path, text |-> TextOf(e.open[r.path])]
      BY <1>13, <1>14 DEF Asked
    <2>2. a \in Asked(b) => a.id # b.nextId
      <3>1. a \in Asked(b) => a.id \in WaitingIds(b)  BY DEF Asked, WaitingIds
      <3>2. \A i \in WaitingIds(b) : i # b.nextId
        <4>1. \A i \in WaitingIds(b) : i \in Nat
          BY <1>7 DEF WaitingIds, DocumentSet, SemanticSet
        <4> QED BY <1>5, <1>6, <1>7, <4>1 DEF Tracked
      <3> QED BY <3>1, <3>2
    <2> QED BY <1>5, <1>8, <1>9, <2>1, <2>2
  <1>9a. Sound(e, s, T)
    <2>1. e.nextId >= b.nextId  BY <1>5, <1>7, <1>13
    <2>2. e.stdin = IF b.running THEN Append(b.stdin, m) ELSE b.stdin  BY <1>13 DEF Sent, q
    <2>3. \A a \in Asked(e) :
            \/ a \in Asked(b) /\ a.id # m.id
            \/ /\ a.id = b.nextId /\ m.type \in {"request", "semantic"} /\ m.path = a.path
               /\ b.running => a.path \in DOMAIN Heard(s, b.stdin) /\ Heard(s, b.stdin)[a.path] = a.text
      BY <1>8, <1>19, <1>20
    <2> QED BY <1>5, <1>8, <1>14, <1>15, <1>16, <1>18, <1>19, <2>1, <2>2, <2>3, SendSound DEF Rest1
  <1>22. Rest1(c, e) /\ e.tokens = c.tokens /\ e.active = c.active /\ e.result = [c.result EXCEPT ![k] = NoText]
    BY <1>2, <1>5, <1>13, <1>14 DEF Rest1, Rest3
  <1>23. \A x \in e.document : x \in c.document \/ x.path = p
    BY <1>2, <1>5, <1>9, <1>13
  <1>24. AllOrNone(e)
    BY <1>2, <1>17, <1>22 DEF AllOrNone, Rest1
  <1> QED BY <1>2, <1>17, <1>9a, <1>22, <1>23, <1>24 DEF e

\* The client takes a message, and waits for no more than before.
LEMMA TakeSound ==
  ASSUME NEW T, NEW c, NEW s, Sound(c, s, T), c.output # <<>>,
         NEW e, ClientTyped(e, T), Painted(e), e.output = Tail(c.output), e.stdin = c.stdin,
         e.running = c.running, e.nextId = c.nextId, e.slot = c.slot,
         e.document \subseteq c.document, e.semantic \subseteq c.semantic, e.pending = WaitingIds(e),
         e.initId \in {0, c.initId}, e.initialized => e.initId = 0, e.open = c.open
  PROVE  Sound(e, s, T)
  <1>1. ClientTyped(c, T) /\ Tracked(c) /\ ServerTyped(s, T)  BY DEF Sound
  <1>2. c.output \in Seq(AnswerSet(T)) /\ c.nextId \in Nat  BY <1>1 DEF ClientTyped
  <1>3. \A i \in 1..Len(e.output) : e.output[i].type = "response" => e.output[i].id < c.nextId
    <2>1. Len(c.output) \in Nat \ {0} /\ Len(Tail(c.output)) = Len(c.output) - 1
          /\ \A i \in 1..(Len(c.output) - 1) : Tail(c.output)[i] = c.output[i + 1]
      BY <1>2, EmptySeq, HeadTailProperties
    <2>2. \A i \in 1..(Len(c.output) - 1) : i + 1 \in 1..Len(c.output)  BY <2>1
    <2> QED BY <1>1, <2>1, <2>2 DEF Tracked
  <1>4. Tracked(e)
    <2>1. /\ \A r \in c.document : r.id # 0
          /\ \A r \in c.semantic : r.id # 0
          /\ 0 < c.nextId
      BY <1>1, WaitingNotZero
    <2>2. \A i \in 1..Len(e.stdin) : e.stdin[i].id < c.nextId  BY <1>1 DEF Tracked
    <2> QED BY <1>1, <1>3, <2>1, <2>2, TrackedLess
  <1>5. JobsTracked(e, s)  BY DEF Sound, JobsTracked
  <1>6. Linked(e, s)  BY DEF Sound, Linked, Mirrored
  <1>7. Asked(e) \subseteq Asked(c)  BY DEF Asked
  <1>8. Answered(e, s)
    <2>1. \A a \in Asked(e) : Due(a, c.stdin, c.output, s)  BY <1>7 DEF Sound, Answered
    <2>2. \A a \in Asked(e) : Due(a, c.stdin, Tail(c.output), s)  BY <1>2, <2>1, DueTake
    <2> QED BY <2>2 DEF Answered
  <1> QED BY <1>1, <1>4, <1>5, <1>6, <1>8 DEF Sound

\* A process that has gone leaves its client sound.
LEMMA GoneSound ==
  ASSUME NEW T, NEW c, NEW s, Sound(c, s, T),
         NEW e, e = [c EXCEPT !.running = FALSE, !.stdin = <<>>]
  PROVE  Sound(e, IdleServer, T) /\ Rest2(c, e) /\ Rest3(c, e) /\ e.document = c.document
         /\ e.initialized = c.initialized /\ ~e.running
  <1>1. ClientTyped(c, T) /\ Tracked(c) /\ ServerTyped(s, T) /\ Painted(c)  BY DEF Sound
  <1>2. e.running = FALSE /\ e.stdin = <<>> /\ e.output = c.output
    BY <1>1 DEF ClientTyped
  <1>3. /\ Rest2(c, e) /\ Rest3(c, e) /\ e.document = c.document /\ e.semantic = c.semantic
        /\ e.dirty = c.dirty /\ e.initialized = c.initialized
    BY <1>1 DEF ClientTyped, Rest2, Rest3
  <1>4. ClientTyped(e, T)
    <2>1. <<>> \in Seq(MessageSet(T)) /\ e.open = c.open  BY <1>3 DEF Rest3
    <2> QED BY <1>1, <2>1 DEF ClientTyped
  <1>5. ServerTyped(IdleServer, T)
    BY DEF ServerTyped, IdleServer, MapOf
  <1>6. WaitingIds(e) = WaitingIds(c)  BY <1>3 DEF WaitingIds, Rest2
  <1>7. Tracked(e)
    <2>1. /\ \A r \in c.document : r.id # 0
          /\ \A r \in c.semantic : r.id # 0
          /\ 0 < c.nextId
      BY <1>1, WaitingNotZero
    <2>2. /\ \A i \in 1..Len(e.stdin) : e.stdin[i].id < c.nextId
          /\ \A i \in 1..Len(e.output) : e.output[i].type = "response" => e.output[i].id < c.nextId
      BY <1>1, <1>2 DEF Tracked
    <2>3. e.pending = WaitingIds(e) /\ (e.initialized => e.initId = 0)
      BY <1>1, <1>3, <1>6 DEF Tracked, Rest2
    <2> QED BY <1>1, <1>3, <2>1, <2>2, <2>3, TrackedLess DEF Rest2
  <1>8. JobsTracked(e, IdleServer)  BY DEF JobsTracked, IdleServer
  <1>9. Linked(e, IdleServer)
    <2>1. ~IdleServer.fault /\ Faultless(IdleServer.docs, e.stdin)
      BY <1>2 DEF Faultless, IdleServer
    <2> QED BY <1>2, <2>1 DEF Linked
  <1>10. Painted(e)  BY <1>1, <1>3 DEF Painted, Rest3
  <1>11. Answered(e, IdleServer)
    <2>1. Asked(e) = Asked(c)  BY <1>3 DEF Asked, Rest3
    <2>2. ASSUME NEW a \in Asked(c) PROVE Due(a, e.stdin, e.output, IdleServer)
      <3>1. \A i \in 1..Len(c.output) : Answers(c.output[i], a)  BY <2>2 DEF Sound, Answered, Due
      <3> QED BY <1>2, <3>1 DEF Due, IdleServer
    <2> QED BY <2>1, <2>2 DEF Answered
  <1> QED BY <1>2, <1>3, <1>4, <1>5, <1>7, <1>8, <1>9, <1>10, <1>11 DEF Sound

\* A client that has not been used.
LEMMA IdleTyped ==
  ASSUME NEW T, Texts(T)
  PROVE  /\ ClientTyped(IdleClient, T)
         /\ IdleClient.stdin = <<>> /\ IdleClient.open = <<>> /\ IdleClient.dirty = {}
         /\ IdleClient.semantic = {} /\ IdleClient.document = {} /\ IdleClient.pending = {}
         /\ IdleClient.initialized = FALSE /\ IdleClient.output = <<>>
         /\ IdleClient.running = FALSE /\ IdleClient.nextId = 1 /\ IdleClient.slot = [k \in Kinds |-> 0]
         /\ IdleClient.result = [k \in Kinds |-> NoText] /\ IdleClient.tokens = [p \in Paths |-> NoText]
  <1> DEFINE texts == [k \in Kinds |-> NoText]
             maps == [p \in Paths |-> NoText]
             slots == [k \in Kinds |-> 0]
  <1>1. texts \in [Kinds -> T] /\ maps \in [Paths -> T] /\ slots \in [Kinds -> Nat]
    BY DEF Texts
  <1>2. IdleClient = [running |-> FALSE, stdin |-> <<>>, output |-> <<>>, started |-> FALSE,
                      exitReported |-> FALSE, initialized |-> FALSE, initId |-> 0,
                      open |-> <<>>, dirty |-> {}, semantic |-> {}, document |-> {},
                      pending |-> {}, nextId |-> 1, active |-> NoPath, typesKnown |-> FALSE,
                      slot |-> slots, result |-> texts, tokens |-> maps, diags |-> maps]
    BY DEF IdleClient
  <1> HIDE DEF texts, maps, slots
  <1>3. /\ IdleClient.stdin = <<>> /\ IdleClient.open = <<>> /\ IdleClient.dirty = {}
        /\ IdleClient.semantic = {} /\ IdleClient.document = {} /\ IdleClient.pending = {}
        /\ IdleClient.initialized = FALSE /\ IdleClient.output = <<>>
        /\ IdleClient.running = FALSE /\ IdleClient.nextId = 1
        /\ IdleClient.slot = slots /\ IdleClient.result = texts /\ IdleClient.tokens = maps
    BY <1>2
  <1>4. ClientTyped(IdleClient, T)
    <2>1. MapOf(<<>>, Paths, OpenSet(T))  BY DEF MapOf
    <2>2. <<>> \in Seq(MessageSet(T)) /\ <<>> \in Seq(AnswerSet(T))  OBVIOUS
    <2> QED BY <1>1, <1>2, <1>3, <2>1, <2>2 DEF ClientTyped
  <1> QED BY <1>3, <1>4 DEF texts, maps, slots

\* A client that has been stopped.
Reset(output, slot, n) == [IdleClient EXCEPT !.output = output, !.slot = slot, !.nextId = n]

\* It keeps the output it has not read, the slots and the count of the ids.
LEMMA ResetFields ==
  ASSUME NEW T, Texts(T), NEW output \in Seq(AnswerSet(T)), NEW slot \in [Kinds -> Nat],
         NEW n \in Nat \ {0}
  PROVE  LET x == Reset(output, slot, n) IN
         /\ x.stdin = <<>> /\ x.open = <<>> /\ x.dirty = {} /\ x.semantic = {} /\ x.document = {}
         /\ x.pending = {} /\ x.initialized = FALSE /\ x.running = FALSE /\ x.initId = 0
         /\ x.result = [k \in Kinds |-> NoText] /\ x.tokens = [p \in Paths |-> NoText]
         /\ x.output = output /\ x.slot = slot /\ x.nextId = n /\ ClientTyped(x, T)
  <1> DEFINE x == [IdleClient EXCEPT !.output = output, !.slot = slot, !.nextId = n]
  <1>1. ClientTyped(IdleClient, T)  BY IdleTyped
  <1>2. x.output = output /\ x.slot = slot /\ x.nextId = n /\ x.open = IdleClient.open
    BY <1>1 DEF ClientTyped
  <1>3. ClientTyped(x, T)  BY <1>1, <1>2 DEF ClientTyped
  <1>4. /\ x.stdin = <<>> /\ x.open = <<>> /\ x.dirty = {} /\ x.semantic = {} /\ x.document = {}
        /\ x.pending = {} /\ x.initialized = FALSE /\ x.running = FALSE
        /\ x.result = [k \in Kinds |-> NoText] /\ x.tokens = [p \in Paths |-> NoText]
    BY <1>1, IdleTyped DEF ClientTyped
  <1>5. x.initId = IdleClient.initId /\ IdleClient.initId = 0
    BY DEF IdleClient
  <1>6. x = Reset(output, slot, n)  BY DEF Reset
  <1> QED BY <1>2, <1>3, <1>4, <1>5, <1>6

\* start() changes these fields of a client that has been reset.
LEMMA StartFields ==
  ASSUME NEW T, Texts(T), NEW x, ClientTyped(x, T), x.stdin = <<>>, x.pending = {}
  PROVE  LET c == Start(x) IN
         /\ c.running = TRUE /\ c.stdin = <<Msg("initialize", x.nextId, NoPath, NoText)>>
         /\ c.pending = {x.nextId} /\ c.nextId = x.nextId + 1 /\ c.initId = x.nextId
         /\ c.output = x.output /\ c.initialized = x.initialized /\ c.open = x.open
         /\ c.dirty = x.dirty /\ c.semantic = x.semantic /\ c.document = x.document
         /\ c.slot = x.slot /\ c.result = x.result /\ c.tokens = x.tokens
         /\ ClientTyped(c, T)
  <1> DEFINE n == x.nextId
             m == Msg("initialize", n, NoPath, NoText)
             y == [x EXCEPT !.running = TRUE, !.started = TRUE, !.exitReported = FALSE]
             z == Request(y, "initialize", NoPath)
             c == Start(x)
  <1>1. n \in Nat \ {0}  BY DEF ClientTyped
  <1>2. m \in MessageSet(T)  BY <1>1 DEF Msg, MessageSet, Texts
  <1>3. y.nextId = n /\ y.running = TRUE /\ y.stdin = <<>> /\ y.pending = {}  BY DEF ClientTyped
  <1>4. c = [z EXCEPT !.initId = n]  BY DEF Start
  <1> HIDE DEF y
  <1>5. z = [[y EXCEPT !.stdin = Append(<<>>, m)] EXCEPT !.nextId = @ + 1, !.pending = @ \union {n}]
    BY <1>3 DEF Request, Send
  <1>6. Append(<<>>, m) = <<m>>  OBVIOUS
  <1> HIDE DEF m, n, z, c
  <1>7. z = [x EXCEPT !.running = TRUE, !.started = TRUE, !.exitReported = FALSE,
                      !.stdin = <<m>>, !.nextId = n + 1, !.pending = {n}]
    BY <1>3, <1>5, <1>6 DEF ClientTyped, y, n
  <1>8. c = [x EXCEPT !.running = TRUE, !.started = TRUE, !.exitReported = FALSE,
                      !.stdin = <<m>>, !.nextId = n + 1, !.pending = {n}, !.initId = n]
    BY <1>4, <1>7 DEF ClientTyped
  <1>9. /\ c.running = TRUE /\ c.stdin = <<m>> /\ c.pending = {n} /\ c.nextId = n + 1 /\ c.initId = n
        /\ c.output = x.output /\ c.initialized = x.initialized /\ c.open = x.open
        /\ c.dirty = x.dirty /\ c.semantic = x.semantic /\ c.document = x.document
        /\ c.slot = x.slot /\ c.result = x.result /\ c.tokens = x.tokens
    BY <1>8 DEF ClientTyped
  <1>10. ClientTyped(c, T)
    <2>1. <<m>> \in Seq(MessageSet(T)) /\ n + 1 \in Nat \ {0} /\ {n} \in SUBSET Nat
      BY <1>1, <1>2
    <2> QED BY <1>1, <1>8, <1>9, <2>1 DEF ClientTyped
  <1> QED BY <1>9, <1>10 DEF c, m, n

\* A new process: clangd is asked to initialize itself, and nothing else.
LEMMA StartSound ==
  ASSUME NEW T, Texts(T), NEW output \in Seq(AnswerSet(T)), NEW slot \in [Kinds -> Nat],
         NEW n \in Nat \ {0}, \A k \in Kinds : slot[k] < n,
         \A i \in 1..Len(output) : output[i].type = "response" => output[i].id < n,
         NEW c, c = Start(Reset(output, slot, n))
  PROVE  /\ Sound(c, IdleServer, T) /\ AllOrNone(c) /\ c.running /\ ~c.initialized
         /\ c.open = <<>> /\ c.document = {} /\ c.result = [k \in Kinds |-> NoText]
         /\ c.tokens = [p \in Paths |-> NoText]
  <1> DEFINE m == Msg("initialize", n, NoPath, NoText)
             x == Reset(output, slot, n)
  <1>1. /\ x.stdin = <<>> /\ x.open = <<>> /\ x.dirty = {} /\ x.semantic = {} /\ x.document = {}
        /\ x.pending = {} /\ x.initialized = FALSE /\ x.running = FALSE /\ x.initId = 0
        /\ x.result = [k \in Kinds |-> NoText] /\ x.tokens = [p \in Paths |-> NoText]
        /\ x.output = output /\ x.slot = slot /\ x.nextId = n /\ ClientTyped(x, T)
    BY ONLY Texts(T), output \in Seq(AnswerSet(T)), slot \in [Kinds -> Nat], n \in Nat \ {0}, ResetFields
  <1>2. m \in MessageSet(T) /\ m.id = n /\ m.type = "initialize" /\ m.path = NoPath
    BY DEF Msg, MessageSet, Texts
  <1>3. /\ c.running = TRUE /\ c.stdin = <<m>> /\ c.output = output /\ c.initialized = FALSE
        /\ c.initId = n /\ c.open = <<>> /\ c.dirty = {} /\ c.semantic = {} /\ c.document = {}
        /\ c.pending = {n} /\ c.nextId = n + 1 /\ c.slot = slot
        /\ c.result = [k \in Kinds |-> NoText] /\ c.tokens = [p \in Paths |-> NoText]
        /\ ClientTyped(c, T)
    <2>1. c = Start(x)  OBVIOUS
    <2> HIDE DEF x
    <2>2. /\ c.running = TRUE /\ c.stdin = <<m>> /\ c.pending = {n} /\ c.nextId = n + 1 /\ c.initId = n
          /\ c.output = x.output /\ c.initialized = x.initialized /\ c.open = x.open
          /\ c.dirty = x.dirty /\ c.semantic = x.semantic /\ c.document = x.document
          /\ c.slot = x.slot /\ c.result = x.result /\ c.tokens = x.tokens
          /\ ClientTyped(c, T)
      <3>1. ClientTyped(x, T) /\ x.stdin = <<>> /\ x.pending = {} /\ x.nextId = n  BY <1>1
      <3>2. /\ c.running = TRUE /\ c.stdin = <<Msg("initialize", x.nextId, NoPath, NoText)>>
            /\ c.pending = {x.nextId} /\ c.nextId = x.nextId + 1 /\ c.initId = x.nextId
            /\ c.output = x.output /\ c.initialized = x.initialized /\ c.open = x.open
            /\ c.dirty = x.dirty /\ c.semantic = x.semantic /\ c.document = x.document
            /\ c.slot = x.slot /\ c.result = x.result /\ c.tokens = x.tokens
            /\ ClientTyped(c, T)
        <4>1. ClientTyped(x, T) /\ x.stdin = <<>> /\ x.pending = {}  BY <3>1
        <4> QED BY ONLY <2>1, <4>1, Texts(T), StartFields
      <3> QED BY <3>1, <3>2
    <2> QED BY <1>1, <2>2
  <1> HIDE DEF m, x
  <1>4. ClientTyped(c, T)  BY <1>3
  <1>5. ServerTyped(IdleServer, T)
    BY DEF ServerTyped, IdleServer, MapOf
  <1>6. WaitingIds(c) = {n}  BY <1>3 DEF WaitingIds
  <1>7. Len(<<m>>) = 1 /\ <<m>>[1] = m  OBVIOUS
  <1>8. Tracked(c)
    <2>1. \A i \in 1..Len(c.stdin) : c.stdin[i].id < n + 1  BY <1>2, <1>3, <1>7
    <2>2. \A i \in 1..Len(c.output) : c.output[i].type = "response" => c.output[i].id < n + 1
      <3>1. \A i \in 1..Len(output) : output[i].type = "response" => output[i].id \in Nat
        <4>1. \A i \in 1..Len(output) : output[i] \in AnswerSet(T)  BY ElementOfSeq
        <4> QED BY <4>1 DEF AnswerSet
      <3> QED BY <1>3, <3>1
    <2>3. \A k \in Kinds : c.slot[k] < n + 1 /\ c.slot[k] # n  BY <1>3
    <2>4. /\ c.document = {} /\ c.semantic = {} /\ c.initId = n /\ c.nextId = n + 1
          /\ c.pending = {n} /\ ~c.initialized
      BY <1>3
    <2>5. \A i \in WaitingIds(c) : 0 < i /\ i < c.nextId  BY <1>6, <2>4
    <2>6. c.pending = WaitingIds(c) /\ c.initId < c.nextId
      <3>1. c.pending = WaitingIds(c)  BY <1>6, <2>4
      <3>2. c.initId < c.nextId  BY <2>4
      <3> QED BY <3>1, <3>2
    <2>7. \A k \in Kinds : c.slot[k] < c.nextId /\ c.slot[k] # c.initId  BY <2>3, <2>4
    <2> QED BY <2>1, <2>2, <2>4, <2>5, <2>6, <2>7 DEF Tracked
  <1>9. JobsTracked(c, IdleServer)  BY DEF JobsTracked, IdleServer
  <1>10. Linked(c, IdleServer)
    <2> DEFINE f == Told(<<>>, <<m>>)
    <2>1. f[0] = <<>> /\ f[1] = DocsAfter(f[0], m)
      <3>1. <<>> \in Maps(T)
        <4>1. <<>> \in [{} -> T] /\ {} \in SUBSET (Paths \union {NoPath})  OBVIOUS
        <4> QED BY <4>1 DEF Maps
      <3>2. <<m>> \in Seq(MessageSet(T))  BY <1>2
      <3>3. Trace(f, <<>>, <<m>>, T)  BY <3>1, <3>2, ToldTrace
      <3> HIDE DEF f
      <3>4. 1 \in 1..1 /\ 1 - 1 = 0  OBVIOUS
      <3> QED BY <1>7, <3>3, <3>4 DEF Trace
    <2> HIDE DEF f
    <2>2. f[1] = <<>>  BY <1>2, <2>1 DEF DocsAfter
    <2>3. Mirrored(c, <<>>)
      <3>1. Told(<<>>, c.stdin)[Len(c.stdin)] = <<>>  BY <1>3, <1>7, <2>2 DEF f
      <3> QED BY <1>3, <3>1 DEF Mirrored
    <2>4. ~Wrong(f[0], m)  BY <1>2 DEF Wrong
    <2>5. Faultless(<<>>, c.stdin)
      <3>1. \A i \in 1..1 : i = 1 /\ i - 1 = 0  OBVIOUS
      <3> QED BY <1>3, <1>7, <2>4, <3>1 DEF Faultless, f
    <2>6. IdleServer.docs = <<>> /\ IdleServer.fault = FALSE  BY DEF IdleServer
    <2> QED BY <1>3, <2>3, <2>5, <2>6 DEF Linked
  <1>11. Answered(c, IdleServer)  BY <1>3 DEF Answered, Asked
  <1>12. Painted(c)  BY <1>3 DEF Painted
  <1>13. AllOrNone(c)  BY <1>3 DEF AllOrNone
  <1> QED BY <1>3, <1>4, <1>5, <1>8, <1>9, <1>10, <1>11, <1>12, <1>13 DEF Sound

----------------------------------------------------------------------------
(* The loops over the documents *)

\* c with the first n documents of q opened, is e.
Opened(c, e, s, T, docs, q, n) ==
  /\ Sound(e, s, T) /\ AllOrNone(e) /\ Rest1(c, e) /\ e.document = {}
  /\ e.tokens = c.tokens /\ e.result = c.result
  /\ DOMAIN e.open = {q[i] : i \in 1..n}
  /\ \A x \in DOMAIN e.open : TextOf(e.open[x]) = TextOf(docs[x])

\* Before the handshake the documents are only noted, one after the other.
LEMMA OpenAllSound ==
  ASSUME NEW T, Texts(T), NEW c, NEW s, Sound(c, s, T), AllOrNone(c), ~c.initialized,
         c.document = {}, c.open = <<>>, NEW q \in Seq(Paths), NEW docs,
         \A i, j \in 1..Len(q) : q[i] = q[j] => i = j,
         \A i \in 1..Len(q) : /\ docs[q[i]].version \in Nat /\ docs[q[i]].load \in Nat
                              /\ TextOf(docs[q[i]]) \in T
  PROVE  Opened(c, OpenAll(c, docs, q), s, T, docs, q, Len(q))
  <1> DEFINE L == Len(q)
             Round(g, n) == IF n = 0 THEN c ELSE OpenDocument(g[n - 1], q[n], docs[q[n]])
             After == CHOOSE g : g = [n \in 0..L |-> Round(g, n)]
             S == {n \in 0..L : \E g : g = [i \in 0..n |-> Round(g, i)]}
  <1>1. L \in Nat /\ \A n \in 1..L : q[n] \in Paths
    BY LenProperties, ElementOfSeq
  <1>2. 0 \in S
    <2> DEFINE g == [i \in 0..0 |-> c]
    <2>1. \A i \in 0..0 : i = 0 /\ Round(g, i) = c  OBVIOUS
    <2>2. g = [i \in 0..0 |-> Round(g, i)]  BY <2>1
    <2> HIDE DEF g, Round
    <2> QED BY <1>1, <2>2
  <1>3. ASSUME NEW n \in 0..(L - 1), n \in S PROVE n + 1 \in S
    <2>1. PICK g : g = [i \in 0..n |-> Round(g, i)]  BY <1>3
    <2> DEFINE h == [i \in 0..(n + 1) |-> IF i = n + 1 THEN Round(g, n + 1) ELSE g[i]]
    <2>2. \A i \in 0..n : h[i] = g[i] /\ g[i] = Round(g, i)
      <3> HIDE DEF Round
      <3>1. \A i \in 0..n : i \in 0..(n + 1) /\ i # n + 1  BY <1>1
      <3>2. \A i \in 0..n : h[i] = g[i]  BY <3>1
      <3>3. \A i \in 0..n : g[i] = Round(g, i)  BY <2>1
      <3> QED BY <3>2, <3>3
    <2>3. h[n + 1] = Round(g, n + 1)
      <3> HIDE DEF Round
      <3>1. n + 1 \in 0..(n + 1)  BY <1>1
      <3> QED BY <3>1
    <2>4. DOMAIN h = 0..(n + 1) /\ h = [i \in 0..(n + 1) |-> h[i]]  OBVIOUS
    <2> HIDE DEF h
    <2>5. ASSUME NEW i \in 0..(n + 1) PROVE Round(h, i) = Round(g, i)
      <3>1. CASE i = 0  BY <3>1
      <3>2. CASE i # 0
        <4>1. i - 1 \in 0..n  BY <1>1, <3>2
        <4>2. h[i - 1] = g[i - 1]  BY <2>2, <4>1
        <4> QED BY <3>2, <4>2
      <3> QED BY <3>1, <3>2
    <2> HIDE DEF Round
    <2>6. \A i \in 0..(n + 1) : h[i] = Round(h, i)
      <3>1. \A i \in 0..(n + 1) : i \in 0..n \/ i = n + 1  BY <1>1
      <3> QED BY <2>2, <2>3, <2>5, <3>1
    <2>7. h = [i \in 0..(n + 1) |-> Round(h, i)]  BY <2>4, <2>6
    <2>8. n + 1 \in 0..L  BY <1>1
    <2> QED BY <2>7, <2>8
  <1>4. L \in S
    <2> HIDE DEF S, L
    <2>1. 0..L \subseteq S  BY <1>1, <1>2, <1>3, IntervalInduction
    <2> QED BY <1>1, <2>1
  <1>5. After = [n \in 0..L |-> Round(After, n)]
    <2> HIDE DEF Round, L
    <2>1. \E g : g = [i \in 0..L |-> Round(g, i)]  BY <1>4
    <2> QED BY <2>1, Zenon
  <1>6. OpenAll(c, docs, q) = After[L]
    BY Zenon DEF OpenAll
  <1> HIDE DEF After, S
  <1>7. \A n \in 0..L : After[n] = Round(After, n)
    <2> HIDE DEF Round
    <2> QED BY <1>5
  <1> DEFINE Good == {n \in 0..L : Opened(c, After[n], s, T, docs, q, n)}
  <1>8. 0 \in Good
    <2>1. After[0] = c  BY <1>1, <1>7
    <2>2. DOMAIN c.open = {q[i] : i \in 1..0}  OBVIOUS
    <2>3. Opened(c, c, s, T, docs, q, 0)  BY <2>2 DEF Opened, Rest1
    <2> QED BY <1>1, <2>1, <2>3
  <1>9. ASSUME NEW n \in 0..(L - 1), n \in Good PROVE n + 1 \in Good
    <2> DEFINE a == After[n]
               e == After[n + 1]
               p == q[n + 1]
               d == docs[p]
    <2>1. n + 1 \in 1..L /\ n + 1 \in 0..L /\ n + 1 # 0 /\ (n + 1) - 1 = n /\ p \in Paths
      BY <1>1
    <2>2. e = OpenDocument(a, p, d)  BY <1>7, <2>1
    <2>3. Opened(c, a, s, T, docs, q, n)  BY <1>9
    <2> HIDE DEF a, e
    <2>4. /\ Sound(a, s, T) /\ AllOrNone(a) /\ Rest1(c, a) /\ a.document = {}
          /\ a.tokens = c.tokens /\ a.result = c.result
          /\ DOMAIN a.open = {q[i] : i \in 1..n}
          /\ \A x \in DOMAIN a.open : TextOf(a.open[x]) = TextOf(docs[x])
      BY <2>3 DEF Opened
    <2>5. d.version \in Nat /\ d.load \in Nat /\ TextOf(d) \in T  BY <2>1
    <2>6. p \notin DOMAIN a.open
      <3>1. \A i \in 1..n : i \in 1..L /\ i # n + 1  BY <1>1
      <3> QED BY <2>1, <2>4, <3>1
    <2>7. ~a.initialized  BY <2>4 DEF Rest1
    <2> HIDE DEF d, p
    <2>8. /\ Sound(e, s, T) /\ AllOrNone(e) /\ Rest1(a, e)
          /\ e.document = a.document /\ e.tokens = a.tokens /\ e.result = a.result
          /\ e.open = With(a.open, p, Copy(d, a.initialized))
      <3>1. \A r \in a.document : r.path = p => TextOf(a.open[p]) = TextOf(d)  BY <2>4
      <3>2. p \in Paths /\ (~MaySaveAs => p \notin DOMAIN a.open)  BY <2>1, <2>6
      <3>3. Sound(a, s, T) /\ AllOrNone(a)  BY <2>4
      <3>4. LET f == OpenDocument(a, p, d) IN
            /\ Sound(f, s, T) /\ AllOrNone(f) /\ Rest1(a, f) /\ f.initId = a.initId /\ f.slot = a.slot
            /\ f.document = a.document /\ f.tokens = a.tokens /\ f.result = a.result /\ f.active = a.active
            /\ f.open = With(a.open, p, Copy(d, a.initialized))
        BY <2>5, <3>1, <3>2, <3>3, OpenSound
      <3> QED BY <2>2, <3>4
    <2>9. DOMAIN e.open = DOMAIN a.open \union {p} /\ e.open[p] = Copy(d, a.initialized)
          /\ \A x \in DOMAIN a.open : e.open[x] = a.open[x]
      BY <2>6, <2>8 DEF With
    <2>10. DOMAIN e.open = {q[i] : i \in 1..(n + 1)}
      <3>1. \A i \in 1..(n + 1) : i \in 1..n \/ i = n + 1  BY <1>1
      <3>2. \A i \in 1..n : i \in 1..(n + 1)  BY <1>1
      <3>3. n + 1 \in 1..(n + 1)  BY <1>1
      <3>4. ASSUME NEW x \in {q[i] : i \in 1..(n + 1)} PROVE x \in DOMAIN e.open
        <4>1. PICK i \in 1..(n + 1) : x = q[i]  BY <3>4
        <4> QED BY <2>4, <2>9, <3>1, <4>1 DEF p
      <3>5. ASSUME NEW x \in DOMAIN e.open PROVE x \in {q[i] : i \in 1..(n + 1)}
        <4>1. CASE x = p  BY <3>3, <4>1 DEF p
        <4>2. CASE x \in DOMAIN a.open
          <5>1. PICK i \in 1..n : x = q[i]  BY <2>4, <4>2
          <5> QED BY <3>2, <5>1
        <4> QED BY <2>9, <3>5, <4>1, <4>2
      <3> QED BY <3>4, <3>5
    <2>11. \A x \in DOMAIN e.open : TextOf(e.open[x]) = TextOf(docs[x])
      <3>1. TextOf(Copy(d, a.initialized)) = TextOf(d)  BY DEF TextOf, Copy
      <3> QED BY <2>4, <2>9, <3>1 DEF d
    <2>12. Rest1(c, e)  BY <2>4, <2>8 DEF Rest1
    <2>13. Opened(c, e, s, T, docs, q, n + 1)
      BY <2>4, <2>8, <2>10, <2>11, <2>12 DEF Opened
    <2> QED BY <2>1, <2>13 DEF e
  <1>10. 0..L \subseteq Good
    <2> HIDE DEF Good, L
    <2> QED BY <1>1, <1>8, <1>9, IntervalInduction
  <1>11. L \in 0..L  BY <1>1
  <1> QED BY <1>6, <1>10, <1>11

\* c with the first n documents of q announced, is e.
Announced(c, e, s, T, q, n) ==
  /\ Sound(e, s, T) /\ Rest1(c, e) /\ Rest2(c, e) /\ e.document = c.document /\ e.dirty = c.dirty
  /\ e.tokens = c.tokens /\ e.result = c.result /\ e.active = c.active
  /\ DOMAIN e.open = DOMAIN c.open
  /\ \A x \in DOMAIN e.open : /\ TextOf(e.open[x]) = TextOf(c.open[x])
                              /\ e.open[x].announced \in BOOLEAN
                              /\ (\E i \in 1..n : q[i] = x) => e.open[x].announced
                              /\ c.running /\ e.open[x].announced => \E i \in 1..n : q[i] = x

\* After the handshake every document is announced, once.
LEMMA AnnounceAllSound ==
  ASSUME NEW T, Texts(T), NEW c, NEW s, Sound(c, s, T),
         c.running => \A x \in DOMAIN c.open : ~c.open[x].announced,
         NEW q \in Seq(Paths), \A i \in 1..Len(q) : q[i] \in DOMAIN c.open,
         \A i, j \in 1..Len(q) : q[i] = q[j] => i = j
  PROVE  Announced(c, AnnounceAll(c, q), s, T, q, Len(q))
  <1> DEFINE L == Len(q)
             Round(g, n) == IF n = 0 THEN c ELSE Announce(g[n - 1], q[n])
             After == CHOOSE g : g = [n \in 0..L |-> Round(g, n)]
             S == {n \in 0..L : \E g : g = [i \in 0..n |-> Round(g, i)]}
  <1>1. L \in Nat /\ \A n \in 1..L : q[n] \in Paths
    BY LenProperties, ElementOfSeq
  <1>2. 0 \in S
    <2> DEFINE g == [i \in 0..0 |-> c]
    <2>1. \A i \in 0..0 : i = 0 /\ Round(g, i) = c  OBVIOUS
    <2>2. g = [i \in 0..0 |-> Round(g, i)]  BY <2>1
    <2> HIDE DEF g, Round
    <2> QED BY <1>1, <2>2
  <1>3. ASSUME NEW n \in 0..(L - 1), n \in S PROVE n + 1 \in S
    <2>1. PICK g : g = [i \in 0..n |-> Round(g, i)]  BY <1>3
    <2> DEFINE h == [i \in 0..(n + 1) |-> IF i = n + 1 THEN Round(g, n + 1) ELSE g[i]]
    <2>2. \A i \in 0..n : h[i] = g[i] /\ g[i] = Round(g, i)
      <3> HIDE DEF Round
      <3>1. \A i \in 0..n : i \in 0..(n + 1) /\ i # n + 1  BY <1>1
      <3>2. \A i \in 0..n : h[i] = g[i]  BY <3>1
      <3>3. \A i \in 0..n : g[i] = Round(g, i)  BY <2>1
      <3> QED BY <3>2, <3>3
    <2>3. h[n + 1] = Round(g, n + 1)
      <3> HIDE DEF Round
      <3>1. n + 1 \in 0..(n + 1)  BY <1>1
      <3> QED BY <3>1
    <2>4. DOMAIN h = 0..(n + 1) /\ h = [i \in 0..(n + 1) |-> h[i]]  OBVIOUS
    <2> HIDE DEF h
    <2>5. ASSUME NEW i \in 0..(n + 1) PROVE Round(h, i) = Round(g, i)
      <3>1. CASE i = 0  BY <3>1
      <3>2. CASE i # 0
        <4>1. i - 1 \in 0..n  BY <1>1, <3>2
        <4>2. h[i - 1] = g[i - 1]  BY <2>2, <4>1
        <4> QED BY <3>2, <4>2
      <3> QED BY <3>1, <3>2
    <2> HIDE DEF Round
    <2>6. \A i \in 0..(n + 1) : h[i] = Round(h, i)
      <3>1. \A i \in 0..(n + 1) : i \in 0..n \/ i = n + 1  BY <1>1
      <3> QED BY <2>2, <2>3, <2>5, <3>1
    <2>7. h = [i \in 0..(n + 1) |-> Round(h, i)]  BY <2>4, <2>6
    <2>8. n + 1 \in 0..L  BY <1>1
    <2> QED BY <2>7, <2>8
  <1>4. L \in S
    <2> HIDE DEF S, L
    <2>1. 0..L \subseteq S  BY <1>1, <1>2, <1>3, IntervalInduction
    <2> QED BY <1>1, <2>1
  <1>5. After = [n \in 0..L |-> Round(After, n)]
    <2> HIDE DEF Round, L
    <2>1. \E g : g = [i \in 0..L |-> Round(g, i)]  BY <1>4
    <2> QED BY <2>1, Zenon
  <1>6. AnnounceAll(c, q) = After[L]
    BY Zenon DEF AnnounceAll
  <1> HIDE DEF After, S
  <1>7. \A n \in 0..L : After[n] = Round(After, n)
    <2> HIDE DEF Round
    <2> QED BY <1>5
  <1> DEFINE Good == {n \in 0..L : Announced(c, After[n], s, T, q, n)}
  <1>8. 0 \in Good
    <2>1. After[0] = c  BY <1>1, <1>7
    <2>2. ClientTyped(c, T)  BY DEF Sound
    <2>3. \A x \in DOMAIN c.open : c.open[x].announced \in BOOLEAN
      BY <2>2, OpenEntry DEF OpenState
    <2>4. \A x \in DOMAIN c.open : ~ \E i \in 1..0 : q[i] = x  OBVIOUS
    <2>5. Announced(c, c, s, T, q, 0)  BY <2>3, <2>4 DEF Announced, Rest1, Rest2
    <2> QED BY <1>1, <2>1, <2>5
  <1>9. ASSUME NEW n \in 0..(L - 1), n \in Good PROVE n + 1 \in Good
    <2> DEFINE a == After[n]
               e == After[n + 1]
               p == q[n + 1]
    <2>1. n + 1 \in 1..L /\ n + 1 \in 0..L /\ n + 1 # 0 /\ (n + 1) - 1 = n /\ p \in Paths
          /\ p \in DOMAIN c.open
      BY <1>1
    <2>2. e = Announce(a, p)  BY <1>7, <2>1
    <2>3. Announced(c, a, s, T, q, n)  BY <1>9
    <2> HIDE DEF a, e
    <2>4. /\ Sound(a, s, T) /\ Rest1(c, a) /\ Rest2(c, a) /\ a.document = c.document /\ a.dirty = c.dirty
          /\ a.tokens = c.tokens /\ a.result = c.result /\ a.active = c.active
          /\ DOMAIN a.open = DOMAIN c.open
          /\ \A x \in DOMAIN a.open : /\ TextOf(a.open[x]) = TextOf(c.open[x])
                                      /\ a.open[x].announced \in BOOLEAN
                                      /\ (\E i \in 1..n : q[i] = x) => a.open[x].announced
                                      /\ c.running /\ a.open[x].announced => \E i \in 1..n : q[i] = x
      BY <2>3 DEF Announced
    <2>5. a.running => ~a.open[p].announced
      <3>1. \A i \in 1..n : i \in 1..L /\ i # n + 1  BY <1>1
      <3>2. \A i \in 1..n : q[i] # p  BY <2>1, <3>1
      <3>3. p \in DOMAIN a.open  BY <2>1, <2>4
      <3>4. a.running = c.running  BY <2>4 DEF Rest1
      <3> HIDE DEF p
      <3> QED BY <2>4, <3>2, <3>3, <3>4
    <2>6. /\ Sound(e, s, T) /\ Rest1(a, e) /\ Rest2(a, e) /\ e.document = a.document
          /\ e.open = [a.open EXCEPT ![p].announced = TRUE] /\ e.dirty = a.dirty
          /\ e.tokens = a.tokens /\ e.result = a.result /\ e.active = a.active
      <3>1. p \in DOMAIN a.open  BY <2>1, <2>4
      <3> HIDE DEF p
      <3> QED BY <2>2, <2>4, <2>5, <3>1, AnnounceSound
    <2>7. ClientTyped(a, T)  BY <2>4 DEF Sound
    <2>8. DOMAIN e.open = DOMAIN a.open /\ \A x \in DOMAIN a.open \ {p} : e.open[x] = a.open[x]
      <3>1. a.open = [x \in DOMAIN a.open |-> a.open[x]]  BY <2>7 DEF ClientTyped, MapOf
      <3> QED BY <2>6, <3>1
    <2>9. TextOf(e.open[p]) = TextOf(a.open[p]) /\ e.open[p].announced = TRUE
      <3>1. a.open = [x \in DOMAIN a.open |-> a.open[x]] /\ p \in DOMAIN a.open
        BY <2>1, <2>4, <2>7 DEF ClientTyped, MapOf
      <3>2. a.open[p] \in OpenState  BY <2>7, <3>1, OpenEntry
      <3>3. e.open[p] = [a.open[p] EXCEPT !.announced = TRUE]  BY <2>6, <3>1
      <3> QED BY <3>2, <3>3 DEF OpenState, TextOf
    <2>10. ASSUME NEW x \in DOMAIN e.open
           PROVE  /\ TextOf(e.open[x]) = TextOf(c.open[x])
                  /\ e.open[x].announced \in BOOLEAN
                  /\ (\E i \in 1..(n + 1) : q[i] = x) => e.open[x].announced
                  /\ c.running /\ e.open[x].announced => \E i \in 1..(n + 1) : q[i] = x
      <3>1. CASE x = p
        <4>1. n + 1 \in 1..(n + 1)  BY <1>1
        <4> QED BY <2>1, <2>4, <2>9, <3>1, <4>1
      <3>2. CASE x # p
        <4>1. \A i \in 1..(n + 1) : i \in 1..n \/ i = n + 1  BY <1>1
        <4>2. \A i \in 1..n : i \in 1..(n + 1)  BY <1>1
        <4>3. (\E i \in 1..(n + 1) : q[i] = x) <=> (\E i \in 1..n : q[i] = x)
          BY <3>2, <4>1, <4>2
        <4> QED BY <2>4, <2>8, <3>2, <4>3
      <3> QED BY <3>1, <3>2
    <2>11. Rest1(c, e) /\ Rest2(c, e)  BY <2>4, <2>6 DEF Rest1, Rest2
    <2>12. Announced(c, e, s, T, q, n + 1)
      BY <2>4, <2>6, <2>8, <2>10, <2>11 DEF Announced
    <2> QED BY <2>1, <2>12 DEF e
  <1>10. 0..L \subseteq Good
    <2> HIDE DEF Good, L
    <2> QED BY <1>1, <1>8, <1>9, IntervalInduction
  <1>11. L \in 0..L  BY <1>1
  <1> QED BY <1>6, <1>10, <1>11

\* c with tokens asked for some documents, is e.
Queued(c, e, s, T) ==
  /\ Sound(e, s, T) /\ Rest1(c, e) /\ Rest3(c, e)
  /\ e.initId = c.initId /\ e.slot = c.slot /\ e.document = c.document

\* Tokens are asked for one document after the other.
LEMMA QueueAllSound ==
  ASSUME NEW T, Texts(T), NEW c, NEW s, Sound(c, s, T), NEW q \in Seq(Paths)
  PROVE  Queued(c, QueueAll(c, q), s, T)
  <1> DEFINE L == Len(q)
             Round(g, n) == IF n = 0 THEN c ELSE QueueSemanticTokens(g[n - 1], q[n])
             After == CHOOSE g : g = [n \in 0..L |-> Round(g, n)]
             S == {n \in 0..L : \E g : g = [i \in 0..n |-> Round(g, i)]}
  <1>1. L \in Nat /\ \A n \in 1..L : q[n] \in Paths
    BY LenProperties, ElementOfSeq
  <1>2. 0 \in S
    <2> DEFINE g == [i \in 0..0 |-> c]
    <2>1. \A i \in 0..0 : i = 0 /\ Round(g, i) = c  OBVIOUS
    <2>2. g = [i \in 0..0 |-> Round(g, i)]  BY <2>1
    <2> HIDE DEF g, Round
    <2> QED BY <1>1, <2>2
  <1>3. ASSUME NEW n \in 0..(L - 1), n \in S PROVE n + 1 \in S
    <2>1. PICK g : g = [i \in 0..n |-> Round(g, i)]  BY <1>3
    <2> DEFINE h == [i \in 0..(n + 1) |-> IF i = n + 1 THEN Round(g, n + 1) ELSE g[i]]
    <2>2. \A i \in 0..n : h[i] = g[i] /\ g[i] = Round(g, i)
      <3> HIDE DEF Round
      <3>1. \A i \in 0..n : i \in 0..(n + 1) /\ i # n + 1  BY <1>1
      <3>2. \A i \in 0..n : h[i] = g[i]  BY <3>1
      <3>3. \A i \in 0..n : g[i] = Round(g, i)  BY <2>1
      <3> QED BY <3>2, <3>3
    <2>3. h[n + 1] = Round(g, n + 1)
      <3> HIDE DEF Round
      <3>1. n + 1 \in 0..(n + 1)  BY <1>1
      <3> QED BY <3>1
    <2>4. DOMAIN h = 0..(n + 1) /\ h = [i \in 0..(n + 1) |-> h[i]]  OBVIOUS
    <2> HIDE DEF h
    <2>5. ASSUME NEW i \in 0..(n + 1) PROVE Round(h, i) = Round(g, i)
      <3>1. CASE i = 0  BY <3>1
      <3>2. CASE i # 0
        <4>1. i - 1 \in 0..n  BY <1>1, <3>2
        <4>2. h[i - 1] = g[i - 1]  BY <2>2, <4>1
        <4> QED BY <3>2, <4>2
      <3> QED BY <3>1, <3>2
    <2> HIDE DEF Round
    <2>6. \A i \in 0..(n + 1) : h[i] = Round(h, i)
      <3>1. \A i \in 0..(n + 1) : i \in 0..n \/ i = n + 1  BY <1>1
      <3> QED BY <2>2, <2>3, <2>5, <3>1
    <2>7. h = [i \in 0..(n + 1) |-> Round(h, i)]  BY <2>4, <2>6
    <2>8. n + 1 \in 0..L  BY <1>1
    <2> QED BY <2>7, <2>8
  <1>4. L \in S
    <2> HIDE DEF S, L
    <2>1. 0..L \subseteq S  BY <1>1, <1>2, <1>3, IntervalInduction
    <2> QED BY <1>1, <2>1
  <1>5. After = [n \in 0..L |-> Round(After, n)]
    <2> HIDE DEF Round, L
    <2>1. \E g : g = [i \in 0..L |-> Round(g, i)]  BY <1>4
    <2> QED BY <2>1, Zenon
  <1>6. QueueAll(c, q) = After[L]
    BY Zenon DEF QueueAll
  <1> HIDE DEF After, S
  <1>7. \A n \in 0..L : After[n] = Round(After, n)
    <2> HIDE DEF Round
    <2> QED BY <1>5
  <1> DEFINE Good == {n \in 0..L : Queued(c, After[n], s, T)}
  <1>8. 0 \in Good
    <2>1. After[0] = c  BY <1>1, <1>7
    <2>2. Queued(c, c, s, T)  BY DEF Queued, Rest1, Rest3
    <2> QED BY <1>1, <2>1, <2>2
  <1>9. ASSUME NEW n \in 0..(L - 1), n \in Good PROVE n + 1 \in Good
    <2> DEFINE a == After[n]
               e == After[n + 1]
               p == q[n + 1]
    <2>1. n + 1 \in 1..L /\ n + 1 \in 0..L /\ n + 1 # 0 /\ (n + 1) - 1 = n /\ p \in Paths
      BY <1>1
    <2>2. e = QueueSemanticTokens(a, p)  BY <1>7, <2>1
    <2>3. Queued(c, a, s, T)  BY <1>9
    <2> HIDE DEF a, e, p
    <2>4. /\ Sound(e, s, T) /\ Rest1(a, e) /\ Rest3(a, e)
          /\ e.initId = a.initId /\ e.slot = a.slot /\ e.document = a.document
      BY <2>1, <2>2, <2>3, QueueSound DEF Queued
    <2>5. Queued(c, e, s, T)  BY <2>3, <2>4 DEF Queued, Rest1, Rest3
    <2> QED BY <2>1, <2>5 DEF e
  <1>10. 0..L \subseteq Good
    <2> HIDE DEF Good, L
    <2> QED BY <1>1, <1>8, <1>9, IntervalInduction
  <1>11. L \in 0..L  BY <1>1
  <1> QED BY <1>6, <1>10, <1>11

----------------------------------------------------------------------------
(* The inductive invariant *)

\* Who is sound with some texts is sound with more.
LEMMA SoundGrows ==
  ASSUME NEW T, NEW U, T \subseteq U, NEW c, NEW s, Sound(c, s, T)
  PROVE  Sound(c, s, U)
  <1>1. MessageSet(T) \subseteq MessageSet(U) /\ AnswerSet(T) \subseteq AnswerSet(U)
        /\ OpenSet(T) \subseteq OpenSet(U)
    BY DEF MessageSet, AnswerSet, OpenSet
  <1>2. ClientTyped(c, U)
    <2>1. ClientTyped(c, T)  BY DEF Sound
    <2>2. c.stdin \in Seq(MessageSet(U))
      <3>1. c.stdin \in Seq(MessageSet(T))  BY <2>1 DEF ClientTyped
      <3> QED BY <1>1, <3>1
    <2>3. c.output \in Seq(AnswerSet(U))
      <3>1. c.output \in Seq(AnswerSet(T))  BY <2>1 DEF ClientTyped
      <3> QED BY <1>1, <3>1
    <2>4. MapOf(c.open, Paths, OpenSet(U))
      <3>1. MapOf(c.open, Paths, OpenSet(T))  BY <2>1 DEF ClientTyped
      <3>2. OpenSet(T) \subseteq OpenSet(U)  BY <1>1
      <3> HIDE <1>1
      <3> QED BY <3>1, <3>2 DEF MapOf
    <2>5. c.result \in [Kinds -> U] /\ c.tokens \in [Paths -> U] /\ c.diags \in [Paths -> U]
      <3>1. c.result \in [Kinds -> T] /\ c.tokens \in [Paths -> T] /\ c.diags \in [Paths -> T]
        BY <2>1 DEF ClientTyped
      <3> QED BY <3>1
    <2> QED BY <2>1, <2>2, <2>3, <2>4, <2>5 DEF ClientTyped
  <1>3. ServerTyped(s, U)
    <2>1. ServerTyped(s, T)  BY DEF Sound
    <2>2. s.jobs \in SUBSET AnswerSet(U) /\ MapOf(s.docs, Paths, U)
      BY <1>1, <2>1 DEF ServerTyped, MapOf
    <2> QED BY <2>1, <2>2 DEF ServerTyped
  <1> QED BY <1>2, <1>3 DEF Sound

\* The fields of the editor, one by one.
LEMMA EditorFields ==
  EditorInv => /\ editor.loads \in Nat /\ editor.ops \in 0..MaxOps /\ editor.sessions \in 1..MaxSessions
               /\ editor.current \in {NoPath} \union OpenPaths /\ OpenPaths \subseteq Paths
               /\ MaxOps \in Nat /\ MaxSessions \in Nat
               /\ \A p \in OpenPaths :
                    /\ editor.docs[p] \in [version : FirstVersion..(FirstVersion + editor.ops),
                                           load : 1..editor.loads]
                    /\ editor.docs[p].version \in FirstVersion..(FirstVersion + editor.ops)
                    /\ editor.docs[p].load \in 1..editor.loads
  <1> SUFFICES ASSUME EditorInv
               PROVE  /\ editor.loads \in Nat /\ editor.ops \in 0..MaxOps /\ editor.sessions \in 1..MaxSessions
                      /\ editor.current \in {NoPath} \union OpenPaths /\ OpenPaths \subseteq Paths
                      /\ MaxOps \in Nat /\ MaxSessions \in Nat
                      /\ \A p \in OpenPaths :
                           /\ editor.docs[p] \in [version : FirstVersion..(FirstVersion + editor.ops),
                                                  load : 1..editor.loads]
                           /\ editor.docs[p].version \in FirstVersion..(FirstVersion + editor.ops)
                           /\ editor.docs[p].load \in 1..editor.loads
    OBVIOUS
  <1>1. editor.loads \in Nat /\ editor.ops \in 0..MaxOps /\ editor.sessions \in 1..MaxSessions
        /\ editor.current \in {NoPath} \union OpenPaths
    BY DEF EditorInv
  <1>2. OpenPaths \subseteq Paths /\ \A p \in OpenPaths :
          editor.docs[p] \in [version : FirstVersion..(FirstVersion + editor.ops), load : 1..editor.loads]
    BY DEF EditorInv, MapOf, OpenPaths
  <1>3. \A p \in OpenPaths : /\ editor.docs[p].version \in FirstVersion..(FirstVersion + editor.ops)
                             /\ editor.docs[p].load \in 1..editor.loads
    BY <1>2
  <1> QED BY <1>1, <1>2, <1>3, Constants

\* The texts of an editor that has made so many loads and calls.
TextsOf(loads, ops) == {NoText} \union ((1..loads) \X (FirstVersion..(FirstVersion + ops)))

\* They include "no text", and have versions and loads.
LEMMA TextsAre ==
  ASSUME NEW loads \in Nat, NEW ops \in Nat
  PROVE  Texts(TextsOf(loads, ops))
  BY DEF Texts, TextsOf, NoText, FirstVersion

\* They are still there after more loads and calls.
LEMMA TextsGrow ==
  ASSUME NEW l \in Nat, NEW o \in Nat, NEW m \in Nat, NEW n \in Nat, l <= m, o <= n
  PROVE  TextsOf(l, o) \subseteq TextsOf(m, n)
  BY DEF TextsOf, FirstVersion

\* What a step of the owner finds: sound with the texts that there are after it, too.
Found(T) ==
  /\ Texts(T) /\ Sound(client, clangd, T)
  /\ \A p \in OpenPaths : /\ editor.docs[p].version \in Nat /\ editor.docs[p].load \in Nat
                          /\ TextOf(editor.docs[p]) \in T

\* It is found with the texts of every later moment.
LEMMA FoundLater ==
  ASSUME IInv, NEW l \in Nat, NEW o \in Nat, editor.loads <= l, editor.ops <= o
  PROVE  Found(TextsOf(l, o))
  <1>1. EditorInv /\ Sound(client, clangd, Text)  BY DEF IInv
  <1>2. editor.loads \in Nat /\ editor.ops \in Nat  BY <1>1, EditorFields
  <1>3. Text = TextsOf(editor.loads, editor.ops)  BY DEF Text, TextsOf
  <1>4. Text \subseteq TextsOf(l, o)  BY <1>2, <1>3, TextsGrow
  <1>5. Sound(client, clangd, TextsOf(l, o))  BY <1>1, <1>4, SoundGrows
  <1>6. ASSUME NEW p \in OpenPaths
        PROVE  /\ editor.docs[p].version \in Nat /\ editor.docs[p].load \in Nat
               /\ TextOf(editor.docs[p]) \in TextsOf(l, o)
    <2>1. /\ editor.docs[p].version \in FirstVersion..(FirstVersion + editor.ops)
          /\ editor.docs[p].load \in 1..editor.loads
      BY <1>1, EditorFields
    <2>2. editor.docs[p].version \in Nat /\ editor.docs[p].load \in Nat
      BY <1>2, <2>1 DEF FirstVersion
    <2>3. TextOf(editor.docs[p]) \in Text  BY <2>1 DEF TextOf, Text
    <2> QED BY <1>4, <2>2, <2>3
  <1> QED BY <1>5, <1>6, TextsAre DEF Found

\* The client has the editor's copy of every open document.
LEMMA Copied ==
  ASSUME IInv, NEW p \in OpenPaths
  PROVE  /\ p \in DOMAIN client.open /\ TextOf(client.open[p]) = TextOf(editor.docs[p])
         /\ client.open[p].version = editor.docs[p].version
         /\ client.open[p].load = editor.docs[p].load
  <1>1. p \in DOMAIN client.open /\ TextOf(client.open[p]) = TextOf(editor.docs[p])
    BY DEF IInv, CopyInv
  <1> QED BY <1>1 DEF TextOf

\* The parts make the invariant after a step.
LEMMA After ==
  ASSUME NEW T, T = TextsOf(editor'.loads, editor'.ops), Sound(client', clangd', T),
         EditorInv', AllOrNone(client'), CopyInv'
  PROVE  IInv'
  BY DEF IInv, TextsOf, Text

----------------------------------------------------------------------------
(* The owner's steps *)

\* The editor after a call of the owner.
Edited(docs, current, loads, sessions) ==
  [docs |-> docs, current |-> current, loads |-> loads, ops |-> editor.ops + 1, sessions |-> sessions]

\* The documents that it may have then.
DocsOf(loads) == [version : FirstVersion..(FirstVersion + (editor.ops + 1)), load : 1..loads]

\* The documents that it has are among them.
LEMMA DocsStay ==
  ASSUME EditorInv, NEW loads \in Nat, editor.loads <= loads
  PROVE  MapOf(editor.docs, Paths, DocsOf(loads))
  <1>1. editor.ops \in Nat /\ editor.loads \in Nat  BY EditorFields
  <1>2. MapOf(editor.docs, Paths, [version : FirstVersion..(FirstVersion + editor.ops), load : 1..editor.loads])
    BY DEF EditorInv
  <1>3. FirstVersion..(FirstVersion + editor.ops) \subseteq FirstVersion..(FirstVersion + (editor.ops + 1))
    BY <1>1 DEF FirstVersion
  <1>4. 1..editor.loads \subseteq 1..loads  BY <1>1
  <1>5. [version : FirstVersion..(FirstVersion + editor.ops), load : 1..editor.loads] \subseteq DocsOf(loads)
    BY <1>3, <1>4 DEF DocsOf
  <1> QED BY <1>2, <1>5 DEF MapOf

\* One document more, or less.
LEMMA MapsWith ==
  ASSUME NEW D, NEW V, NEW f, MapOf(f, D, V), NEW x \in D, NEW v \in V
  PROVE  MapOf(With(f, x, v), D, V)
  BY DEF MapOf, With

\* One document less.
LEMMA MapsWithout ==
  ASSUME NEW D, NEW V, NEW f, MapOf(f, D, V), NEW x
  PROVE  MapOf(Without(f, x), D, V)
  BY DEF MapOf, Without

\* What a call of the owner finds.
LEMMA OwnerFinds ==
  ASSUME IInv, NEW loads \in Nat, editor.loads <= loads
  PROVE  /\ Found(TextsOf(loads, editor.ops + 1)) /\ AllOrNone(client) /\ EditorInv
         /\ MapOf(editor.docs, Paths, DocsOf(loads))
  <1>1. EditorInv /\ AllOrNone(client)  BY DEF IInv
  <1>2. editor.ops \in Nat /\ editor.ops + 1 \in Nat /\ editor.ops <= editor.ops + 1  BY <1>1, EditorFields
  <1>3. Found(TextsOf(loads, editor.ops + 1))
    <2> DEFINE n == editor.ops + 1
    <2>1. n \in Nat /\ editor.ops <= n  BY <1>2
    <2> HIDE DEF n
    <2>2. Found(TextsOf(loads, n))  BY <2>1, FoundLater
    <2> QED BY <2>2 DEF n
  <1> QED BY <1>1, <1>3, DocsStay

\* Nothing is shown that was not shown before.
NothingNew(c, e) ==
  /\ \A k \in Kinds : e.result[k] \in {NoText, c.result[k]}
  /\ \A p \in Paths : e.tokens[p] \in {NoText, c.tokens[p]}

\* What is shown for the first time is about the text that it should be about.
Shown ==
  /\ \A k \in Kinds : client'.result[k] \notin {NoText, client.result[k]} =>
       /\ editor.current # NoPath
       /\ client'.result[k] = TextOf(editor.docs[editor.current])
  /\ \A p \in Paths : client'.tokens[p] \notin {NoText, client.tokens[p]} =>
       /\ p \in DOMAIN client.open
       /\ client'.tokens[p][1] = client.open[p].load => client'.tokens[p] = TextOf(client.open[p])

\* What it has to leave.
Leaves(docs, current, loads, sessions) ==
  /\ editor' = Edited(docs, current, loads, sessions)
  /\ MapOf(docs, Paths, DocsOf(loads)) /\ current \in {NoPath} \union DOMAIN docs
  /\ loads \in Nat /\ sessions \in 1..MaxSessions
  /\ Sound(client', clangd', TextsOf(loads, editor.ops + 1)) /\ AllOrNone(client')
  /\ \A p \in DOMAIN docs : p \in DOMAIN client'.open /\ TextOf(client'.open[p]) = TextOf(docs[p])
  /\ ~MaySaveAs => DOMAIN client'.open = DOMAIN docs
  /\ \A r \in client'.document : r.path = current
  /\ NothingNew(client, client')

\* Then the invariant is kept, and nothing is shown.
LEMMA OwnerLeaves ==
  ASSUME IInv, Budget, NEW docs, NEW current, NEW loads, NEW sessions, Leaves(docs, current, loads, sessions)
  PROVE  IInv' /\ Shown
  <1>1. EditorInv  BY DEF IInv
  <1>2. editor.ops \in Nat /\ editor.ops + 1 \in 0..MaxOps
    BY <1>1, EditorFields DEF Budget
  <1>3. /\ editor'.docs = docs /\ editor'.current = current /\ editor'.loads = loads
        /\ editor'.ops = editor.ops + 1 /\ editor'.sessions = sessions
        /\ editor' = [docs |-> editor'.docs, current |-> editor'.current, loads |-> editor'.loads,
                      ops |-> editor'.ops, sessions |-> editor'.sessions]
    BY DEF Edited, Leaves
  <1>4. EditorInv'
    <2>1. DOMAIN editor'.docs = DOMAIN docs  BY <1>3
    <2>2. editor' \in [docs : {editor'.docs}, current : {NoPath} \union DOMAIN editor'.docs, loads : Nat,
                       ops : 0..MaxOps, sessions : 1..MaxSessions]
      BY <1>2, <1>3, <2>1 DEF Leaves
    <2>3. MapOf(editor'.docs, Paths, [version : FirstVersion..(FirstVersion + editor'.ops), load : 1..editor'.loads])
      BY <1>3 DEF DocsOf, Leaves
    <2> QED BY <2>2, <2>3 DEF EditorInv, OpenPaths
  <1>5. CopyInv'  BY <1>3 DEF CopyInv, OpenPaths, Leaves
  <1> DEFINE T == TextsOf(loads, editor.ops + 1)
  <1>6. T = TextsOf(editor'.loads, editor'.ops) /\ Sound(client', clangd', T)  BY <1>3 DEF Leaves
  <1> HIDE DEF T
  <1>7. IInv'  BY <1>4, <1>5, <1>6, After DEF Leaves
  <1>8. Shown  BY DEF Leaves, NothingNew, Shown
  <1> QED BY <1>7, <1>8

\* A document is opened, and becomes the active one.
LEMMA OpenFileIInv ==
  ASSUME IInv, NEW p \in Paths, OpenFile(p)
  PROVE  IInv' /\ Shown
  <1> DEFINE loads == editor.loads + 1
             d == [version |-> FirstVersion, load |-> loads]
             T == TextsOf(loads, editor.ops + 1)
             docs == With(editor.docs, p, d)
             c == OpenDocument(client, p, d)
  <1>1. /\ Budget /\ p \notin OpenPaths /\ clangd' = clangd /\ client' = SetActiveDocument(c, p)
        /\ editor' = [Spend(editor) EXCEPT !.docs = With(@, p, d), !.current = p, !.loads = @ + 1]
    BY Zenon DEF OpenFile
  <1>2. EditorInv  BY DEF IInv
  <1>3. loads \in Nat /\ editor.loads <= loads /\ editor.sessions \in 1..MaxSessions /\ editor.ops \in Nat
        /\ loads \in 1..loads
    BY <1>2, EditorFields
  <1>4. editor' = Edited(docs, p, loads, editor.sessions)
    BY <1>1, <1>2 DEF EditorInv, Spend, Edited
  <1>5. /\ d.version = FirstVersion /\ d.load = loads /\ d \in DocsOf(loads) /\ TextOf(d) \in T
        /\ d.version \in Nat
    BY <1>3 DEF DocsOf, FirstVersion, TextsOf, TextOf
  <1> HIDE DEF loads, d, c
  <1>6. Found(T) /\ AllOrNone(client) /\ MapOf(editor.docs, Paths, DocsOf(loads))
    BY <1>3, OwnerFinds
  <1> HIDE DEF T
  <1>7. Sound(client, clangd, T) /\ Texts(T)  BY <1>6 DEF Found
  <1>8. \A r \in client.document : r.path # p
    <2>1. \A r \in client.document : r.path = editor.current  BY DEF IInv, CopyInv
    <2>2. \A r \in client.document : r.path \in Paths
      BY <1>7 DEF Sound, ClientTyped, DocumentSet
    <2>3. editor.current \in {NoPath} \union OpenPaths  BY <1>2, EditorFields
    <2> QED BY <1>1, <2>1, <2>2, <2>3, Constants
  <1>9. ~MaySaveAs => p \notin DOMAIN client.open  BY <1>1 DEF IInv, CopyInv
  <1>10. /\ Sound(c, clangd, T) /\ AllOrNone(c) /\ c.tokens = client.tokens /\ c.result = client.result
         /\ c.open = With(client.open, p, Copy(d, client.initialized))
    BY <1>3, <1>5, <1>6, <1>7, <1>8, <1>9, OpenSound DEF c
  <1>11. /\ Sound(client', clangd, T) /\ Rest1(c, client') /\ client'.open = c.open
         /\ client'.tokens = c.tokens /\ client'.result = c.result
         /\ \A r \in client'.document : r.path = p
    <2>1. p \in Paths \union {NoPath} /\ p # NoPath  BY Constants
    <2>2. LET e == SetActiveDocument(c, p) IN
          /\ Sound(e, clangd, T) /\ Rest1(c, e) /\ e.open = c.open /\ e.tokens = c.tokens /\ e.result = c.result
          /\ e.document = {r \in c.document : p = NoPath \/ r.path = p}
      BY <1>10, <2>1, ActiveSound
    <2> QED BY <1>1, <2>1, <2>2
  <1>12. AllOrNone(client')  BY <1>10, <1>11 DEF AllOrNone, Rest1
  <1>13. /\ MapOf(docs, Paths, DocsOf(loads)) /\ DOMAIN docs = OpenPaths \union {p} /\ docs[p] = d
         /\ \A y \in OpenPaths \ {p} : docs[y] = editor.docs[y]
    <2> DEFINE g == editor.docs
               V == DocsOf(loads)
    <2>1. MapOf(g, Paths, V) /\ d \in V  BY <1>5, <1>6
    <2> HIDE DEF g, V
    <2>2. MapOf(With(g, p, d), Paths, V)  BY <2>1, MapsWith
    <2>3. DOMAIN docs = OpenPaths \union {p} /\ docs[p] = d /\ \A y \in OpenPaths \ {p} : docs[y] = editor.docs[y]
      BY DEF OpenPaths, With
    <2> QED BY <2>2, <2>3 DEF g, V
  <1> HIDE DEF docs
  <1>14. \A x \in DOMAIN docs : x \in DOMAIN client'.open /\ TextOf(client'.open[x]) = TextOf(docs[x])
    <2>1. DOMAIN client'.open = DOMAIN client.open \union {p}
      BY <1>10, <1>11 DEF With
    <2>2. TextOf(client'.open[p]) = TextOf(d)
      BY <1>10, <1>11 DEF With, Copy, TextOf
    <2>3. ASSUME NEW x \in OpenPaths, x # p
          PROVE  x \in DOMAIN client'.open /\ client'.open[x] = client.open[x]
                 /\ TextOf(client.open[x]) = TextOf(editor.docs[x])
      <3>1. x \in DOMAIN client.open /\ TextOf(client.open[x]) = TextOf(editor.docs[x])  BY <2>3, Copied
      <3> QED BY <1>10, <1>11, <2>3, <3>1 DEF With
    <2> QED BY <1>13, <2>1, <2>2, <2>3
  <1>15. ~MaySaveAs => DOMAIN client'.open = DOMAIN docs
    <2>1. ~MaySaveAs => DOMAIN client.open = OpenPaths  BY DEF IInv, CopyInv
    <2> QED BY <1>10, <1>11, <1>13, <2>1 DEF With
  <1>16. p \in {NoPath} \union DOMAIN docs  BY <1>13
  <1>17. Sound(client', clangd', TextsOf(loads, editor.ops + 1))  BY <1>1, <1>11 DEF T
  <1> DEFINE sessions == editor.sessions
  <1>18. sessions \in 1..MaxSessions /\ editor' = Edited(docs, p, loads, sessions)  BY <1>3, <1>4
  <1> HIDE DEF sessions
  <1>19. Leaves(docs, p, loads, sessions)
    <2>1. NothingNew(client, client')  BY <1>10, <1>11 DEF NothingNew
    <2> QED BY <1>3, <1>11, <1>12, <1>13, <1>14, <1>15, <1>16, <1>17, <1>18, <2>1 DEF Leaves
  <1> QED BY <1>1, <1>19, OwnerLeaves

\* A client that has been stopped is sound.
LEMMA ResetSound ==
  ASSUME NEW T, Texts(T), NEW output \in Seq(AnswerSet(T)), NEW slot \in [Kinds -> Nat],
         NEW n \in Nat \ {0}, \A k \in Kinds : slot[k] < n,
         \A i \in 1..Len(output) : output[i].type = "response" => output[i].id < n
  PROVE  LET x == Reset(output, slot, n) IN
         /\ Sound(x, IdleServer, T) /\ AllOrNone(x) /\ x.open = <<>> /\ x.document = {}
         /\ x.result = [k \in Kinds |-> NoText] /\ x.tokens = [p \in Paths |-> NoText]
  <1> DEFINE x == Reset(output, slot, n)
  <1>1. /\ x.stdin = <<>> /\ x.open = <<>> /\ x.dirty = {} /\ x.semantic = {} /\ x.document = {}
        /\ x.pending = {} /\ x.initialized = FALSE /\ x.running = FALSE /\ x.initId = 0
        /\ x.result = [k \in Kinds |-> NoText] /\ x.tokens = [p \in Paths |-> NoText]
        /\ x.output = output /\ x.slot = slot /\ x.nextId = n /\ ClientTyped(x, T)
    BY ResetFields
  <1> HIDE DEF x
  <1>2. WaitingIds(x) = {}  BY <1>1 DEF WaitingIds
  <1>3. Tracked(x)
    <2>1. \A i \in 1..Len(x.stdin) : x.stdin[i].id < n  BY <1>1
    <2>2. x.initId < x.nextId  BY <1>1
    <2> QED BY <1>1, <1>2, <2>1, <2>2 DEF Tracked
  <1>4. ServerTyped(IdleServer, T)
    BY DEF ServerTyped, IdleServer, MapOf
  <1>5. JobsTracked(x, IdleServer)  BY DEF JobsTracked, IdleServer
  <1>6. Linked(x, IdleServer)
    <2>1. ~IdleServer.fault /\ Faultless(IdleServer.docs, x.stdin)
      BY <1>1 DEF Faultless, IdleServer
    <2> QED BY <1>1, <2>1 DEF Linked
  <1>7. Answered(x, IdleServer)  BY <1>1 DEF Answered, Asked
  <1>8. Painted(x)  BY <1>1 DEF Painted
  <1>9. AllOrNone(x)  BY <1>1 DEF AllOrNone
  <1> QED BY <1>1, <1>3, <1>4, <1>5, <1>6, <1>7, <1>8, <1>9 DEF Sound, x

\* What stop() leaves.
LEMMA StopLeaves ==
  ASSUME NEW T, Texts(T), NEW c, NEW s, Sound(c, s, T)
  PROVE  \E n \in Nat \ {0} :
           /\ Stop(c) = Reset(c.output, c.slot, n)
           /\ c.output \in Seq(AnswerSet(T)) /\ c.slot \in [Kinds -> Nat] /\ \A k \in Kinds : c.slot[k] < n
           /\ \A i \in 1..Len(c.output) : c.output[i].type = "response" => c.output[i].id < n
  <1>1. ClientTyped(c, T) /\ Tracked(c)  BY DEF Sound
  <1>2. /\ c.output \in Seq(AnswerSet(T)) /\ c.slot \in [Kinds -> Nat] /\ c.nextId \in Nat \ {0}
        /\ \A k \in Kinds : c.slot[k] \in Nat
    BY <1>1 DEF ClientTyped
  <1> DEFINE n == IF c.running THEN c.nextId + 1 ELSE c.nextId
  <1>3. n \in Nat \ {0} /\ n >= c.nextId  BY <1>2
  <1>4. Stop(c) = Reset(c.output, c.slot, n)  BY DEF Stop, Reset
  <1> HIDE DEF n
  <1>5. \A k \in Kinds : c.slot[k] < n  BY <1>1, <1>2, <1>3 DEF Tracked
  <1>6. \A i \in 1..Len(c.output) : c.output[i].type = "response" => c.output[i].id < n
    <2>1. \A i \in 1..Len(c.output) : c.output[i].type = "response" => c.output[i].id \in Nat
      <3>1. \A i \in 1..Len(c.output) : c.output[i] \in AnswerSet(T)  BY <1>2, ElementOfSeq
      <3> QED BY <3>1 DEF AnswerSet
    <2> QED BY <1>1, <1>2, <1>3, <2>1 DEF Tracked
  <1> QED BY <1>2, <1>3, <1>4, <1>5, <1>6

\* The project is closed: no clangd, no documents.
LEMMA UnloadIInv ==
  ASSUME IInv, UnloadProject
  PROVE  IInv' /\ Shown
  <1> DEFINE loads == editor.loads
             sessions == editor.sessions
             T == TextsOf(loads, editor.ops + 1)
  <1>1. /\ Budget /\ client' = Stop(client) /\ clangd' = IdleServer
        /\ editor' = [Spend(editor) EXCEPT !.docs = <<>>, !.current = NoPath]
    BY DEF UnloadProject
  <1>2. EditorInv  BY DEF IInv
  <1>3. loads \in Nat /\ editor.loads <= loads /\ sessions \in 1..MaxSessions
    BY <1>2, EditorFields
  <1>4. editor' = Edited(<<>>, NoPath, loads, sessions)
    BY <1>1, <1>2 DEF EditorInv, Spend, Edited
  <1> HIDE DEF loads, sessions
  <1>5. Found(T)  BY <1>3, OwnerFinds
  <1> HIDE DEF T
  <1>6. Sound(client, clangd, T) /\ Texts(T)  BY <1>5 DEF Found
  <1>7. PICK n \in Nat \ {0} :
           /\ Stop(client) = Reset(client.output, client.slot, n)
           /\ client.output \in Seq(AnswerSet(T)) /\ client.slot \in [Kinds -> Nat]
           /\ \A k \in Kinds : client.slot[k] < n
           /\ \A i \in 1..Len(client.output) :
                client.output[i].type = "response" => client.output[i].id < n
    BY <1>6, StopLeaves
  <1>8. /\ Sound(client', IdleServer, T) /\ AllOrNone(client') /\ client'.open = <<>> /\ client'.document = {}
        /\ client'.result = [k \in Kinds |-> NoText] /\ client'.tokens = [p \in Paths |-> NoText]
    <2> DEFINE output == client.output
               slot == client.slot
    <2>1. /\ output \in Seq(AnswerSet(T)) /\ slot \in [Kinds -> Nat]
          /\ \A k \in Kinds : slot[k] < n
          /\ \A i \in 1..Len(output) : output[i].type = "response" => output[i].id < n
          /\ client' = Reset(output, slot, n)
      BY <1>1, <1>7
    <2> HIDE DEF output, slot
    <2> QED BY <1>6, <2>1, ResetSound
  <1>9. MapOf(<<>>, Paths, DocsOf(loads)) /\ DOMAIN <<>> = {}  BY DEF MapOf
  <1>10. Leaves(<<>>, NoPath, loads, sessions)
    <2>1. NothingNew(client, client')  BY <1>8 DEF NothingNew
    <2> QED BY <1>1, <1>3, <1>4, <1>8, <1>9, <2>1 DEF Leaves, T
  <1> QED BY <1>1, <1>10, OwnerLeaves

\* A new process, and every open document in it.
LEMMA RestartIInv ==
  ASSUME IInv, RestartLanguageServer
  PROVE  IInv' /\ Shown
  <1> DEFINE loads == editor.loads
             sessions == editor.sessions + 1
             docs == editor.docs
             current == editor.current
             T == TextsOf(loads, editor.ops + 1)
             q == SetToSeq(OpenPaths)
             c == Start(Stop(client))
             e == OpenAll(c, docs, q)
  <1>1. /\ Budget /\ editor.sessions < MaxSessions /\ clangd' = IdleServer
        /\ client' = SetActiveDocument(e, current)
        /\ editor' = [Spend(editor) EXCEPT !.sessions = @ + 1]
    BY Zenon DEF RestartLanguageServer
  <1>2. EditorInv  BY DEF IInv
  <1>3. /\ loads \in Nat /\ editor.loads <= loads /\ sessions \in 1..MaxSessions
        /\ current \in {NoPath} \union OpenPaths /\ OpenPaths \subseteq Paths
    BY <1>1, <1>2, EditorFields
  <1>4. editor' = Edited(docs, current, loads, sessions)
    BY <1>1, <1>2 DEF EditorInv, Spend, Edited
  <1> HIDE DEF e, c
  <1> HIDE DEF loads, sessions
  <1>5. Found(T) /\ MapOf(docs, Paths, DocsOf(loads))  BY <1>3, OwnerFinds
  <1> HIDE DEF T
  <1>6. Sound(client, clangd, T) /\ Texts(T)  BY <1>5 DEF Found
  <1>7. PICK n \in Nat \ {0} :
           /\ Stop(client) = Reset(client.output, client.slot, n)
           /\ client.output \in Seq(AnswerSet(T)) /\ client.slot \in [Kinds -> Nat]
           /\ \A k \in Kinds : client.slot[k] < n
           /\ \A i \in 1..Len(client.output) :
                client.output[i].type = "response" => client.output[i].id < n
    BY <1>6, StopLeaves
  <1>8. /\ Sound(c, IdleServer, T) /\ AllOrNone(c) /\ ~c.initialized /\ c.open = <<>> /\ c.document = {}
        /\ c.result = [k \in Kinds |-> NoText] /\ c.tokens = [p \in Paths |-> NoText]
    <2> DEFINE output == client.output
               slot == client.slot
    <2>1. /\ output \in Seq(AnswerSet(T)) /\ slot \in [Kinds -> Nat]
          /\ \A k \in Kinds : slot[k] < n
          /\ \A i \in 1..Len(output) : output[i].type = "response" => output[i].id < n
          /\ c = Start(Reset(output, slot, n))
      BY <1>7 DEF c
    <2> HIDE DEF output, slot
    <2> QED BY <1>6, <2>1, StartSound
  <1>9. /\ q \in Seq(Paths) /\ Len(q) \in Nat
        /\ \A i \in 1..Len(q) : q[i] \in OpenPaths
        /\ \A i, j \in 1..Len(q) : q[i] = q[j] => i = j
        /\ \A x \in OpenPaths : \E i \in 1..Len(q) : q[i] = x
    <2> DEFINE S == OpenPaths
    <2>1. IsFiniteSet(S) /\ S \subseteq Paths  BY <1>3, Constants, FS_Subset
    <2> HIDE DEF S
    <2>2. /\ SetToSeq(S) \in Seq(S) /\ Len(SetToSeq(S)) \in Nat
          /\ \A i \in 1..Len(SetToSeq(S)) : SetToSeq(S)[i] \in S
          /\ \A i, j \in 1..Len(SetToSeq(S)) : SetToSeq(S)[i] = SetToSeq(S)[j] => i = j
          /\ \A x \in S : \E i \in 1..Len(SetToSeq(S)) : SetToSeq(S)[i] = x
      BY <2>1, Listed
    <2>3. SetToSeq(S) \in Seq(Paths)  BY <2>1, <2>2
    <2> QED BY <2>2, <2>3 DEF S
  <1> HIDE DEF q
  <1>10. \A i \in 1..Len(q) : /\ docs[q[i]].version \in Nat /\ docs[q[i]].load \in Nat
                              /\ TextOf(docs[q[i]]) \in T
    BY <1>5, <1>9 DEF Found
  <1> HIDE DEF docs
  <1>11. Opened(c, e, IdleServer, T, docs, q, Len(q))
    BY <1>6, <1>8, <1>9, <1>10, OpenAllSound DEF e
  <1>12. /\ Sound(e, IdleServer, T) /\ AllOrNone(e) /\ e.document = {}
         /\ DOMAIN e.open = OpenPaths /\ e.tokens = c.tokens /\ e.result = c.result
         /\ \A x \in OpenPaths : TextOf(e.open[x]) = TextOf(docs[x])
    <2>1. {q[i] : i \in 1..Len(q)} = OpenPaths  BY <1>9
    <2> QED BY <1>11, <2>1 DEF Opened
  <1> HIDE DEF current
  <1>13. /\ Sound(client', IdleServer, T) /\ Rest1(e, client') /\ client'.open = e.open
         /\ client'.document = {} /\ client'.tokens = e.tokens /\ client'.result = e.result
    <2>1. current \in Paths \union {NoPath}  BY <1>3
    <2>2. LET f == SetActiveDocument(e, current) IN
          /\ Sound(f, IdleServer, T) /\ Rest1(e, f) /\ f.open = e.open /\ f.tokens = e.tokens /\ f.result = e.result
          /\ f.document = {r \in e.document : current = NoPath \/ r.path = current}
      BY <1>12, <2>1, ActiveSound
    <2> QED BY <1>1, <1>12, <2>2
  <1>14. AllOrNone(client')  BY <1>12, <1>13 DEF AllOrNone, Rest1
  <1>15. DOMAIN docs = OpenPaths  BY DEF OpenPaths, docs
  <1>16. Leaves(docs, current, loads, sessions)
    <2>1. NothingNew(client, client')  BY <1>8, <1>12, <1>13 DEF NothingNew
    <2> QED BY <1>1, <1>3, <1>4, <1>5, <1>12, <1>13, <1>14, <1>15, <2>1 DEF Leaves, T
  <1> QED BY <1>1, <1>16, OwnerLeaves

\* The open documents, and the active one, after a step that leaves them alone.
Same == /\ editor.loads \in Nat /\ editor.sessions \in 1..MaxSessions
        /\ MapOf(editor.docs, Paths, DocsOf(editor.loads))
        /\ Found(TextsOf(editor.loads, editor.ops + 1)) /\ AllOrNone(client)
        /\ editor.current \in {NoPath} \union OpenPaths /\ OpenPaths \subseteq Paths
        /\ \A r \in client.document : r.path = editor.current
        /\ ~MaySaveAs => DOMAIN client.open = OpenPaths
        /\ \A p \in OpenPaths : p \in DOMAIN client.open /\ TextOf(client.open[p]) = TextOf(editor.docs[p])

\* What a call that loads nothing finds.
LEMMA FindsSame == IInv => Same
  <1> SUFFICES ASSUME IInv PROVE Same  OBVIOUS
  <1>1. EditorInv /\ AllOrNone(client) /\ CopyInv  BY DEF IInv
  <1> DEFINE loads == editor.loads
  <1>2. loads \in Nat /\ editor.loads <= loads  BY <1>1, EditorFields
  <1> HIDE DEF loads
  <1>3. Found(TextsOf(loads, editor.ops + 1)) /\ MapOf(editor.docs, Paths, DocsOf(loads))
    BY <1>2, OwnerFinds
  <1> QED BY <1>1, <1>2, <1>3, EditorFields DEF Same, CopyInv, loads

\* The user goes to another document.
LEMMA ActivateIInv ==
  ASSUME IInv, NEW p \in Paths, ActivateDocument(p)
  PROVE  IInv' /\ Shown
  <1> DEFINE loads == editor.loads
             sessions == editor.sessions
             docs == editor.docs
             T == TextsOf(loads, editor.ops + 1)
  <1>1. /\ Budget /\ p \in OpenPaths /\ clangd' = clangd /\ client' = SetActiveDocument(client, p)
        /\ editor' = [Spend(editor) EXCEPT !.current = p]
    BY DEF ActivateDocument
  <1>2. EditorInv /\ Same  BY FindsSame DEF IInv
  <1>3. editor' = Edited(docs, p, loads, sessions)
    BY <1>1, <1>2 DEF EditorInv, Spend, Edited
  <1>4. loads \in Nat /\ sessions \in 1..MaxSessions /\ MapOf(docs, Paths, DocsOf(loads))
    BY <1>2 DEF Same
  <1>5. Sound(client, clangd, T) /\ AllOrNone(client)  BY <1>2 DEF Same, Found
  <1> HIDE DEF T
  <1>6. /\ Sound(client', clangd, T) /\ Rest1(client, client') /\ client'.open = client.open
        /\ client'.tokens = client.tokens /\ client'.result = client.result
        /\ \A r \in client'.document : r.path = p
    <2>1. p \in Paths \union {NoPath} /\ p # NoPath  BY Constants
    <2> DEFINE c == client
               s == clangd
               e == SetActiveDocument(c, p)
    <2>2. Sound(c, s, T)  BY <1>5
    <2> HIDE DEF c, s
    <2>3. /\ Sound(e, s, T) /\ Rest1(c, e) /\ e.open = c.open /\ e.tokens = c.tokens /\ e.result = c.result
          /\ e.document = {r \in c.document : p = NoPath \/ r.path = p}
      BY <2>1, <2>2, ActiveSound
    <2> HIDE DEF e
    <2>4. client' = e  BY <1>1 DEF e, c
    <2> QED BY <2>1, <2>3, <2>4 DEF c, s
  <1>7. AllOrNone(client')  BY <1>5, <1>6 DEF AllOrNone, Rest1
  <1>8. DOMAIN docs = OpenPaths /\ p \in {NoPath} \union DOMAIN docs  BY <1>1 DEF OpenPaths
  <1>9. /\ \A x \in DOMAIN docs : x \in DOMAIN client'.open /\ TextOf(client'.open[x]) = TextOf(docs[x])
        /\ ~MaySaveAs => DOMAIN client'.open = DOMAIN docs
    BY <1>2, <1>6, <1>8 DEF Same
  <1> HIDE DEF loads, sessions, docs
  <1>10. Leaves(docs, p, loads, sessions)
    <2>1. NothingNew(client, client')  BY <1>6 DEF NothingNew
    <2> QED BY <1>1, <1>3, <1>4, <1>6, <1>7, <1>8, <1>9, <2>1 DEF Leaves, T
  <1> QED BY <1>1, <1>10, OwnerLeaves

\* The document that the user is in is closed, and another is shown.
LEMMA CloseIInv ==
  ASSUME IInv, CloseActiveDocument
  PROVE  IInv' /\ Shown
  <1> DEFINE loads == editor.loads
             sessions == editor.sessions
             p == editor.current
             docs == Without(editor.docs, p)
             T == TextsOf(loads, editor.ops + 1)
             rest == OpenPaths \ {p}
  <1>1. Budget /\ p # NoPath /\ clangd' = clangd  BY DEF CloseActiveDocument
  <1>2. PICK next \in IF rest = {} THEN {NoPath} ELSE rest :
          /\ client' = SetActiveDocument(CloseDocument(client, p), next)
          /\ editor' = [Spend(editor) EXCEPT !.docs = Without(@, p), !.current = next]
    BY DEF CloseActiveDocument
  <1>3. EditorInv /\ Same  BY FindsSame DEF IInv
  <1>4. editor' = Edited(docs, next, loads, sessions)
    BY <1>2, <1>3 DEF EditorInv, Spend, Edited
  <1>5. loads \in Nat /\ sessions \in 1..MaxSessions /\ MapOf(editor.docs, Paths, DocsOf(loads))
        /\ OpenPaths \subseteq Paths /\ p \in OpenPaths
    BY <1>1, <1>3 DEF Same
  <1>6. next \in Paths \union {NoPath} /\ next \in {NoPath} \union rest /\ p \in Paths
    BY <1>2, <1>5
  <1>7. Sound(client, clangd, T) /\ AllOrNone(client) /\ Texts(T)  BY <1>3 DEF Same, Found
  <1>8. /\ MapOf(docs, Paths, DocsOf(loads)) /\ DOMAIN docs = rest
        /\ \A x \in rest : docs[x] = editor.docs[x]
    <2> DEFINE g == editor.docs
               V == DocsOf(loads)
    <2>1. MapOf(g, Paths, V)  BY <1>5
    <2> HIDE DEF g, V, p
    <2>2. MapOf(Without(g, p), Paths, V)  BY <2>1, MapsWithout
    <2>3. DOMAIN Without(g, p) = DOMAIN g \ {p} /\ \A x \in DOMAIN g \ {p} : Without(g, p)[x] = g[x]
      BY DEF Without
    <2> QED BY <2>2, <2>3 DEF OpenPaths, g, V
  <1>9. \A r \in client.document : r.path = p  BY <1>3 DEF Same
  <1>10. /\ \A x \in OpenPaths : x \in DOMAIN client.open /\ TextOf(client.open[x]) = TextOf(editor.docs[x])
         /\ ~MaySaveAs => DOMAIN client.open = OpenPaths
    BY <1>3 DEF Same
  <1> HIDE DEF T, docs, p, loads, sessions
  <1>11. /\ Sound(client', clangd, T) /\ AllOrNone(client') /\ client'.document = {}
         /\ client'.open = Without(client.open, p) /\ NothingNew(client, client')
    <2> DEFINE c == client
               s == clangd
               e == CloseDocument(c, p)
               f == SetActiveDocument(e, next)
    <2>1. Sound(c, s, T) /\ AllOrNone(c) /\ Texts(T)  BY <1>7
    <2>2. client' = f /\ \A r \in c.document : r.path = p  BY <1>2, <1>9
    <2> HIDE DEF c, s
    <2>3. /\ Sound(e, s, T) /\ AllOrNone(e) /\ e.document = {r \in c.document : r.path # p}
          /\ e.open = Without(c.open, p) /\ e.result = c.result /\ e.tokens = [c.tokens EXCEPT ![p] = NoText]
      <3>1. p \in Paths  BY <1>6
      <3>2. PICK x \in Paths : x = p  BY <3>1
      <3>3. LET y == CloseDocument(c, x) IN
            /\ Sound(y, s, T) /\ AllOrNone(y) /\ Rest1(c, y) /\ y.initId = c.initId /\ y.slot = c.slot
            /\ y.document = {r \in c.document : r.path # x}
            /\ y.open = Without(c.open, x) /\ y.result = c.result /\ y.active = c.active
            /\ y.tokens = [c.tokens EXCEPT ![x] = NoText]
        BY <2>1, CloseSound
      <3> QED BY <3>2, <3>3
    <2> HIDE DEF e
    <2>4. /\ Sound(f, s, T) /\ Rest1(e, f) /\ f.open = e.open /\ f.tokens = e.tokens /\ f.result = e.result
          /\ f.document = {r \in e.document : next = NoPath \/ r.path = next}
      BY <1>6, <2>3, ActiveSound
    <2> HIDE DEF f
    <2>5. f.document = {}  BY <2>2, <2>3, <2>4
    <2>6. AllOrNone(f)  BY <2>3, <2>4 DEF AllOrNone, Rest1
    <2>7. NothingNew(c, f)  BY <2>1, <2>3, <2>4 DEF NothingNew, Sound, ClientTyped
    <2> QED BY <2>2, <2>3, <2>4, <2>5, <2>6, <2>7 DEF c, s
  <1>12. DOMAIN client'.open = DOMAIN client.open \ {p}
         /\ \A x \in DOMAIN client.open \ {p} : client'.open[x] = client.open[x]
    BY <1>11 DEF Without
  <1>13. /\ \A x \in DOMAIN docs : x \in DOMAIN client'.open /\ TextOf(client'.open[x]) = TextOf(docs[x])
         /\ ~MaySaveAs => DOMAIN client'.open = DOMAIN docs
    BY <1>8, <1>10, <1>12
  <1>14. Leaves(docs, next, loads, sessions)
    BY <1>1, <1>4, <1>5, <1>6, <1>8, <1>11, <1>13 DEF Leaves, T
  <1> QED BY <1>1, <1>14, OwnerLeaves

\* Typing in an open document.
LEMMA EditIInv ==
  ASSUME IInv, NEW p \in Paths, EditDocument(p)
  PROVE  IInv' /\ Shown
  <1> DEFINE loads == editor.loads
             sessions == editor.sessions
             current == editor.current
             old == editor.docs[p]
             d == [old EXCEPT !.version = @ + 1]
             docs == [editor.docs EXCEPT ![p] = d]
             T == TextsOf(loads, editor.ops + 1)
  <1>1. /\ Budget /\ p \in OpenPaths /\ clangd' = clangd
        /\ editor' = [Spend(editor) EXCEPT !.docs[p].version = @ + 1]
        /\ client' = ChangeDocument(client, p, editor'.docs[p])
    BY DEF EditDocument
  <1>2. EditorInv /\ Same  BY FindsSame DEF IInv
  <1>3. editor' = Edited(docs, current, loads, sessions)
    BY <1>1, <1>2 DEF EditorInv, Spend, Edited
  <1>4. /\ loads \in Nat /\ sessions \in 1..MaxSessions /\ MapOf(editor.docs, Paths, DocsOf(loads))
        /\ current \in {NoPath} \union OpenPaths /\ editor.ops \in Nat
    BY <1>2, EditorFields DEF Same
  <1>5. /\ editor.docs = [x \in OpenPaths |-> editor.docs[x]] /\ DOMAIN editor.docs = OpenPaths
        /\ \A x \in OpenPaths : editor.docs[x] \in DocsOf(loads)
    BY <1>4 DEF MapOf, OpenPaths
  <1>6. old \in [version : FirstVersion..(FirstVersion + editor.ops), load : 1..loads]
    BY <1>1, <1>2, EditorFields
  <1>7. d \in DocsOf(loads) /\ d.version = old.version + 1 /\ d.load = old.load
        /\ d.version \in Nat /\ d.load \in Nat /\ old.version \in Nat /\ TextOf(d) \in T
    <2>1. /\ old.version \in FirstVersion..(FirstVersion + editor.ops) /\ old.load \in 1..loads
          /\ d = [version |-> old.version + 1, load |-> old.load]
      BY <1>6
    <2> HIDE DEF old, d
    <2>2. old.version + 1 \in FirstVersion..(FirstVersion + (editor.ops + 1))
      BY <1>4, <2>1 DEF FirstVersion
    <2> QED BY <1>4, <2>1, <2>2 DEF DocsOf, FirstVersion, TextOf, TextsOf
  <1>8. /\ DOMAIN docs = OpenPaths /\ docs[p] = d /\ \A x \in OpenPaths \ {p} : docs[x] = editor.docs[x]
        /\ docs = [x \in OpenPaths |-> docs[x]]
    <2> HIDE DEF d
    <2> QED BY <1>1, <1>5
  <1>9. MapOf(docs, Paths, DocsOf(loads))
    <2>1. OpenPaths \subseteq Paths  BY <1>2 DEF Same
    <2> HIDE DEF docs, d
    <2>2. \A x \in OpenPaths : docs[x] \in DocsOf(loads)  BY <1>5, <1>7, <1>8
    <2> QED BY <1>8, <2>1, <2>2 DEF MapOf
  <1>10. client' = ChangeDocument(client, p, d)
    <2>1. editor'.docs = docs  BY <1>3 DEF Edited
    <2> HIDE DEF docs, d
    <2> QED BY <1>1, <1>8, <2>1
  <1>11. /\ p \in DOMAIN client.open /\ client.open[p].load = old.load /\ client.open[p].version = old.version
    BY <1>1, Copied
  <1>12. Sound(client, clangd, T) /\ AllOrNone(client) /\ Texts(T)  BY <1>2 DEF Same, Found
  <1>13. /\ \A r \in client.document : r.path = current
         /\ \A x \in OpenPaths : x \in DOMAIN client.open /\ TextOf(client.open[x]) = TextOf(editor.docs[x])
         /\ ~MaySaveAs => DOMAIN client.open = OpenPaths
    BY <1>2 DEF Same
  <1> HIDE DEF T, docs, d, old, loads, sessions, current
  <1>14. /\ Sound(client', clangd, T) /\ AllOrNone(client') /\ client'.document \subseteq client.document
         /\ client'.tokens = client.tokens /\ client'.result = client.result
         /\ DOMAIN client'.open = DOMAIN client.open /\ TextOf(client'.open[p]) = TextOf(d)
         /\ \A x \in DOMAIN client.open \ {p} : client'.open[x] = client.open[x]
    <2> DEFINE c == client
               s == clangd
               e == ChangeDocument(c, p, d)
    <2>1. Sound(c, s, T) /\ AllOrNone(c) /\ Texts(T) /\ p \in DOMAIN c.open  BY <1>11, <1>12
    <2>2. d.load = c.open[p].load /\ d.version >= c.open[p].version  BY <1>7, <1>11
    <2>3. client' = e  BY <1>10
    <2> HIDE DEF c, s
    <2>4. /\ Sound(e, s, T) /\ AllOrNone(e) /\ Rest1(c, e)
          /\ e.tokens = c.tokens /\ e.result = c.result /\ e.active = c.active
          /\ e.document \subseteq c.document
          /\ DOMAIN e.open = DOMAIN c.open /\ TextOf(e.open[p]) = TextOf(d)
          /\ \A x \in DOMAIN c.open \ {p} : e.open[x] = c.open[x]
      BY <1>7, <2>1, <2>2, ChangeSound
    <2> HIDE DEF e
    <2> QED BY <2>3, <2>4 DEF c, s
  <1>15. /\ \A x \in DOMAIN docs : x \in DOMAIN client'.open /\ TextOf(client'.open[x]) = TextOf(docs[x])
         /\ ~MaySaveAs => DOMAIN client'.open = DOMAIN docs
         /\ \A r \in client'.document : r.path = current
    BY <1>8, <1>13, <1>14
  <1>16. Leaves(docs, current, loads, sessions)
    <2>1. NothingNew(client, client')  BY <1>14 DEF NothingNew
    <2> QED BY <1>1, <1>3, <1>4, <1>8, <1>9, <1>14, <1>15, <2>1 DEF Leaves, T
  <1> QED BY <1>1, <1>16, OwnerLeaves

\* Saving reports a change, at the version that the client has.
LEMMA SaveIInv ==
  ASSUME IInv, SaveDocument
  PROVE  IInv' /\ Shown
  <1> DEFINE loads == editor.loads
             sessions == editor.sessions
             p == editor.current
             docs == editor.docs
             d == docs[p]
             T == TextsOf(loads, editor.ops + 1)
  <1>1. /\ Budget /\ p # NoPath /\ clangd' = clangd /\ editor' = Spend(editor)
        /\ client' = ChangeDocument(client, p, d)
    BY DEF SaveDocument
  <1>2. EditorInv /\ Same  BY FindsSame DEF IInv
  <1>3. editor' = Edited(docs, p, loads, sessions)
    BY <1>1, <1>2 DEF EditorInv, Spend, Edited
  <1>4. /\ loads \in Nat /\ sessions \in 1..MaxSessions /\ MapOf(docs, Paths, DocsOf(loads))
        /\ p \in OpenPaths /\ DOMAIN docs = OpenPaths
    BY <1>1, <1>2 DEF Same, OpenPaths
  <1>5. Sound(client, clangd, T) /\ AllOrNone(client) /\ Texts(T)
        /\ d.version \in Nat /\ d.load \in Nat /\ TextOf(d) \in T
    BY <1>2, <1>4 DEF Same, Found
  <1>6. /\ p \in DOMAIN client.open /\ client.open[p].load = d.load /\ client.open[p].version = d.version
    BY <1>4, Copied
  <1>7. /\ \A r \in client.document : r.path = p
        /\ \A x \in OpenPaths : x \in DOMAIN client.open /\ TextOf(client.open[x]) = TextOf(docs[x])
        /\ ~MaySaveAs => DOMAIN client.open = OpenPaths
    BY <1>2 DEF Same
  <1>8. /\ Sound(client', clangd, T) /\ AllOrNone(client') /\ client'.document \subseteq client.document
        /\ client'.tokens = client.tokens /\ client'.result = client.result
        /\ DOMAIN client'.open = DOMAIN client.open /\ TextOf(client'.open[p]) = TextOf(d)
        /\ \A x \in DOMAIN client.open \ {p} : client'.open[x] = client.open[x]
    <2> DEFINE c == client
               s == clangd
               e == ChangeDocument(c, p, d)
    <2>1. Sound(c, s, T) /\ AllOrNone(c) /\ Texts(T) /\ p \in DOMAIN c.open  BY <1>5, <1>6
    <2>2. d.load = c.open[p].load /\ d.version >= c.open[p].version  BY <1>5, <1>6
    <2>3. client' = e  BY <1>1
    <2> HIDE DEF c, s, p, d, T
    <2>4. /\ Sound(e, s, T) /\ AllOrNone(e) /\ Rest1(c, e)
          /\ e.tokens = c.tokens /\ e.result = c.result /\ e.active = c.active
          /\ e.document \subseteq c.document
          /\ DOMAIN e.open = DOMAIN c.open /\ TextOf(e.open[p]) = TextOf(d)
          /\ \A x \in DOMAIN c.open \ {p} : e.open[x] = c.open[x]
      BY <1>5, <2>1, <2>2, ChangeSound
    <2> HIDE DEF e
    <2> QED BY <2>3, <2>4 DEF c, s
  <1>9. /\ \A x \in DOMAIN docs : x \in DOMAIN client'.open /\ TextOf(client'.open[x]) = TextOf(docs[x])
        /\ ~MaySaveAs => DOMAIN client'.open = DOMAIN docs
        /\ \A r \in client'.document : r.path = p
    BY <1>4, <1>7, <1>8
  <1>10. Leaves(docs, p, loads, sessions)
    <2> HIDE DEF docs, p, loads, sessions, d
    <2>1. NothingNew(client, client')  BY <1>8 DEF NothingNew
    <2> QED BY <1>1, <1>3, <1>4, <1>8, <1>9, <2>1 DEF Leaves, T
  <1> HIDE DEF docs, p, loads, sessions
  <1> QED BY <1>1, <1>10, OwnerLeaves

\* The active document gets another name; the client keeps its copy under the old one, too.
LEMMA SaveAsIInv ==
  ASSUME IInv, NEW q \in Paths, SaveAs(q)
  PROVE  IInv' /\ Shown
  <1> DEFINE loads == editor.loads
             sessions == editor.sessions
             p == editor.current
             d == editor.docs[p]
             docs == With(Without(editor.docs, p), q, d)
             T == TextsOf(loads, editor.ops + 1)
  <1>1. /\ Budget /\ MaySaveAs /\ p # NoPath /\ q \notin OpenPaths \ {p} /\ clangd' = clangd
        /\ client' = SetActiveDocument(OpenDocument(client, q, d), q)
        /\ editor' = [Spend(editor) EXCEPT !.docs = With(Without(@, p), q, d), !.current = q]
    BY DEF SaveAs
  <1>2. EditorInv /\ Same  BY FindsSame DEF IInv
  <1>3. editor' = Edited(docs, q, loads, sessions)
    BY <1>1, <1>2 DEF EditorInv, Spend, Edited
  <1>4. /\ loads \in Nat /\ sessions \in 1..MaxSessions /\ MapOf(editor.docs, Paths, DocsOf(loads))
        /\ p \in OpenPaths /\ d \in DocsOf(loads)
    BY <1>1, <1>2 DEF Same, OpenPaths, MapOf
  <1>5. Sound(client, clangd, T) /\ AllOrNone(client) /\ Texts(T)
        /\ d.version \in Nat /\ d.load \in Nat /\ TextOf(d) \in T
    BY <1>2, <1>4 DEF Same, Found
  <1>6. p \in DOMAIN client.open /\ TextOf(client.open[p]) = TextOf(d)
    BY <1>4, Copied
  <1>7. /\ \A r \in client.document : r.path = p
        /\ \A x \in OpenPaths : x \in DOMAIN client.open /\ TextOf(client.open[x]) = TextOf(editor.docs[x])
    BY <1>2 DEF Same
  <1>8. /\ MapOf(docs, Paths, DocsOf(loads)) /\ DOMAIN docs = (OpenPaths \ {p}) \union {q}
        /\ docs[q] = d /\ \A x \in (OpenPaths \ {p}) \ {q} : docs[x] = editor.docs[x]
    <2> DEFINE g == editor.docs
               V == DocsOf(loads)
               h == Without(g, p)
    <2>1. MapOf(g, Paths, V) /\ d \in V  BY <1>4
    <2> HIDE DEF g, V, p, d
    <2>2. MapOf(h, Paths, V)  BY <2>1, MapsWithout
    <2>3. DOMAIN h = DOMAIN g \ {p} /\ \A x \in DOMAIN g \ {p} : h[x] = g[x]
      BY DEF Without
    <2> HIDE DEF h
    <2>4. MapOf(With(h, q, d), Paths, V)  BY <2>1, <2>2, MapsWith
    <2>5. /\ DOMAIN With(h, q, d) = DOMAIN h \union {q} /\ With(h, q, d)[q] = d
          /\ \A x \in DOMAIN h \ {q} : With(h, q, d)[x] = h[x]
      BY DEF With
    <2> QED BY <2>3, <2>4, <2>5 DEF OpenPaths, g, V, h
  <1> HIDE DEF T, docs, d, p, loads, sessions
  <1>9. /\ Sound(client', clangd, T) /\ AllOrNone(client') /\ \A r \in client'.document : r.path = q
        /\ client'.open = With(client.open, q, Copy(d, client.initialized))
        /\ client'.tokens = client.tokens /\ client'.result = client.result
    <2> DEFINE c == client
               s == clangd
               e == OpenDocument(c, q, d)
               f == SetActiveDocument(e, q)
    <2>1. Sound(c, s, T) /\ AllOrNone(c) /\ Texts(T)  BY <1>5
    <2>2. client' = f /\ \A r \in c.document : r.path = q => TextOf(c.open[q]) = TextOf(d)
      BY <1>1, <1>6, <1>7
    <2> HIDE DEF c, s
    <2>3. /\ Sound(e, s, T) /\ AllOrNone(e) /\ e.tokens = c.tokens /\ e.result = c.result
          /\ e.open = With(c.open, q, Copy(d, c.initialized))
      BY <1>1, <1>5, <2>1, <2>2, OpenSound
    <2> HIDE DEF e
    <2>4. q \in Paths \union {NoPath} /\ q # NoPath  BY Constants
    <2>5. /\ Sound(f, s, T) /\ Rest1(e, f) /\ f.open = e.open /\ f.tokens = e.tokens /\ f.result = e.result
          /\ f.document = {r \in e.document : q = NoPath \/ r.path = q}
      BY <2>3, <2>4, ActiveSound
    <2> HIDE DEF f
    <2>6. AllOrNone(f)  BY <2>3, <2>5 DEF AllOrNone, Rest1
    <2> QED BY <2>2, <2>3, <2>4, <2>5, <2>6 DEF c, s
  <1>10. /\ DOMAIN client'.open = DOMAIN client.open \union {q} /\ TextOf(client'.open[q]) = TextOf(d)
         /\ \A x \in DOMAIN client.open \ {q} : client'.open[x] = client.open[x]
    BY <1>9 DEF With, Copy, TextOf
  <1>11. \A x \in DOMAIN docs : x \in DOMAIN client'.open /\ TextOf(client'.open[x]) = TextOf(docs[x])
    BY <1>7, <1>8, <1>10
  <1>12. q \in {NoPath} \union DOMAIN docs  BY <1>8
  <1>13. Leaves(docs, q, loads, sessions)
    <2>1. NothingNew(client, client')  BY <1>9 DEF NothingNew
    <2> QED BY <1>1, <1>3, <1>4, <1>8, <1>9, <1>11, <1>12, <2>1 DEF Leaves, T
  <1> QED BY <1>1, <1>13, OwnerLeaves

\* A project entry gets another name: its document is closed, and opened under that name.
LEMMA RenameIInv ==
  ASSUME IInv, NEW p \in Paths, NEW q \in Paths, RenameEntry(p, q)
  PROVE  IInv' /\ Shown
  <1> DEFINE loads == editor.loads
             sessions == editor.sessions
             current == IF editor.current = p THEN q ELSE editor.current
             old == editor.docs[p]
             d == [old EXCEPT !.version = @ + 1]
             docs == With(Without(editor.docs, p), q, d)
             T == TextsOf(loads, editor.ops + 1)
  <1>1. /\ Budget /\ p \in OpenPaths /\ q \notin OpenPaths /\ clangd' = clangd
        /\ client' = OpenDocument(CloseDocument(client, p), q, d)
        /\ editor' = [Spend(editor) EXCEPT !.docs = With(Without(@, p), q, d),
                                           !.current = IF @ = p THEN q ELSE @]
    BY DEF RenameEntry
  <1>2. EditorInv /\ Same  BY FindsSame DEF IInv
  <1>3. editor' = Edited(docs, current, loads, sessions)
    <2> HIDE DEF d
    <2> QED BY <1>1, <1>2 DEF EditorInv, Spend, Edited
  <1>4. /\ loads \in Nat /\ sessions \in 1..MaxSessions /\ MapOf(editor.docs, Paths, DocsOf(loads))
        /\ editor.current \in {NoPath} \union OpenPaths /\ editor.ops \in Nat
    BY <1>2, EditorFields DEF Same
  <1>5. old \in [version : FirstVersion..(FirstVersion + editor.ops), load : 1..loads]
    BY <1>1, <1>2, EditorFields
  <1>6. d \in DocsOf(loads) /\ d.version \in Nat /\ d.load \in Nat /\ TextOf(d) \in T
    <2>1. /\ old.version \in FirstVersion..(FirstVersion + editor.ops) /\ old.load \in 1..loads
          /\ d = [version |-> old.version + 1, load |-> old.load]
      BY <1>5
    <2> HIDE DEF old, d
    <2>2. old.version + 1 \in FirstVersion..(FirstVersion + (editor.ops + 1))
      BY <1>4, <2>1 DEF FirstVersion
    <2> QED BY <1>4, <2>1, <2>2 DEF DocsOf, FirstVersion, TextOf, TextsOf
  <1> HIDE DEF old, d
  <1>7. /\ MapOf(docs, Paths, DocsOf(loads)) /\ DOMAIN docs = (OpenPaths \ {p}) \union {q}
        /\ docs[q] = d /\ \A x \in OpenPaths \ {p} : docs[x] = editor.docs[x]
    <2> DEFINE g == editor.docs
               V == DocsOf(loads)
               h == Without(g, p)
    <2>1. MapOf(g, Paths, V) /\ d \in V  BY <1>4, <1>6
    <2> HIDE DEF g, V
    <2>2. MapOf(h, Paths, V)  BY <2>1, MapsWithout
    <2>3. DOMAIN h = DOMAIN g \ {p} /\ \A x \in DOMAIN g \ {p} : h[x] = g[x]
      BY DEF Without
    <2> HIDE DEF h
    <2>4. MapOf(With(h, q, d), Paths, V)  BY <2>1, <2>2, MapsWith
    <2>5. /\ DOMAIN With(h, q, d) = DOMAIN h \union {q} /\ With(h, q, d)[q] = d
          /\ \A x \in DOMAIN h \ {q} : With(h, q, d)[x] = h[x]
      BY DEF With
    <2> QED BY <1>1, <2>3, <2>4, <2>5 DEF OpenPaths, g, V, h
  <1>8. Sound(client, clangd, T) /\ AllOrNone(client) /\ Texts(T)  BY <1>2 DEF Same, Found
  <1>9. /\ \A r \in client.document : r.path = editor.current
        /\ \A x \in OpenPaths : x \in DOMAIN client.open /\ TextOf(client.open[x]) = TextOf(editor.docs[x])
        /\ ~MaySaveAs => DOMAIN client.open = OpenPaths
    BY <1>2 DEF Same
  <1>10. \A r \in client.document : r.path # q /\ (r.path # p => r.path = current)
    <2>1. \A r \in client.document : r.path \in Paths
      BY <1>8 DEF Sound, ClientTyped, DocumentSet
    <2> QED BY <1>1, <1>4, <1>9, <2>1, Constants
  <1>11. current \in {NoPath} \union DOMAIN docs  BY <1>4, <1>7
  <1> HIDE DEF T, docs, loads, sessions, current
  <1>12. /\ Sound(client', clangd, T) /\ AllOrNone(client') /\ \A r \in client'.document : r.path = current
         /\ client'.open = With(Without(client.open, p), q, Copy(d, client.initialized))
         /\ NothingNew(client, client')
    <2> DEFINE c == client
               s == clangd
               e == CloseDocument(c, p)
               f == OpenDocument(e, q, d)
    <2>1. Sound(c, s, T) /\ AllOrNone(c) /\ Texts(T)  BY <1>8
    <2>2. /\ client' = f /\ \A r \in c.document : r.path # q /\ (r.path # p => r.path = current)
          /\ ~MaySaveAs => q \notin DOMAIN c.open
      BY <1>1, <1>9, <1>10
    <2> HIDE DEF c, s
    <2>3. /\ Sound(e, s, T) /\ AllOrNone(e) /\ Rest1(c, e) /\ e.initId = c.initId /\ e.slot = c.slot
          /\ e.document = {r \in c.document : r.path # p}
          /\ e.open = Without(c.open, p) /\ e.result = c.result /\ e.active = c.active
          /\ e.tokens = [c.tokens EXCEPT ![p] = NoText]
      BY <2>1, CloseSound
    <2> HIDE DEF e
    <2>4. /\ \A r \in e.document : r.path = q => TextOf(e.open[q]) = TextOf(d)
          /\ ~MaySaveAs => q \notin DOMAIN e.open
      BY <2>2, <2>3 DEF Without
    <2>5. /\ Sound(f, s, T) /\ AllOrNone(f) /\ Rest1(e, f) /\ f.initId = e.initId /\ f.slot = e.slot
          /\ f.document = e.document /\ f.tokens = e.tokens /\ f.result = e.result /\ f.active = e.active
          /\ f.open = With(e.open, q, Copy(d, e.initialized))
      BY <1>6, <2>1, <2>3, <2>4, OpenSound
    <2> HIDE DEF f
    <2>6. e.initialized = c.initialized  BY <2>3 DEF Rest1
    <2>7. NothingNew(c, f)  BY <2>1, <2>3, <2>5 DEF NothingNew, Sound, ClientTyped
    <2> QED BY <2>2, <2>3, <2>5, <2>6, <2>7 DEF c, s
  <1>13. /\ DOMAIN client'.open = (DOMAIN client.open \ {p}) \union {q} /\ TextOf(client'.open[q]) = TextOf(d)
         /\ \A x \in (DOMAIN client.open \ {p}) \ {q} : client'.open[x] = client.open[x]
    <2> DEFINE f == Without(client.open, p)
    <2>1. DOMAIN f = DOMAIN client.open \ {p} /\ \A x \in DOMAIN f : f[x] = client.open[x]
      BY DEF Without
    <2>2. client'.open = With(f, q, Copy(d, client.initialized))  BY <1>12
    <2> HIDE DEF f
    <2> QED BY <2>1, <2>2 DEF With, Copy, TextOf
  <1>14. \A x \in DOMAIN docs : x \in DOMAIN client'.open /\ TextOf(client'.open[x]) = TextOf(docs[x])
    BY <1>1, <1>7, <1>9, <1>13
  <1>15. ~MaySaveAs => DOMAIN client'.open = DOMAIN docs  BY <1>7, <1>9, <1>13
  <1>16. Leaves(docs, current, loads, sessions)
    BY <1>1, <1>3, <1>4, <1>7, <1>11, <1>12, <1>14, <1>15 DEF Leaves, T
  <1> QED BY <1>1, <1>16, OwnerLeaves

\* The move of a project entry fails: its document is closed, and opened as it was.
LEMMA RenameFailsIInv ==
  ASSUME IInv, NEW p \in Paths, RenameFails(p)
  PROVE  IInv' /\ Shown
  <1> DEFINE loads == editor.loads
             sessions == editor.sessions
             current == editor.current
             docs == editor.docs
             d == docs[p]
             T == TextsOf(loads, editor.ops + 1)
  <1>1. /\ Budget /\ p \in OpenPaths /\ clangd' = clangd /\ editor' = Spend(editor)
        /\ client' = OpenDocument(CloseDocument(client, p), p, d)
    BY DEF RenameFails
  <1>2. EditorInv /\ Same  BY FindsSame DEF IInv
  <1>3. editor' = Edited(docs, current, loads, sessions)
    BY <1>1, <1>2 DEF EditorInv, Spend, Edited
  <1>4. /\ loads \in Nat /\ sessions \in 1..MaxSessions /\ MapOf(docs, Paths, DocsOf(loads))
        /\ current \in {NoPath} \union OpenPaths /\ editor.ops \in Nat /\ DOMAIN docs = OpenPaths
    BY <1>2, EditorFields DEF Same, OpenPaths
  <1>5. d \in [version : FirstVersion..(FirstVersion + editor.ops), load : 1..loads]
    BY <1>1, <1>2, EditorFields
  <1>6. d.version \in Nat /\ d.load \in Nat /\ TextOf(d) \in T
    <2>1. d.version \in FirstVersion..(FirstVersion + editor.ops) /\ d.load \in 1..loads
      BY <1>5
    <2> HIDE DEF d
    <2> QED BY <1>4, <2>1 DEF FirstVersion, TextOf, TextsOf
  <1>7. Sound(client, clangd, T) /\ AllOrNone(client) /\ Texts(T)  BY <1>2 DEF Same, Found
  <1>8. /\ \A r \in client.document : r.path = current
        /\ \A x \in DOMAIN docs : x \in DOMAIN client.open /\ TextOf(client.open[x]) = TextOf(docs[x])
        /\ ~MaySaveAs => DOMAIN client.open = DOMAIN docs
    BY <1>2, <1>4 DEF Same, OpenPaths
  <1> HIDE DEF T, d, docs, loads, sessions, current
  <1>9. /\ Sound(client', clangd, T) /\ AllOrNone(client') /\ \A r \in client'.document : r.path = current
        /\ client'.open = With(Without(client.open, p), p, Copy(d, client.initialized))
        /\ NothingNew(client, client')
    <2> DEFINE c == client
               s == clangd
               e == CloseDocument(c, p)
               f == OpenDocument(e, p, d)
    <2>1. Sound(c, s, T) /\ AllOrNone(c) /\ Texts(T)  BY <1>7
    <2>2. client' = f /\ \A r \in c.document : r.path = current  BY <1>1, <1>8
    <2> HIDE DEF c, s
    <2>3. /\ Sound(e, s, T) /\ AllOrNone(e) /\ Rest1(c, e) /\ e.initId = c.initId /\ e.slot = c.slot
          /\ e.document = {r \in c.document : r.path # p}
          /\ e.open = Without(c.open, p) /\ e.result = c.result /\ e.active = c.active
          /\ e.tokens = [c.tokens EXCEPT ![p] = NoText]
      BY <2>1, CloseSound
    <2> HIDE DEF e
    <2>4. /\ \A r \in e.document : r.path = p => TextOf(e.open[p]) = TextOf(d)
          /\ ~MaySaveAs => p \notin DOMAIN e.open
      BY <2>3 DEF Without
    <2>5. /\ Sound(f, s, T) /\ AllOrNone(f) /\ Rest1(e, f) /\ f.initId = e.initId /\ f.slot = e.slot
          /\ f.document = e.document /\ f.tokens = e.tokens /\ f.result = e.result /\ f.active = e.active
          /\ f.open = With(e.open, p, Copy(d, e.initialized))
      BY <1>6, <2>1, <2>3, <2>4, OpenSound
    <2> HIDE DEF f
    <2>6. e.initialized = c.initialized  BY <2>3 DEF Rest1
    <2>7. NothingNew(c, f)  BY <2>1, <2>3, <2>5 DEF NothingNew, Sound, ClientTyped
    <2> QED BY <2>2, <2>3, <2>5, <2>6, <2>7 DEF c, s
  <1>10. /\ DOMAIN client'.open = (DOMAIN client.open \ {p}) \union {p} /\ TextOf(client'.open[p]) = TextOf(d)
         /\ \A x \in DOMAIN client.open \ {p} : client'.open[x] = client.open[x]
    <2> DEFINE f == Without(client.open, p)
    <2>1. DOMAIN f = DOMAIN client.open \ {p} /\ \A x \in DOMAIN f : f[x] = client.open[x]
      BY DEF Without
    <2>2. client'.open = With(f, p, Copy(d, client.initialized))  BY <1>9
    <2> HIDE DEF f
    <2> QED BY <2>1, <2>2 DEF With, Copy, TextOf
  <1>11. \A x \in DOMAIN docs : x \in DOMAIN client'.open /\ TextOf(client'.open[x]) = TextOf(docs[x])
    BY <1>8, <1>10 DEF d
  <1>12. ~MaySaveAs => DOMAIN client'.open = DOMAIN docs  BY <1>1, <1>4, <1>8, <1>10
  <1>13. Leaves(docs, current, loads, sessions)
    BY <1>1, <1>3, <1>4, <1>9, <1>11, <1>12 DEF Leaves, T
  <1> QED BY <1>1, <1>13, OwnerLeaves

\* clangd is asked about the active document.
LEMMA RequestIInv ==
  ASSUME IInv, NEW k \in Kinds, RequestDocument(k)
  PROVE  IInv' /\ Shown
  <1> DEFINE loads == editor.loads
             sessions == editor.sessions
             p == editor.current
             docs == editor.docs
             d == docs[p]
             T == TextsOf(loads, editor.ops + 1)
  <1>1. /\ Budget /\ p # NoPath /\ client.initialized /\ clangd' = clangd /\ editor' = Spend(editor)
        /\ client' = AskDocument(client, k, p, d)
    BY DEF RequestDocument
  <1>2. EditorInv /\ Same  BY FindsSame DEF IInv
  <1>3. editor' = Edited(docs, p, loads, sessions)
    BY <1>1, <1>2 DEF EditorInv, Spend, Edited
  <1>4. /\ loads \in Nat /\ sessions \in 1..MaxSessions /\ MapOf(docs, Paths, DocsOf(loads))
        /\ p \in OpenPaths /\ DOMAIN docs = OpenPaths
    BY <1>1, <1>2 DEF Same, OpenPaths
  <1>5. Sound(client, clangd, T) /\ AllOrNone(client) /\ Texts(T)  BY <1>2, <1>4 DEF Same, Found
  <1>6. p \in DOMAIN client.open /\ d.version = client.open[p].version
    BY <1>4, Copied
  <1>7. /\ \A r \in client.document : r.path = p
        /\ \A x \in OpenPaths : x \in DOMAIN client.open /\ TextOf(client.open[x]) = TextOf(docs[x])
        /\ ~MaySaveAs => DOMAIN client.open = OpenPaths
    BY <1>2 DEF Same
  <1>8. /\ Sound(client', clangd, T) /\ AllOrNone(client') /\ \A r \in client'.document : r.path = p
        /\ DOMAIN client'.open = DOMAIN client.open /\ NothingNew(client, client')
        /\ \A x \in DOMAIN client.open : TextOf(client'.open[x]) = TextOf(client.open[x])
    <2> DEFINE c == client
               s == clangd
               e == AskDocument(c, k, p, d)
    <2>1. Sound(c, s, T) /\ AllOrNone(c) /\ Texts(T) /\ p \in DOMAIN c.open /\ c.initialized
          /\ d.version = c.open[p].version
      BY <1>1, <1>5, <1>6
    <2>2. client' = e /\ \A r \in c.document : r.path = p  BY <1>1, <1>7
    <2> HIDE DEF c, s, p, d, T
    <2>3. /\ Sound(e, s, T) /\ AllOrNone(e) /\ Rest1(c, e)
          /\ e.tokens = c.tokens /\ e.active = c.active /\ e.result = [c.result EXCEPT ![k] = NoText]
          /\ \A r \in e.document : r \in c.document \/ r.path = p
          /\ DOMAIN e.open = DOMAIN c.open
          /\ \A x \in DOMAIN c.open : TextOf(e.open[x]) = TextOf(c.open[x])
      BY <2>1, AskSound
    <2> HIDE DEF e
    <2>4. NothingNew(c, e)  BY <2>1, <2>3 DEF NothingNew, Sound, ClientTyped
    <2> QED BY <2>2, <2>3, <2>4 DEF c, s
  <1>9. /\ \A x \in DOMAIN docs : x \in DOMAIN client'.open /\ TextOf(client'.open[x]) = TextOf(docs[x])
        /\ ~MaySaveAs => DOMAIN client'.open = DOMAIN docs
    BY <1>4, <1>7, <1>8
  <1>10. Leaves(docs, p, loads, sessions)
    <2> HIDE DEF docs, p, loads, sessions, d
    <2> QED BY <1>1, <1>3, <1>4, <1>8, <1>9 DEF Leaves, T
  <1> HIDE DEF docs, p, loads, sessions
  <1> QED BY <1>1, <1>10, OwnerLeaves

----------------------------------------------------------------------------
(* The steps of poll() and of clangd *)

\* What they leave: the same editor, and the same texts.
Polled ==
  /\ editor' = editor /\ Sound(client', clangd', Text) /\ AllOrNone(client')
  /\ client'.document \subseteq client.document /\ DOMAIN client'.open = DOMAIN client.open
  /\ \A x \in DOMAIN client.open : TextOf(client'.open[x]) = TextOf(client.open[x])
  /\ NothingNew(client, client') \/ Shown

\* Then the invariant is kept.
LEMMA PolledIInv ==
  ASSUME IInv, Polled
  PROVE  IInv' /\ Shown
  <1>1. EditorInv /\ CopyInv  BY DEF IInv
  <1>2. EditorInv'  BY <1>1 DEF EditorInv, OpenPaths, Polled
  <1>3. CopyInv'  BY <1>1 DEF CopyInv, OpenPaths, Polled
  <1>4. Text' = Text  BY DEF Text, Polled
  <1>5. IInv'  BY <1>2, <1>3, <1>4 DEF IInv, Polled
  <1>6. Shown  BY DEF NothingNew, Shown, Polled
  <1> QED BY <1>5, <1>6

\* What they find.
LEMMA PollFinds ==
  IInv => Sound(client, clangd, Text) /\ Texts(Text) /\ AllOrNone(client)
  <1> SUFFICES ASSUME IInv PROVE Sound(client, clangd, Text) /\ Texts(Text) /\ AllOrNone(client)
    OBVIOUS
  <1>1. editor.loads \in Nat /\ editor.ops \in Nat  BY EditorFields DEF IInv
  <1>2. Texts(Text)  BY <1>1 DEF Texts, Text, NoText, FirstVersion
  <1> QED BY <1>2 DEF IInv

\* The change that was held back is sent.
LEMMA FlushIInv ==
  ASSUME IInv, NEW p \in Paths, FlushDue(p)
  PROVE  IInv' /\ Shown
  <1>1. client' = FlushChange(client, p) /\ clangd' = clangd /\ editor' = editor  BY DEF FlushDue
  <1> DEFINE c == client
             s == clangd
             T == Text
             e == FlushChange(c, p)
  <1>2. Sound(c, s, T) /\ Texts(T) /\ AllOrNone(c)  BY PollFinds
  <1> HIDE DEF c, s, T
  <1>3. /\ Sound(e, s, T) /\ Rest1(c, e) /\ e.initId = c.initId /\ e.slot = c.slot
        /\ e.document = c.document /\ e.tokens = c.tokens /\ e.result = c.result /\ e.active = c.active
        /\ DOMAIN e.open = DOMAIN c.open
        /\ \A x \in DOMAIN c.open : TextOf(e.open[x]) = TextOf(c.open[x])
                                    /\ e.open[x].announced = c.open[x].announced
                                    /\ e.open[x].version = c.open[x].version
        /\ c.initialized /\ p \in DOMAIN c.open /\ c.open[p].announced => ~e.open[p].changePending
    BY <1>2, FlushSound
  <1>4. client' = e  BY <1>1 DEF c
  <1> HIDE DEF e
  <1>5. AllOrNone(e)  BY <1>2, <1>3 DEF AllOrNone, Rest1
  <1>6. Polled  BY <1>1, <1>3, <1>4, <1>5 DEF Polled, NothingNew, c, s, T
  <1> QED BY <1>6, PolledIInv

\* The client, with one message less to read, and without the request it answers.
Took(c, pending, initId, document, semantic) ==
  [c EXCEPT !.output = Tail(c.output), !.pending = pending, !.initId = initId,
            !.document = document, !.semantic = semantic]

\* What becomes of its fields.
LEMMA TookFields ==
  ASSUME NEW T, NEW c, ClientTyped(c, T), c.output # <<>>,
         NEW pending \in SUBSET Nat, NEW initId \in Nat,
         NEW document, document \subseteq c.document, NEW semantic, semantic \subseteq c.semantic
  PROVE  LET e == Took(c, pending, initId, document, semantic) IN
         /\ ClientTyped(e, T) /\ e.output = Tail(c.output) /\ e.pending = pending /\ e.initId = initId
         /\ e.document = document /\ e.semantic = semantic /\ e.stdin = c.stdin
         /\ e.running = c.running /\ e.nextId = c.nextId /\ e.slot = c.slot /\ Rest3(c, e)
         /\ e.dirty = c.dirty /\ e.initialized = c.initialized /\ e.typesKnown = c.typesKnown
         /\ e.started = c.started
  <1> DEFINE e == Took(c, pending, initId, document, semantic)
  <1>1. c.output \in Seq(AnswerSet(T)) /\ Tail(c.output) \in Seq(AnswerSet(T))
    BY DEF ClientTyped
  <1>2. document \in SUBSET DocumentSet /\ semantic \in SUBSET SemanticSet  BY DEF ClientTyped
  <1> DEFINE t == Tail(c.output)
  <1> HIDE DEF t
  <1>3. e = [c EXCEPT !.output = t, !.pending = pending, !.initId = initId,
                      !.document = document, !.semantic = semantic]
    BY DEF Took, t
  <1>4. t \in Seq(AnswerSet(T))  BY <1>1 DEF t
  <1> HIDE DEF e
  <1>5. /\ e.output = t /\ e.pending = pending /\ e.initId = initId
        /\ e.document = document /\ e.semantic = semantic /\ e.stdin = c.stdin
        /\ e.running = c.running /\ e.nextId = c.nextId /\ e.slot = c.slot
        /\ e.dirty = c.dirty /\ e.initialized = c.initialized /\ e.typesKnown = c.typesKnown
        /\ e.started = c.started
        /\ e.open = c.open /\ e.tokens = c.tokens /\ e.diags = c.diags /\ e.result = c.result
        /\ e.active = c.active
    BY <1>3 DEF ClientTyped
  <1>6. ClientTyped(e, T)
    BY <1>2, <1>3, <1>4, <1>5 DEF ClientTyped
  <1> QED BY <1>5, <1>6 DEF e, t, Rest3

\* An answer that nobody waits for is dropped.
LEMMA UnknownIInv ==
  ASSUME IInv, HandleUnknown
  PROVE  IInv' /\ Shown
  <1> DEFINE c == client
             s == clangd
             T == Text
             e == Took(c, c.pending, c.initId, c.document, c.semantic)
  <1>1. client' = Rest /\ clangd' = clangd /\ editor' = editor /\ c.output # <<>>
    BY DEF HandleUnknown, Incoming
  <1>2. Sound(c, s, T) /\ Texts(T) /\ AllOrNone(c)  BY PollFinds
  <1>3. ClientTyped(c, T) /\ Tracked(c) /\ Painted(c)  BY <1>2 DEF Sound
  <1>4. client' = e  BY <1>1, <1>3 DEF Rest, Took, ClientTyped
  <1> HIDE DEF c, s, T
  <1>5. c.pending \in SUBSET Nat /\ c.initId \in Nat  BY <1>3 DEF ClientTyped
  <1>6. /\ ClientTyped(e, T) /\ e.output = Tail(c.output) /\ e.pending = c.pending /\ e.initId = c.initId
        /\ e.document = c.document /\ e.semantic = c.semantic /\ e.stdin = c.stdin
        /\ e.running = c.running /\ e.nextId = c.nextId /\ e.slot = c.slot /\ Rest3(c, e)
        /\ e.dirty = c.dirty /\ e.initialized = c.initialized /\ e.typesKnown = c.typesKnown
        /\ e.started = c.started
    BY <1>1, <1>3, <1>5, TookFields
  <1> HIDE DEF e
  <1>7. Painted(e)  BY <1>3, <1>6 DEF Painted, Rest3
  <1>8. e.pending = WaitingIds(e) /\ (e.initialized => e.initId = 0)
    BY <1>3, <1>6 DEF Tracked, WaitingIds
  <1>9. Sound(e, s, T)
    <2>1. e.open = c.open  BY <1>6 DEF Rest3
    <2> QED BY <1>1, <1>2, <1>6, <1>7, <1>8, <2>1, TakeSound
  <1>10. AllOrNone(e)  BY <1>2, <1>6 DEF AllOrNone, Rest3
  <1>11. Polled  BY <1>1, <1>4, <1>6, <1>9, <1>10 DEF Polled, NothingNew, Rest3, c, s, T
  <1> QED BY <1>11, PolledIInv

\* An answer to a question about a document is shown, or dropped.
LEMMA DocumentIInv ==
  ASSUME IInv, HandleDocument
  PROVE  IInv' /\ Shown
  <1> DEFINE c == client
             s == clangd
             T == Text
             m == Head(c.output)
  <1>1. clangd' = clangd /\ editor' = editor /\ c.output # <<>> /\ m.type = "response"
    BY DEF HandleDocument, Incoming
  <1>2. PICK r \in c.document :
          /\ r.id = m.id
          /\ LET f == [Settled(m.id) EXCEPT !.document = @ \ {r}] IN
             client' = IF m.error \/ ~InContext(r) THEN f
                       ELSE [f EXCEPT !.result = [k \in Kinds |-> IF f.slot[k] = m.id THEN m.text ELSE @[k]]]
    BY DEF HandleDocument
  <1>3. Sound(c, s, T) /\ Texts(T) /\ AllOrNone(c)  BY PollFinds
  <1>4. ClientTyped(c, T) /\ Tracked(c) /\ Painted(c)  BY <1>3 DEF Sound
  <1> DEFINE pending == c.pending \ {m.id}
             document == c.document \ {r}
             initId == c.initId
             semantic == c.semantic
             e == Took(c, pending, initId, document, semantic)
             results == IF m.error \/ ~InContext(r) THEN c.result
                        ELSE [k \in Kinds |-> IF c.slot[k] = m.id THEN m.text ELSE c.result[k]]
             g == [e EXCEPT !.result = results]
  <1>5. pending \in SUBSET Nat /\ initId \in Nat /\ document \subseteq c.document /\ semantic \subseteq c.semantic
    BY <1>4 DEF ClientTyped
  <1>6. m.text \in T
    <2>1. c.output \in Seq(AnswerSet(T))  BY <1>4 DEF ClientTyped
    <2>2. m \in AnswerSet(T)  BY <1>1, <2>1, HeadTailProperties
    <2> QED BY <2>2 DEF AnswerSet
  <1>7. results \in [Kinds -> T]
    <2>1. c.result \in [Kinds -> T]  BY <1>4 DEF ClientTyped
    <2> HIDE DEF m, T
    <2> QED BY <1>6, <2>1
  <1>8. client' = g
    <2>1. [Settled(m.id) EXCEPT !.document = @ \ {r}] = e
      <3> HIDE DEF m
      <3> QED BY <1>4 DEF Settled, Rest, Took, ClientTyped
    <2>2. e.slot = c.slot /\ e.result = c.result
      <3> HIDE DEF m
      <3> QED BY <1>4 DEF Took, ClientTyped
    <2>3. e = [e EXCEPT !.result = e.result]
      <3> HIDE DEF m
      <3> QED BY <1>4 DEF Took, ClientTyped
    <2>4. client' = IF m.error \/ ~InContext(r) THEN e
                    ELSE [e EXCEPT !.result = [k \in Kinds |-> IF e.slot[k] = m.id THEN m.text ELSE e.result[k]]]
      <3> HIDE DEF e, m
      <3> QED BY <1>2, <2>1
    <2> HIDE DEF e, m
    <2>5. CASE m.error \/ ~InContext(r)  BY <2>2, <2>3, <2>4, <2>5
    <2>6. CASE ~(m.error \/ ~InContext(r))
      <3>1. results = [k \in Kinds |-> IF e.slot[k] = m.id THEN m.text ELSE e.result[k]]  BY <2>2, <2>6
      <3> QED BY <2>4, <2>6, <3>1
    <2> QED BY <2>5, <2>6
  <1> HIDE DEF c, s, T, results
  <1>9. /\ ClientTyped(e, T) /\ e.output = Tail(c.output) /\ e.pending = pending /\ e.initId = initId
        /\ e.document = document /\ e.semantic = semantic /\ e.stdin = c.stdin
        /\ e.running = c.running /\ e.nextId = c.nextId /\ e.slot = c.slot /\ Rest3(c, e)
        /\ e.dirty = c.dirty /\ e.initialized = c.initialized /\ e.typesKnown = c.typesKnown
        /\ e.started = c.started
    <2> HIDE DEF pending, initId, document, semantic
    <2> QED BY <1>1, <1>4, <1>5, TookFields
  <1> HIDE DEF e
  <1>10. /\ g.output = Tail(c.output) /\ g.pending = pending /\ g.initId = initId
         /\ g.document = document /\ g.semantic = semantic /\ g.stdin = c.stdin
         /\ g.running = c.running /\ g.nextId = c.nextId /\ g.slot = c.slot
         /\ g.open = c.open /\ g.dirty = c.dirty /\ g.tokens = c.tokens /\ g.initialized = c.initialized
         /\ g.result = results
    <2> HIDE DEF pending, initId, document, semantic
    <2> QED BY <1>9 DEF ClientTyped, Rest3
  <1>11. ClientTyped(g, T)
    <2> HIDE DEF pending, initId, document, semantic
    <2>1. g.open = e.open  BY <1>9, <1>10 DEF Rest3
    <2> QED BY <1>7, <1>9, <2>1 DEF ClientTyped
  <1> HIDE DEF g
  <1>12. Painted(g)  BY <1>4, <1>10 DEF Painted
  <1>13. g.pending = WaitingIds(g) /\ (g.initialized => g.initId = 0)
    <2>1. /\ \A x \in c.document : x # r => x.id # m.id
          /\ \A x \in c.semantic : x.id # m.id
          /\ c.initId # m.id
      BY <1>2, <1>4 DEF Tracked
    <2>2. c.pending = WaitingIds(c) /\ (c.initialized => c.initId = 0)  BY <1>4 DEF Tracked
    <2> HIDE DEF m
    <2>3. WaitingIds(g) = WaitingIds(c) \ {m.id}
      BY <1>2, <1>10, <2>1 DEF WaitingIds
    <2> QED BY <1>10, <2>2, <2>3
  <1>14. Sound(g, s, T)
    <2>1. g.document \subseteq c.document /\ g.semantic \subseteq c.semantic /\ g.initId \in {0, c.initId}
      BY <1>10
    <2> QED BY <1>1, <1>3, <1>10, <1>11, <1>12, <1>13, <2>1, TakeSound
  <1>15. AllOrNone(g)  BY <1>3, <1>10 DEF AllOrNone
  <1>16. m.error \/ m.text = TextOf(c.open[r.path])
    <2> DEFINE a == [id |-> r.id, path |-> r.path, text |-> TextOf(c.open[r.path])]
    <2>1. a \in Asked(c)  BY DEF Asked
    <2>2. Due(a, c.stdin, c.output, s)  BY <1>3, <2>1 DEF Sound, Answered
    <2>3. a.id = r.id /\ a.text = TextOf(c.open[r.path])  OBVIOUS
    <2>4. 1 \in 1..Len(c.output) /\ c.output[1] = m
      <3>1. c.output \in Seq(AnswerSet(T))  BY <1>4 DEF ClientTyped
      <3> QED BY <1>1, <3>1, EmptySeq, HeadTailProperties
    <2> HIDE DEF a, m
    <2>5. Answers(m, a)  BY <2>2, <2>4 DEF Due
    <2> QED BY <1>1, <1>2, <2>3, <2>5 DEF Answers
  <1>17. editor.current # NoPath /\ r.path = editor.current
         /\ TextOf(c.open[r.path]) = TextOf(editor.docs[editor.current])
    <2>1. EditorInv /\ CopyInv /\ r \in client.document  BY DEF IInv, c
    <2>2. r.path = editor.current /\ r.path \in Paths  BY <1>4, <2>1 DEF CopyInv, ClientTyped, DocumentSet
    <2>3. editor.current \in OpenPaths  BY <2>1, <2>2, EditorFields, Constants
    <2> QED BY <2>2, <2>3, Constants, Copied DEF c
  <1>18. Shown
    <2>1. ASSUME NEW k \in Kinds, client'.result[k] \notin {NoText, client.result[k]}
          PROVE  client'.result[k] = TextOf(editor.docs[editor.current])
      <3>1. results[k] \notin {NoText, c.result[k]}  BY <1>8, <1>10, <2>1 DEF c
      <3> HIDE DEF m
      <3>2. ~m.error /\ results[k] = m.text  BY <3>1 DEF results
      <3> QED BY <1>8, <1>10, <1>16, <1>17, <3>2
    <2>2. \A p \in Paths : client'.tokens[p] = client.tokens[p]  BY <1>8, <1>10 DEF c
    <2> QED BY <1>17, <2>1, <2>2 DEF Shown
  <1>19. Polled  BY <1>1, <1>8, <1>10, <1>14, <1>15, <1>18 DEF Polled, c, s, T
  <1> QED BY <1>19, PolledIInv

\* Diagnostics are kept, or dropped.
LEMMA DiagnosticsIInv ==
  ASSUME IInv, HandleDiagnostics
  PROVE  IInv' /\ Shown
  <1> DEFINE c == client
             s == clangd
             T == Text
             m == Head(c.output)
             drop == /\ m.path \in DOMAIN c.open /\ m.text # NoText
                     /\ VersionOf(m.text) # c.open[m.path].version
  <1>1. /\ clangd' = clangd /\ editor' = editor /\ c.output # <<>> /\ m.type = "diagnostics"
        /\ client' = IF drop THEN Rest ELSE [Rest EXCEPT !.diags[m.path] = m.text]
    BY DEF HandleDiagnostics, Incoming
  <1>2. Sound(c, s, T) /\ Texts(T) /\ AllOrNone(c)  BY PollFinds
  <1>3. ClientTyped(c, T) /\ Tracked(c) /\ Painted(c)  BY <1>2 DEF Sound
  <1> DEFINE pending == c.pending
             initId == c.initId
             document == c.document
             semantic == c.semantic
             e == Took(c, pending, initId, document, semantic)
             diags == IF drop THEN c.diags ELSE [c.diags EXCEPT ![m.path] = m.text]
             g == [e EXCEPT !.diags = diags]
  <1>4. pending \in SUBSET Nat /\ initId \in Nat /\ document \subseteq c.document /\ semantic \subseteq c.semantic
    BY <1>3 DEF ClientTyped
  <1>5. m.text \in T
    <2>1. c.output \in Seq(AnswerSet(T))  BY <1>3 DEF ClientTyped
    <2>2. m \in AnswerSet(T)  BY <1>1, <2>1, HeadTailProperties
    <2> QED BY <2>2 DEF AnswerSet
  <1>6. diags \in [Paths -> T]
    <2>1. c.diags \in [Paths -> T]  BY <1>3 DEF ClientTyped
    <2> HIDE DEF m, T, drop
    <2> QED BY <1>5, <2>1
  <1>7. client' = g
    <2>1. Rest = e
      <3> HIDE DEF m
      <3> QED BY <1>3 DEF Rest, Took, ClientTyped
    <2>2. e.diags = c.diags /\ e = [e EXCEPT !.diags = e.diags]
      <3> HIDE DEF m
      <3> QED BY <1>3 DEF Took, ClientTyped
    <2> HIDE DEF e, m, drop
    <2> QED BY <1>1, <2>1, <2>2
  <1> HIDE DEF c, s, T, diags
  <1>8. /\ ClientTyped(e, T) /\ e.output = Tail(c.output) /\ e.pending = pending /\ e.initId = initId
        /\ e.document = document /\ e.semantic = semantic /\ e.stdin = c.stdin
        /\ e.running = c.running /\ e.nextId = c.nextId /\ e.slot = c.slot /\ Rest3(c, e)
        /\ e.dirty = c.dirty /\ e.initialized = c.initialized /\ e.typesKnown = c.typesKnown
        /\ e.started = c.started
    <2> HIDE DEF pending, initId, document, semantic
    <2> QED BY <1>1, <1>3, <1>4, TookFields
  <1> HIDE DEF e
  <1>9. /\ g.output = Tail(c.output) /\ g.pending = pending /\ g.initId = initId
        /\ g.document = document /\ g.semantic = semantic /\ g.stdin = c.stdin
        /\ g.running = c.running /\ g.nextId = c.nextId /\ g.slot = c.slot
        /\ g.open = c.open /\ g.dirty = c.dirty /\ g.tokens = c.tokens /\ g.initialized = c.initialized
        /\ g.result = c.result
    <2> HIDE DEF pending, initId, document, semantic
    <2> QED BY <1>8 DEF ClientTyped, Rest3
  <1>10. ClientTyped(g, T)
    <2> HIDE DEF pending, initId, document, semantic
    <2>1. g.open = e.open  BY <1>8, <1>9 DEF Rest3
    <2> QED BY <1>6, <1>8, <2>1 DEF ClientTyped
  <1> HIDE DEF g
  <1>11. Painted(g)  BY <1>3, <1>9 DEF Painted
  <1>12. g.pending = WaitingIds(g) /\ (g.initialized => g.initId = 0)
    BY <1>3, <1>9 DEF Tracked, WaitingIds
  <1>13. Sound(g, s, T)
    <2>1. g.document \subseteq c.document /\ g.semantic \subseteq c.semantic /\ g.initId \in {0, c.initId}
      BY <1>9
    <2> QED BY <1>1, <1>2, <1>9, <1>10, <1>11, <1>12, <2>1, TakeSound
  <1>14. AllOrNone(g)  BY <1>2, <1>9 DEF AllOrNone
  <1>15. Polled  BY <1>1, <1>7, <1>9, <1>13, <1>14 DEF Polled, NothingNew, c, s, T
  <1> QED BY <1>15, PolledIInv

\* The owner is told that clangd has gone.
LEMMA ExitIInv ==
  ASSUME IInv, ReportExit
  PROVE  IInv' /\ Shown
  <1> DEFINE c == client
             s == clangd
             T == Text
             e == [c EXCEPT !.exitReported = TRUE, !.initialized = FALSE]
  <1>1. ~c.running /\ client' = e /\ clangd' = clangd /\ editor' = editor
    BY DEF ReportExit
  <1>2. Sound(c, s, T) /\ Texts(T) /\ AllOrNone(c)  BY PollFinds
  <1>3. ClientTyped(c, T) /\ Tracked(c) /\ Painted(c)  BY <1>2 DEF Sound
  <1> HIDE DEF c, s, T
  <1>4. /\ Rest2(c, e) /\ Rest3(c, e) /\ e.document = c.document /\ e.semantic = c.semantic
        /\ e.dirty = c.dirty /\ e.initialized = FALSE /\ e.running = c.running /\ e.output = c.output
        /\ e.stdin = c.stdin
    BY <1>3 DEF ClientTyped, Rest2, Rest3
  <1>5. ClientTyped(e, T)
    <2>1. e.open = c.open  BY <1>4 DEF Rest3
    <2> QED BY <1>3, <2>1 DEF ClientTyped
  <1> HIDE DEF e
  <1>6. Tracked(e)
    <2>1. WaitingIds(e) = WaitingIds(c)  BY <1>4 DEF WaitingIds, Rest2
    <2> QED BY <1>3, <1>4, <2>1 DEF Tracked, Rest2
  <1>7. Painted(e)  BY <1>3, <1>4 DEF Painted, Rest3
  <1>8. Asked(e) = Asked(c)  BY <1>4 DEF Asked, Rest3
  <1>9. Sound(e, s, T)
    <2>1. e.nextId >= c.nextId  BY <1>3, <1>4 DEF Rest2, ClientTyped
    <2> QED BY <1>1, <1>2, <1>4, <1>5, <1>6, <1>7, <1>8, <2>1, QuietSound
  <1>10. AllOrNone(e)  BY <1>1, <1>4 DEF AllOrNone
  <1>11. Polled  BY <1>1, <1>4, <1>9, <1>10 DEF Polled, NothingNew, Rest3, c, s, T
  <1> QED BY <1>11, PolledIInv

\* clangd exits by itself.
LEMMA DiesIInv ==
  ASSUME IInv, ServerDies
  PROVE  IInv' /\ Shown
  <1> DEFINE c == client
             s == clangd
             T == Text
             e == [c EXCEPT !.running = FALSE, !.stdin = <<>>]
  <1>1. client' = e /\ clangd' = IdleServer /\ editor' = editor
    BY DEF ServerDies
  <1>2. Sound(c, s, T) /\ AllOrNone(c)  BY PollFinds
  <1> HIDE DEF c, s, T
  <1>3. Sound(e, IdleServer, T) /\ Rest2(c, e) /\ Rest3(c, e) /\ e.document = c.document
        /\ e.initialized = c.initialized /\ ~e.running
    BY <1>2, GoneSound
  <1> HIDE DEF e
  <1>4. AllOrNone(e)  BY <1>2, <1>3 DEF AllOrNone, Rest3
  <1>5. Polled  BY <1>1, <1>3, <1>4 DEF Polled, NothingNew, Rest3, c, T
  <1> QED BY <1>5, PolledIInv

\* The ids of requests and of the handshake, when one of them is answered.
LEMMA WaitingWithout ==
  ASSUME NEW T, NEW c, ClientTyped(c, T), Tracked(c), c.initId # 0
  PROVE  /\ c.initId \in c.pending /\ ~c.initialized
         /\ c.pending \ {c.initId} = {r.id : r \in c.document} \union {r.id : r \in c.semantic}
  <1>1. c.pending = WaitingIds(c)  BY DEF Tracked
  <1>2. \A r \in c.document : r.id # c.initId  BY DEF Tracked
  <1>3. \A q \in c.semantic : q.id # c.initId  BY DEF Tracked
  <1> QED BY <1>1, <1>2, <1>3 DEF WaitingIds, Tracked

\* clangd refuses to start: its process is ended.
LEMMA RefusedIInv ==
  ASSUME IInv, HandleInitializeError
  PROVE  IInv' /\ Shown
  <1> DEFINE c == client
             s == clangd
             T == Text
             m == Head(c.output)
             gone == [c EXCEPT !.running = FALSE, !.stdin = <<>>]
  <1>1. /\ clangd' = IdleServer /\ editor' = editor /\ c.output # <<>>
        /\ m.id \in c.pending /\ m.id = c.initId
        /\ client' = [Settled(m.id) EXCEPT !.initId = 0, !.started = FALSE, !.running = FALSE, !.stdin = <<>>]
    BY DEF HandleInitializeError, Incoming
  <1>2. Sound(c, s, T) /\ Texts(T) /\ AllOrNone(c)  BY PollFinds
  <1>3. ClientTyped(c, T) /\ Tracked(c) /\ Painted(c)  BY <1>2 DEF Sound
  <1> DEFINE pending == c.pending \ {c.initId}
             document == c.document
             semantic == c.semantic
             g == Took(gone, pending, 0, document, semantic)
             f == [g EXCEPT !.started = FALSE]
  <1>4. c.initId # 0
    <2>1. \A i \in c.pending : 0 < i  BY <1>3 DEF Tracked
    <2> QED BY <1>1, <2>1
  <1>5. client' = f
    <2> HIDE DEF m
    <2> QED BY <1>1, <1>3 DEF Settled, Rest, Took, ClientTyped
  <1> HIDE DEF c, s, T, m
  <1>6. Sound(gone, IdleServer, T) /\ Rest2(c, gone) /\ Rest3(c, gone) /\ gone.document = c.document
        /\ gone.initialized = c.initialized /\ ~gone.running
    BY <1>2, GoneSound
  <1>7. gone.output = c.output /\ gone.semantic = c.semantic /\ gone.dirty = c.dirty /\ gone.stdin = <<>>
    BY <1>3 DEF ClientTyped
  <1> HIDE DEF gone
  <1>8. ClientTyped(gone, T) /\ Painted(gone) /\ Tracked(gone)  BY <1>6 DEF Sound
  <1>9. /\ ClientTyped(g, T) /\ g.output = Tail(gone.output) /\ g.pending = pending /\ g.initId = 0
        /\ g.document = document /\ g.semantic = semantic /\ g.stdin = gone.stdin
        /\ g.running = gone.running /\ g.nextId = gone.nextId /\ g.slot = gone.slot /\ Rest3(gone, g)
        /\ g.dirty = gone.dirty /\ g.initialized = gone.initialized /\ g.typesKnown = gone.typesKnown
        /\ g.started = gone.started
    <2>1. pending \in SUBSET Nat /\ 0 \in Nat /\ document \subseteq gone.document /\ semantic \subseteq gone.semantic
      BY <1>3, <1>6, <1>7 DEF ClientTyped
    <2>2. gone.output # <<>>  BY <1>1, <1>7
    <2> HIDE DEF pending, document, semantic
    <2> DEFINE zero == 0
    <2>3. zero \in Nat /\ zero = 0  OBVIOUS
    <2> HIDE DEF zero
    <2> QED BY <1>8, <2>1, <2>2, <2>3, TookFields
  <1> HIDE DEF g
  <1>10. /\ f.output = Tail(gone.output) /\ f.pending = pending /\ f.initId = 0
         /\ f.document = c.document /\ f.semantic = c.semantic /\ f.stdin = gone.stdin
         /\ f.running = gone.running /\ f.nextId = gone.nextId /\ f.slot = gone.slot
         /\ f.open = gone.open /\ f.dirty = gone.dirty /\ f.tokens = gone.tokens /\ f.result = gone.result
    <2> HIDE DEF pending
    <2> QED BY <1>9 DEF ClientTyped, Rest3
  <1>11. ClientTyped(f, T)
    <2>1. f.open = g.open  BY <1>9, <1>10 DEF Rest3
    <2> HIDE DEF pending
    <2> QED BY <1>9, <2>1 DEF ClientTyped
  <1> HIDE DEF f
  <1>12. Painted(f)  BY <1>6, <1>7, <1>8, <1>10 DEF Painted
  <1>13. f.pending = WaitingIds(f)
    BY <1>3, <1>4, <1>10, WaitingWithout DEF WaitingIds
  <1>14. Sound(f, IdleServer, T)
    <2>1. gone.output # <<>> /\ f.document \subseteq gone.document /\ f.semantic \subseteq gone.semantic
          /\ f.initId \in {0, gone.initId} /\ (f.initialized => f.initId = 0)
      BY <1>1, <1>6, <1>7, <1>10
    <2> QED BY <1>6, <1>10, <1>11, <1>12, <1>13, <2>1, TakeSound
  <1>15. f.open = c.open /\ ~f.running /\ f.tokens = c.tokens /\ f.result = c.result  BY <1>6, <1>10 DEF Rest3
  <1>16. AllOrNone(f)
    <2>1. ~f.initialized
      <3>1. ~c.initialized  BY <1>3, <1>4, WaitingWithout
      <3>2. f.initialized = g.initialized  BY <1>9 DEF f, ClientTyped
      <3> QED BY <1>6, <1>9, <3>1, <3>2
    <2> QED BY <1>15, <2>1 DEF AllOrNone
  <1>17. Polled  BY <1>1, <1>5, <1>10, <1>14, <1>15, <1>16 DEF Polled, NothingNew, c, T
  <1> QED BY <1>17, PolledIInv

\* clangd has had a message of its input.
LEMMA ReadSound ==
  ASSUME NEW T, Texts(T), NEW c, NEW s, Sound(c, s, T), c.running, c.stdin # <<>>,
         NEW e, e = [c EXCEPT !.stdin = Tail(c.stdin)]
  PROVE  /\ Sound(e, Receive(s, Head(c.stdin)), T) /\ Rest1(c, e) /\ Rest2(c, e) /\ Rest3(c, e)
         /\ e.document = c.document
  <1> DEFINE q == c.stdin
             m == Head(q)
             t == Tail(q)
             n == Len(q)
             z == Receive(s, m)
  <1>1. ClientTyped(c, T) /\ ServerTyped(s, T) /\ Tracked(c) /\ Painted(c)  BY DEF Sound
  <1>2. /\ q \in Seq(MessageSet(T)) /\ n \in Nat \ {0} /\ m \in MessageSet(T) /\ m = q[1]
        /\ t \in Seq(MessageSet(T)) /\ Len(t) = n - 1
        /\ \A i \in 1..(n - 1) : t[i] = q[i + 1]
    <2>1. q \in Seq(MessageSet(T))  BY <1>1 DEF ClientTyped
    <2> QED BY <2>1, EmptySeq, HeadTailProperties
  <1>3. /\ Rest1(c, e) /\ Rest2(c, e) /\ Rest3(c, e) /\ e.document = c.document
        /\ e.semantic = c.semantic /\ e.dirty = c.dirty /\ e.stdin = t
    BY <1>1 DEF ClientTyped, Rest1, Rest2, Rest3
  <1> HIDE DEF q, m, t, n
  <1>4. ClientTyped(e, T)
    <2>1. e.open = c.open  BY <1>3 DEF Rest3
    <2>2. e = [c EXCEPT !.stdin = t]  BY DEF t, q
    <2> QED BY <1>1, <1>2, <2>1, <2>2 DEF ClientTyped
  <1>5. z.docs = DocsAfter(s.docs, m) /\ z.jobs = JobsAfter(s, m) /\ z.fault = (s.fault \/ Wrong(s.docs, m))
        /\ z = [docs |-> z.docs, jobs |-> z.jobs, fault |-> z.fault]
    BY DEF Receive
  <1> HIDE DEF z
  <1>6. /\ m.id \in Nat /\ m.text \in T
        /\ m.type \in {"initialize", "initialized", "didOpen", "didChange", "didClose", "request", "semantic"}
        /\ m.type \notin {"initialize", "initialized"} => m.path \in Paths
    BY <1>2 DEF MessageSet
  <1>7. MapOf(z.docs, Paths, T)
    <2>1. MapOf(s.docs, Paths, T)  BY <1>1 DEF ServerTyped
    <2>2. CASE m.type \in {"didOpen", "didChange"}
      <3>1. z.docs = With(s.docs, m.path, m.text)  BY <1>5, <2>2 DEF DocsAfter
      <3>2. m.path \in Paths  BY <1>6, <2>2
      <3> QED BY <1>6, <2>1, <3>1, <3>2 DEF MapOf, With
    <2>3. CASE m.type = "didClose"
      <3>1. z.docs = Without(s.docs, m.path)  BY <1>5, <2>3 DEF DocsAfter
      <3> QED BY <2>1, <3>1 DEF MapOf, Without
    <2>4. CASE m.type \notin {"didOpen", "didChange", "didClose"}
      <3>1. z.docs = s.docs  BY <1>5, <2>4 DEF DocsAfter
      <3> QED BY <2>1, <3>1
    <2> QED BY <2>2, <2>3, <2>4
  <1>8. \A j \in z.jobs :
          \/ j \in s.jobs
          \/ j \in AnswerSet(T) /\ j.type = "diagnostics"
          \/ /\ j \in AnswerSet(T) /\ j.type = "response" /\ j.id = m.id
             /\ m.type \in {"request", "semantic"} =>
                  j.error \/ (m.path \in DOMAIN s.docs /\ j.text = s.docs[m.path])
    <2>1. NoText \in T  BY DEF Texts
    <2>2. CASE m.type = "initialize"
      <3>1. z.jobs = s.jobs \union {Response(m.id, NoText, FALSE)}  BY <1>5, <2>2 DEF JobsAfter
      <3>2. Response(m.id, NoText, FALSE) \in AnswerSet(T)  BY <1>6, <2>1 DEF Response, AnswerSet
      <3>3. Response(m.id, NoText, FALSE).type = "response" /\ Response(m.id, NoText, FALSE).id = m.id
        BY DEF Response
      <3> QED BY <2>2, <3>1, <3>2, <3>3
    <2>3. CASE m.type = "initialized"
      <3>1. z.jobs = s.jobs  BY <1>5, <2>3 DEF JobsAfter
      <3> QED BY <3>1
    <2>4. CASE m.type \in {"didOpen", "didChange"}
      <3>1. \A j \in z.jobs : j \in s.jobs \/ j = Diagnostics(m.path, m.text)  BY <1>5, <2>4 DEF JobsAfter
      <3>2. Diagnostics(m.path, m.text) \in AnswerSet(T) /\ Diagnostics(m.path, m.text).type = "diagnostics"
        BY <1>6, <2>4 DEF Diagnostics, AnswerSet
      <3> QED BY <3>1, <3>2
    <2>5. CASE m.type = "didClose"
      <3>1. \A j \in z.jobs : j \in s.jobs \/ j = Diagnostics(m.path, NoText)  BY <1>5, <2>5 DEF JobsAfter
      <3>2. Diagnostics(m.path, NoText) \in AnswerSet(T) /\ Diagnostics(m.path, NoText).type = "diagnostics"
        BY <1>6, <2>1, <2>5 DEF Diagnostics, AnswerSet
      <3> QED BY <3>1, <3>2
    <2>6. CASE m.type \in {"request", "semantic"} /\ m.path \in DOMAIN s.docs
      <3> DEFINE text == s.docs[m.path]
                 j == Response(m.id, text, FALSE)
      <3>1. z.jobs = s.jobs \union {j}  BY <1>5, <2>6 DEF JobsAfter
      <3>2. text \in T  BY <1>1, <2>6 DEF ServerTyped, MapOf
      <3> HIDE DEF text
      <3>3. j \in AnswerSet(T) /\ j.type = "response" /\ j.id = m.id /\ j.text = text
        BY <1>6, <3>2 DEF Response, AnswerSet
      <3> HIDE DEF j
      <3> QED BY <2>6, <3>1, <3>3 DEF text
    <2>7. CASE m.type \in {"request", "semantic"} /\ m.path \notin DOMAIN s.docs
      <3> DEFINE j == Response(m.id, NoText, TRUE)
      <3>1. z.jobs = s.jobs \union {j}  BY <1>5, <2>7 DEF JobsAfter
      <3>2. j \in AnswerSet(T) /\ j.type = "response" /\ j.id = m.id /\ j.error
        BY <1>6, <2>1 DEF Response, AnswerSet
      <3> HIDE DEF j
      <3> QED BY <2>7, <3>1, <3>2
    <2> QED BY <1>6, <2>2, <2>3, <2>4, <2>5, <2>6, <2>7
  <1>9. ServerTyped(z, T)
    <2>1. z.jobs \subseteq AnswerSet(T)
      <3>1. s.jobs \subseteq AnswerSet(T)  BY <1>1 DEF ServerTyped
      <3> QED BY <1>8, <3>1
    <2>2. z.fault \in BOOLEAN  BY <1>5
    <2> QED BY <1>5, <1>7, <2>1, <2>2 DEF ServerTyped
  <1>10. m.id < c.nextId /\ \A i \in 1..Len(t) : t[i].id < c.nextId
    <2>1. \A i \in 1..n : q[i].id < c.nextId  BY <1>1 DEF Tracked, n, q
    <2>2. 1 \in 1..n /\ \A i \in 1..(n - 1) : i + 1 \in 1..n  BY <1>2
    <2> QED BY <1>2, <2>1, <2>2
  <1>11. Tracked(e)
    <2>1. WaitingIds(e) = WaitingIds(c)  BY <1>3 DEF WaitingIds, Rest2
    <2>2. \A i \in 1..Len(e.stdin) : e.stdin[i].id < c.nextId  BY <1>3, <1>10
    <2>3. /\ \A r \in c.document : r.id # 0
          /\ \A r \in c.semantic : r.id # 0
          /\ 0 < c.nextId
      BY <1>1, WaitingNotZero
    <2>4. \A i \in 1..Len(e.output) : e.output[i].type = "response" => e.output[i].id < c.nextId
      BY <1>1, <1>3 DEF Tracked, Rest1
    <2>5. e.pending = WaitingIds(e) /\ (e.initialized => e.initId = 0)
      BY <1>1, <1>3, <2>1 DEF Tracked, Rest1, Rest2
    <2>6. e.initId \in {0, c.initId} /\ e.nextId = c.nextId /\ e.slot = c.slot
      BY <1>3 DEF Rest2
    <2> QED BY <1>1, <1>3, <2>2, <2>3, <2>4, <2>5, <2>6, TrackedLess
  <1>12. JobsTracked(e, z)
    <2>1. e.nextId = c.nextId /\ JobsTracked(c, s)  BY <1>3 DEF Rest2, Sound
    <2> QED BY <1>8, <1>10, <2>1 DEF JobsTracked
  <1>13. /\ \A i \in 0..(n - 1) : Told(z.docs, t)[i] = Told(s.docs, q)[i + 1]
         /\ Told(s.docs, q)[0] = s.docs
    <2>1. s.docs \in Maps(T)  BY <1>1, ServerMaps
    <2> DEFINE D == s.docs
    <2>2. D \in Maps(T) /\ q # <<>>  BY <2>1 DEF q
    <2> HIDE DEF D
    <2>3. \A i \in 0..(Len(q) - 1) : Told(DocsAfter(D, Head(q)), Tail(q))[i] = Told(D, q)[i + 1]
      BY <1>2, <2>2, ToldTail
    <2>4. Trace(Told(D, q), D, q, T)  BY <1>2, <2>2, ToldTrace
    <2>5. Told(D, q)[0] = D  BY <2>4 DEF Trace
    <2> QED BY <1>5, <2>3, <2>5 DEF D, m, t, n
  <1>14. Linked(e, z)
    <2>1. Mirrored(c, s.docs) /\ (~MaySaveAs => ~s.fault /\ Faultless(s.docs, q))
      BY DEF Sound, Linked, q
    <2>2. e.running /\ e.open = c.open  BY <1>3 DEF Rest1, Rest3
    <2>3. Told(z.docs, e.stdin)[Len(e.stdin)] = Told(s.docs, c.stdin)[Len(c.stdin)]
      <3>1. Told(z.docs, t)[n - 1] = Told(s.docs, q)[(n - 1) + 1] /\ (n - 1) + 1 = n
        <4>1. n - 1 \in 0..(n - 1)  BY <1>2
        <4> QED BY <1>2, <1>13, <4>1
      <3> QED BY <1>2, <1>3, <3>1 DEF n, q
    <2>4. Mirrored(e, z.docs)  BY <2>1, <2>2, <2>3 DEF Mirrored
    <2>5. ASSUME ~MaySaveAs PROVE ~z.fault /\ Faultless(z.docs, t)
      <3>1. \A i \in 1..n : ~Wrong(Told(s.docs, q)[i - 1], q[i])  BY <2>1, <2>5 DEF Faultless, n
      <3>2. ~Wrong(s.docs, m)
        <4>1. 1 \in 1..n /\ 1 - 1 = 0  BY <1>2
        <4> QED BY <1>2, <1>13, <3>1, <4>1
      <3>3. ASSUME NEW i \in 1..(n - 1) PROVE ~Wrong(Told(z.docs, t)[i - 1], t[i])
        <4>1. i - 1 \in 0..(n - 1) /\ (i - 1) + 1 = i /\ i + 1 \in 1..n /\ (i + 1) - 1 = i  BY <1>2
        <4>2. Told(z.docs, t)[i - 1] = Told(s.docs, q)[i]  BY <1>13, <4>1
        <4>3. ~Wrong(Told(s.docs, q)[i], q[i + 1])  BY <3>1, <4>1
        <4> QED BY <1>2, <4>2, <4>3
      <3> QED BY <1>2, <1>5, <2>1, <2>5, <3>2, <3>3 DEF Faultless
    <2> QED BY <1>3, <2>2, <2>4, <2>5 DEF Linked
  <1>15. Painted(e)  BY <1>1, <1>3 DEF Painted, Rest3
  <1>16. Answered(e, z)
    <2>1. Asked(e) = Asked(c)  BY <1>3 DEF Asked, Rest3
    <2>2. ASSUME NEW a \in Asked(c) PROVE Due(a, t, c.output, z)
      <3>1. Due(a, q, c.output, s)  BY <2>2 DEF Sound, Answered, q
      <3>2. \A i \in 1..n : q[i].id = a.id =>
               /\ q[i].type \in {"request", "semantic"} /\ q[i].path = a.path
               /\ a.path \in DOMAIN Told(s.docs, q)[i - 1]
               /\ Told(s.docs, q)[i - 1][a.path] = a.text
        BY <3>1 DEF Due, n
      <3>3. ASSUME NEW i \in 1..(n - 1), t[i].id = a.id
            PROVE  /\ t[i].type \in {"request", "semantic"} /\ t[i].path = a.path
                   /\ a.path \in DOMAIN Told(z.docs, t)[i - 1]
                   /\ Told(z.docs, t)[i - 1][a.path] = a.text
        <4>1. i - 1 \in 0..(n - 1) /\ (i - 1) + 1 = i /\ i + 1 \in 1..n /\ (i + 1) - 1 = i  BY <1>2
        <4>2. Told(z.docs, t)[i - 1] = Told(s.docs, q)[i] /\ t[i] = q[i + 1]  BY <1>2, <1>13, <4>1
        <4>3. /\ q[i + 1].type \in {"request", "semantic"} /\ q[i + 1].path = a.path
              /\ a.path \in DOMAIN Told(s.docs, q)[i]
              /\ Told(s.docs, q)[i][a.path] = a.text
          BY <3>2, <3>3, <4>1, <4>2
        <4> QED BY <4>2, <4>3
      <3>4. m.id = a.id => /\ m.type \in {"request", "semantic"} /\ m.path = a.path
                           /\ s.docs[m.path] = a.text
        <4>1. 1 \in 1..n /\ 1 - 1 = 0  BY <1>2
        <4> QED BY <1>2, <1>13, <3>2, <4>1
      <3>5. \A j \in z.jobs : Answers(j, a)
        <4>1. \A j \in s.jobs : Answers(j, a)  BY <3>1 DEF Due
        <4> QED BY <1>8, <3>4, <4>1 DEF Answers
      <3> QED BY <1>2, <3>1, <3>3, <3>5 DEF Due
    <2> QED BY <1>3, <2>1, <2>2 DEF Answered, Rest1
  <1> QED BY <1>3, <1>4, <1>9, <1>11, <1>12, <1>14, <1>15, <1>16 DEF Sound, z, m, q

\* clangd reads.
LEMMA ReadsIInv ==
  ASSUME IInv, ServerReads
  PROVE  IInv' /\ Shown
  <1> DEFINE c == client
             s == clangd
             T == Text
             e == [c EXCEPT !.stdin = Tail(c.stdin)]
             z == Receive(s, Head(c.stdin))
  <1>1. c.running /\ c.stdin # <<>> /\ client' = e /\ clangd' = z /\ editor' = editor
    BY DEF ServerReads
  <1>2. Sound(c, s, T) /\ Texts(T) /\ AllOrNone(c)  BY PollFinds
  <1> HIDE DEF c, s, T
  <1>3. Sound(e, z, T) /\ Rest1(c, e) /\ Rest2(c, e) /\ Rest3(c, e) /\ e.document = c.document
    BY <1>1, <1>2, ReadSound
  <1> HIDE DEF e, z
  <1>4. AllOrNone(e)  BY <1>2, <1>3 DEF AllOrNone, Rest1, Rest3
  <1>5. Polled  BY <1>1, <1>3, <1>4 DEF Polled, NothingNew, Rest3, c, T
  <1> QED BY <1>5, PolledIInv

\* The client with a message from clangd, and clangd with one to write less.
Wrote(c, m) == [c EXCEPT !.output = Append(c.output, m)]
Paid(s, j) == [s EXCEPT !.jobs = s.jobs \ {j}]

\* clangd writes an answer it owes, or an error in place of it.
LEMMA WriteSound ==
  ASSUME NEW T, Texts(T), NEW c, NEW s, Sound(c, s, T), NEW j \in s.jobs, NEW m,
         m = j \/ (j.type = "response" /\ m = Response(j.id, NoText, TRUE)),
         NEW e, e = Wrote(c, m), NEW z, z = Paid(s, j)
  PROVE  /\ Sound(e, z, T) /\ Rest3(c, e) /\ e.document = c.document
         /\ e.running = c.running /\ e.initialized = c.initialized
  <1> DEFINE o == Append(c.output, m)
             n == Len(c.output)
  <1>1. ClientTyped(c, T) /\ ServerTyped(s, T) /\ Tracked(c) /\ Painted(c) /\ JobsTracked(c, s)
    BY DEF Sound
  <1>2. /\ j \in AnswerSet(T) /\ m \in AnswerSet(T)
        /\ m.type = "response" => j.type = "response" /\ m.id = j.id
    <2>1. j \in AnswerSet(T)  BY <1>1 DEF ServerTyped
    <2>2. CASE m = j  BY <2>1, <2>2
    <2>3. CASE j.type = "response" /\ m = Response(j.id, NoText, TRUE)
      <3>1. j.id \in Nat  BY <2>1, <2>3 DEF AnswerSet
      <3>2. m \in AnswerSet(T) /\ m.id = j.id  BY <2>3, <3>1 DEF Response, AnswerSet, Texts
      <3> QED BY <2>1, <2>3, <3>2
    <2> QED BY <2>2, <2>3
  <1>3. /\ o \in Seq(AnswerSet(T)) /\ Len(o) = n + 1 /\ n \in Nat /\ o[n + 1] = m
        /\ \A i \in 1..n : o[i] = c.output[i]
    <2>1. c.output \in Seq(AnswerSet(T))  BY <1>1 DEF ClientTyped
    <2> QED BY <1>2, <2>1, AppendProperties
  <1>4. /\ Rest2(c, e) /\ Rest3(c, e) /\ e.document = c.document /\ e.semantic = c.semantic
        /\ e.running = c.running /\ e.initialized = c.initialized /\ e.dirty = c.dirty
        /\ e.stdin = c.stdin /\ e.output = o
    BY <1>1 DEF ClientTyped, Rest2, Rest3, Wrote
  <1>5. ClientTyped(e, T)
    <2>1. e.open = c.open  BY <1>4 DEF Rest3
    <2>2. e = [c EXCEPT !.output = o]  BY DEF Wrote
    <2> HIDE DEF o
    <2> QED BY <1>1, <1>3, <2>1, <2>2 DEF ClientTyped
  <1>6. z.docs = s.docs /\ z.fault = s.fault /\ z.jobs = s.jobs \ {j} /\ ServerTyped(z, T)
    BY <1>1 DEF ServerTyped, Paid
  <1> HIDE DEF o, n
  <1>7. \A i \in 1..(n + 1) : i \in 1..n \/ (i = n + 1 /\ o[i] = m)  BY <1>3
  <1>8. Tracked(e)
    <2>1. WaitingIds(e) = WaitingIds(c)  BY <1>4 DEF WaitingIds, Rest2
    <2>2. \A i \in 1..Len(e.output) : e.output[i].type = "response" => e.output[i].id < c.nextId
      <3>1. \A i \in 1..n : c.output[i].type = "response" => c.output[i].id < c.nextId
        BY <1>1 DEF Tracked, n
      <3>2. m.type = "response" => m.id < c.nextId  BY <1>1, <1>2 DEF JobsTracked
      <3> QED BY <1>3, <1>4, <1>7, <3>1, <3>2
    <2>3. /\ \A r \in c.document : r.id # 0
          /\ \A r \in c.semantic : r.id # 0
          /\ 0 < c.nextId
      BY <1>1, WaitingNotZero
    <2>4. \A i \in 1..Len(e.stdin) : e.stdin[i].id < c.nextId
      BY <1>1, <1>4 DEF Tracked
    <2>5. e.pending = WaitingIds(e) /\ (e.initialized => e.initId = 0)
      BY <1>1, <1>4, <2>1 DEF Tracked, Rest2
    <2>6. e.initId \in {0, c.initId} /\ e.nextId = c.nextId /\ e.slot = c.slot
      BY <1>4 DEF Rest2
    <2> QED BY <1>1, <1>4, <2>2, <2>3, <2>4, <2>5, <2>6, TrackedLess
  <1>9. JobsTracked(e, z)  BY <1>1, <1>4, <1>6 DEF JobsTracked, Rest2
  <1>10. Linked(e, z)
    <2>1. Linked(c, s)  BY DEF Sound
    <2>2. c.running
      <3>1. ~c.running => s.jobs = {}  BY <2>1 DEF Linked, IdleServer
      <3> QED BY <3>1
    <2> QED BY <1>4, <1>6, <2>1, <2>2 DEF Linked, Mirrored, Rest3
  <1>11. Painted(e)  BY <1>1, <1>4 DEF Painted, Rest3
  <1>12. Answered(e, z)
    <2>1. Asked(e) = Asked(c)  BY <1>4 DEF Asked, Rest3
    <2>2. ASSUME NEW a \in Asked(c) PROVE Due(a, c.stdin, o, z)
      <3>1. Due(a, c.stdin, c.output, s)  BY <2>2 DEF Sound, Answered
      <3>2. Answers(j, a) /\ (\A i \in 1..n : Answers(c.output[i], a)) /\ \A i \in z.jobs : Answers(i, a)
        BY <1>6, <3>1 DEF Due, n
      <3>3. Answers(m, a)
        <4>1. CASE m = j  BY <3>2, <4>1
        <4>2. CASE m = Response(j.id, NoText, TRUE)  BY <4>2 DEF Response, Answers
        <4> QED BY <4>1, <4>2
      <3>4. \A i \in 1..Len(o) : Answers(o[i], a)  BY <1>3, <1>7, <3>2, <3>3
      <3> QED BY <1>6, <3>1, <3>2, <3>4 DEF Due
    <2> QED BY <1>4, <2>1, <2>2 DEF Answered
  <1> QED BY <1>4, <1>5, <1>6, <1>8, <1>9, <1>10, <1>11, <1>12 DEF Sound

\* clangd writes.
LEMMA WritesIInv ==
  ASSUME IInv, ServerWrites \/ ServerFails
  PROVE  IInv' /\ Shown
  <1> DEFINE c == client
             s == clangd
             T == Text
  <1>1. PICK j \in s.jobs, m \in s.jobs \union {Response(i.id, NoText, TRUE) : i \in s.jobs} :
          /\ m = j \/ (j.type = "response" /\ m = Response(j.id, NoText, TRUE))
          /\ Write(j, m)
    BY DEF ServerWrites, ServerFails
  <1> DEFINE e == Wrote(c, m)
             z == Paid(s, j)
  <1>2. client' = e /\ clangd' = z /\ editor' = editor  BY <1>1 DEF Write, Wrote, Paid
  <1>3. Sound(c, s, T) /\ Texts(T) /\ AllOrNone(c)  BY PollFinds
  <1> HIDE DEF c, s, T
  <1>4. /\ Sound(e, z, T) /\ Rest3(c, e) /\ e.document = c.document
        /\ e.running = c.running /\ e.initialized = c.initialized
    <2>1. m = j \/ (j.type = "response" /\ m = Response(j.id, NoText, TRUE))  BY <1>1
    <2>2. j \in s.jobs  BY <1>1
    <2>3. Sound(e, z, T)  BY <1>3, <2>1, <2>2, WriteSound
    <2>4. ClientTyped(c, T)  BY <1>3 DEF Sound
    <2> QED BY <2>3, <2>4 DEF Wrote, ClientTyped, Rest3
  <1> HIDE DEF e, z
  <1>5. AllOrNone(e)  BY <1>3, <1>4 DEF AllOrNone, Rest3
  <1>6. Polled  BY <1>2, <1>4, <1>5 DEF Polled, NothingNew, Rest3, c, T
  <1> QED BY <1>6, PolledIInv

\* The handshake is done: the documents are announced, and tokens are asked for.
LEMMA InitializedIInv ==
  ASSUME IInv, HandleInitialized
  PROVE  IInv' /\ Shown
  <1> DEFINE c == client
             s == clangd
             T == Text
             i == Head(client.output).id
             m == Msg("initialized", 0, NoPath, NoText)
             q == SetToSeq(DOMAIN client.open)
             d == SetToSeq(client.dirty)
             f == [Settled(i) EXCEPT !.initId = 0, !.initialized = TRUE, !.typesKnown = TRUE]
             g == Send(f, m)
             h == AnnounceAll(g, q)
             e == QueueAll(h, d)
  <1>1. /\ clangd' = clangd /\ editor' = editor /\ client.output # <<>>
        /\ i \in client.pending /\ i = client.initId /\ client' = e
    BY Zenon DEF HandleInitialized, Incoming
  <1>2. Sound(c, s, T) /\ Texts(T) /\ AllOrNone(c)  BY PollFinds
  <1>3. ClientTyped(c, T) /\ Tracked(c) /\ Painted(c)  BY <1>2 DEF Sound
  <1>4. c.initId # 0
    <2>1. \A x \in c.pending : 0 < x  BY <1>3 DEF Tracked
    <2> QED BY <1>1, <2>1
  <1> HIDE DEF e, h, g, m, q, d
  <1> DEFINE pending == c.pending \ {c.initId}
             document == c.document
             semantic == c.semantic
             k == Took(c, pending, 0, document, semantic)
             l == [k EXCEPT !.initialized = TRUE, !.typesKnown = TRUE]
  <1>5. f = l
    <2> HIDE DEF i
    <2> QED BY <1>1, <1>3 DEF Settled, Rest, Took, ClientTyped
  <1> HIDE DEF f
  <1>6. \A x \in DOMAIN c.open : c.running => ~c.open[x].announced
    BY <1>2, <1>3, <1>4, WaitingWithout DEF AllOrNone
  <1>7. /\ q \in Seq(DOMAIN c.open) /\ DOMAIN c.open \subseteq Paths
        /\ \A x \in 1..Len(q) : q[x] \in DOMAIN c.open
        /\ \A x, y \in 1..Len(q) : q[x] = q[y] => x = y
        /\ \A x \in DOMAIN c.open : \E y \in 1..Len(q) : q[y] = x
    <2> DEFINE S == DOMAIN c.open
    <2>1. IsFiniteSet(S) /\ S \subseteq Paths  BY <1>3, Constants, FS_Subset DEF ClientTyped, MapOf
    <2> HIDE DEF S
    <2>2. /\ SetToSeq(S) \in Seq(S) /\ Len(SetToSeq(S)) \in Nat
          /\ \A x \in 1..Len(SetToSeq(S)) : SetToSeq(S)[x] \in S
          /\ \A x, y \in 1..Len(SetToSeq(S)) : SetToSeq(S)[x] = SetToSeq(S)[y] => x = y
          /\ \A x \in S : \E y \in 1..Len(SetToSeq(S)) : SetToSeq(S)[y] = x
      BY <2>1, Listed
    <2> QED BY <2>1, <2>2 DEF S, q
  <1>8. d \in Seq(Paths)
    <2> DEFINE S == c.dirty
    <2>1. IsFiniteSet(S) /\ S \subseteq Paths  BY <1>3, Constants, FS_Subset DEF ClientTyped
    <2> HIDE DEF S
    <2>2. /\ SetToSeq(S) \in Seq(S) /\ Len(SetToSeq(S)) \in Nat
          /\ \A x \in 1..Len(SetToSeq(S)) : SetToSeq(S)[x] \in S
          /\ \A x, y \in 1..Len(SetToSeq(S)) : SetToSeq(S)[x] = SetToSeq(S)[y] => x = y
          /\ \A x \in S : \E y \in 1..Len(SetToSeq(S)) : SetToSeq(S)[y] = x
      BY <2>1, Listed
    <2>3. SetToSeq(S) \in Seq(Paths)  BY <2>1, <2>2
    <2> QED BY <2>3 DEF S, d
  <1>9. c.output # <<>>  BY <1>1
  <1> HIDE DEF c, s, T
  <1>10. /\ ClientTyped(k, T) /\ k.output = Tail(c.output) /\ k.pending = pending /\ k.initId = 0
         /\ k.document = document /\ k.semantic = semantic /\ k.stdin = c.stdin
         /\ k.running = c.running /\ k.nextId = c.nextId /\ k.slot = c.slot /\ Rest3(c, k)
         /\ k.dirty = c.dirty /\ k.initialized = c.initialized /\ k.typesKnown = c.typesKnown
         /\ k.started = c.started
    <2>1. pending \in SUBSET Nat /\ document \subseteq c.document /\ semantic \subseteq c.semantic
      BY <1>3 DEF ClientTyped
    <2> DEFINE zero == 0
    <2>2. zero \in Nat /\ zero = 0  OBVIOUS
    <2> HIDE DEF pending, document, semantic, zero
    <2> QED BY <1>3, <1>9, <2>1, <2>2, TookFields
  <1> HIDE DEF k
  <1>11. /\ l.output = Tail(c.output) /\ l.pending = pending /\ l.initId = 0
         /\ l.document = c.document /\ l.semantic = c.semantic /\ l.stdin = c.stdin
         /\ l.running = c.running /\ l.nextId = c.nextId /\ l.slot = c.slot
         /\ l.open = c.open /\ l.dirty = c.dirty /\ l.tokens = c.tokens /\ l.initialized = TRUE
         /\ l.result = c.result
    <2> HIDE DEF pending
    <2> QED BY <1>10 DEF ClientTyped, Rest3
  <1>12. ClientTyped(l, T)
    <2>1. l.open = k.open  BY <1>10, <1>11 DEF Rest3
    <2> HIDE DEF pending
    <2> QED BY <1>10, <2>1 DEF ClientTyped
  <1> HIDE DEF l
  <1>13. Painted(l)  BY <1>3, <1>11 DEF Painted
  <1>14. l.pending = WaitingIds(l)
    BY <1>3, <1>4, <1>11, WaitingWithout DEF WaitingIds
  <1>15. Sound(l, s, T)
    <2>1. l.document \subseteq c.document /\ l.semantic \subseteq c.semantic
          /\ l.initId \in {0, c.initId} /\ (l.initialized => l.initId = 0)
      BY <1>11
    <2> QED BY <1>2, <1>9, <1>11, <1>12, <1>13, <1>14, <2>1, TakeSound
  <1>16. /\ Sound(g, s, T) /\ g.open = c.open /\ g.document = c.document /\ g.initialized /\ g.running = c.running
         /\ g.tokens = c.tokens /\ g.result = c.result
    <2>1. m \in MessageSet(T) /\ m.id = 0 /\ m.type = "initialized"
      BY <1>2 DEF Msg, MessageSet, Texts, m
    <2>2. /\ g = [l EXCEPT !.stdin = Sent(l, m)] /\ Sent(l, m) \in Seq(MessageSet(T)) /\ ClientTyped(g, T)
      BY <1>5, <1>12, <2>1, SendFields DEF g
    <2> DEFINE o == Sent(l, m)
    <2>3. g.stdin = o /\ Rest1(l, g) /\ Rest2(l, g) /\ Rest3(l, g) /\ g.document = l.document
          /\ g.semantic = l.semantic /\ g.dirty = l.dirty
      <3> HIDE DEF o
      <3>1. g = [l EXCEPT !.stdin = o]  BY <2>2 DEF o
      <3> QED BY <1>12, <3>1 DEF ClientTyped, Rest1, Rest2, Rest3
    <2>4. Painted(g)  BY <1>13, <2>3 DEF Painted, Rest3
    <2>5. l.running => /\ Mirrors(g, DocsAfter(Heard(s, l.stdin), m))
                       /\ ~Wrong(Heard(s, l.stdin), m)
      <3>1. l.running => Mirrors(l, Heard(s, l.stdin))  BY <1>15, SoundMirrors
      <3>2. DocsAfter(Heard(s, l.stdin), m) = Heard(s, l.stdin)  BY <2>1 DEF DocsAfter
      <3>3. ~Wrong(Heard(s, l.stdin), m)  BY <2>1 DEF Wrong
      <3> QED BY <2>3, <3>1, <3>2, <3>3 DEF Mirrors, Rest3
    <2>6. \A r \in l.document : TextOf(g.open[r.path]) = TextOf(l.open[r.path])  BY <2>3 DEF Rest3
    <2>7. Sound(g, s, T)  BY <1>15, <2>1, <2>2, <2>3, <2>4, <2>5, <2>6, TellSound
    <2> QED BY <1>11, <2>3, <2>7 DEF Rest1, Rest3
  <1>17. Announced(g, h, s, T, q, Len(q))
    <2>1. q \in Seq(Paths)  BY <1>7
    <2>2. g.running => \A x \in DOMAIN g.open : ~g.open[x].announced  BY <1>6, <1>16
    <2>3. \A x \in 1..Len(q) : q[x] \in DOMAIN g.open  BY <1>7, <1>16
    <2>4. Announced(g, AnnounceAll(g, q), s, T, q, Len(q))
      BY <1>2, <1>7, <1>16, <2>1, <2>2, <2>3, AnnounceAllSound
    <2> QED BY <2>4 DEF h
  <1>18. /\ Sound(h, s, T) /\ h.document = c.document /\ h.initialized
         /\ DOMAIN h.open = DOMAIN c.open /\ h.tokens = c.tokens /\ h.result = c.result
         /\ \A x \in DOMAIN c.open : TextOf(h.open[x]) = TextOf(c.open[x]) /\ h.open[x].announced
    <2>1. /\ Sound(h, s, T) /\ Rest1(g, h) /\ h.document = g.document /\ DOMAIN h.open = DOMAIN g.open
          /\ h.tokens = g.tokens /\ h.result = g.result
          /\ \A x \in DOMAIN h.open : TextOf(h.open[x]) = TextOf(g.open[x])
          /\ \A x \in DOMAIN h.open : (\E y \in 1..Len(q) : q[y] = x) => h.open[x].announced
      BY <1>17 DEF Announced
    <2> QED BY <1>7, <1>16, <2>1 DEF Rest1
  <1>19. Queued(h, e, s, T)
    <2>1. Queued(h, QueueAll(h, d), s, T)  BY <1>2, <1>8, <1>18, QueueAllSound
    <2> QED BY <2>1 DEF e
  <1>20. /\ Sound(e, s, T) /\ e.document = c.document /\ e.initialized /\ e.open = h.open
         /\ e.tokens = c.tokens /\ e.result = c.result
    BY <1>18, <1>19 DEF Queued, Rest1, Rest3
  <1>9a. AllOrNone(e)  BY <1>18, <1>20 DEF AllOrNone
  <1>22. Polled  BY <1>1, <1>18, <1>20, <1>9a DEF Polled, NothingNew, c, s, T
  <1> QED BY <1>22, PolledIInv

\* An answer with tokens: they are shown, or asked for again.
LEMMA SemanticIInv ==
  ASSUME IInv, HandleSemantic
  PROVE  IInv' /\ Shown
  <1> DEFINE c == client
             s == clangd
             T == Text
             m == Head(c.output)
  <1>1. clangd' = clangd /\ editor' = editor /\ c.output # <<>> /\ m.type = "response"
    BY DEF HandleSemantic, Incoming
  <1>2. PICK r \in c.semantic :
          r.id = m.id /\ client' = AcceptTokens([Settled(m.id) EXCEPT !.semantic = @ \ {r}], r, m)
    BY DEF HandleSemantic
  <1>3. Sound(c, s, T) /\ Texts(T) /\ AllOrNone(c)  BY PollFinds
  <1>4. ClientTyped(c, T) /\ Tracked(c) /\ Painted(c)  BY <1>3 DEF Sound
  <1> DEFINE pending == c.pending \ {m.id}
             document == c.document
             initId == c.initId
             semantic == c.semantic \ {r}
             k == Took(c, pending, initId, document, semantic)
             p == r.path
             fits == p \in DOMAIN k.open /\ k.open[p].version = r.version
             stale == [k EXCEPT !.dirty = @ \union {p}]
             fresh == [k EXCEPT !.tokens[p] = m.text]
             l == IF ~m.error /\ fits THEN fresh ELSE stale
  <1>5. client' = AcceptTokens(k, r, m)
    <2>1. [Settled(m.id) EXCEPT !.semantic = @ \ {r}] = k
      <3> HIDE DEF m
      <3> QED BY <1>4 DEF Settled, Rest, Took, ClientTyped
    <2> HIDE DEF k, m
    <2> QED BY <1>2, <2>1
  <1>6. client' = l \/ client' = QueueSemanticTokens(l, p)
    <2> HIDE DEF k, m, p
    <2>1. AcceptTokens(k, r, m) = IF m.error THEN [k EXCEPT !.dirty = @ \union {p}]
                                  ELSE QueueSemanticTokens(IF fits THEN fresh ELSE stale, p)
      BY DEF AcceptTokens, p
    <2> HIDE DEF fits, fresh, stale
    <2>2. CASE m.error
      <3>1. l = stale  BY <2>2
      <3> QED BY <1>5, <2>1, <2>2, <3>1 DEF stale
    <2>3. CASE ~m.error
      <3>1. l = IF fits THEN fresh ELSE stale  BY <2>3
      <3> QED BY <1>5, <2>1, <2>3, <3>1
    <2> QED BY <2>2, <2>3
  <1>7. p \in Paths /\ r.id \in Nat  BY <1>4 DEF ClientTyped, SemanticSet
  <1>8. m.text \in T /\ m \in AnswerSet(T) /\ 1 \in 1..Len(c.output) /\ c.output[1] = m
    <2>1. c.output \in Seq(AnswerSet(T))  BY <1>4 DEF ClientTyped
    <2>2. m \in AnswerSet(T)  BY <1>1, <2>1, HeadTailProperties
    <2>3. m.text \in T  BY <2>2 DEF AnswerSet
    <2>4. 1 \in 1..Len(c.output) /\ c.output[1] = m  BY <1>1, <2>1, EmptySeq, HeadTailProperties
    <2> QED BY <2>2, <2>3, <2>4
  <1>9. ~m.error => m.text = <<r.load, r.version>>
    <2> DEFINE a == [id |-> r.id, path |-> r.path, text |-> <<r.load, r.version>>]
    <2>1. a \in Asked(c)  BY DEF Asked
    <2>2. Due(a, c.stdin, c.output, s)  BY <1>3, <2>1 DEF Sound, Answered
    <2>3. a.id = r.id /\ a.text = <<r.load, r.version>>  OBVIOUS
    <2> HIDE DEF a, c, m
    <2>4. Answers(m, a)  BY <1>8, <2>2 DEF Due
    <2> QED BY <1>1, <1>2, <2>3, <2>4 DEF Answers
  <1>9a. c.output # <<>>  BY <1>1
  <1> HIDE DEF c, s, T, m
  <1>10. /\ ClientTyped(k, T) /\ k.output = Tail(c.output) /\ k.pending = pending /\ k.initId = initId
         /\ k.document = document /\ k.semantic = semantic /\ k.stdin = c.stdin
         /\ k.running = c.running /\ k.nextId = c.nextId /\ k.slot = c.slot /\ Rest3(c, k)
         /\ k.dirty = c.dirty /\ k.initialized = c.initialized /\ k.typesKnown = c.typesKnown
         /\ k.started = c.started
    <2>1. pending \in SUBSET Nat /\ initId \in Nat /\ document \subseteq c.document /\ semantic \subseteq c.semantic
      BY <1>4 DEF ClientTyped
    <2> HIDE DEF pending, initId, document, semantic, l, fresh, stale, fits, p
    <2>2. ClientTyped(c, T) /\ c.output # <<>>  BY <1>4, <1>9a
    <2> QED BY <2>1, <2>2, TookFields
  <1> HIDE DEF k, p
  <1>11. k.open = c.open /\ k.tokens = c.tokens  BY <1>10 DEF Rest3
  <1>12. /\ l.output = k.output /\ l.pending = k.pending /\ l.initId = k.initId
         /\ l.document = k.document /\ l.semantic = k.semantic /\ l.stdin = k.stdin
         /\ l.running = k.running /\ l.nextId = k.nextId /\ l.slot = k.slot
         /\ l.open = k.open /\ l.initialized = k.initialized /\ l.result = k.result
         /\ l.dirty = IF ~m.error /\ fits THEN k.dirty ELSE k.dirty \union {p}
         /\ l.tokens = IF ~m.error /\ fits THEN [k.tokens EXCEPT ![p] = m.text] ELSE k.tokens
    <2> HIDE DEF pending, semantic, document, initId, fits
    <2> QED BY <1>10 DEF ClientTyped
  <1>13. ClientTyped(l, T)
    <2> HIDE DEF pending, semantic, document, initId, fits
    <2>1. CASE ~m.error /\ fits
      <3>1. l = fresh /\ fresh.open = k.open  BY <1>10, <2>1 DEF ClientTyped
      <3>2. [k.tokens EXCEPT ![p] = m.text] \in [Paths -> T]  BY <1>8, <1>10 DEF ClientTyped
      <3>3. ClientTyped(fresh, T)  BY <1>10, <3>1, <3>2 DEF ClientTyped
      <3> HIDE DEF l, fresh
      <3> QED BY <3>1, <3>3
    <2>2. CASE ~(~m.error /\ fits)
      <3>1. l = stale /\ stale.open = k.open  BY <1>10, <2>2 DEF ClientTyped
      <3>2. k.dirty \union {p} \in SUBSET Paths  BY <1>7, <1>10 DEF ClientTyped
      <3>3. ClientTyped(stale, T)  BY <1>10, <3>1, <3>2 DEF ClientTyped
      <3> HIDE DEF l, stale
      <3> QED BY <3>1, <3>3
    <2> QED BY <2>1, <2>2
  <1> HIDE DEF l
  <1>14. Painted(l)
    <2>1. ASSUME NEW x \in DOMAIN l.open
          PROVE  x \in l.dirty \/ (\E y \in l.semantic : y.path = x) \/ l.tokens[x] = TextOf(l.open[x])
      <3>1. x \in DOMAIN c.open /\ l.open[x] = c.open[x]  BY <1>11, <1>12
      <3>2. x \in c.dirty \/ (\E y \in c.semantic : y.path = x) \/ c.tokens[x] = TextOf(c.open[x])
        BY <1>4, <3>1 DEF Painted
      <3>3. CASE x # p
        <4>1. l.tokens[x] = c.tokens[x]  BY <1>10, <1>11, <1>12, <3>3 DEF ClientTyped
        <4>2. x \in c.dirty => x \in l.dirty  BY <1>10, <1>12
        <4>3. \A y \in c.semantic : y.path = x => y \in l.semantic  BY <1>10, <1>12, <3>3 DEF p
        <4> QED BY <3>1, <3>2, <4>1, <4>2, <4>3
      <3>4. CASE x = p /\ ~(~m.error /\ fits)
        <4> HIDE DEF fits
        <4> QED BY <1>12, <3>4
      <3>5. CASE x = p /\ ~m.error /\ fits /\ p \notin c.dirty
        <4>1. <<r.load, r.version>> = TextOf(c.open[p])  BY <1>4, <3>1, <3>5 DEF Painted, p
        <4>2. p \in DOMAIN k.tokens  BY <1>7, <1>10 DEF ClientTyped
        <4>3. l.tokens[p] = m.text  BY <1>12, <3>5, <4>2
        <4> QED BY <1>9, <3>1, <3>5, <4>1, <4>3
      <3>6. CASE x = p /\ ~m.error /\ fits /\ p \in c.dirty
        <4>1. k.dirty = c.dirty /\ l.dirty = k.dirty  BY <1>10, <1>12, <3>6
        <4> QED BY <3>6, <4>1
      <3> QED BY <3>3, <3>4, <3>5, <3>6
    <2>2. \A y \in l.semantic :
            y.path \in DOMAIN l.open /\ y.path \notin l.dirty => <<y.load, y.version>> = TextOf(l.open[y.path])
      <3>1. \A y \in l.semantic : y \in c.semantic  BY <1>10, <1>12
      <3>2. \A x : x \notin l.dirty => x \notin c.dirty  BY <1>10, <1>12
      <3>3. l.open = c.open  BY <1>11, <1>12
      <3> QED BY <1>4, <3>1, <3>2, <3>3 DEF Painted
    <2>3. \A y \in l.document : y.path \in DOMAIN l.open /\ y.version = l.open[y.path].version
      BY <1>4, <1>10, <1>11, <1>12 DEF Painted
    <2> QED BY <2>1, <2>2, <2>3 DEF Painted
  <1>15. l.pending = WaitingIds(l) /\ (l.initialized => l.initId = 0)
    <2>1. /\ \A x \in c.semantic : x # r => x.id # m.id
          /\ \A x \in c.document : x.id # m.id
          /\ c.initId # m.id
      BY <1>2, <1>4 DEF Tracked
    <2>2. c.pending = WaitingIds(c) /\ (c.initialized => c.initId = 0)  BY <1>4 DEF Tracked
    <2>3. l.pending = c.pending \ {m.id} /\ l.document = c.document /\ l.semantic = c.semantic \ {r}
          /\ l.initId = c.initId /\ l.initialized = c.initialized
      BY <1>10, <1>12
    <2>4. WaitingIds(l) = WaitingIds(c) \ {m.id}
      BY <1>2, <2>1, <2>3 DEF WaitingIds
    <2> QED BY <2>2, <2>3, <2>4
  <1>16. Sound(l, s, T)
    <2>1. l.document \subseteq c.document /\ l.semantic \subseteq c.semantic /\ l.initId \in {0, c.initId}
      BY <1>10, <1>12
    <2>2. /\ l.output = Tail(c.output) /\ l.stdin = c.stdin /\ l.running = c.running
          /\ l.nextId = c.nextId /\ l.slot = c.slot /\ l.open = c.open
      BY <1>10, <1>11, <1>12
    <2> QED BY <1>1, <1>3, <1>13, <1>14, <1>15, <2>1, <2>2, TakeSound
  <1>17. l.running = c.running /\ l.open = c.open /\ l.document = c.document /\ l.initialized = c.initialized
    BY <1>10, <1>11, <1>12
  <1>18. AllOrNone(l)  BY <1>3, <1>17 DEF AllOrNone
  <1>18a. ASSUME client'.tokens = l.tokens, client'.result = l.result PROVE Shown
    <2>1. l.result = c.result  BY <1>10, <1>12 DEF Rest3
    <2>2. ASSUME NEW x \in Paths, client'.tokens[x] \notin {NoText, client.tokens[x]}
          PROVE  /\ x \in DOMAIN client.open
                 /\ client'.tokens[x][1] = client.open[x].load => client'.tokens[x] = TextOf(client.open[x])
      <3>1. l.tokens[x] # c.tokens[x]  BY <1>18a, <2>2 DEF c
      <3>2. ~m.error /\ fits /\ l.tokens = [c.tokens EXCEPT ![p] = m.text]
        <4> HIDE DEF fits
        <4> QED BY <1>11, <1>12, <3>1
      <3>3. c.tokens \in [Paths -> T]  BY <1>4 DEF ClientTyped
      <3>4. x = p /\ l.tokens[x] = m.text  BY <1>7, <3>1, <3>2, <3>3
      <3>5. p \in DOMAIN c.open /\ c.open[p].version = r.version  BY <1>11, <3>2
      <3>6. client'.tokens[x] = <<r.load, r.version>>  BY <1>9, <1>18a, <3>2, <3>4
      <3> QED BY <3>4, <3>5, <3>6 DEF TextOf, c
    <2> QED BY <1>18a, <2>1, <2>2 DEF Shown, c
  <1>19. CASE client' = l
    <2>1. Polled  BY <1>1, <1>16, <1>17, <1>18, <1>18a, <1>19 DEF Polled, c, s, T
    <2> QED BY <2>1, PolledIInv
  <1>20. CASE client' = QueueSemanticTokens(l, p)
    <2> DEFINE e == QueueSemanticTokens(l, p)
    <2>1. /\ Sound(e, s, T) /\ Rest1(l, e) /\ Rest3(l, e)
          /\ e.initId = l.initId /\ e.slot = l.slot /\ e.document = l.document
      BY <1>3, <1>7, <1>16, QueueSound
    <2> HIDE DEF e
    <2>2. AllOrNone(e)  BY <1>18, <2>1 DEF AllOrNone, Rest1, Rest3
    <2>3. client' = e  BY <1>20 DEF e
    <2>4. Shown  BY <1>18a, <2>1, <2>3 DEF Rest3
    <2>5. Polled  BY <1>1, <1>17, <2>1, <2>2, <2>3, <2>4 DEF Polled, Rest3, c, s, T
    <2> QED BY <2>5, PolledIInv
  <1> QED BY <1>6, <1>19, <1>20

----------------------------------------------------------------------------
(* The theorems *)

\* A project has just been opened.
LEMMA InitIInv == Init => IInv
  <1> SUFFICES ASSUME Init PROVE IInv  OBVIOUS
  <1>1. /\ client = Start(IdleClient) /\ clangd = IdleServer
        /\ editor = [docs |-> <<>>, current |-> NoPath, loads |-> 0, ops |-> 0, sessions |-> 1]
    BY DEF Init
  <1>2. EditorInv
    <2>1. 1 \in 1..MaxSessions /\ 0 \in 0..MaxOps  BY Constants
    <2>2. MapOf(<<>>, Paths, [version : FirstVersion..(FirstVersion + 0), load : 1..0])  BY DEF MapOf
    <2> QED BY <1>1, <2>1, <2>2 DEF EditorInv
  <1> DEFINE T == Text
             c == client
  <1>3. Texts(T)  BY <1>1 DEF Texts, Text, NoText, FirstVersion
  <1>4. c = Start(IdleClient)  BY <1>1
  <1> HIDE DEF T, c
  <1>5. Sound(c, IdleServer, T) /\ AllOrNone(c) /\ c.document = {} /\ c.open = <<>>
    <2> DEFINE output == IdleClient.output
               slot == IdleClient.slot
               n == IdleClient.nextId
    <2>1. ClientTyped(IdleClient, T) /\ output = <<>> /\ slot = [k \in Kinds |-> 0] /\ n = 1
      BY <1>3, IdleTyped
    <2>2. IdleClient = Reset(output, slot, n)
      BY <2>1 DEF Reset, ClientTyped
    <2>3. output \in Seq(AnswerSet(T)) /\ slot \in [Kinds -> Nat] /\ n \in Nat \ {0}
          /\ (\A k \in Kinds : slot[k] < n)
          /\ \A i \in 1..Len(output) : output[i].type = "response" => output[i].id < n
      BY <2>1
    <2>4. c = Start(Reset(output, slot, n))  BY <1>4, <2>2
    <2>5. output \in Seq(AnswerSet(T)) /\ slot \in [Kinds -> Nat] /\ n \in Nat \ {0}  BY <2>3
    <2>6. \A k \in Kinds : slot[k] < n  BY <2>3
    <2>7. \A i \in 1..Len(output) : output[i].type = "response" => output[i].id < n  BY <2>3
    <2> HIDE DEF output, slot, n
    <2>8. /\ Sound(c, IdleServer, T) /\ AllOrNone(c) /\ c.running /\ ~c.initialized
          /\ c.open = <<>> /\ c.document = {} /\ c.result = [k \in Kinds |-> NoText]
          /\ c.tokens = [p \in Paths |-> NoText]
      BY ONLY <1>3, <2>4, <2>5, <2>6, <2>7, StartSound
    <2> QED BY <2>8
  <1>6. CopyInv
    <2>1. OpenPaths = {}  BY <1>1 DEF OpenPaths
    <2> QED BY <1>5, <2>1 DEF CopyInv, c
  <1> QED BY <1>1, <1>2, <1>5, <1>6 DEF IInv, T, c

\* Every step keeps the invariant, and shows nothing that is about another text.
LEMMA NextIInv == IInv /\ [Next]_vars => IInv' /\ Shown
  <1> SUFFICES ASSUME IInv, [Next]_vars PROVE IInv' /\ Shown  OBVIOUS
  <1>1. CASE RestartLanguageServer  BY <1>1, RestartIInv
  <1>2. CASE UnloadProject  BY <1>2, UnloadIInv
  <1>3. ASSUME NEW p \in Paths, OpenFile(p) \/ ActivateDocument(p) \/ EditDocument(p) \/ SaveAs(p)
        PROVE  IInv' /\ Shown
    BY <1>3, OpenFileIInv, ActivateIInv, EditIInv, SaveAsIInv
  <1>4. CASE CloseActiveDocument \/ SaveDocument  BY <1>4, CloseIInv, SaveIInv
  <1>5. ASSUME NEW p \in Paths, NEW q \in Paths, RenameEntry(p, q) PROVE IInv' /\ Shown  BY <1>5, RenameIInv
  <1>14. ASSUME NEW p \in Paths, RenameFails(p) PROVE IInv' /\ Shown  BY <1>14, RenameFailsIInv
  <1>6. ASSUME NEW k \in Kinds, RequestDocument(k) PROVE IInv' /\ Shown  BY <1>6, RequestIInv
  <1>7. ASSUME NEW p \in Paths, FlushDue(p) PROVE IInv' /\ Shown  BY <1>7, FlushIInv
  <1>8. CASE HandleMessage
    BY <1>8, UnknownIInv, InitializedIInv, RefusedIInv, DocumentIInv, SemanticIInv, DiagnosticsIInv
       DEF HandleMessage
  <1>9. CASE ReportExit  BY <1>9, ExitIInv
  <1>10. CASE ServerReads  BY <1>10, ReadsIInv
  <1>11. CASE ServerWrites \/ ServerFails  BY <1>11, WritesIInv
  <1>12. CASE ServerDies  BY <1>12, DiesIInv
  <1>13. CASE UNCHANGED vars
    <2>1. IInv'  BY <1>13 DEF vars, IInv, EditorInv, OpenPaths, CopyInv, Text
    <2>2. Shown  BY <1>13 DEF vars, Shown
    <2> QED BY <2>1, <2>2
  <1> QED BY <1>1, <1>2, <1>3, <1>4, <1>5, <1>6, <1>7, <1>8, <1>9, <1>10, <1>11, <1>12, <1>13, <1>14 DEF Next

\* The invariant holds of every state of the language client, its owner and clangd.
THEOREM SpecIInv == Spec => []IInv
  BY InitIInv, NextIInv, PTL DEF Spec

\* clangd will hold exactly the documents that the client believes announced, with the
\* texts of the editor unless a change is being held back.
THEOREM SpecServerInSync == Spec => []ServerInSync
  <1>1. IInv => ServerInSync
    <2> SUFFICES ASSUME IInv, client.running, client.initialized
                 PROVE  LET told == Told(clangd.docs, client.stdin)[Len(client.stdin)] IN
                        /\ DOMAIN told = DOMAIN client.open
                        /\ \A p \in DOMAIN told :
                             /\ client.open[p].announced
                             /\ ~client.open[p].changePending => told[p] = TextOf(client.open[p])
                        /\ \A p \in OpenPaths :
                             p \in DOMAIN client.open /\ TextOf(client.open[p]) = TextOf(editor.docs[p])
      BY DEF ServerInSync
    <2>1. Mirrored(client, clangd.docs)  BY DEF IInv, Sound, Linked
    <2>2. \A p \in DOMAIN client.open : client.open[p].announced  BY DEF IInv, AllOrNone
    <2>3. \A p \in OpenPaths : p \in DOMAIN client.open /\ TextOf(client.open[p]) = TextOf(editor.docs[p])
      BY DEF IInv, CopyInv
    <2> QED BY <2>1, <2>2, <2>3 DEF Mirrored
  <1> QED BY <1>1, SpecIInv, PTL

\* What is shown about a document is about the text that is on the screen, and the tokens
\* it is painted with are never of an older version of the load that it has.
THEOREM SpecAnswersMatch == Spec => AnswersMatch
  <1>1. IInv /\ [Next]_vars => [Shown]_vars  BY NextIInv
  <1>2. [Shown]_vars => [\A k \in Kinds : client'.result[k] \notin {NoText, client.result[k]} =>
                           /\ editor.current # NoPath
                           /\ client'.result[k] = TextOf(editor.docs[editor.current])]_vars
    BY DEF Shown
  <1>3. [Shown]_vars => [\A p \in Paths : client'.tokens[p] \notin {NoText, client.tokens[p]} =>
                           /\ p \in DOMAIN client.open
                           /\ client'.tokens[p][1] = client.open[p].load
                                => client'.tokens[p] = TextOf(client.open[p])]_vars
    BY DEF Shown
  <1> QED BY <1>1, <1>2, <1>3, SpecIInv, PTL DEF Spec, AnswersMatch, FreshResults, TokensInLoad

\* The same while the user moves files and saves them under other names.
THEOREM SpecPathsKept == Spec => PathsKept
  BY SpecServerInSync, SpecAnswersMatch, PTL DEF PathsKept, AnswersMatch

\* What the client and clangd are made of.
LEMMA IInvTypeOK == IInv => TypeOK
  <1> SUFFICES ASSUME IInv PROVE TypeOK  OBVIOUS
  <1> DEFINE c == client
             s == clangd
             T == Text
  <1>1. ClientTyped(c, T) /\ ServerTyped(s, T) /\ Tracked(c) /\ JobsTracked(c, s) /\ EditorInv
    BY DEF IInv, Sound
  <1>2. c.nextId \in Nat \ {0} /\ Ids = 0..c.nextId  BY <1>1 DEF ClientTyped, Ids
  <1>3. DOMAIN c = DOMAIN IdleClient  BY <1>1 DEF ClientTyped, IdleClient
  <1>4. {c.running, c.started, c.exitReported, c.initialized, c.typesKnown, s.fault} \subseteq BOOLEAN
    BY <1>1 DEF ClientTyped, ServerTyped
  <1>5. \A i \in DOMAIN c.stdin : c.stdin[i] \in Outgoing
    <2>1. c.stdin \in Seq(MessageSet(T))  BY <1>1 DEF ClientTyped
    <2> SUFFICES ASSUME NEW i \in 1..Len(c.stdin) PROVE c.stdin[i] \in Outgoing  BY <2>1
    <2> DEFINE m == c.stdin[i]
    <2>2. m \in MessageSet(T)  BY <2>1, ElementOfSeq
    <2>3. m.id < c.nextId  BY <1>1 DEF Tracked
    <2> HIDE DEF m, c
    <2>4. m.id \in Nat  BY <2>2 DEF MessageSet
    <2>5. m.id \in Ids  BY <1>2, <2>3, <2>4
    <2>6. m \in Outgoing  BY <2>2, <2>5 DEF MessageSet, Outgoing
    <2> QED BY <2>6 DEF m
  <1>6. \A i \in DOMAIN c.output : c.output[i] \in IncomingSet
    <2>1. c.output \in Seq(AnswerSet(T))  BY <1>1 DEF ClientTyped
    <2> SUFFICES ASSUME NEW i \in 1..Len(c.output) PROVE c.output[i] \in IncomingSet  BY <2>1
    <2> DEFINE m == c.output[i]
    <2>2. m \in AnswerSet(T)  BY <2>1, ElementOfSeq
    <2>3. m.type = "response" => m.id < c.nextId  BY <1>1 DEF Tracked
    <2> HIDE DEF m, c
    <2>4. m.type = "response" => m.id \in Nat  BY <2>2 DEF AnswerSet
    <2>5. m.type = "response" => m.id \in Ids  BY <1>2, <2>3, <2>4
    <2>6. m \in IncomingSet  BY <2>2, <2>5 DEF AnswerSet, IncomingSet
    <2> QED BY <2>6 DEF m
  <1>7. s.jobs \subseteq IncomingSet
    <2> SUFFICES ASSUME NEW m \in s.jobs PROVE m \in IncomingSet  OBVIOUS
    <2>2. m \in AnswerSet(T)  BY <1>1 DEF ServerTyped
    <2>3. m.type = "response" => m.id < c.nextId  BY <1>1 DEF JobsTracked
    <2> HIDE DEF c, s
    <2>4. m.type = "response" => m.id \in Nat  BY <2>2 DEF AnswerSet
    <2>5. m.type = "response" => m.id \in Ids  BY <1>2, <2>3, <2>4
    <2> QED BY <2>2, <2>5 DEF AnswerSet, IncomingSet
  <1>8. DOMAIN c.open \subseteq Paths /\ \A p \in DOMAIN c.open : c.open[p] \in OpenState
    BY <1>1 DEF ClientTyped, MapOf, OpenSet
  <1>9. c.dirty \subseteq Paths /\ c.active \in Paths \union {NoPath}  BY <1>1 DEF ClientTyped
  <1>10. c.pending \subseteq Ids /\ c.initId \in Ids
    <2>1. c.pending \subseteq Nat /\ c.initId \in Nat  BY <1>1 DEF ClientTyped
    <2>2. c.initId < c.nextId /\ \A i \in c.pending : i < c.nextId  BY <1>1 DEF Tracked
    <2> HIDE DEF c
    <2> QED BY <1>2, <2>1, <2>2
  <1>11. c.document \subseteq [id : Ids, path : Paths, version : Nat]
    <2> SUFFICES ASSUME NEW r \in c.document PROVE r \in [id : Ids, path : Paths, version : Nat]  OBVIOUS
    <2>1. r \in DocumentSet  BY <1>1 DEF ClientTyped
    <2>2. r.id < c.nextId  BY <1>1 DEF Tracked, WaitingIds
    <2> HIDE DEF c
    <2>3. r.id \in Nat  BY <2>1 DEF DocumentSet
    <2>4. r.id \in Ids  BY <1>2, <2>2, <2>3
    <2> QED BY <2>1, <2>4 DEF DocumentSet
  <1>12. c.semantic \subseteq [id : Ids, path : Paths, version : Nat, load : Nat]
    <2> SUFFICES ASSUME NEW r \in c.semantic PROVE r \in [id : Ids, path : Paths, version : Nat, load : Nat]
      OBVIOUS
    <2>1. r \in SemanticSet  BY <1>1 DEF ClientTyped
    <2>2. r.id < c.nextId  BY <1>1 DEF Tracked, WaitingIds
    <2> HIDE DEF c
    <2>3. r.id \in Nat  BY <2>1 DEF SemanticSet
    <2>4. r.id \in Ids  BY <1>2, <2>2, <2>3
    <2> QED BY <2>1, <2>4 DEF SemanticSet
  <1>13. c.slot \in [Kinds -> Ids]
    <2>1. c.slot \in [Kinds -> Nat] /\ \A k \in Kinds : c.slot[k] < c.nextId
      BY <1>1 DEF ClientTyped, Tracked
    <2> HIDE DEF c
    <2>2. \A k \in Kinds : c.slot[k] \in Ids  BY <1>2, <2>1
    <2> QED BY <2>1, <2>2
  <1>14. c.result \in [Kinds -> T] /\ c.tokens \in [Paths -> T] /\ c.diags \in [Paths -> T]
    BY <1>1 DEF ClientTyped
  <1>15. DOMAIN s.docs \subseteq Paths /\ \A p \in DOMAIN s.docs : s.docs[p] \in T
    BY <1>1 DEF ServerTyped, MapOf
  <1>16. /\ OpenPaths \subseteq Paths /\ editor.current \in OpenPaths \union {NoPath}
         /\ editor.sessions \in 0..MaxSessions /\ editor.ops \in 0..MaxOps
    <2>1. /\ DOMAIN editor.docs \subseteq Paths /\ editor.current \in {NoPath} \union OpenPaths
          /\ editor.sessions \in 1..MaxSessions /\ editor.ops \in 0..MaxOps
      BY <1>1 DEF EditorInv, MapOf
    <2> QED BY <2>1, Constants DEF OpenPaths
  <1> QED BY <1>2, <1>3, <1>4, <1>5, <1>6, <1>7, <1>8, <1>9, <1>10, <1>11, <1>12, <1>13, <1>14, <1>15, <1>16
       DEF TypeOK

\* Without Save As, both sides keep their books: clangd is told nothing that the protocol
\* forbids, and every request and every document that has to be painted is accounted for.
THEOREM SpecProtocolKept ==
  ASSUME ~MaySaveAs
  PROVE  Spec => []ProtocolKept
  <1>1. IInv => RequestsTracked
    <2> SUFFICES ASSUME IInv PROVE RequestsTracked  OBVIOUS
    <2>1. Tracked(client)  BY DEF IInv, Sound
    <2> QED BY <2>1 DEF Tracked, WaitingIds, RequestsTracked
  <1>2. IInv => TokensCatchUp  BY DEF IInv, Sound, Painted, TokensCatchUp
  <1>3. IInv => ~clangd.fault  BY DEF IInv, Sound, Linked
  <1>4. IInv => ProtocolKept  BY <1>1, <1>2, <1>3, IInvTypeOK DEF ProtocolKept
  <1> QED BY <1>4, SpecIInv, PTL
=============================================================================
