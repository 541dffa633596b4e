-------------------------- MODULE Documents_proofs --------------------------
(***************************************************************************)
(* Proofs about Documents: no text is lost unasked, whatever the user, the *)
(* timer, other programs and a crash do in whatever order.                 *)
(*                                                                         *)
(* The invariant is kept document by document. DocumentInv is what IInv    *)
(* says of one of them; every way to make or change a document keeps it    *)
(* (CommitInv, MergeInv, UndoRedoInv, SavedInv, ...), every way to add,    *)
(* replace or remove one in the list follows from that (OpenDocumentIInv,  *)
(* ActiveIInv, RemoveIInv, MappedIInv). Recovery is a recursion over the   *)
(* entries of the file: RestoredProperties is its loop invariant.          *)
(***************************************************************************)
EXTENDS Documents, DataLemmas

USE DocumentsAssumption

----------------------------------------------------------------------------
(* Sequences *)

\* Among() gives the elements of s that are in S and no other, at most as many as s has.
LEMMA AmongProperties ==
  ASSUME NEW T, NEW s \in Seq(T), NEW S
  PROVE  /\ Among(s, S) \in Seq(T)
         /\ Len(Among(s, S)) <= Len(s)
         /\ Range(Among(s, S)) = Range(s) \intersect S
  <1> DEFINE L == Len(s)
             Round(g, n) == IF n = 0 THEN <<>>
                            ELSE IF s[n] \in S THEN Append(g[n - 1], s[n]) ELSE g[n - 1]
             G == [n \in 1..L |-> [a \in Seq(T) |-> IF s[n] \in S THEN Append(a, s[n]) ELSE a]]
             among == CHOOSE g : g = [n \in 0..L |-> Round(g, n)]
  <1>1. L \in Nat /\ \A n \in 1..L : s[n] \in T
    OBVIOUS
  <1>2. G \in [1..L -> [Seq(T) -> Seq(T)]]
    BY <1>1, AppendProperties
  <1>3. PICK f : Rounds(f, L, Seq(T), <<>>, G)
    <2>1. <<>> \in Seq(T)  BY EmptySeq
    <2> HIDE DEF G
    <2> QED BY <1>1, <1>2, <2>1, Recursion
  <1>4. f = [n \in 0..L |-> Round(f, n)]
    <2> USE DEF Rounds
    <2>1. ASSUME NEW n \in 0..L PROVE f[n] = Round(f, n)
      <3>1. CASE n = 0  BY <1>3, <3>1
      <3>2. CASE n # 0
        <4>1. n \in 1..L /\ n - 1 \in 0..L  BY <1>1, <3>2
        <4>2. G[n] = [a \in Seq(T) |-> IF s[n] \in S THEN Append(a, s[n]) ELSE a]
          BY <4>1
        <4>3. f[n - 1] \in Seq(T)  BY <1>3, <4>1
        <4> QED BY <1>3, <3>2, <4>1, <4>2, <4>3
      <3> QED BY <3>1, <3>2
    <2> HIDE DEF Round
    <2> QED BY <1>3, <2>1
  <1>5. among = [n \in 0..L |-> Round(among, n)]
    <2> HIDE DEF Round, L
    <2> QED BY <1>4, Zenon
  <1>6. Among(s, S) = among[L]
    BY Zenon DEF Among
  <1> HIDE DEF among
  <1> DEFINE Good == {n \in 0..L : /\ among[n] \in Seq(T) /\ Len(among[n]) <= n
                                   /\ Range(among[n]) = {s[m] : m \in 1..n} \intersect S}
  <1>7. 0 \in Good
    BY <1>5, EmptySeq DEF Range
  <1>8. ASSUME NEW n \in 0..(L - 1), n \in Good PROVE n + 1 \in Good
    <2>1. n + 1 \in 0..L /\ n + 1 # 0 /\ (n + 1) - 1 = n /\ n + 1 \in 1..L
      BY <1>1
    <2>2. {s[m] : m \in 1..(n + 1)} = {s[m] : m \in 1..n} \union {s[n + 1]}
      BY <2>1
    <2>3. CASE s[n + 1] \in S
      <3>1. among[n + 1] = Append(among[n], s[n + 1])
        BY <1>5, <2>1, <2>3
      <3>2. Range(among[n + 1]) = Range(among[n]) \union {s[n + 1]}
        BY <1>1, <1>8, <2>1, <3>1, RangeAppend
      <3>3. among[n + 1] \in Seq(T) /\ Len(among[n + 1]) <= n + 1
        BY <1>1, <1>8, <2>1, <3>1, AppendProperties
      <3>4. Range(among[n + 1]) = {s[m] : m \in 1..(n + 1)} \intersect S
        <4> HIDE DEF L
        <4>1. Range(among[n]) = {s[m] : m \in 1..n} \intersect S  BY <1>8
        <4> QED BY <2>2, <2>3, <3>2, <4>1
      <3> QED BY <2>1, <3>3, <3>4
    <2>4. CASE s[n + 1] \notin S
      <3>1. among[n + 1] = among[n]
        BY <1>5, <2>1, <2>4
      <3> QED BY <1>1, <1>8, <2>1, <2>2, <2>4, <3>1
    <2> QED BY <2>3, <2>4
  <1>9. L \in Good
    <2> HIDE DEF Good, L
    <2>1. 0..L \subseteq Good  BY <1>1, <1>7, <1>8, IntervalInduction
    <2> QED BY <1>1, <2>1
  <1>10. Range(s) = {s[m] : m \in 1..L}
    BY DEF Range
  <1> QED BY <1>6, <1>9, <1>10

----------------------------------------------------------------------------
(* One document *)

\* What IInv says of one document.
DocumentInv(d) ==
  /\ d \in DocumentSet /\ (d.group => d.undo # <<>> /\ d.redo = <<>>)
  /\ RevisionInv(d) /\ FileInv(d)

\* An operation that leaves the counter alone and reaches no new state preserves it.
LEMMA FewerRevisions ==
  ASSUME NEW d, NEW e, RevisionInv(d), Revisions(e) \subseteq Revisions(d), e.next = d.next
  PROVE  RevisionInv(e)
  BY DEF RevisionInv

\* So does one that gives the new state the next number.
LEMMA NextRevision ==
  ASSUME NEW d \in DocumentSet, NEW e, NEW t, RevisionInv(d), e.next = d.next + 1,
         Revisions(e) \subseteq Revisions(d) \union {<<d.next + 1, t>>},
         \A r \in Revisions(d) : r[1] \in Nat
  PROVE  RevisionInv(e)
  <1>1. d.next \in Nat  BY DEF DocumentSet
  <1> QED BY <1>1 DEF RevisionInv

\* A revision is a number and a text.
LEMMA RevisionsType ==
  ASSUME NEW d \in DocumentSet
  PROVE  \A r \in Revisions(d) : r[1] \in Nat /\ r[2] \in Texts
  <1>1. \A e \in Steps(d) : e \in [before : Nat, after : Nat, from : Texts, to : Texts]
    BY RangeOfSeq DEF Steps, DocumentSet, Entries
  <1> QED BY <1>1 DEF Revisions, DocumentSet

\* Commit(): the edit has a number of its own, so the saved state stays out of its reach.
LEMMA CommitInv ==
  ASSUME NEW d, DocumentInv(d), NEW t \in Texts, NEW grouped \in BOOLEAN
  PROVE  DocumentInv(Commit(d, t, grouped))
  <1> DEFINE E == [before : Nat, after : Nat, from : Texts, to : Texts]
             n == d.next + 1
             entry == [before |-> d.current, after |-> n, from |-> d.text, to |-> t]
             longer == Append(d.undo, entry)
             undo == IF Len(longer) > HistoryLimit THEN Tail(longer) ELSE longer
             e == Commit(d, t, grouped)
  <1>1. /\ d \in DocumentSet /\ d.next \in Nat /\ d.undo \in Seq(E) /\ entry \in E /\ n \in Nat
        /\ d.redo \in Seq(E) /\ <<>> \in Seq(E)
    BY EmptySeq DEF DocumentInv, DocumentSet, Entries
  <1>2. longer \in Seq(E) /\ Len(longer) = Len(d.undo) + 1
    BY <1>1, AppendProperties
  <1>3. Range(longer) = Range(d.undo) \union {entry}
    <2> HIDE DEF entry, E
    <2> QED BY <1>1, RangeAppend
  <1>4. Len(d.undo) \in Nat /\ Len(longer) # 0
    BY <1>1, <1>2, LenProperties
  <1>5. undo \in Seq(E) /\ undo # <<>> /\ Range(undo) \subseteq Range(d.undo) \union {entry}
    <2> HIDE DEF longer, E, entry
    <2>1. CASE Len(longer) > HistoryLimit
      <3> DEFINE tail == Tail(longer)
      <3>1. undo = tail  BY <2>1
      <3>2. longer # <<>>  BY <1>4, EmptySeq
      <3>3. tail \in Seq(E) /\ Len(tail) = Len(longer) - 1 /\ Range(tail) \subseteq Range(longer)
        BY <1>2, <3>2, RangeTail
      <3> HIDE DEF tail
      <3>4. Len(tail) # 0  BY <1>2, <1>4, <2>1, <3>3
      <3>5. tail # <<>>  BY <3>4, EmptySeq
      <3> QED BY <1>3, <3>1, <3>3, <3>5
    <2>2. CASE ~(Len(longer) > HistoryLimit)
      BY <1>2, <1>3, <1>4, <2>2, EmptySeq
    <2> QED BY <2>1, <2>2
  <1>6. e = [d EXCEPT !.text = t, !.next = @ + 1, !.current = n, !.redo = <<>>,
                      !.undo = undo, !.group = grouped]
    BY DEF Commit
  <1> HIDE DEF undo, longer
  <1>7. e \in DocumentSet /\ (e.group => e.undo # <<>> /\ e.redo = <<>>)
    <2>1. undo \in Entries /\ <<>> \in Entries  BY <1>1, <1>5 DEF Entries
    <2> HIDE DEF e, E
    <2> QED BY <1>1, <1>5, <1>6, <2>1 DEF DocumentSet
  <1>8. /\ e.text = t /\ e.next = n /\ e.current = n /\ e.undo = undo /\ e.redo = <<>>
        /\ e.saved = d.saved /\ e.base = d.base /\ e.kept = d.kept /\ e.existed = d.existed
        /\ e.fingerprint = d.fingerprint
    BY <1>1, <1>6 DEF DocumentSet
  <1>9. Steps(e) \subseteq Steps(d) \union {entry}
    BY <1>5, <1>8 DEF Steps, Range
  <1> HIDE DEF e
  <1>10. RevisionInv(e)
    <2>1. Revisions(e) \subseteq Revisions(d) \union {<<n, t>>}
      BY <1>8, <1>9 DEF Revisions
    <2> QED BY <1>1, <1>8, <2>1, NextRevision, RevisionsType DEF DocumentInv
  <1>11. SavedReachable(e) => SavedReachable(d)
    <2>1. <<d.saved, d.base>> \in Revisions(d)  BY DEF Revisions
    <2>2. d.saved <= d.next  BY <2>1 DEF DocumentInv, RevisionInv
    <2>3. d.saved # n  BY <1>1, <2>2 DEF DocumentSet
    <2> QED BY <1>8, <1>9, <2>3 DEF SavedReachable
  <1>12. FileInv(e)
    BY <1>8, <1>11 DEF FileInv, DocumentInv
  <1> QED BY <1>7, <1>10, <1>12 DEF DocumentInv, e

\* Merge(): the grown entry leads to a new state, and no other leads to that one.
LEMMA MergeInv ==
  ASSUME NEW d, DocumentInv(d), d.group, NEW t \in Texts
  PROVE  DocumentInv(Merge(d, t))
  <1> DEFINE E == [before : Nat, after : Nat, from : Texts, to : Texts]
             n == d.next + 1
             last == Last(d.undo)
             grown == [last EXCEPT !.after = n, !.to = t]
             undo == Append(Front(d.undo), grown)
             e == Merge(d, t)
  <1>1. /\ d \in DocumentSet /\ d.next \in Nat /\ d.undo \in Seq(E) /\ d.undo # <<>>
        /\ n \in Nat /\ d.redo = <<>>
    BY DEF DocumentInv, DocumentSet, Entries
  <1>2. /\ Front(d.undo) \in Seq(E) /\ Range(Front(d.undo)) \subseteq Range(d.undo)
        /\ last \in E /\ last \in Range(d.undo)
    BY <1>1, FrontLastProperties
  <1>3. grown \in E /\ grown.before = last.before /\ grown.from = last.from
        /\ grown.after = n /\ grown.to = t
    BY <1>1, <1>2
  <1> HIDE DEF last, grown
  <1>4. undo \in Seq(E) /\ undo # <<>>
    <2>1. undo \in Seq(E) /\ Len(undo) = Len(Front(d.undo)) + 1 /\ Len(Front(d.undo)) \in Nat
      BY <1>2, <1>3, AppendProperties, LenProperties
    <2> HIDE DEF undo
    <2>2. Len(undo) # 0  BY <2>1
    <2> QED BY <2>1, <2>2, EmptySeq
  <1>5. Range(undo) \subseteq Range(d.undo) \union {grown}
    <2>1. Range(undo) = Range(Front(d.undo)) \union {grown}
      <3> HIDE DEF E
      <3> QED BY <1>2, <1>3, RangeAppend
    <2> QED BY <1>2, <2>1
  <1>6. e = [d EXCEPT !.text = t, !.next = @ + 1, !.current = n, !.undo = undo]
    BY DEF Merge, grown, last
  <1> HIDE DEF undo
  <1>7. e \in DocumentSet /\ (e.group => e.undo # <<>> /\ e.redo = <<>>)
    <2>1. undo \in Entries  BY <1>4 DEF Entries
    <2> HIDE DEF e, E
    <2> QED BY <1>1, <1>4, <1>6, <2>1 DEF DocumentSet
  <1>8. /\ e.text = t /\ e.next = n /\ e.current = n /\ e.undo = undo /\ e.redo = d.redo
        /\ e.saved = d.saved /\ e.base = d.base /\ e.kept = d.kept /\ e.existed = d.existed
        /\ e.fingerprint = d.fingerprint
    BY <1>1, <1>6 DEF DocumentSet
  <1>9. Steps(e) \subseteq Steps(d) \union {grown} /\ last \in Steps(d)
    BY <1>2, <1>5, <1>8 DEF Steps
  <1> HIDE DEF e
  <1>10. RevisionInv(e)
    <2>1. Revisions(e) \subseteq Revisions(d) \union {<<n, t>>}
      BY <1>3, <1>8, <1>9 DEF Revisions
    <2> QED BY <1>1, <1>8, <2>1, NextRevision, RevisionsType DEF DocumentInv
  <1>11. SavedReachable(e) => SavedReachable(d)
    <2>1. <<d.saved, d.base>> \in Revisions(d)  BY DEF Revisions
    <2>2. d.saved <= d.next  BY <2>1 DEF DocumentInv, RevisionInv
    <2>3. d.saved # n  BY <1>1, <2>2 DEF DocumentSet
    <2> QED BY <1>3, <1>8, <1>9, <2>3 DEF SavedReachable
  <1>12. FileInv(e)
    BY <1>8, <1>11 DEF FileInv, DocumentInv
  <1> QED BY <1>7, <1>10, <1>12 DEF DocumentInv, e

\* Undo() and Redo() move an entry from one list to the other: no state is new.
LEMMA UndoRedoInv ==
  ASSUME NEW d, DocumentInv(d)
  PROVE  /\ d.undo # <<>> => DocumentInv(Undo(d))
         /\ d.redo # <<>> => DocumentInv(Redo(d))
  <1> DEFINE E == [before : Nat, after : Nat, from : Texts, to : Texts]
  <1>1. d \in DocumentSet /\ d.undo \in Seq(E) /\ d.redo \in Seq(E)
    BY DEF DocumentInv, DocumentSet, Entries
  <1>2. ASSUME NEW from \in Seq(E), NEW to \in Seq(E), from # <<>>
        PROVE  /\ Front(from) \in Seq(E) /\ Append(to, Last(from)) \in Seq(E)
               /\ Last(from) \in E /\ Last(from) \in Range(from)
               /\ Range(Front(from)) \subseteq Range(from)
               /\ Range(Append(to, Last(from))) \subseteq Range(from) \union Range(to)
    <2>1. /\ Front(from) \in Seq(E) /\ Last(from) \in E /\ Last(from) \in Range(from)
          /\ Range(Front(from)) \subseteq Range(from)
      BY <1>2, FrontLastProperties
    <2> HIDE DEF E
    <2> QED BY <1>2, <2>1, RangeAppend, AppendProperties
  <1>3. ASSUME NEW e, NEW entry \in Steps(d), NEW undo \in Seq(E), NEW redo \in Seq(E),
               Range(undo) \subseteq Steps(d), Range(redo) \subseteq Steps(d), entry \in E,
               \/ e = [d EXCEPT !.text = entry.from, !.current = entry.before, !.undo = undo,
                                !.redo = redo, !.group = FALSE]
               \/ e = [d EXCEPT !.text = entry.to, !.current = entry.after, !.redo = redo,
                                !.undo = undo, !.group = FALSE]
        PROVE  DocumentInv(e)
    <2>1. undo \in Entries /\ redo \in Entries  BY DEF Entries
    <2>2. /\ entry.from \in Texts /\ entry.to \in Texts
          /\ entry.before \in Nat /\ entry.after \in Nat
      BY <1>3
    <2> HIDE DEF E
    <2>3. ASSUME NEW t \in Texts, NEW n \in Nat,
                 e = [d EXCEPT !.text = t, !.current = n, !.undo = undo, !.redo = redo,
                               !.group = FALSE]
          PROVE  /\ e \in DocumentSet /\ ~e.group
                 /\ e.text = t /\ e.current = n
                 /\ e.undo = undo /\ e.redo = redo /\ e.next = d.next
                 /\ e.saved = d.saved /\ e.base = d.base /\ e.kept = d.kept
                 /\ e.existed = d.existed /\ e.fingerprint = d.fingerprint
      <3> HIDE DEF Entries
      <3> QED BY <1>1, <2>1, <2>3 DEF DocumentSet
    <2>4. /\ e \in DocumentSet /\ ~e.group
          /\ <<e.current, e.text>> \in {<<entry.before, entry.from>>, <<entry.after, entry.to>>}
          /\ e.current \in {entry.before, entry.after}
          /\ e.undo = undo /\ e.redo = redo /\ e.next = d.next
          /\ e.saved = d.saved /\ e.base = d.base /\ e.kept = d.kept /\ e.existed = d.existed
          /\ e.fingerprint = d.fingerprint
      <3>1. CASE e = [d EXCEPT !.text = entry.from, !.current = entry.before, !.undo = undo,
                               !.redo = redo, !.group = FALSE]
        BY <2>2, <2>3, <3>1
      <3>2. CASE e = [d EXCEPT !.text = entry.to, !.current = entry.after, !.redo = redo,
                               !.undo = undo, !.group = FALSE]
        <4>1. e = [d EXCEPT !.text = entry.to, !.current = entry.after, !.undo = undo,
                            !.redo = redo, !.group = FALSE]
          BY <1>1, <3>2 DEF DocumentSet
        <4> QED BY <2>2, <2>3, <4>1
      <3> QED BY <1>3, <3>1, <3>2
    <2>5. Steps(e) \subseteq Steps(d)
      BY <1>3, <2>4 DEF Steps
    <2>6. Revisions(e) \subseteq Revisions(d)
      BY <1>3, <2>4, <2>5 DEF Revisions
    <2>7. RevisionInv(e)
      BY <2>4, <2>6, FewerRevisions DEF DocumentInv
    <2>8. FileInv(e)
      BY <1>3, <2>4, <2>5 DEF SavedReachable, FileInv, DocumentInv
    <2> QED BY <2>4, <2>7, <2>8 DEF DocumentInv
  <1>4. ASSUME d.undo # <<>> PROVE DocumentInv(Undo(d))
    <2> DEFINE entry == Last(d.undo)
               shorter == Front(d.undo)
               longer == Append(d.redo, entry)
    <2>1. /\ shorter \in Seq(E) /\ longer \in Seq(E) /\ entry \in E /\ entry \in Steps(d)
          /\ Range(shorter) \subseteq Steps(d) /\ Range(longer) \subseteq Steps(d)
      BY <1>1, <1>2, <1>4 DEF Steps
    <2>2. Undo(d) = [d EXCEPT !.text = entry.from, !.current = entry.before, !.undo = shorter,
                              !.redo = longer, !.group = FALSE]
      BY DEF Undo
    <2> HIDE DEF entry, shorter, longer, E
    <2> QED BY <1>3, <2>1, <2>2
  <1>5. ASSUME d.redo # <<>> PROVE DocumentInv(Redo(d))
    <2> DEFINE entry == Last(d.redo)
               shorter == Front(d.redo)
               longer == Append(d.undo, entry)
    <2>1. /\ shorter \in Seq(E) /\ longer \in Seq(E) /\ entry \in E /\ entry \in Steps(d)
          /\ Range(shorter) \subseteq Steps(d) /\ Range(longer) \subseteq Steps(d)
      BY <1>1, <1>2, <1>5 DEF Steps
    <2>2. Redo(d) = [d EXCEPT !.text = entry.to, !.current = entry.after, !.redo = shorter,
                              !.undo = longer, !.group = FALSE]
      BY DEF Redo
    <2> HIDE DEF entry, shorter, longer, E
    <2> QED BY <1>3, <2>1, <2>2
  <1> QED BY <1>4, <1>5

\* The steps and the revisions of a document without a history.
LEMMA NoHistory ==
  ASSUME NEW d, d.undo = <<>>, d.redo = <<>>
  PROVE  Steps(d) = {} /\ Revisions(d) = {<<d.current, d.text>>, <<d.saved, d.base>>}
  <1>1. Range(<<>>) = {}  BY DEF Range
  <1> QED BY <1>1 DEF Steps, Revisions

\* A document that setText() has just been called on, load() included.
LEMMA SetTextInv ==
  ASSUME NEW d \in DocumentSet, NEW t \in Texts
  PROVE  /\ SetText(d, t) \in DocumentSet
         /\ d.kept \/ t = (IF d.existed THEN d.fingerprint ELSE Empty) => DocumentInv(SetText(d, t))
         /\ SetText(d, t).path = d.path /\ SetText(d, t).autosaved = d.autosaved
         /\ SetText(d, t).text = t
  <1> DEFINE e == SetText(d, t)
  <1>1. <<>> \in Entries  BY EmptySeq DEF Entries
  <1>2. e \in DocumentSet /\ ~e.group
    BY <1>1 DEF SetText, DocumentSet
  <1>3. /\ e.text = t /\ e.base = t /\ e.current = 0 /\ e.saved = 0 /\ e.next = 0
        /\ e.undo = <<>> /\ e.redo = <<>> /\ e.kept = d.kept /\ e.existed = d.existed
        /\ e.fingerprint = d.fingerprint /\ e.path = d.path /\ e.autosaved = d.autosaved
    BY DEF SetText, DocumentSet
  <1> HIDE DEF e
  <1>4. RevisionInv(e)  BY <1>3, NoHistory DEF RevisionInv
  <1> QED BY <1>2, <1>3, <1>4 DEF DocumentInv, FileInv, e

\* A new document, and one that load() has just filled from its file.
LEMMA FreshInv ==
  ASSUME disk \in [Paths -> Texts \union {NoFile}]
  PROVE  /\ NewDocument \in DocumentSet /\ DocumentInv(NewDocument)
         /\ \A d \in DocumentSet, p \in Paths :
              disk[p] # NoFile => /\ DocumentInv(Load(d, p)) /\ Load(d, p).path = p
                                 /\ Load(d, p).autosaved = d.autosaved
                                 /\ Load(d, p).text = disk[p]
  <1>1. NewDocument \in DocumentSet
    BY EmptySeq DEF NewDocument, DocumentSet, Entries
  <1>2. DocumentInv(NewDocument)
    <2> DEFINE e == NewDocument
    <2>1. /\ e.text = Empty /\ e.base = Empty /\ e.current = 0 /\ e.saved = 0 /\ e.next = 0
          /\ e.undo = <<>> /\ e.redo = <<>> /\ e.existed = FALSE /\ e.group = FALSE
      BY DEF NewDocument
    <2> HIDE DEF e
    <2>2. RevisionInv(e)  BY <2>1, NoHistory DEF RevisionInv
    <2> QED BY <1>1, <2>1, <2>2 DEF DocumentInv, FileInv, e
  <1>3. ASSUME NEW d \in DocumentSet, NEW p \in Paths, disk[p] # NoFile
        PROVE  /\ DocumentInv(Load(d, p)) /\ Load(d, p).path = p
               /\ Load(d, p).autosaved = d.autosaved /\ Load(d, p).text = disk[p]
    <2> DEFINE e == LoadFingerprint(d, p)
    <2>1. disk[p] \in Texts  BY <1>3
    <2>2. e \in DocumentSet /\ e.existed /\ e.fingerprint = disk[p] /\ e.path = p
          /\ e.autosaved = d.autosaved
      BY <2>1 DEF LoadFingerprint, DocumentSet
    <2> HIDE DEF e
    <2>3. Load(d, p) = SetText(e, disk[p])  BY DEF Load, e
    <2> QED BY <2>1, <2>2, <2>3, SetTextInv
  <1> QED BY <1>1, <1>2, <1>3

\* restoreText(): the document is modified, and stays so until it is saved.
LEMMA RestoreTextInv ==
  ASSUME NEW d \in DocumentSet, NEW t \in Texts
  PROVE  LET e == RestoreText(d, t) IN
         /\ DocumentInv(e) /\ Modified(e) /\ e.text = t /\ e.path = d.path
         /\ e.autosaved = d.autosaved
  <1> DEFINE s == SetText(d, t)
             e == RestoreText(d, t)
  <1>1. s \in DocumentSet /\ s.path = d.path /\ s.autosaved = d.autosaved /\ s.text = t
    BY SetTextInv
  <1>2. /\ s.undo = <<>> /\ s.redo = <<>> /\ s.saved = 0 /\ s.base = t /\ s.group = FALSE
    BY DEF SetText, DocumentSet
  <1>3. e = [s EXCEPT !.next = 1, !.current = 1]
    BY DEF RestoreText
  <1> HIDE DEF s, e
  <1>4. /\ e \in DocumentSet /\ e.text = t /\ e.base = t /\ e.current = 1 /\ e.saved = 0
        /\ e.next = 1 /\ e.undo = <<>> /\ e.redo = <<>> /\ e.group = FALSE
        /\ e.path = d.path /\ e.autosaved = d.autosaved
    BY <1>1, <1>2, <1>3 DEF DocumentSet
  <1>5. RevisionInv(e)  BY <1>4, NoHistory DEF RevisionInv
  <1>6. ~SavedReachable(e)  BY <1>4, NoHistory DEF SavedReachable
  <1> QED BY <1>4, <1>5, <1>6 DEF DocumentInv, FileInv, Modified, e

\* A successful save makes the present text the saved one and the one in the file.
LEMMA SavedInv ==
  ASSUME NEW d, DocumentInv(d), NEW p \in Paths
  PROVE  DocumentInv(Saved(d, p)) /\ Saved(d, p).autosaved = d.autosaved
         /\ Saved(d, p).path = p /\ Saved(d, p).text = d.text
  <1> DEFINE e == Saved(d, p)
  <1>1. d \in DocumentSet  BY DEF DocumentInv
  <1>2. /\ e \in DocumentSet /\ ~e.group /\ e.text = d.text /\ e.base = d.text
        /\ e.current = d.current /\ e.saved = d.current /\ e.next = d.next
        /\ e.undo = d.undo /\ e.redo = d.redo /\ e.existed /\ e.fingerprint = d.text
        /\ e.autosaved = d.autosaved /\ e.path = p
    BY <1>1 DEF Saved, DocumentSet
  <1> HIDE DEF e
  <1>3. Revisions(e) \subseteq Revisions(d)
    BY <1>2 DEF Revisions, Steps
  <1>4. RevisionInv(e)  BY <1>2, <1>3, FewerRevisions DEF DocumentInv
  <1> QED BY <1>2, <1>4 DEF DocumentInv, FileInv, e

\* Keep, a rename and an autosave leave the text and its history alone.
LEMMA SameHistory ==
  ASSUME NEW d, NEW e \in DocumentSet, DocumentInv(d), FileInv(d) => FileInv(e),
         e.text = d.text, e.base = d.base, e.current = d.current, e.saved = d.saved,
         e.next = d.next, e.undo = d.undo, e.redo = d.redo, e.group = d.group
  PROVE  DocumentInv(e)
  <1>1. Revisions(e) = Revisions(d)  BY DEF Revisions, Steps
  <1> QED BY <1>1 DEF DocumentInv, RevisionInv

----------------------------------------------------------------------------
(* Recovery *)

\* The documents restoreRecovery() makes: modified, and not autosaved yet.
RestoredSet == {d \in DocumentSet : DocumentInv(d) /\ Modified(d) /\ d.autosaved = NoFile}

\* The documents r are s with the entry e put in document i, which is new or has the
\* entry's path.
PutIn(s, e, r, i) ==
  /\ i \in DOMAIN r /\ r[i].path = e.path /\ r[i].text = e.text
  /\ DOMAIN r = DOMAIN s \union {i}
  /\ \A j \in DOMAIN s \ {i} : r[j] = s[j]
  /\ i \in DOMAIN s => s[i].path = e.path /\ e.path # NoPath
  /\ i \notin DOMAIN s => e.path = NoPath \/ \A j \in DOMAIN s : s[j].path # e.path

\* A save that is reported as failed leaves the text and its history alone.
LEMMA SavedUnseenInv ==
  ASSUME NEW d, DocumentInv(d), NEW p \in Paths
  PROVE  DocumentInv(SavedUnseen(d, p)) /\ SavedUnseen(d, p).autosaved = d.autosaved
         /\ SavedUnseen(d, p).path = p /\ SavedUnseen(d, p).text = d.text
  <1> DEFINE e == SavedUnseen(d, p)
  <1>1. d \in DocumentSet  BY DEF DocumentInv
  <1>2. /\ e \in DocumentSet /\ e.autosaved = d.autosaved /\ e.text = d.text /\ e.base = d.base
        /\ e.current = d.current /\ e.saved = d.saved /\ e.next = d.next /\ e.undo = d.undo
        /\ e.redo = d.redo /\ e.group = d.group /\ e.kept = TRUE /\ e.path = p
    BY <1>1 DEF SavedUnseen, DocumentSet
  <1> HIDE DEF e
  <1>3. FileInv(e)  BY <1>2 DEF FileInv
  <1>4. DocumentInv(e)  BY <1>2, <1>3, SameHistory
  <1> QED BY <1>2, <1>4 DEF e

\* First() is the least index.
LEMMA FirstProperties ==
  ASSUME NEW S \in SUBSET Nat, S # {}
  PROVE  First(S) \in S /\ \A j \in S : First(S) <= j
  <1>1. \E i \in S : \A j \in S : i <= j  BY LeastNumber
  <1> QED BY <1>1 DEF First

EntrySet == [path : Paths \union {NoPath}, text : Texts]

\* That is what a round of restoreRecovery() does.
LEMMA RestoreEntryProperties ==
  ASSUME disk \in [Paths -> Texts \union {NoFile}],
         NEW s \in Seq(RestoredSet), NEW e \in EntrySet, NEW r, r = RestoreEntry(s, e)
  PROVE  /\ r \in Seq(RestoredSet)
         /\ \E i : PutIn(s, e, r, i)
  <1> DEFINE opened == {i \in DOMAIN s : e.path # NoPath /\ s[i].path = e.path}
             fresh == IF e.path # NoPath /\ disk[e.path] # NoFile THEN Load(NewDocument, e.path)
                      ELSE [NewDocument EXCEPT !.path = e.path]
             i == First(opened)
             new == RestoreText(fresh, e.text)
  <1>1. e.path \in Paths \union {NoPath} /\ e.text \in Texts
    BY DEF EntrySet
  <1>2. Len(s) \in Nat /\ DOMAIN s = 1..Len(s) /\ \A j \in DOMAIN s : s[j] \in RestoredSet
    BY LenProperties
  <1>3. CASE opened # {}
    <2>1. i \in opened
      <3>1. opened \in SUBSET Nat  BY <1>2
      <3> HIDE DEF opened
      <3> QED BY <1>3, <3>1, FirstProperties
    <2> DEFINE d == RestoreText(s[i], e.text)
    <2> HIDE DEF i
    <2>2. i \in DOMAIN s /\ s[i].path = e.path /\ e.path # NoPath /\ s[i] \in RestoredSet
      BY <1>2, <2>1
    <2>3. DocumentInv(d) /\ Modified(d) /\ d.text = e.text /\ d.path = e.path /\ d.autosaved = NoFile
      BY <1>1, <2>2, RestoreTextInv DEF RestoredSet
    <2>4. d \in RestoredSet  BY <2>3 DEF RestoredSet, DocumentInv
    <2>5. r = [s EXCEPT ![i] = d]
      BY <1>3 DEF RestoreEntry, i
    <2> HIDE DEF d, opened
    <2>6. r \in Seq(RestoredSet) /\ DOMAIN r = DOMAIN s /\ r[i] = d
          /\ \A j \in DOMAIN s \ {i} : r[j] = s[j]
      <3>1. r \in Seq(RestoredSet)  BY <1>2, <2>2, <2>4, <2>5, ExceptSeq
      <3> QED BY <2>2, <2>5, <3>1
    <2>7. /\ i \in DOMAIN r /\ r[i].path = e.path /\ r[i].text = e.text
          /\ DOMAIN r = DOMAIN s \union {i}
      BY <2>2, <2>3, <2>6
    <2>8. PutIn(s, e, r, i)  BY <2>2, <2>6, <2>7 DEF PutIn
    <2> QED BY <2>6, <2>8
  <1>4. CASE opened = {}
    <2>1. fresh \in DocumentSet /\ fresh.path = e.path /\ fresh.autosaved = NoFile
      <3>1. CASE e.path # NoPath /\ disk[e.path] # NoFile
        BY <1>1, <3>1, FreshInv DEF DocumentInv, NewDocument
      <3>2. CASE ~(e.path # NoPath /\ disk[e.path] # NoFile)
        BY <1>1, <3>2, FreshInv DEF NewDocument, DocumentSet
      <3> QED BY <3>1, <3>2
    <2>2. r = Append(s, new)
      BY <1>4 DEF RestoreEntry
    <2> HIDE DEF fresh
    <2>3. new \in RestoredSet /\ new.text = e.text /\ new.path = e.path
      <3>1. DocumentInv(new) /\ Modified(new) /\ new.text = e.text /\ new.path = e.path
            /\ new.autosaved = NoFile
        BY <1>1, <2>1, RestoreTextInv
      <3> QED BY <3>1 DEF RestoredSet, DocumentInv
    <2> HIDE DEF new
    <2>4. /\ r \in Seq(RestoredSet) /\ Len(r) = Len(s) + 1 /\ r[Len(s) + 1] = new
          /\ \A j \in 1..Len(s) : r[j] = s[j]
      BY <2>2, <2>3, AppendProperties
    <2>5. DOMAIN r = 1..(Len(s) + 1)  BY <2>4, LenProperties
    <2>6. DOMAIN r = DOMAIN s \union {Len(s) + 1} /\ Len(s) + 1 \notin DOMAIN s
      BY <1>2, <2>5
    <2>7. e.path = NoPath \/ \A j \in DOMAIN s : s[j].path # e.path
      BY <1>4
    <2>8. PutIn(s, e, r, Len(s) + 1)  BY <1>2, <2>3, <2>4, <2>6, <2>7 DEF PutIn
    <2> QED BY <2>4, <2>8
  <1> QED BY <1>3, <1>4

\* What holds of the documents s after the first n entries of the recovery file.
RestoredInv(s, n) ==
  /\ s \in Seq(RestoredSet)
  /\ \A i, j \in DOMAIN s : s[i].path = s[j].path /\ s[i].path # NoPath => i = j
  /\ \A m \in 1..n :
       \/ \E k \in (m + 1)..n : recovery[k].path = recovery[m].path /\ recovery[m].path # NoPath
       \/ \E i \in DOMAIN s : s[i].text = recovery[m].text /\ s[i].path = recovery[m].path

\* One more round preserves it.
LEMMA RestoreEntryInv ==
  ASSUME disk \in [Paths -> Texts \union {NoFile}], recovery \in Seq(EntrySet),
         NEW n \in 0..(Len(recovery) - 1), NEW s, RestoredInv(s, n)
  PROVE  RestoredInv(RestoreEntry(s, recovery[n + 1]), n + 1)
  <1> DEFINE e == recovery[n + 1]
             r == RestoreEntry(s, e)
  <1>1. Len(recovery) \in Nat /\ n \in Nat /\ e \in EntrySet /\ s \in Seq(RestoredSet)
    <2>1. Len(recovery) \in Nat  BY LenProperties
    <2> QED BY <2>1 DEF RestoredInv
  <1>a. r = RestoreEntry(s, e)  OBVIOUS
  <1> HIDE DEF r, e
  <1>2. r \in Seq(RestoredSet)
    BY <1>1, <1>a, RestoreEntryProperties
  <1>3. PICK i : PutIn(s, e, r, i)
    BY <1>1, <1>a, RestoreEntryProperties
  <1>4. \A j, k \in DOMAIN r : r[j].path = r[k].path /\ r[j].path # NoPath => j = k
    BY <1>3 DEF RestoredInv, PutIn
  <1>5. ASSUME NEW m \in 1..(n + 1)
        PROVE  \/ \E k \in (m + 1)..(n + 1) : /\ recovery[k].path = recovery[m].path
                                               /\ recovery[m].path # NoPath
               \/ \E j \in DOMAIN r : r[j].text = recovery[m].text /\ r[j].path = recovery[m].path
    <2>1. CASE m = n + 1
      BY <1>3, <2>1 DEF PutIn, e
    <2>2. CASE m # n + 1
      <3>1. m \in 1..n  BY <1>1, <2>2
      <3>2. CASE \E k \in (m + 1)..n : /\ recovery[k].path = recovery[m].path
                                       /\ recovery[m].path # NoPath
        BY <1>1, <3>2
      <3>3. ASSUME NEW j \in DOMAIN s, s[j].text = recovery[m].text, s[j].path = recovery[m].path
            PROVE  \/ recovery[n + 1].path = recovery[m].path /\ recovery[m].path # NoPath
                   \/ r[j].text = recovery[m].text /\ r[j].path = recovery[m].path
        BY <1>3, <3>3 DEF PutIn, e
      <3>4. n + 1 \in (m + 1)..(n + 1)  BY <1>1, <3>1
      <3> QED BY <1>3, <3>1, <3>2, <3>3, <3>4 DEF RestoredInv, PutIn
    <2> QED BY <2>1, <2>2
  <1> QED BY <1>2, <1>4, <1>5 DEF RestoredInv, r, e

\* restoreRecovery() as a whole: the rounds one after the other.
LEMMA RestoredProperties ==
  ASSUME disk \in [Paths -> Texts \union {NoFile}], recovery \in Seq(EntrySet)
  PROVE  RestoredInv(Restored[Len(recovery)], Len(recovery))
  <1> DEFINE L == Len(recovery)
             V == Seq(RestoredSet)
             Round(g, n) == IF n = 0 THEN <<>> ELSE RestoreEntry(g[n - 1], recovery[n])
             G == [n \in 1..L |-> [s \in V |-> RestoreEntry(s, recovery[n])]]
  <1>1. L \in Nat /\ \A n \in 1..L : recovery[n] \in EntrySet
    BY LenProperties
  <1>2. G \in [1..L -> [V -> V]]
    BY <1>1, RestoreEntryProperties
  <1>3. PICK f : Rounds(f, L, V, <<>>, G)
    <2>1. <<>> \in V  BY EmptySeq
    <2> HIDE DEF G, V
    <2> QED BY <1>1, <1>2, <2>1, Recursion
  <1>4. f = [n \in 0..L |-> Round(f, n)]
    <2>1. ASSUME NEW n \in 0..L PROVE f[n] = Round(f, n)
      <3>1. CASE n = 0  BY <1>3, <3>1 DEF Rounds
      <3>2. CASE n # 0
        <4>1. n \in 1..L /\ n - 1 \in 0..L  BY <1>1, <3>2
        <4>2. G[n] = [s \in V |-> RestoreEntry(s, recovery[n])]  BY <4>1
        <4>3. f[n - 1] \in V  BY <1>3, <4>1 DEF Rounds
        <4> QED BY <1>3, <3>2, <4>1, <4>2, <4>3 DEF Rounds
      <3> QED BY <3>1, <3>2
    <2>2. f \in [0..L -> V]  BY <1>3 DEF Rounds
    <2> HIDE DEF Round, V, G
    <2> QED BY <2>1, <2>2
  <1>5. Restored = [n \in 0..L |-> Round(Restored, n)]
    <2>1. Restored = CHOOSE g : g = [n \in 0..L |-> Round(g, n)]
      BY Zenon DEF Restored
    <2> HIDE DEF Round, L
    <2> QED BY <1>4, <2>1, Zenon
  <1> DEFINE Good == {n \in 0..L : RestoredInv(Restored[n], n)}
  <1>6. 0 \in Good
    <2>1. 0 \in 0..L /\ Restored[0] = <<>>  BY <1>1, <1>5
    <2>2. RestoredInv(<<>>, 0)  BY EmptySeq DEF RestoredInv
    <2> QED BY <2>1, <2>2
  <1>7. ASSUME NEW n \in 0..(L - 1), n \in Good PROVE n + 1 \in Good
    <2>1. n + 1 \in 0..L /\ n + 1 # 0 /\ (n + 1) - 1 = n
      BY <1>1
    <2>2. Restored[n + 1] = RestoreEntry(Restored[n], recovery[n + 1])
      BY <1>5, <2>1
    <2> QED BY <1>1, <1>7, <2>1, <2>2, RestoreEntryInv
  <1> HIDE DEF Good
  <1>8. 0..L \subseteq Good
    <2> HIDE DEF L
    <2> QED BY <1>1, <1>6, <1>7, IntervalInduction
  <1> QED BY <1>1, <1>8 DEF Good

----------------------------------------------------------------------------
(* The inductive invariant *)

GoodSet == {d \in DocumentSet : DocumentInv(d)}

\* The open documents of a state with IInv satisfy what IInv says of each.
LEMMA GoodDocuments ==
  ASSUME IInv PROVE documents \in Seq(GoodSet)
  <1>1. documents \in Seq(DocumentSet) /\ DOMAIN documents = 1..Len(documents)
    BY LenProperties DEF IInv, TypeOK
  <1>2. \A i \in 1..Len(documents) : documents[i] \in GoodSet
    BY <1>1 DEF IInv, TypeOK, DocumentInv, GoodSet
  <1> QED BY <1>1, <1>2, SeqDef

\* A step to good documents preserves IInv when what was autosaved stays in the recovery file.
LEMMA StepIInv ==
  ASSUME ide' \in {"down", "welcome", "project"}, documents' \in Seq(GoodSet),
         active' \in (IF documents' = <<>> THEN {0} ELSE DOMAIN documents'),
         closed' \in Seq(Paths), Len(closed') <= ClosedLimit,
         disk' \in [Paths -> Texts \union {NoFile}], recovery' \in Seq(EntrySet),
         AutosaveInv'
  PROVE  IInv'
  <1>1. /\ DOMAIN documents' = 1..Len(documents')
        /\ \A i \in DOMAIN documents' : documents'[i] \in GoodSet
    BY LenProperties
  <1>2. documents' \in Seq(DocumentSet)
    BY <1>1, SeqDef DEF GoodSet
  <1> QED BY <1>1, <1>2 DEF IInv, TypeOK, GoodSet, DocumentInv, EntrySet

\* The documents of a step that leaves the recovery file alone carry no other autosaved text.
LEMMA SameAutosaved ==
  ASSUME IInv, ide' = ide, recovery' = recovery,
         \A i \in DOMAIN documents' :
           \/ documents'[i].autosaved = NoFile
           \/ \E j \in DOMAIN documents : documents[j].autosaved = documents'[i].autosaved
  PROVE  AutosaveInv'
  BY DEF IInv, AutosaveInv

\* Every part of a state with IInv but the documents.
LEMMA StateTypes ==
  ASSUME IInv
  PROVE  /\ ide \in {"down", "welcome", "project"}
         /\ active \in (IF documents = <<>> THEN {0} ELSE DOMAIN documents)
         /\ closed \in Seq(Paths) /\ Len(closed) <= ClosedLimit
         /\ disk \in [Paths -> Texts \union {NoFile}]
         /\ recovery \in Seq(EntrySet)
         /\ DOMAIN documents = 1..Len(documents) /\ Len(documents) \in Nat
         /\ \A i \in DOMAIN documents :
              /\ DocumentInv(documents[i]) /\ documents[i] \in DocumentSet
              /\ documents[i].path \in Paths \union {NoPath} /\ documents[i].text \in Texts
  <1>1. documents \in Seq(GoodSet)  BY GoodDocuments
  <1>2. DOMAIN documents = 1..Len(documents) /\ Len(documents) \in Nat
        /\ \A i \in DOMAIN documents : documents[i] \in GoodSet
    BY <1>1, LenProperties
  <1>3. \A d \in GoodSet : /\ DocumentInv(d) /\ d \in DocumentSet
                           /\ d.path \in Paths \union {NoPath} /\ d.text \in Texts
    BY DEF GoodSet, DocumentSet
  <1> QED BY <1>2, <1>3 DEF IInv, TypeOK, EntrySet

\* Forget() leaves a list of paths that is not longer.
LEMMA ForgetProperties ==
  ASSUME NEW list \in Seq(Paths), NEW p
  PROVE  Forget(list, p) \in Seq(Paths) /\ Len(Forget(list, p)) <= Len(list)
  BY AmongProperties DEF Forget

\* So does the list of a document that is closed, which has at most ClosedLimit paths.
LEMMA RememberProperties ==
  ASSUME closed \in Seq(Paths), Len(closed) <= ClosedLimit, NEW p \in Paths,
         NEW list, list = Append(Forget(closed, p), p)
  PROVE  LET kept == IF Len(list) > ClosedLimit THEN Tail(list) ELSE list
         IN  kept \in Seq(Paths) /\ Len(kept) <= ClosedLimit
  <1>1. Forget(closed, p) \in Seq(Paths) /\ Len(Forget(closed, p)) <= ClosedLimit
        /\ Len(Forget(closed, p)) \in Nat
    BY ForgetProperties, LenProperties
  <1>2. list \in Seq(Paths) /\ Len(list) = Len(Forget(closed, p)) + 1
    BY <1>1, AppendProperties
  <1>3. CASE Len(list) > ClosedLimit
    <2>1. list # <<>>  BY <1>1, <1>2, EmptySeq
    <2>2. Tail(list) \in Seq(Paths) /\ Len(Tail(list)) = Len(list) - 1
      BY <1>2, <2>1, RangeTail
    <2> QED BY <1>1, <1>2, <1>3, <2>2
  <1>4. CASE ~(Len(list) > ClosedLimit)
    BY <1>1, <1>2, <1>4
  <1> QED BY <1>3, <1>4

\* The initial state satisfies the inductive invariant.
LEMMA InitIInv == Init => IInv
  <1> SUFFICES ASSUME Init PROVE IInv
    OBVIOUS
  <1>1. TypeOK  BY EmptySeq DEF Init, TypeOK
  <1> QED BY <1>1 DEF Init, IInv, AutosaveInv

\* One document becomes another that has been autosaved as often.
LEMMA BecomeIInv ==
  ASSUME IInv, active # 0, NEW d, DocumentInv(d), d.autosaved = documents[active].autosaved,
         documents' = [documents EXCEPT ![active] = d], active' = active,
         ide' = ide, closed' = closed, recovery' = recovery,
         disk' \in [Paths -> Texts \union {NoFile}]
  PROVE  IInv'
  <1>1. active \in DOMAIN documents /\ documents # <<>>
    BY StateTypes
  <1>2. d \in GoodSet  BY DEF GoodSet, DocumentInv
  <1>3. documents' \in Seq(GoodSet)
    BY <1>1, <1>2, GoodDocuments, StateTypes, ExceptSeq
  <1>4. DOMAIN documents' = DOMAIN documents
    OBVIOUS
  <1>5. documents' # <<>>
    BY <1>1, <1>4
  <1>6. AutosaveInv'
    BY <1>1, <1>4, SameAutosaved
  <1> QED BY <1>1, <1>3, <1>4, <1>5, <1>6, StateTypes, StepIInv

\* open() preserves it: the document is there already, or new and as its file.
LEMMA OpenDocumentIInv ==
  ASSUME IInv, NEW p \in Paths, NEW list \in Seq(Paths), Len(list) <= ClosedLimit,
         OpenDocument(p, list), ide' = ide, disk' = disk, recovery' = recovery
  PROVE  IInv'
  <1>1. closed' \in Seq(Paths) /\ Len(closed') <= ClosedLimit
    <2>1. Len(list) \in Nat /\ Len(Forget(list, p)) \in Nat
      BY ForgetProperties, LenProperties
    <2> QED BY <2>1, ForgetProperties DEF OpenDocument
  <1>2. CASE Open(p) # {}
    <2>1. documents' = documents /\ active' = First(Open(p))
      BY <1>2 DEF OpenDocument
    <2>2. Open(p) \in SUBSET Nat /\ Open(p) \subseteq DOMAIN documents
      BY StateTypes DEF Open
    <2>3. active' \in DOMAIN documents'
      BY <1>2, <2>1, <2>2, FirstProperties
    <2>4. documents' # <<>>  BY <2>3
    <2>5. AutosaveInv'  BY <2>1, SameAutosaved
    <2> QED BY <1>1, <2>1, <2>3, <2>4, <2>5, GoodDocuments, StateTypes, StepIInv
  <1>3. CASE Open(p) = {}
    <2> DEFINE d == Load(NewDocument, p)
    <2>1. documents' = Append(documents, d) /\ active' = Len(documents) + 1 /\ disk[p] # NoFile
      BY <1>3 DEF OpenDocument
    <2>2. d \in GoodSet /\ d.autosaved = NoFile
      BY <2>1, FreshInv, StateTypes DEF GoodSet, DocumentInv, NewDocument
    <2> HIDE DEF d
    <2>3. /\ documents' \in Seq(GoodSet) /\ Len(documents') = Len(documents) + 1
          /\ documents'[Len(documents) + 1] = d
          /\ \A i \in 1..Len(documents) : documents'[i] = documents[i]
      BY <2>1, <2>2, GoodDocuments, AppendProperties
    <2>4. DOMAIN documents' = 1..(Len(documents) + 1)  BY <2>3, LenProperties
    <2>5. active' \in DOMAIN documents' /\ documents' # <<>>
      BY <2>1, <2>4, StateTypes
    <2>6. AutosaveInv'  BY <2>2, <2>3, <2>4, StateTypes, SameAutosaved
    <2> QED BY <1>1, <2>3, <2>5, <2>6, StateTypes, StepIInv
  <1> QED BY <1>2, <1>3

\* Removing a document preserves it; ds is the documents, after a save of it perhaps.
LEMMA RemoveIInv ==
  ASSUME IInv, NEW ds \in Seq(GoodSet), DOMAIN ds = DOMAIN documents, NEW i \in DOMAIN documents,
         \A j \in DOMAIN documents : ds[j].autosaved = documents[j].autosaved,
         documents' = RemoveAt(ds, i),
         active' = (IF i <= Len(documents') THEN i ELSE Len(documents')),
         closed' \in Seq(Paths), Len(closed') <= ClosedLimit,
         disk' \in [Paths -> Texts \union {NoFile}], ide' = ide, recovery' = recovery
  PROVE  IInv'
  <1>1. DOMAIN ds = 1..Len(ds) /\ Len(ds) \in Nat /\ i \in 1..Len(ds)
    BY LenProperties
  <1>2. /\ documents' \in Seq(GoodSet) /\ Len(documents') = Len(ds) - 1
        /\ \A j \in 1..(Len(ds) - 1) : documents'[j] = IF j < i THEN ds[j] ELSE ds[j + 1]
    BY <1>1, RemoveAtProperties
  <1>3. DOMAIN documents' = 1..(Len(ds) - 1)
    BY <1>2, LenProperties
  <1>4. active' \in (IF documents' = <<>> THEN {0} ELSE DOMAIN documents')
    <2>1. CASE documents' = <<>>
      <3>1. Len(documents') = 0  BY <2>1, EmptySeq
      <3> QED BY <1>1, <2>1, <3>1
    <2>2. CASE documents' # <<>>
      <3>1. Len(documents') \in Nat \ {0}  BY <1>2, <2>2, EmptySeq
      <3> QED BY <1>1, <1>2, <1>3, <2>2, <3>1
    <2> QED BY <2>1, <2>2
  <1>5. \A j \in DOMAIN documents' :
          \E k \in DOMAIN documents : documents[k].autosaved = documents'[j].autosaved
    <2> SUFFICES ASSUME NEW j \in DOMAIN documents'
                 PROVE  \E k \in DOMAIN documents : documents[k].autosaved = documents'[j].autosaved
      OBVIOUS
    <2>1. CASE j < i
      <3>1. j \in DOMAIN documents /\ documents'[j] = ds[j]  BY <1>1, <1>2, <1>3, <2>1
      <3> QED BY <3>1
    <2>2. CASE i <= j
      <3>1. j + 1 \in DOMAIN documents /\ documents'[j] = ds[j + 1]
        BY <1>1, <1>2, <1>3, <2>2
      <3> QED BY <3>1
    <2> QED BY <1>1, <1>3, <2>1, <2>2
  <1>6. AutosaveInv'  BY <1>5, SameAutosaved
  <1> QED BY <1>2, <1>4, <1>6, StateTypes, StepIInv

\* closeActive() with the list of recently closed files.
LEMMA RemoveDocumentIInv ==
  ASSUME IInv, NEW i \in DOMAIN documents, NEW remember \in BOOLEAN, RemoveDocument(i, remember),
         disk' \in [Paths -> Texts \union {NoFile}], ide' = ide, recovery' = recovery
  PROVE  IInv'
  <1> DEFINE p == documents[i].path
             list == Append(Forget(closed, p), p)
  <1>1. closed' \in Seq(Paths) /\ Len(closed') <= ClosedLimit
    <2>1. CASE ~remember \/ p = NoPath
      BY <2>1, StateTypes DEF RemoveDocument
    <2>2. CASE remember /\ p # NoPath
      <3>1. p \in Paths  BY <2>2, StateTypes
      <3>2. closed' = IF Len(list) > ClosedLimit THEN Tail(list) ELSE list
        BY <2>2 DEF RemoveDocument
      <3> HIDE DEF p
      <3> QED BY <3>1, <3>2, StateTypes, RememberProperties
    <2> QED BY <2>1, <2>2
  <1>2. /\ documents' = RemoveAt(documents, i)
        /\ active' = IF i <= Len(documents') THEN i ELSE Len(documents')
    BY DEF RemoveDocument
  <1> QED BY <1>1, <1>2, GoodDocuments, RemoveIInv

\* The actions of the user on the active document preserve it.
LEMMA ActiveIInv ==
  ASSUME IInv, EditDocument \/ UndoEdit \/ RedoEdit \/ SaveDocument \/ SaveAs \/ SaveUnseen
  PROVE  IInv'
  <1> DEFINE d == documents[active]
  <1> USE DEF OnActive
  <1>1. active # 0 /\ active \in DOMAIN documents /\ DocumentInv(d) /\ d \in DocumentSet
    BY StateTypes DEF EditDocument, UndoEdit, RedoEdit, SaveDocument, SaveAs, SaveUnseen
  <1>2. ASSUME NEW e, DocumentInv(e), e.autosaved = d.autosaved, Become(e) PROVE IInv'
    BY <1>1, <1>2, StateTypes, BecomeIInv DEF Become
  <1>3. CASE EditDocument
    <2>1. ASSUME NEW t \in Texts, NEW grouped \in BOOLEAN, Become(Commit(d, t, grouped))
          PROVE  IInv'
      <3>1. Commit(d, t, grouped).autosaved = d.autosaved
        BY <1>1 DEF Commit, DocumentSet
      <3> QED BY <1>1, <1>2, <2>1, <3>1, CommitInv
    <2>2. ASSUME NEW t \in Texts, d.group, Become(Merge(d, t)) PROVE IInv'
      <3>1. Merge(d, t).autosaved = d.autosaved
        BY <1>1 DEF Merge, DocumentSet
      <3> QED BY <1>1, <1>2, <2>2, <3>1, MergeInv
    <2> QED BY <1>3, <2>1, <2>2 DEF EditDocument
  <1>4. CASE UndoEdit
    <2>1. Undo(d).autosaved = d.autosaved  BY <1>1 DEF Undo, DocumentSet
    <2> QED BY <1>1, <1>2, <1>4, <2>1, UndoRedoInv DEF UndoEdit
  <1>5. CASE RedoEdit
    <2>1. Redo(d).autosaved = d.autosaved  BY <1>1 DEF Redo, DocumentSet
    <2> QED BY <1>1, <1>2, <1>5, <2>1, UndoRedoInv DEF RedoEdit
  <1>6. ASSUME NEW p \in Paths, SaveTo(p) PROVE IInv'
    <2>1. /\ documents' = [documents EXCEPT ![active] = Saved(d, p)] /\ active' = active
          /\ ide' = ide /\ closed' = closed /\ recovery' = recovery
          /\ disk' \in [Paths -> Texts \union {NoFile}]
      BY <1>1, <1>6, StateTypes DEF SaveTo, Write
    <2> QED BY <1>1, <2>1, SavedInv, BecomeIInv
  <1>7. CASE SaveDocument \/ SaveAs
    BY <1>1, <1>6, <1>7, StateTypes DEF SaveDocument, SaveAs, SaveTargets, Destinations
  <1>8. CASE SaveUnseen
    <2>1. PICK p \in SaveTargets(active) \union Destinations(active) :
            /\ \E left \in {d.text, NoFile} : Write(p, left)
            /\ documents' = [documents EXCEPT ![active] = SavedUnseen(d, p)]
      BY <1>8 DEF SaveUnseen
    <2>2. p \in Paths  BY <1>1, StateTypes DEF SaveTargets, Destinations
    <2>a. active' = active /\ ide' = ide /\ closed' = closed /\ recovery' = recovery
      BY <1>8 DEF SaveUnseen
    <2>b. PICK left \in {d.text, NoFile} : disk' = [disk EXCEPT ![p] = left]
      BY <2>1 DEF Write
    <2>c. left \in Texts \union {NoFile}  BY <1>1 DEF DocumentSet
    <2>3. disk' \in [Paths -> Texts \union {NoFile}]
      BY <2>2, <2>b, <2>c, StateTypes
    <2> QED BY <1>1, <2>1, <2>2, <2>3, <2>a, SavedUnseenInv, BecomeIInv
  <1> QED BY <1>3, <1>4, <1>5, <1>7, <1>8

\* Opening, reopening and switching preserve it.
LEMMA OpenIInv ==
  ASSUME IInv,
         \/ NewFile \/ ReopenClosedDocument
         \/ (\E p \in Paths : OpenFile(p)) \/ (\E i \in DOMAIN documents : SwitchDocument(i))
  PROVE  IInv'
  <1>1. CASE NewFile
    <2>1. documents' = Append(documents, NewDocument) /\ active' = Len(documents) + 1
      BY <1>1 DEF NewFile
    <2>2. NewDocument \in GoodSet /\ NewDocument.autosaved = NoFile
      BY FreshInv, StateTypes DEF GoodSet, NewDocument
    <2>3. /\ documents' \in Seq(GoodSet) /\ Len(documents') = Len(documents) + 1
          /\ documents'[Len(documents) + 1] = NewDocument
          /\ \A i \in 1..Len(documents) : documents'[i] = documents[i]
      BY <2>1, <2>2, GoodDocuments, AppendProperties
    <2>4. DOMAIN documents' = 1..(Len(documents) + 1)  BY <2>3, LenProperties
    <2>5. active' \in DOMAIN documents' /\ documents' # <<>>
      BY <2>1, <2>4, StateTypes
    <2>6. AutosaveInv'
      BY <1>1, <2>2, <2>3, <2>4, StateTypes, SameAutosaved DEF NewFile
    <2> QED BY <1>1, <2>3, <2>5, <2>6, StateTypes, StepIInv DEF NewFile
  <1>2. CASE ReopenClosedDocument
    <2>1. /\ Last(closed) \in Paths /\ Front(closed) \in Seq(Paths)
          /\ Len(Front(closed)) <= ClosedLimit
      <3>1. Len(closed) \in Nat /\ Len(Front(closed)) = Len(closed) - 1
        BY <1>2, StateTypes, FrontLastProperties, LenProperties DEF ReopenClosedDocument
      <3> QED BY <1>2, <3>1, StateTypes, FrontLastProperties DEF ReopenClosedDocument
    <2>2. CASE disk[Last(closed)] = NoFile
      <3>1. documents' = documents /\ active' = active /\ ide' = ide /\ disk' = disk
            /\ recovery' = recovery /\ closed' = Front(closed)
        BY <1>2, <2>2 DEF ReopenClosedDocument
      <3>2. AutosaveInv'  BY <3>1, SameAutosaved
      <3> QED BY <2>1, <3>1, <3>2, GoodDocuments, StateTypes, StepIInv
    <2>3. CASE disk[Last(closed)] # NoFile
      BY <1>2, <2>1, <2>3, OpenDocumentIInv DEF ReopenClosedDocument
    <2> QED BY <2>2, <2>3
  <1>3. ASSUME NEW p \in Paths, OpenFile(p) PROVE IInv'
    BY <1>3, StateTypes, OpenDocumentIInv DEF OpenFile
  <1>4. ASSUME NEW i \in DOMAIN documents, SwitchDocument(i) PROVE IInv'
    <2>1. documents' = documents /\ active' = i /\ ide' = ide /\ disk' = disk
          /\ recovery' = recovery /\ closed' = closed
      BY <1>4 DEF SwitchDocument
    <2>2. AutosaveInv' /\ documents # <<>>  BY <2>1, SameAutosaved
    <2> QED BY <2>1, <2>2, GoodDocuments, StateTypes, StepIInv
  <1> QED BY <1>1, <1>2, <1>3, <1>4

\* Closing a document and removing its file preserve it.
LEMMA CloseIInv ==
  ASSUME IInv,
         \/ CloseWithoutAsking \/ CloseSaving \/ CloseDiscarding
         \/ \E p \in Paths : RemoveProjectFile(p)
  PROVE  IInv'
  <1>1. CASE CloseWithoutAsking \/ CloseDiscarding
    BY <1>1, StateTypes, RemoveDocumentIInv DEF CloseWithoutAsking, CloseDiscarding, OnActive
  <1>2. CASE CloseSaving
    <2>1. active \in DOMAIN documents
      BY <1>2, StateTypes DEF CloseSaving, OnActive
    <2>2. PICK p \in SaveTargets(active) :
            /\ Write(p, documents[active].text)
            /\ LET saved == [documents EXCEPT ![active] = Saved(@, p)]
                   list == Append(Forget(closed, p), p)
                   rest == RemoveAt(saved, active)
               IN /\ documents' = rest
                  /\ active' = IF active <= Len(rest) THEN active ELSE Len(rest)
                  /\ closed' = IF Len(list) > ClosedLimit THEN Tail(list) ELSE list
      BY <1>2 DEF CloseSaving
    <2> DEFINE saved == [documents EXCEPT ![active] = Saved(documents[active], p)]
    <2>3. p \in Paths
      BY <2>1, StateTypes DEF SaveTargets, Destinations
    <2>4. closed' \in Seq(Paths) /\ Len(closed') <= ClosedLimit
      BY <2>2, <2>3, StateTypes, RememberProperties
    <2>5. /\ DocumentInv(Saved(documents[active], p)) /\ Saved(documents[active], p) \in GoodSet
          /\ Saved(documents[active], p).autosaved = documents[active].autosaved
      BY <2>1, <2>3, StateTypes, SavedInv DEF GoodSet, DocumentInv
    <2>6. saved \in Seq(GoodSet) /\ DOMAIN saved = DOMAIN documents
      BY <2>1, <2>5, GoodDocuments, StateTypes, ExceptSeq
    <2>7. \A j \in DOMAIN documents : saved[j].autosaved = documents[j].autosaved
      BY <2>1, <2>5
    <2>8. /\ documents' = RemoveAt(saved, active)
          /\ active' = IF active <= Len(documents') THEN active ELSE Len(documents')
      BY <2>2
    <2>9. disk' \in [Paths -> Texts \union {NoFile}] /\ ide' = ide /\ recovery' = recovery
      BY <1>2, <2>1, <2>2, <2>3, StateTypes DEF CloseSaving, Write
    <2> HIDE DEF saved
    <2> QED BY <2>1, <2>4, <2>6, <2>7, <2>8, <2>9, RemoveIInv
  <1>3. ASSUME NEW p \in Paths, RemoveProjectFile(p) PROVE IInv'
    <2>1. disk' \in [Paths -> Texts \union {NoFile}] /\ ide' = ide /\ recovery' = recovery
      BY <1>3, StateTypes DEF RemoveProjectFile
    <2>2. CASE Open(p) = {}
      <3>1. documents' = documents /\ active' = active /\ closed' = closed
        BY <1>3, <2>2 DEF RemoveProjectFile
      <3>2. AutosaveInv'  BY <2>1, <3>1, SameAutosaved
      <3> QED BY <2>1, <3>1, <3>2, GoodDocuments, StateTypes, StepIInv
    <2>3. CASE Open(p) # {}
      <3>1. Open(p) \in SUBSET Nat /\ Open(p) \subseteq DOMAIN documents
        BY StateTypes DEF Open
      <3>2. First(Open(p)) \in DOMAIN documents  BY <2>3, <3>1, FirstProperties
      <3> QED BY <1>3, <2>1, <2>3, <3>2, RemoveDocumentIInv DEF RemoveProjectFile
    <2> QED BY <2>2, <2>3
  <1> QED BY <1>1, <1>2, <1>3

\* Documents that differ in their path, their notes on the file or on the autosave only.
LEMMA MappedIInv ==
  ASSUME IInv, DOMAIN documents' = DOMAIN documents, documents' \in Seq(DocumentSet),
         \A i \in DOMAIN documents :
           LET d == documents[i] e == documents'[i] IN
           /\ FileInv(d) => FileInv(e)
           /\ e.text = d.text /\ e.base = d.base /\ e.current = d.current /\ e.saved = d.saved
           /\ e.next = d.next /\ e.undo = d.undo /\ e.redo = d.redo /\ e.group = d.group
  PROVE  documents' \in Seq(GoodSet) /\ (documents = <<>> <=> documents' = <<>>)
  <1>1. DOMAIN documents' = 1..Len(documents') /\ \A i \in DOMAIN documents' : documents'[i] \in DocumentSet
    BY LenProperties
  <1>2. \A i \in DOMAIN documents' : DocumentInv(documents'[i])
    BY <1>1, StateTypes, SameHistory
  <1>3. \A i \in 1..Len(documents') : documents'[i] \in GoodSet
    BY <1>1, <1>2 DEF GoodSet
  <1>4. documents' \in Seq(GoodSet)  BY <1>3, SeqDef
  <1>5. Len(documents) = Len(documents')  BY <1>1, StateTypes, LenProperties
  <1> QED BY <1>4, <1>5, GoodDocuments, EmptySeq

\* A rename in the project tree preserves it.
LEMMA RenameIInv ==
  ASSUME IInv, NEW p \in Paths, NEW q \in Paths, RenameProjectEntry(p, q)
  PROVE  IInv'
  <1>1. /\ documents' = [i \in DOMAIN documents |->
             IF documents[i].path \in {p, NoPath} THEN [documents[i] EXCEPT !.path = q]
             ELSE documents[i]]
        /\ ide' = ide /\ active' = active /\ closed' = closed /\ recovery' = recovery
        /\ disk' \in [Paths -> Texts \union {NoFile}]
    BY StateTypes DEF RenameProjectEntry
  <1>2. ASSUME NEW i \in DOMAIN documents
        PROVE  LET d == documents[i] e == documents'[i] IN
               /\ e \in DocumentSet /\ e.autosaved = d.autosaved /\ (FileInv(d) => FileInv(e))
               /\ e.text = d.text /\ e.base = d.base /\ e.current = d.current /\ e.saved = d.saved
               /\ e.next = d.next /\ e.undo = d.undo /\ e.redo = d.redo /\ e.group = d.group
    <2> DEFINE d == documents[i]
               e == documents'[i]
    <2>1. d \in DocumentSet /\ (e = d \/ e = [d EXCEPT !.path = q])
      BY <1>1, StateTypes
    <2> HIDE DEF d, e
    <2>2. /\ e \in DocumentSet /\ e.autosaved = d.autosaved /\ e.text = d.text /\ e.base = d.base
          /\ e.current = d.current /\ e.saved = d.saved /\ e.next = d.next /\ e.undo = d.undo
          /\ e.redo = d.redo /\ e.group = d.group /\ e.kept = d.kept /\ e.existed = d.existed
          /\ e.fingerprint = d.fingerprint
      BY <2>1 DEF DocumentSet
    <2>3. FileInv(d) => FileInv(e)  BY <2>2 DEF FileInv, SavedReachable, Steps
    <2> QED BY <2>2, <2>3 DEF d, e
  <1>3. documents' \in Seq(DocumentSet) /\ DOMAIN documents' = DOMAIN documents
    BY <1>1, <1>2, StateTypes, SeqDef
  <1>4. documents' \in Seq(GoodSet) /\ (documents = <<>> <=> documents' = <<>>)
    BY <1>2, <1>3, MappedIInv
  <1>5. AutosaveInv'  BY <1>1, <1>2, <1>3, SameAutosaved
  <1> QED BY <1>1, <1>3, <1>4, <1>5, StateTypes, StepIInv

\* The question about a file that another program has changed preserves it.
LEMMA ExternalChangeIInv ==
  ASSUME IInv, Reload \/ Keep \/ Postpone
  PROVE  IInv'
  <1>1. PICK i \in Noticed :
          /\ active' = i /\ ide' = ide /\ closed' = closed /\ disk' = disk /\ recovery' = recovery
          /\ \/ DiskChange(documents[i]) = "modified"
                /\ documents' = [documents EXCEPT ![i] = Load(documents[i], documents[i].path)]
             \/ documents' = [documents EXCEPT ![i] = Acknowledged(documents[i])]
             \/ documents' = documents
    BY DEF Reload, Keep, Postpone, Asking
  <1> DEFINE d == documents[i]
  <1>2. i \in DOMAIN documents /\ d \in DocumentSet /\ DocumentInv(d) /\ documents # <<>>
    BY StateTypes DEF Noticed
  <1>3. d.path \in Paths
    <2>1. DiskChange(d) # "unchanged"  BY DEF Noticed
    <2> QED BY <1>2, <2>1, StateTypes DEF DiskChange
  <1>4. ASSUME NEW e, DocumentInv(e), e.autosaved = d.autosaved,
               documents' = [documents EXCEPT ![i] = e]
        PROVE  IInv'
    <2>1. e \in GoodSet  BY <1>4 DEF GoodSet, DocumentInv
    <2>2. documents' \in Seq(GoodSet) /\ DOMAIN documents' = DOMAIN documents
      BY <1>2, <1>4, <2>1, GoodDocuments, StateTypes, ExceptSeq
    <2>3. AutosaveInv'  BY <1>1, <1>2, <1>4, <2>2, SameAutosaved
    <2>4. documents' # <<>>  BY <1>2, <2>2
    <2> QED BY <1>1, <1>2, <2>2, <2>3, <2>4, StateTypes, StepIInv
  <1>5. CASE DiskChange(d) = "modified" /\ documents' = [documents EXCEPT ![i] = Load(d, d.path)]
    <2>1. disk[d.path] # NoFile
      BY <1>3, <1>5 DEF DiskChange
    <2> QED BY <1>2, <1>3, <1>4, <1>5, <2>1, StateTypes, FreshInv
  <1>6. CASE documents' = [documents EXCEPT ![i] = Acknowledged(d)]
    <2> DEFINE e == Acknowledged(d)
    <2>1. disk[d.path] \in Texts \union {NoFile}  BY <1>3, StateTypes
    <2> HIDE DEF d
    <2>2. /\ e \in DocumentSet /\ e.autosaved = d.autosaved /\ e.text = d.text /\ e.base = d.base
          /\ e.current = d.current /\ e.saved = d.saved /\ e.next = d.next /\ e.undo = d.undo
          /\ e.redo = d.redo /\ e.group = d.group /\ e.kept = TRUE
      BY <1>2, <2>1 DEF Acknowledged, DocumentSet
    <2> HIDE DEF e
    <2>3. FileInv(e)  BY <2>2 DEF FileInv
    <2>4. DocumentInv(e)  BY <1>2, <2>2, <2>3, SameHistory
    <2> QED BY <1>4, <1>6, <2>2, <2>4 DEF e, d
  <1>7. CASE documents' = documents
    <2>1. AutosaveInv'  BY <1>1, <1>7, SameAutosaved
    <2> QED BY <1>1, <1>2, <1>7, <2>1, GoodDocuments, StateTypes, StepIInv
  <1> QED BY <1>1, <1>5, <1>6, <1>7

\* The autosave writes every modified document, and notes only what it has written.
LEMMA AutosaveIInv ==
  ASSUME IInv, AutosaveRecovery
  PROVE  IInv'
  <1> DEFINE Set == {d \in Range(documents) : Modified(d)}
             modified == Among(documents, Set)
  <1>1. /\ recovery' = [i \in DOMAIN modified |-> Entry(modified[i])]
        /\ documents' = [i \in DOMAIN documents |->
             [documents[i] EXCEPT !.autosaved = IF Modified(documents[i]) THEN documents[i].text
                                                ELSE NoFile]]
        /\ ide' = ide /\ active' = active /\ closed' = closed /\ disk' = disk
    BY DEF AutosaveRecovery
  <1>2. modified \in Seq(GoodSet) /\ Range(modified) = Range(documents) \intersect Set
    BY GoodDocuments, AmongProperties
  <1>3. recovery' \in Seq(EntrySet) /\ DOMAIN recovery' = DOMAIN modified
    <2> HIDE DEF modified
    <2>1. DOMAIN modified = 1..Len(modified) /\ Len(modified) \in Nat
          /\ \A i \in 1..Len(modified) : modified[i] \in GoodSet
      BY <1>2, LenProperties
    <2>2. \A i \in 1..Len(modified) : Entry(modified[i]) \in EntrySet
      BY <2>1 DEF Entry, EntrySet, GoodSet, DocumentSet
    <2> QED BY <1>1, <2>1, <2>2, SeqDef
  <1>4. ASSUME NEW i \in DOMAIN documents
        PROVE  LET d == documents[i] e == documents'[i] IN
               /\ e \in DocumentSet /\ (FileInv(d) => FileInv(e))
               /\ e.autosaved = IF Modified(d) THEN d.text ELSE NoFile
               /\ e.text = d.text /\ e.base = d.base /\ e.current = d.current /\ e.saved = d.saved
               /\ e.next = d.next /\ e.undo = d.undo /\ e.redo = d.redo /\ e.group = d.group
    <2> DEFINE d == documents[i]
               e == documents'[i]
               a == IF Modified(d) THEN d.text ELSE NoFile
    <2>1. d \in DocumentSet /\ e = [d EXCEPT !.autosaved = a]
      BY <1>1, StateTypes
    <2>2. a \in Texts \union {NoFile}  BY StateTypes
    <2> HIDE DEF d, e, a
    <2>3. /\ e \in DocumentSet /\ e.autosaved = a /\ e.text = d.text /\ e.base = d.base
          /\ e.current = d.current /\ e.saved = d.saved /\ e.next = d.next /\ e.undo = d.undo
          /\ e.redo = d.redo /\ e.group = d.group /\ e.kept = d.kept /\ e.existed = d.existed
          /\ e.fingerprint = d.fingerprint
      BY <2>1, <2>2 DEF DocumentSet
    <2>4. FileInv(d) => FileInv(e)  BY <2>3 DEF FileInv, SavedReachable, Steps
    <2> QED BY <2>3, <2>4 DEF d, e, a
  <1>5. documents' \in Seq(DocumentSet) /\ DOMAIN documents' = DOMAIN documents
    <2> HIDE DEF modified
    <2>1. DOMAIN documents' = 1..Len(documents) /\ \A i \in 1..Len(documents) : documents'[i] \in DocumentSet
      BY <1>1, <1>4, StateTypes
    <2> QED BY <1>1, <2>1, StateTypes, SeqDef
  <1>6. documents' \in Seq(GoodSet) /\ (documents = <<>> <=> documents' = <<>>)
    BY <1>4, <1>5, MappedIInv
  <1>7. ASSUME NEW i \in DOMAIN documents, Modified(documents[i])
        PROVE  \E e \in Range(recovery') : e.text = documents[i].text
    <2>1. documents[i] \in Range(modified)
      BY <1>2, <1>7 DEF Range
    <2> HIDE DEF modified
    <2>2. PICK k \in DOMAIN modified : modified[k] = documents[i]
      BY <2>1 DEF Range
    <2>3. recovery'[k] = Entry(documents[i]) /\ k \in DOMAIN recovery'
      BY <1>1, <1>3, <2>2
    <2>4. recovery'[k] \in Range(recovery')  BY <2>3 DEF Range
    <2> QED BY <2>3, <2>4 DEF Entry
  <1>8. AutosaveInv'
    BY <1>4, <1>5, <1>7 DEF AutosaveInv
  <1> QED BY <1>1, <1>3, <1>5, <1>6, <1>8, StateTypes, StepIInv

\* Start, exit, crash and the project's opening and closing preserve it.
LEMMA ProjectIInv ==
  ASSUME IInv,
         \/ StartWithoutProject \/ OpenProject \/ DiscardRecovery \/ RestoreRecovery \/ CloseProject
         \/ Exit \/ ExitDiscarding \/ Crash
  PROVE  IInv'
  <1>1. CASE StartWithoutProject
    <2>1. AutosaveInv'  BY <1>1 DEF StartWithoutProject, AutosaveInv
    <2> QED BY <1>1, <2>1, GoodDocuments, StateTypes, StepIInv DEF StartWithoutProject
  <1>2. ASSUME Forgotten, ide' \in {"down", "welcome", "project"}, recovery' \in {<<>>, recovery},
               disk' = disk
        PROVE  IInv'
    <2>1. documents' = <<>> /\ active' = 0 /\ closed' = <<>>
      BY <1>2 DEF Forgotten
    <2>2. AutosaveInv'  BY <2>1 DEF AutosaveInv
    <2>3. documents' \in Seq(GoodSet) /\ closed' \in Seq(Paths) /\ Len(closed') <= ClosedLimit
      BY <2>1, EmptySeq
    <2>4. recovery' \in Seq(EntrySet)
      <3>1. CASE recovery' = <<>>  BY <3>1, EmptySeq
      <3>2. CASE recovery' = recovery  BY <3>2, StateTypes
      <3> QED BY <1>2, <3>1, <3>2
    <2> QED BY <1>2, <2>1, <2>2, <2>3, <2>4, StateTypes, StepIInv
  <1>3. CASE OpenProject \/ DiscardRecovery \/ CloseProject \/ Exit \/ ExitDiscarding \/ Crash
    BY <1>2, <1>3 DEF OpenProject, DiscardRecovery, CloseProject, Exit, ExitDiscarding, Crash,
                      ProjectOpens, Leave
  <1>4. CASE RestoreRecovery
    <2> DEFINE restored == Restored[Len(recovery)]
               last == Last(recovery).path
    <2>1. RestoredInv(restored, Len(recovery))
      BY StateTypes, RestoredProperties
    <2>2. /\ ide' = "project" /\ documents' = restored /\ closed' = <<>> /\ recovery' = <<>>
          /\ disk' = disk /\ recovery # <<>>
          /\ active' = IF last = NoPath THEN Len(restored)
                       ELSE First({i \in DOMAIN restored : restored[i].path = last})
      BY <1>4 DEF RestoreRecovery, ProjectOpens
    <2> HIDE DEF restored
    <2>3. Len(recovery) \in Nat \ {0}  BY <2>2, StateTypes, EmptySeq
    <2>4. PICK i \in DOMAIN restored : restored[i].path = last
      BY <2>1, <2>3 DEF RestoredInv, Last
    <2>5. restored \in Seq(RestoredSet) /\ DOMAIN restored = 1..Len(restored) /\ Len(restored) \in Nat
      BY <2>1, LenProperties DEF RestoredInv
    <2>6. active' \in DOMAIN documents' /\ documents' # <<>>
      <3>1. CASE last = NoPath  BY <2>2, <2>4, <2>5, <3>1
      <3>2. CASE last # NoPath
        <4> DEFINE S == {j \in DOMAIN restored : restored[j].path = last}
        <4>1. S \in SUBSET Nat /\ S # {} /\ S \subseteq DOMAIN restored  BY <2>4, <2>5
        <4>2. active' = First(S)  BY <2>2, <3>2
        <4> HIDE DEF S
        <4>3. First(S) \in DOMAIN restored  BY <4>1, FirstProperties
        <4> QED BY <2>2, <4>2, <4>3
      <3> QED BY <3>1, <3>2
    <2>7. documents' \in Seq(GoodSet) /\ \A j \in DOMAIN documents' : documents'[j].autosaved = NoFile
      <3>1. \A j \in 1..Len(restored) : restored[j] \in GoodSet /\ restored[j].autosaved = NoFile
        BY <2>5 DEF RestoredSet, GoodSet
      <3> QED BY <2>2, <2>5, <3>1, SeqDef
    <2>8. AutosaveInv'  BY <2>7 DEF AutosaveInv
    <2>9. closed' \in Seq(Paths) /\ Len(closed') <= ClosedLimit /\ recovery' \in Seq(EntrySet)
      BY <2>2, EmptySeq
    <2> QED BY <2>2, <2>6, <2>7, <2>8, <2>9, StateTypes, StepIInv
  <1> QED BY <1>1, <1>3, <1>4

\* A step that leaves the IDE alone preserves it: another program's, or none.
LEMMA OtherIInv ==
  ASSUME IInv, (\E p \in Paths, t \in Foreign : External(p, t)) \/ UNCHANGED vars
  PROVE  IInv'
  <1>1. /\ ide' = ide /\ documents' = documents /\ active' = active /\ closed' = closed
        /\ recovery' = recovery /\ disk' \in [Paths -> Texts \union {NoFile}]
    BY StateTypes DEF External, Write, vars
  <1>2. AutosaveInv'  BY <1>1, SameAutosaved
  <1> QED BY <1>1, <1>2, GoodDocuments, StateTypes, StepIInv

\* Every step keeps the invariant.
LEMMA NextIInv == IInv /\ [Next]_vars => IInv'
  BY OpenIInv, ActiveIInv, CloseIInv, RenameIInv, ExternalChangeIInv, AutosaveIInv, ProjectIInv,
     OtherIInv DEF Next

\* IInv holds throughout every behaviour of Documents.
THEOREM SpecIInv == Spec => []IInv
  BY InitIInv, NextIInv, PTL DEF Spec

----------------------------------------------------------------------------
(* What IInv implies. *)

\* The window knows where it stands: an unmodified document has the text last loaded or
\* saved, however it was edited, undone and redone, and a document that differs from its
\* file is marked, noticed by the next look at the files, or kept by choice.
THEOREM SpecStandingKnown == Spec => []StandingKnown
  <1>1. IInv => StandingKnown
    <2> SUFFICES ASSUME IInv PROVE StandingKnown
      OBVIOUS
    <2>1. ASSUME NEW i \in DOMAIN documents, ~Modified(documents[i])
          PROVE  documents[i].text = documents[i].base /\ SavedReachable(documents[i])
      <3> DEFINE d == documents[i]
      <3>1. RevisionInv(d) /\ d.current = d.saved
        BY <2>1 DEF IInv, Modified
      <3>2. <<d.current, d.text>> \in Revisions(d) /\ <<d.saved, d.base>> \in Revisions(d)
        BY DEF Revisions
      <3> QED BY <3>1, <3>2 DEF RevisionInv, SavedReachable
    <2>2. UnmodifiedIsSaved  BY <2>1 DEF UnmodifiedIsSaved
    <2>3. OutOfSyncNoticed
      <3> SUFFICES ASSUME NEW i \in DOMAIN documents,
                          documents[i].path # NoPath, disk[documents[i].path] # documents[i].text,
                          disk[documents[i].path] # NoFile \/ documents[i].text # Empty,
                          ~Modified(documents[i]), DiskChange(documents[i]) = "unchanged",
                          ~documents[i].kept
                   PROVE  FALSE
        BY DEF OutOfSyncNoticed
      <3> DEFINE d == documents[i]
      <3>1. d.text = IF d.existed THEN d.fingerprint ELSE Empty
        BY <2>1 DEF IInv, FileInv
      <3> QED BY <3>1 DEF DiskChange
    <2> QED BY <2>2, <2>3 DEF StandingKnown, IInv
  <1> QED BY <1>1, SpecIInv, PTL

\* The recovery file has the text of every modified document that is as the last autosave
\* found it, whatever was opened, closed, saved or renamed since.
THEOREM SpecRecoveryCovers == Spec => []RecoveryCovers
  <1>1. IInv => RecoveryCovers
    <2> SUFFICES ASSUME IInv PROVE RecoveryCovers
      OBVIOUS
    <2>1. \A i \in DOMAIN documents : documents[i].text # NoFile
      BY StateTypes
    <2> QED BY <2>1 DEF IInv, AutosaveInv, RecoveryCovers
  <1> QED BY <1>1, SpecIInv, PTL

----------------------------------------------------------------------------
(* What a step may never do *)

\* Every text of a modified document is still open or on disk after the step.
TextsStay == \A i \in DOMAIN documents : Modified(documents[i]) => documents[i].text \in Held'

\* Two ways to know that a text is held, and one to know that no path is newly shared.
LEMMA HeldAfter ==
  /\ \A j \in DOMAIN documents' : documents'[j].text \in Held'
  /\ \A p \in DOMAIN disk' : disk'[p] \in Held'
  BY DEF Held, Range

\* No path is shared that was not shared before.
LEMMA NotNewlyShared ==
  ASSUME \A i, j \in DOMAIN documents' :
           i # j /\ documents'[i].path = documents'[j].path /\ documents'[i].path \in Paths =>
             \E k, l \in DOMAIN documents : /\ k # l /\ documents[k].path = documents'[i].path
                                           /\ documents[l].path = documents'[i].path
  PROVE  Shared' \subseteq Shared
  BY DEF Shared, Open

\* One document is replaced: its path is the old one, or one that no other has.
LEMMA ReplacedShares ==
  ASSUME NEW i \in DOMAIN documents, NEW e, documents' = [documents EXCEPT ![i] = e],
         e.path = documents[i].path \/ \A j \in DOMAIN documents \ {i} : documents[j].path # e.path
  PROVE  Shared' \subseteq Shared
  <1>1. DOMAIN documents' = DOMAIN documents /\ documents'[i] = e
        /\ \A j \in DOMAIN documents \ {i} : documents'[j] = documents[j]
    OBVIOUS
  <1> QED BY <1>1, NotNewlyShared

\* One document is new: it is untitled, or no other has its path.
LEMMA AppendedKeeps ==
  ASSUME IInv, NEW e \in GoodSet, documents' = Append(documents, e),
         e.path \notin Paths \/ \A j \in DOMAIN documents : documents[j].path # e.path
  PROVE  TextsStay /\ Shared' \subseteq Shared
  <1>1. /\ documents' \in Seq(GoodSet) /\ Len(documents') = Len(documents) + 1
        /\ documents'[Len(documents) + 1] = e
        /\ \A i \in 1..Len(documents) : documents'[i] = documents[i]
    BY GoodDocuments, AppendProperties
  <1>2. DOMAIN documents' = 1..(Len(documents) + 1)  BY <1>1, LenProperties
  <1>3. \A i \in DOMAIN documents : i \in DOMAIN documents' /\ documents'[i] = documents[i]
    BY <1>1, <1>2, StateTypes
  <1>4. \A i \in DOMAIN documents' : i \in DOMAIN documents \/ (documents'[i] = e /\ i = Len(documents) + 1)
    <2>1. DOMAIN documents' = DOMAIN documents \union {Len(documents) + 1}
      BY <1>2, StateTypes
    <2>2. ASSUME NEW i \in DOMAIN documents', i \notin DOMAIN documents
          PROVE  i = Len(documents) + 1
      BY <2>1, <2>2
    <2>3. documents'[Len(documents) + 1] = e
      BY <1>1
    <2> QED BY <2>2, <2>3
  <1>5. Shared' \subseteq Shared  BY <1>3, <1>4, NotNewlyShared
  <1>6. TextsStay  BY <1>3, HeldAfter DEF TextsStay
  <1> QED BY <1>5, <1>6

\* One document is removed, and its text is not lost: it is unmodified or saved.
LEMMA RemovedKeeps ==
  ASSUME IInv, NEW ds \in Seq(GoodSet), DOMAIN ds = DOMAIN documents, NEW i \in DOMAIN documents,
         \A j \in DOMAIN documents \ {i} : ds[j] = documents[j],
         documents' = RemoveAt(ds, i)
  PROVE  /\ Shared' \subseteq Shared
         /\ ~Modified(documents[i]) \/ documents[i].text \in Held' => TextsStay
  <1>1. DOMAIN ds = 1..Len(ds) /\ Len(ds) \in Nat /\ i \in 1..Len(ds)
    BY LenProperties
  <1>2. /\ documents' \in Seq(GoodSet) /\ Len(documents') = Len(ds) - 1
        /\ \A j \in 1..(Len(ds) - 1) : documents'[j] = IF j < i THEN ds[j] ELSE ds[j + 1]
    BY <1>1, RemoveAtProperties
  <1>3. DOMAIN documents' = 1..(Len(ds) - 1)
    BY <1>2, LenProperties
  <1> DEFINE from(j) == IF j < i THEN j ELSE j + 1
  <1>4. ASSUME NEW j \in DOMAIN documents'
        PROVE  from(j) \in DOMAIN documents \ {i} /\ documents'[j] = documents[from(j)]
    <2>1. from(j) \in DOMAIN ds \ {i}  BY <1>1, <1>3
    <2>2. documents'[j] = ds[from(j)]  BY <1>2, <1>3
    <2> QED BY <2>1, <2>2
  <1>5. \A j, k \in DOMAIN documents' : j # k => from(j) # from(k)
    BY <1>1, <1>3
  <1>6. Shared' \subseteq Shared
    <2> HIDE DEF from
    <2> QED BY <1>4, <1>5, NotNewlyShared
  <1>7. ASSUME NEW k \in DOMAIN documents \ {i} PROVE documents[k].text \in Held'
    <2>1. CASE k < i
      <3>1. k \in DOMAIN documents' /\ documents'[k] = documents[k]  BY <1>1, <1>2, <1>3, <2>1
      <3> QED BY <3>1, HeldAfter
    <2>2. CASE i < k
      <3>1. k - 1 \in DOMAIN documents' /\ documents'[k - 1] = documents[k]
        <4>1. k - 1 \in 1..(Len(ds) - 1) /\ ~(k - 1 < i) /\ (k - 1) + 1 = k  BY <1>1, <2>2
        <4> QED BY <1>2, <1>3, <4>1
      <3> QED BY <3>1, HeldAfter
    <2> QED BY <1>1, <2>1, <2>2
  <1>8. ~Modified(documents[i]) \/ documents[i].text \in Held' => TextsStay
    BY <1>7 DEF TextsStay
  <1> QED BY <1>6, <1>8

\* The documents are the same ones, with the same texts and paths.
LEMMA SameTexts ==
  ASSUME DOMAIN documents' = DOMAIN documents,
         \A i \in DOMAIN documents : /\ documents'[i].text = documents[i].text
                                    /\ documents'[i].path = documents[i].path
  PROVE  TextsStay /\ Shared' \subseteq Shared
  <1>1. TextsStay
    <2> SUFFICES ASSUME NEW i \in DOMAIN documents PROVE documents[i].text \in Held'
      BY DEF TextsStay
    <2>1. documents'[i].text \in Held'  BY HeldAfter
    <2> QED BY <2>1
  <1>2. Shared' \subseteq Shared  BY NotNewlyShared
  <1> QED BY <1>1, <1>2

\* The path a document is saved to is its own, or one that no other document has.
LEMMA SaveTargetsFree ==
  ASSUME IInv, NEW i \in DOMAIN documents, NEW p \in SaveTargets(i) \union Destinations(i)
  PROVE  /\ p \in Paths
         /\ p = documents[i].path \/ \A j \in DOMAIN documents \ {i} : documents[j].path # p
  BY StateTypes DEF SaveTargets, Destinations, Open

\* open() loses no text and shares no path.
LEMMA OpenKeeps ==
  ASSUME IInv, NEW p \in Paths, NEW list, OpenDocument(p, list)
  PROVE  TextsStay /\ Shared' \subseteq Shared
  <1>1. CASE Open(p) # {}
    BY <1>1, SameTexts DEF OpenDocument
  <1>2. CASE Open(p) = {}
    <2> DEFINE d == Load(NewDocument, p)
    <2>1. documents' = Append(documents, d) /\ disk[p] # NoFile
      BY <1>2 DEF OpenDocument
    <2>2. d \in GoodSet /\ d.path = p
      BY <2>1, FreshInv, StateTypes DEF GoodSet, DocumentInv
    <2>3. \A j \in DOMAIN documents : documents[j].path # p
      BY <1>2 DEF Open
    <2> HIDE DEF d
    <2> QED BY <2>1, <2>2, <2>3, AppendedKeeps
  <1> QED BY <1>1, <1>2

\* A step that keeps no document, while there was none or none was modified.
LEMMA ForgottenKeeps ==
  ASSUME documents' = <<>>
  PROVE  /\ Shared' \subseteq Shared
         /\ (\A i \in DOMAIN documents : ~Modified(documents[i])) => TextsStay
  <1>1. DOMAIN documents' = {}  OBVIOUS
  <1> QED BY <1>1, NotNewlyShared DEF TextsStay

\* What closing a document and removing its file do to the texts and the paths.
LEMMA CloseKeeps ==
  ASSUME IInv
  PROVE  /\ CloseWithoutAsking \/ CloseSaving \/ (\E p \in Paths : RemoveProjectFile(p)) =>
              TextsStay /\ Shared' \subseteq Shared
         /\ CloseDiscarding => Shared' \subseteq Shared
  <1>1. ASSUME CloseWithoutAsking \/ CloseDiscarding
        PROVE  Shared' \subseteq Shared /\ (CloseWithoutAsking => TextsStay)
    <2>1. active \in DOMAIN documents /\ documents' = RemoveAt(documents, active)
      BY <1>1, StateTypes DEF CloseWithoutAsking, CloseDiscarding, OnActive, RemoveDocument
    <2>2. CloseWithoutAsking => ~Modified(documents[active])
      BY DEF CloseWithoutAsking
    <2> QED BY <2>1, <2>2, GoodDocuments, RemovedKeeps
  <1>2. ASSUME CloseSaving PROVE TextsStay /\ Shared' \subseteq Shared
    <2>1. active \in DOMAIN documents
      BY <1>2, StateTypes DEF CloseSaving, OnActive
    <2>2. PICK p \in SaveTargets(active) :
            /\ Write(p, documents[active].text)
            /\ documents' = RemoveAt([documents EXCEPT ![active] = Saved(documents[active], p)], active)
      BY <1>2 DEF CloseSaving
    <2> DEFINE ds == [documents EXCEPT ![active] = Saved(documents[active], p)]
    <2>3. p \in Paths  BY <2>1, SaveTargetsFree
    <2>4. Saved(documents[active], p) \in GoodSet
      BY <2>1, <2>3, StateTypes, SavedInv DEF GoodSet, DocumentInv
    <2>5. ds \in Seq(GoodSet) /\ DOMAIN ds = DOMAIN documents
          /\ \A j \in DOMAIN documents \ {active} : ds[j] = documents[j]
      BY <2>1, <2>4, GoodDocuments, StateTypes, ExceptSeq
    <2>6. p \in DOMAIN disk' /\ disk'[p] = documents[active].text
      BY <2>2, <2>3, StateTypes DEF Write
    <2>7. documents[active].text \in Held'  BY <2>6, HeldAfter
    <2> HIDE DEF ds
    <2>8. documents' = RemoveAt(ds, active)  BY <2>2 DEF ds
    <2> QED BY <2>1, <2>5, <2>7, <2>8, RemovedKeeps
  <1>3. ASSUME NEW p \in Paths, RemoveProjectFile(p) PROVE TextsStay /\ Shared' \subseteq Shared
    <2>1. CASE Open(p) = {}
      BY <1>3, <2>1, SameTexts DEF RemoveProjectFile
    <2>2. CASE Open(p) # {}
      <3>1. Open(p) \in SUBSET Nat /\ Open(p) \subseteq DOMAIN documents
        BY StateTypes DEF Open
      <3>2. First(Open(p)) \in DOMAIN documents  BY <2>2, <3>1, FirstProperties
      <3>3. /\ documents' = RemoveAt(documents, First(Open(p)))
            /\ ~Modified(documents[First(Open(p))])
        BY <1>3, <2>2 DEF RemoveProjectFile, RemoveDocument
      <3> QED BY <3>2, <3>3, GoodDocuments, RemovedKeeps
    <2> QED BY <2>1, <2>2
  <1> QED BY <1>1, <1>2, <1>3

\* What edits, saves and the questions about changed files do to them.
LEMMA ActiveKeeps ==
  ASSUME IInv
  PROVE  /\ SaveDocument \/ SaveAs \/ SaveUnseen \/ Keep \/ Postpone => TextsStay /\ Shared' \subseteq Shared
         /\ EditDocument \/ UndoEdit \/ RedoEdit \/ Reload => Shared' \subseteq Shared
  <1>1. ASSUME SaveDocument \/ SaveAs \/ SaveUnseen PROVE TextsStay /\ Shared' \subseteq Shared
    <2>1. active \in DOMAIN documents
      BY <1>1, StateTypes DEF SaveDocument, SaveAs, SaveUnseen, OnActive
    <2> DEFINE d == documents[active]
    <2>2. PICK p \in SaveTargets(active) \union Destinations(active) :
            documents' \in {[documents EXCEPT ![active] = Saved(d, p)],
                           [documents EXCEPT ![active] = SavedUnseen(d, p)]}
      BY <1>1 DEF SaveDocument, SaveAs, SaveUnseen, SaveTo
    <2>a. p \in Paths /\ DocumentInv(d)  BY <2>1, SaveTargetsFree, StateTypes
    <2>b. PICK e \in {Saved(d, p), SavedUnseen(d, p)} : documents' = [documents EXCEPT ![active] = e]
      BY <2>2
    <2>3. p \in Paths /\ documents' = [documents EXCEPT ![active] = e]
      BY <2>a, <2>b
    <2>4. e.path = p /\ e.text = documents[active].text
      BY <2>a, SavedInv, SavedUnseenInv
    <2>5. Shared' \subseteq Shared
      BY <2>1, <2>2, <2>3, <2>4, SaveTargetsFree, ReplacedShares
    <2>6. \A i \in DOMAIN documents : i \in DOMAIN documents' /\ documents'[i].text = documents[i].text
      BY <2>1, <2>3, <2>4
    <2>7. TextsStay
      <3> SUFFICES ASSUME NEW i \in DOMAIN documents PROVE documents[i].text \in Held'
        BY DEF TextsStay
      <3>1. documents'[i].text \in Held'  BY <2>6, HeldAfter
      <3> QED BY <2>6, <3>1
    <2> QED BY <2>5, <2>7
  <1>2. ASSUME EditDocument \/ UndoEdit \/ RedoEdit PROVE Shared' \subseteq Shared
    <2>1. active \in DOMAIN documents /\ documents[active] \in DocumentSet
      BY <1>2, StateTypes DEF EditDocument, UndoEdit, RedoEdit, OnActive
    <2> DEFINE d == documents[active]
    <2>2. \A t, grouped : Commit(d, t, grouped).path = d.path
      BY <2>1 DEF Commit, DocumentSet
    <2>3. \A t : Merge(d, t).path = d.path
      BY <2>1 DEF Merge, DocumentSet
    <2>4. Undo(d).path = d.path /\ Redo(d).path = d.path
      BY <2>1 DEF Undo, Redo, DocumentSet
    <2>5. PICK e : documents' = [documents EXCEPT ![active] = e] /\ e.path = d.path
      BY <1>2, <2>2, <2>3, <2>4 DEF EditDocument, UndoEdit, RedoEdit, Become
    <2> QED BY <2>1, <2>5, ReplacedShares
  <1>3. ASSUME Reload PROVE Shared' \subseteq Shared
    <2>1. PICK i \in Noticed : /\ documents' = [documents EXCEPT ![i] = Load(documents[i], documents[i].path)]
                              /\ DiskChange(documents[i]) = "modified"
      BY <1>3 DEF Reload
    <2>2. i \in DOMAIN documents /\ documents[i] \in DocumentSet  BY StateTypes DEF Noticed
    <2>3. Load(documents[i], documents[i].path).path = documents[i].path
      BY <2>2 DEF Load, LoadFingerprint, SetText, DocumentSet
    <2> QED BY <2>1, <2>2, <2>3, ReplacedShares
  <1>4. ASSUME Keep \/ Postpone PROVE TextsStay /\ Shared' \subseteq Shared
    <2>1. PICK i \in Noticed : \/ documents' = [documents EXCEPT ![i] = Acknowledged(documents[i])]
                              \/ documents' = documents
      BY <1>4 DEF Keep, Postpone
    <2>2. i \in DOMAIN documents /\ documents[i] \in DocumentSet  BY StateTypes DEF Noticed
    <2>3. /\ Acknowledged(documents[i]).path = documents[i].path
          /\ Acknowledged(documents[i]).text = documents[i].text
      BY <2>2 DEF Acknowledged, DocumentSet
    <2>4. DOMAIN documents' = DOMAIN documents
          /\ \A j \in DOMAIN documents : /\ documents'[j].text = documents[j].text
                                         /\ documents'[j].path = documents[j].path
      BY <2>1, <2>2, <2>3
    <2> QED BY <2>4, SameTexts
  <1> QED BY <1>1, <1>2, <1>3, <1>4

\* What recovery and the project's opening and closing do to them.
LEMMA ProjectKeeps ==
  ASSUME IInv
  PROVE  /\ StartWithoutProject \/ OpenProject \/ DiscardRecovery \/ RestoreRecovery \/ CloseProject
           \/ Exit \/ AutosaveRecovery => TextsStay /\ Shared' \subseteq Shared
         /\ ExitDiscarding \/ Crash => Shared' \subseteq Shared
  <1>1. StartWithoutProject => TextsStay /\ Shared' \subseteq Shared
    BY SameTexts DEF StartWithoutProject
  <1>2. ASSUME OpenProject \/ DiscardRecovery \/ CloseProject \/ Exit
        PROVE  TextsStay /\ Shared' \subseteq Shared
    <2>1. documents' = <<>>
      BY <1>2 DEF OpenProject, DiscardRecovery, CloseProject, Exit, Leave, Forgotten
    <2>2. \A i \in DOMAIN documents : ~Modified(documents[i])
      <3>1. OpenProject \/ DiscardRecovery \/ CloseProject => DOMAIN documents = {}
        BY DEF OpenProject, DiscardRecovery, CloseProject, ProjectOpens
      <3> QED BY <1>2, <3>1 DEF Exit
    <2> QED BY <2>1, <2>2, ForgottenKeeps
  <1>5. ASSUME ExitDiscarding \/ Crash PROVE Shared' \subseteq Shared
    <2>1. documents' = <<>>  BY <1>5 DEF ExitDiscarding, Crash, Leave, Forgotten
    <2> QED BY <2>1, ForgottenKeeps
  <1>3. ASSUME RestoreRecovery PROVE TextsStay /\ Shared' \subseteq Shared
    <2>1. DOMAIN documents = {} /\ documents' = Restored[Len(recovery)]
      BY <1>3 DEF RestoreRecovery, ProjectOpens
    <2>2. RestoredInv(documents', Len(recovery))
      BY <2>1, StateTypes, RestoredProperties
    <2>3. Shared' \subseteq Shared
      BY <2>2, NotNewlyShared DEF RestoredInv
    <2> QED BY <2>1, <2>3 DEF TextsStay
  <1>4. ASSUME AutosaveRecovery PROVE TextsStay /\ Shared' \subseteq Shared
    <2>1. documents' = [i \in DOMAIN documents |->
             [documents[i] EXCEPT !.autosaved = IF Modified(documents[i]) THEN documents[i].text
                                                ELSE NoFile]]
      BY <1>4 DEF AutosaveRecovery
    <2>2. \A d \in DocumentSet : \A a : /\ [d EXCEPT !.autosaved = a].text = d.text
                                       /\ [d EXCEPT !.autosaved = a].path = d.path
      BY DEF DocumentSet
    <2>3. \A i \in DOMAIN documents : documents[i] \in DocumentSet  BY StateTypes
    <2>4. DOMAIN documents' = DOMAIN documents  BY <2>1
    <2>5. ASSUME NEW i \in DOMAIN documents
          PROVE  documents'[i].text = documents[i].text /\ documents'[i].path = documents[i].path
      <3>1. PICK a : documents'[i] = [documents[i] EXCEPT !.autosaved = a]  BY <2>1
      <3> QED BY <2>2, <2>3, <3>1
    <2> QED BY <2>4, <2>5, SameTexts
  <1> QED BY <1>1, <1>2, <1>3, <1>4, <1>5

\* Every step but the ones in which text is given up keeps every unsaved text, and every step
\* but a rename shares no path that was not shared.
LEMMA NextKeeps ==
  ASSUME IInv, [Next]_vars
  PROVE  /\ GivenUp \/ Crash \/ TextsStay
         /\ (\E p, q \in Paths : RenameProjectEntry(p, q)) \/ Shared' \subseteq Shared
  <1>1. ASSUME NewFile PROVE TextsStay /\ Shared' \subseteq Shared
    <2>1. documents' = Append(documents, NewDocument) /\ NewDocument.path = NoPath
      BY <1>1 DEF NewFile, NewDocument
    <2>2. NewDocument \in GoodSet  BY FreshInv, StateTypes DEF GoodSet
    <2> QED BY <2>1, <2>2, AppendedKeeps
  <1>2. ASSUME ReopenClosedDocument PROVE TextsStay /\ Shared' \subseteq Shared
    <2>1. Last(closed) \in Paths
      BY <1>2, StateTypes, FrontLastProperties DEF ReopenClosedDocument
    <2>2. CASE disk[Last(closed)] = NoFile
      BY <1>2, <2>2, SameTexts DEF ReopenClosedDocument
    <2>3. CASE disk[Last(closed)] # NoFile
      BY <1>2, <2>1, <2>3, OpenKeeps DEF ReopenClosedDocument
    <2> QED BY <2>2, <2>3
  <1>3. ASSUME NEW p \in Paths, OpenFile(p) PROVE TextsStay /\ Shared' \subseteq Shared
    BY <1>3, OpenKeeps DEF OpenFile
  <1>4. ASSUME \/ \E i \in DOMAIN documents : SwitchDocument(i)
               \/ \E p \in Paths, t \in Foreign : External(p, t)
               \/ UNCHANGED vars
        PROVE  TextsStay /\ Shared' \subseteq Shared
    <2>1. documents' = documents  BY <1>4 DEF SwitchDocument, External, vars
    <2> QED BY <2>1, SameTexts
  <1>5. ASSUME NEW p \in Paths, NEW q \in Paths, RenameProjectEntry(p, q) PROVE TextsStay
    <2>1. documents' = [i \in DOMAIN documents |->
             IF documents[i].path \in {p, NoPath} THEN [documents[i] EXCEPT !.path = q]
             ELSE documents[i]]
      BY <1>5 DEF RenameProjectEntry
    <2>2. \A i \in DOMAIN documents : documents'[i].text = documents[i].text
      BY <2>1, StateTypes DEF DocumentSet
    <2>3. DOMAIN documents' = DOMAIN documents  BY <2>1
    <2> SUFFICES ASSUME NEW i \in DOMAIN documents PROVE documents[i].text \in Held'
      BY DEF TextsStay
    <2>4. documents'[i].text \in Held'  BY <2>3, HeldAfter
    <2> QED BY <2>2, <2>4
  <1> QED BY <1>1, <1>2, <1>3, <1>4, <1>5, CloseKeeps, ActiveKeeps, ProjectKeeps DEF Next, GivenUp

\* No step but an edit, a crash and the ones in which the user gives a text up loses an
\* unsaved text: a modified document's text is still open or in a file after it.
THEOREM SpecNothingDiscardedSilently == Spec => NothingDiscardedSilently
  <1>1. IInv /\ [Next]_vars =>
          [\/ GivenUp \/ Crash
           \/ \A i \in DOMAIN documents : Modified(documents[i]) => documents[i].text \in Held']_vars
    BY NextKeeps DEF TextsStay
  <1> QED BY <1>1, SpecIInv, PTL DEF Spec, NothingDiscardedSilently

\* No step but a rename in the project tree gives two documents one path, recovery included.
THEOREM SpecOnlyRenameShares == Spec => OnlyRenameShares
  <1>1. IInv /\ [Next]_vars =>
          [(\E p, q \in Paths : RenameProjectEntry(p, q)) \/ Shared' \subseteq Shared]_vars
    BY NextKeeps
  <1> QED BY <1>1, SpecIInv, PTL DEF Spec, OnlyRenameShares

\* Accepting recovery data brings every entry back as a modified document, unless a later
\* entry of the file has its path.
THEOREM SpecRestoreComplete == Spec => RestoreComplete
  <1> DEFINE Complete ==
        RestoreRecovery =>
          \A m \in DOMAIN recovery :
            \/ \E n \in (m + 1)..Len(recovery) :
                 recovery[n].path = recovery[m].path /\ recovery[m].path # NoPath
            \/ \E i \in DOMAIN documents' : /\ documents'[i].text = recovery[m].text
                                            /\ documents'[i].path = recovery[m].path
                                            /\ Modified(documents'[i])
  <1>1. IInv /\ [Next]_vars => [Complete]_vars
    <2> SUFFICES ASSUME IInv, RestoreRecovery PROVE Complete
      OBVIOUS
    <2>1. documents' = Restored[Len(recovery)]
      BY DEF RestoreRecovery
    <2>2. RestoredInv(documents', Len(recovery))
      BY <2>1, StateTypes, RestoredProperties
    <2>3. DOMAIN recovery = 1..Len(recovery)
      BY StateTypes, LenProperties
    <2>4. \A i \in DOMAIN documents' : Modified(documents'[i])
      <3>1. documents' \in Seq(RestoredSet)  BY <2>2 DEF RestoredInv
      <3>2. \A i \in DOMAIN documents' : documents'[i] \in RestoredSet  BY <3>1, LenProperties
      <3> QED BY <3>2 DEF RestoredSet
    <2> QED BY <2>2, <2>3, <2>4 DEF RestoredInv
  <1> HIDE DEF Complete
  <1>2. Spec => [][Complete]_vars  BY <1>1, SpecIInv, PTL DEF Spec
  <1> QED BY <1>2 DEF Complete, RestoreComplete

\* Nothing that is in the window, the files or the recovery file is lost or doubled unasked.
THEOREM SpecTextsKept == Spec => TextsKept
  BY SpecNothingDiscardedSilently, SpecOnlyRenameShares, SpecRestoreComplete DEF TextsKept
=============================================================================
