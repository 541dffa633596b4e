-------------------------- MODULE GdbClient_proofs --------------------------
(***************************************************************************)
(* Proofs about GdbClient: what the client knows of the breakpoints in gdb *)
(* is true, however often they were changed while answers were on the way. *)
(***************************************************************************)
EXTENDS GdbClient, DataLemmas

----------------------------------------------------------------------------
(* Commands and records on their way *)

\* The input of gdb when a command was sent to it, or to no process.
Sent(c, m) == IF c.running THEN Append(c.stdin, m) ELSE c.stdin

\* What a command adds.
LEMMA Appended ==
  ASSUME NEW T, NEW q \in Seq(T), NEW m \in T
  PROVE  /\ Append(q, m) \in Seq(T) /\ Len(Append(q, m)) = Len(q) + 1 /\ Len(q) \in Nat
         /\ Append(q, m)[Len(q) + 1] = m
         /\ \A i \in 1..Len(q) : Append(q, m)[i] = q[i] /\ i \in 1..(Len(q) + 1)
         /\ \A i \in 1..(Len(q) + 1) : i \in 1..Len(q) \/ i = Len(q) + 1
  <1>1. Len(q) \in Nat  OBVIOUS
  <1>2. \A i \in 1..Len(q) : i \in 1..(Len(q) + 1)  BY <1>1
  <1>3. \A i \in 1..(Len(q) + 1) : i \in 1..Len(q) \/ i = Len(q) + 1  BY <1>1
  <1> QED BY <1>1, <1>2, <1>3, AppendProperties

\* What a handled record, or a command that was read, takes away.
LEMMA Taken ==
  ASSUME NEW T, NEW q \in Seq(T), q # <<>>
  PROVE  /\ Tail(q) \in Seq(T) /\ Len(Tail(q)) = Len(q) - 1 /\ Len(q) \in Nat \ {0}
         /\ Head(q) = q[1] /\ Head(q) \in T /\ 1 \in 1..Len(q)
         /\ \A i \in 1..(Len(q) - 1) : Tail(q)[i] = q[i + 1] /\ i + 1 \in 1..Len(q)
         /\ \A i \in 1..Len(q) : i = 1 \/ (i - 1 \in 1..(Len(q) - 1) /\ Tail(q)[i - 1] = q[i])
  <1>1. /\ Tail(q) \in Seq(T) /\ Len(Tail(q)) = Len(q) - 1 /\ Len(q) \in Nat \ {0}
        /\ Head(q) = q[1] /\ Head(q) \in T
        /\ \A i \in 1..(Len(q) - 1) : Tail(q)[i] = q[i + 1]
    BY EmptySeq, HeadTailProperties, ElementOfSeq
  <1>2. \A i \in 1..(Len(q) - 1) : i + 1 \in 1..Len(q)  BY <1>1
  <1>3. \A i \in 1..Len(q) : i = 1 \/ (i - 1 \in 1..(Len(q) - 1) /\ (i - 1) + 1 = i)  BY <1>1
  <1>4. \A i \in 1..Len(q) : i = 1 \/ (i - 1 \in 1..(Len(q) - 1) /\ Tail(q)[i - 1] = q[i])
    <2> TAKE i \in 1..Len(q)
    <2>1. i - 1 \in 1..(Len(q) - 1) => Tail(q)[i - 1] = q[(i - 1) + 1]  BY <1>1
    <2> QED BY <1>3, <2>1
  <1>5. 1 \in 1..Len(q)  BY <1>1
  <1> QED BY <1>1, <1>2, <1>4, <1>5

\* What gdb is told is what it was told, and one command more.
LEMMA SendsAppend ==
  ASSUME NEW q \in Seq(MessageSet), NEW m \in MessageSet, NEW op, NEW n
  PROVE  Sends(Append(q, m), op, n) <=> Sends(q, op, n) \/ (m.op = op /\ m.number = n)
  <1>1. /\ Len(Append(q, m)) = Len(q) + 1 /\ Append(q, m)[Len(q) + 1] = m
        /\ \A i \in 1..Len(q) : Append(q, m)[i] = q[i] /\ i \in 1..(Len(q) + 1)
        /\ \A i \in 1..(Len(q) + 1) : i \in 1..Len(q) \/ i = Len(q) + 1
    BY Appended
  <1>2. Len(q) + 1 \in 1..(Len(q) + 1)  BY LenProperties
  <1> HIDE DEF MessageSet
  <1> QED BY <1>1, <1>2 DEF Sends

\* What was read is not told again.
LEMMA SendsTail ==
  ASSUME NEW q \in Seq(MessageSet), q # <<>>, NEW op, NEW n, Sends(Tail(q), op, n)
  PROVE  Sends(q, op, n)
  <1>1. Len(Tail(q)) = Len(q) - 1 /\ \A i \in 1..(Len(q) - 1) : Tail(q)[i] = q[i + 1] /\ i + 1 \in 1..Len(q)
    BY Taken
  <1> QED BY <1>1 DEF Sends

\* A logpoint that will go on by itself still will when more commands follow.
LEMMA ArmingAppend ==
  ASSUME NEW q \in Seq(MessageSet), NEW m \in MessageSet, NEW n, Arming(q, n)
  PROVE  Arming(Append(q, m), n)
  <1>1. /\ Len(Append(q, m)) = Len(q) + 1 /\ Len(q) \in Nat
        /\ \A i \in 1..Len(q) : Append(q, m)[i] = q[i] /\ i \in 1..(Len(q) + 1)
        /\ \A i \in 1..(Len(q) + 1) : i \in 1..Len(q) \/ i = Len(q) + 1
    BY Appended
  <1>2. PICK i \in 1..Len(q) :
          /\ q[i].op = "commands" /\ q[i].number = n
          /\ \A j \in 1..Len(q) : q[j].op = "run" => i < j
    BY DEF Arming
  <1>3. i < Len(q) + 1  BY <1>1
  <1> HIDE DEF MessageSet
  <1> QED BY <1>1, <1>2, <1>3 DEF Arming

\* The commands of a logpoint are sent before the program is started.
LEMMA ArmingNow ==
  ASSUME NEW q \in Seq(MessageSet), NEW m \in MessageSet, m.op = "commands",
         \A i \in 1..Len(q) : q[i].op # "run"
  PROVE  Arming(Append(q, m), m.number)
  <1>1. /\ Len(Append(q, m)) = Len(q) + 1 /\ Len(q) \in Nat /\ Append(q, m)[Len(q) + 1] = m
        /\ \A i \in 1..Len(q) : Append(q, m)[i] = q[i] /\ i \in 1..(Len(q) + 1)
        /\ \A i \in 1..(Len(q) + 1) : i \in 1..Len(q) \/ i = Len(q) + 1
    BY Appended
  <1>2. Len(q) + 1 \in 1..(Len(q) + 1)  BY <1>1
  <1>3. \A j \in 1..(Len(q) + 1) : Append(q, m)[j].op # "run"  BY <1>1
  <1> HIDE DEF MessageSet
  <1> QED BY <1>1, <1>2, <1>3 DEF Arming

\* It is armed when its commands are read, and not before.
LEMMA ArmingTail ==
  ASSUME NEW q \in Seq(MessageSet), q # <<>>, NEW n, Arming(q, n),
         ~(Head(q).op = "commands" /\ Head(q).number = n)
  PROVE  Arming(Tail(q), n)
  <1>1. /\ Len(Tail(q)) = Len(q) - 1 /\ Len(q) \in Nat \ {0} /\ Head(q) = q[1]
        /\ \A i \in 1..(Len(q) - 1) : Tail(q)[i] = q[i + 1] /\ i + 1 \in 1..Len(q)
        /\ \A i \in 1..Len(q) : i = 1 \/ (i - 1 \in 1..(Len(q) - 1) /\ Tail(q)[i - 1] = q[i])
    BY Taken
  <1>2. PICK i \in 1..Len(q) :
          /\ q[i].op = "commands" /\ q[i].number = n
          /\ \A j \in 1..Len(q) : q[j].op = "run" => i < j
    BY DEF Arming
  <1>3. i # 1  BY <1>1, <1>2
  <1>4. i - 1 \in 1..(Len(q) - 1) /\ Tail(q)[i - 1] = q[i]  BY <1>1, <1>3
  <1>5. ASSUME NEW j \in 1..(Len(q) - 1), Tail(q)[j].op = "run" PROVE i - 1 < j
    <2>1. q[j + 1].op = "run" /\ j + 1 \in 1..Len(q)  BY <1>1, <1>5
    <2>2. i < j + 1  BY <1>2, <2>1
    <2> QED BY <2>2
  <1> QED BY <1>1, <1>2, <1>4, <1>5 DEF Arming

----------------------------------------------------------------------------
(* A command is sent *)

\* The types of what goes to gdb and comes from it.
LEMMA WireTypes ==
  ASSUME NEW stops, NEW c, ClientTyped(c, stops)
  PROVE  /\ c.stdin \in Seq(MessageSet) /\ c.output \in Seq(RecordSet(stops)) /\ c.token \in Nat
         /\ Len(c.stdin) \in Nat /\ Len(c.output) \in Nat
         /\ \A i \in 1..Len(c.stdin) : /\ c.stdin[i] \in MessageSet /\ c.stdin[i].token \in Nat
                                       /\ c.stdin[i].number \in Nat
         /\ \A i \in 1..Len(c.output) : /\ c.output[i] \in RecordSet(stops)
                                        /\ c.output[i].token \in Nat /\ c.output[i].number \in Nat
         /\ c.breakpoints \subseteq Waiting /\ \A p \in c.breakpoints : p.token \in Nat /\ p.key \in Keys
         /\ c.running \in BOOLEAN
  <1>1. c.stdin \in Seq(MessageSet) /\ c.output \in Seq(RecordSet(stops)) /\ c.token \in Nat
        /\ c.breakpoints \subseteq Waiting /\ c.running \in BOOLEAN
    BY DEF ClientTyped
  <1>2. \A i \in 1..Len(c.stdin) : c.stdin[i] \in MessageSet  BY <1>1, ElementOfSeq
  <1>3. \A i \in 1..Len(c.output) : c.output[i] \in RecordSet(stops)  BY <1>1, ElementOfSeq
  <1>4. Len(c.stdin) \in Nat /\ Len(c.output) \in Nat  BY <1>1, LenProperties
  <1> QED BY <1>1, <1>2, <1>3, <1>4 DEF MessageSet, RecordSet, Waiting

\* The fields that no command and no record changes by itself.
Same(c, e) ==
  /\ e.running = c.running /\ e.mode = c.mode /\ e.active = c.active /\ e.stopped = c.stopped
  /\ e.exited = c.exited /\ e.runRequested = c.runRequested /\ e.desired = c.desired
  /\ e.numbers = c.numbers /\ e.breakpoints = c.breakpoints /\ e.commands = c.commands
  /\ e.signal = c.signal /\ e.attach = c.attach /\ e.detach = c.detach
  /\ e.coreExecutable = c.coreExecutable /\ e.coreTarget = c.coreTarget
  /\ e.detachConfirmed = c.detachConfirmed /\ e.detaching = c.detaching
  /\ e.selected = c.selected /\ e.frames = c.frames /\ e.variables = c.variables
  /\ e.watch = c.watch /\ e.watches = c.watches

\* command() writes the command under the next token.
LEMMA CommandFields ==
  ASSUME NEW stops, NEW c, ClientTyped(c, stops), NEW op \in Ops, NEW key \in Keys \union {"none"},
         NEW number \in Nat, NEW log \in BOOLEAN
  PROVE  LET e == CommandOn(c, op, key, number, log)
             m == Message(c.token, op, key, number, log) IN
         /\ m \in MessageSet /\ Sent(c, m) \in Seq(MessageSet)
         /\ ClientTyped(e, stops) /\ Same(c, e)
         /\ e.token = c.token + 1 /\ e.stdin = Sent(c, m) /\ e.output = c.output
  <1> DEFINE m == Message(c.token, op, key, number, log)
             q == Sent(c, m)
  <1>1. c.token \in Nat /\ c.stdin \in Seq(MessageSet) /\ c.running \in BOOLEAN  BY DEF ClientTyped
  <1>2. m \in MessageSet  BY <1>1 DEF Message, MessageSet
  <1>3. q \in Seq(MessageSet)
    <2> HIDE DEF m
    <2> QED BY <1>1, <1>2, Appended DEF Sent
  <1>4. CommandOn(c, op, key, number, log) = [c EXCEPT !.token = c.token + 1, !.stdin = q]
    BY DEF CommandOn, Sent, ClientTyped
  <1> HIDE DEF m, q
  <1>5. ClientTyped([c EXCEPT !.token = c.token + 1, !.stdin = q], stops)
    <2>0. c.token \in Nat  BY <1>1
    <2>1. c.token + 1 \in Nat  BY <2>0
    <2> QED BY <1>3, <2>1 DEF ClientTyped, MapOf
  <1> DEFINE f == [c EXCEPT !.token = c.token + 1, !.stdin = q]
  <1>6. Same(c, f) /\ f.token = c.token + 1 /\ f.stdin = q /\ f.output = c.output
    BY DEF ClientTyped, Same
  <1> HIDE DEF f
  <1>7. CommandOn(c, op, key, number, log) = f /\ ClientTyped(f, stops)  BY <1>4, <1>5 DEF f
  <1> QED BY <1>2, <1>3, <1>6, <1>7 DEF m, q

\* The token of a command sent is greater than all before.
LEMMA WiredSend ==
  ASSUME NEW stops, NEW c, ClientTyped(c, stops), Wired(c), NEW m \in MessageSet, m.token = c.token,
         NEW e, e.token = c.token + 1, e.stdin = Sent(c, m), e.output = c.output
  PROVE  Wired(e)
  <1>1. /\ c.stdin \in Seq(MessageSet) /\ c.token \in Nat
        /\ \A i \in 1..Len(c.stdin) : c.stdin[i].token \in Nat
        /\ \A i \in 1..Len(c.output) : c.output[i].token \in Nat
    BY WireTypes
  <1>2. /\ 0 < c.token
        /\ \A i \in 1..Len(c.stdin) : 0 < c.stdin[i].token /\ c.stdin[i].token < c.token
        /\ \A i, j \in 1..Len(c.stdin) : i < j => c.stdin[i].token < c.stdin[j].token
        /\ \A i \in 1..Len(c.output) : c.output[i].token < c.token
        /\ \A i \in 1..Len(c.output), j \in 1..Len(c.stdin) : c.output[i].token < c.stdin[j].token
        /\ \A i, j \in 1..Len(c.output) :
             i < j => c.output[j].token = 0 \/ c.output[i].token < c.output[j].token
    BY DEF Wired
  <1>3. 0 < e.token /\ \A i \in 1..Len(e.output) : e.output[i].token < e.token
    <2>1. e.token = c.token + 1 /\ e.output = c.output  OBVIOUS
    <2> HIDE DEF MessageSet
    <2>2. \A t \in Nat : t < c.token => t < c.token + 1  BY ONLY <1>1
    <2>3. 0 < c.token + 1  BY ONLY <1>1, <1>2
    <2> QED BY ONLY <1>1, <1>2, <2>1, <2>2, <2>3, Zenon
  <1>4. CASE ~c.running
    <2>1. e.stdin = c.stdin  BY <1>4 DEF Sent
    <2>2. \A i \in 1..Len(c.stdin) : c.stdin[i].token < c.token + 1  BY <1>1, <1>2
    <2> QED BY <1>2, <1>3, <2>1, <2>2 DEF Wired
  <1>5. CASE c.running
    <2>1. e.stdin = Append(c.stdin, m)  BY <1>5 DEF Sent
    <2>2. /\ Len(e.stdin) = Len(c.stdin) + 1 /\ Len(c.stdin) \in Nat
          /\ e.stdin[Len(c.stdin) + 1] = m
          /\ \A i \in 1..Len(c.stdin) : e.stdin[i] = c.stdin[i] /\ i \in 1..(Len(c.stdin) + 1)
          /\ \A i \in 1..(Len(c.stdin) + 1) : i \in 1..Len(c.stdin) \/ i = Len(c.stdin) + 1
      BY <1>1, <2>1, Appended
    <2>3. \A i \in 1..Len(e.stdin) : 0 < e.stdin[i].token /\ e.stdin[i].token < e.token
      BY <1>1, <1>2, <2>2
    <2>4. ASSUME NEW i \in 1..Len(e.stdin), NEW j \in 1..Len(e.stdin), i < j
          PROVE  e.stdin[i].token < e.stdin[j].token
      <3>1. i \in 1..Len(c.stdin)  BY <2>2, <2>4
      <3>2. CASE j \in 1..Len(c.stdin)  BY <1>2, <2>2, <2>4, <3>1, <3>2
      <3>3. CASE j = Len(c.stdin) + 1  BY <1>2, <2>2, <3>1, <3>3
      <3> QED BY <2>2, <3>2, <3>3
    <2>5. \A i \in 1..Len(e.output), j \in 1..Len(e.stdin) : e.output[i].token < e.stdin[j].token
      BY <1>2, <2>2
    <2> QED BY <1>2, <1>3, <2>3, <2>4, <2>5 DEF Wired
  <1> QED BY <1>1, <1>4, <1>5, WireTypes

----------------------------------------------------------------------------
(* The breakpoints, when the client changes *)

\* A command about breakpoints that may be sent: it concerns none that counts.
MaySend(c, g, m) ==
  /\ m.op \in {"delete", "commands"} =>
       /\ m.number < g.next
       /\ \A p \in c.breakpoints, i \in 1..Len(c.output) :
            Makes(c.output[i], p) => c.output[i].number # m.number
  /\ m.op = "delete" => \A k \in DOMAIN c.numbers : c.numbers[k] # m.number
  /\ m.op = "commands" => \A k \in DOMAIN c.numbers : c.numbers[k] = m.number => c.desired[k].log
  /\ m.op = "deleteAll" => DOMAIN c.numbers = {}
  /\ m.op \in {"deleteAll", "run"} => c.breakpoints = {}

\* Sending such a command changes nothing about the breakpoints.
LEMMA BookedSend ==
  ASSUME NEW stops, NEW c, ClientTyped(c, stops), Wired(c), Tracked(c), NEW g, NEW K, Booked(c, g, K),
         NEW m \in MessageSet, m.token = c.token, MaySend(c, g, m),
         NEW e, e.stdin = Append(c.stdin, m), e.output = c.output, e.breakpoints = c.breakpoints,
         e.numbers = c.numbers, e.desired = c.desired
  PROVE  Booked(e, g, K)
  <1>1. /\ c.stdin \in Seq(MessageSet) /\ c.token \in Nat
        /\ \A i \in 1..Len(c.stdin) : c.stdin[i].token \in Nat
        /\ \A p \in c.breakpoints : p.token \in Nat
    BY WireTypes
  <1>2. /\ Len(e.stdin) = Len(c.stdin) + 1 /\ Len(c.stdin) \in Nat
        /\ e.stdin[Len(c.stdin) + 1] = m
        /\ \A i \in 1..Len(c.stdin) : e.stdin[i] = c.stdin[i] /\ i \in 1..(Len(c.stdin) + 1)
        /\ \A i \in 1..(Len(c.stdin) + 1) : i \in 1..Len(c.stdin) \/ i = Len(c.stdin) + 1
    BY <1>1, Appended
  <1>3. \A o, n : Sends(e.stdin, o, n) <=> Sends(c.stdin, o, n) \/ (m.op = o /\ m.number = n)
    BY <1>1, SendsAppend
  <1>4. \A p \in c.breakpoints : p.token < c.token  BY DEF Tracked
  <1>5. \A p \in c.breakpoints : \A log : AsDesired(e, K, p, log) <=> AsDesired(c, K, p, log)
    BY DEF AsDesired, Latest
  <1> HIDE DEF MessageSet
  <1>6. ASSUME NEW p \in e.breakpoints PROVE Underway(e, g, K, p)
    <2>1. Underway(c, g, K, p)  BY <1>6 DEF Booked
    <2>2. \A i \in 1..Len(e.stdin) :
            e.stdin[i].token = p.token => i \in 1..Len(c.stdin) /\ e.stdin[i] = c.stdin[i]
      BY <1>1, <1>2, <1>4, <1>6
    <2>3. \A i \in 1..Len(e.stdin) :
            e.stdin[i].token = p.token =>
              /\ e.stdin[i].op = "insert" /\ e.stdin[i].key = p.key
              /\ AsDesired(e, K, p, e.stdin[i].log)
      BY <1>5, <1>6, <2>1, <2>2 DEF Underway
    <2>4. ASSUME NEW i \in 1..Len(e.output), Makes(e.output[i], p)
          PROVE  MadeFor(e, g, K, p, e.output[i].number)
      <3>1. MadeFor(c, g, K, p, c.output[i].number)  BY <2>1, <2>4 DEF Underway
      <3>2. m.op \in {"delete", "commands"} => c.output[i].number # m.number
        BY <1>6, <2>4 DEF MaySend
      <3> QED BY <1>3, <1>5, <1>6, <3>1, <3>2 DEF MadeFor
    <2>5. \/ \E i \in 1..Len(e.stdin) : e.stdin[i].token = p.token
          \/ \E i \in 1..Len(e.output) : Answer(e.output[i], p)
      BY <1>2, <2>1 DEF Underway
    <2> QED BY <2>3, <2>4, <2>5 DEF Underway
  <1>7. ASSUME NEW k \in DOMAIN e.numbers PROVE Known(e, g, k, e.numbers[k])
    <2>1. Known(c, g, k, c.numbers[k])  BY <1>7 DEF Booked
    <2>2. \A n : Arming(c.stdin, n) => Arming(e.stdin, n)  BY <1>1, ArmingAppend DEF MessageSet
    <2>3. m.op = "delete" => c.numbers[k] # m.number  BY <1>7 DEF MaySend
    <2>4. m.op = "commands" => (c.numbers[k] = m.number => c.desired[k].log)  BY <1>7 DEF MaySend
    <2> QED BY <1>3, <2>1, <2>2, <2>3, <2>4 DEF Known
  <1>8. Apart(e)  BY DEF Booked, Apart
  <1>9. Orders(e, g)
    <2>1. Orders(c, g)  BY DEF Booked
    <2> QED BY <1>2, <2>1 DEF Orders, MaySend
  <1> QED BY <1>6, <1>7, <1>8, <1>9 DEF Booked

\* Nothing is wanted otherwise, but the state of one breakpoint may have changed.
OnlyStatus(c, e, k) ==
  /\ DOMAIN e.desired = DOMAIN c.desired
  /\ \A j \in DOMAIN c.desired : /\ e.desired[j].log = c.desired[j].log
                                 /\ j # k => e.desired[j] = c.desired[j]

\* p is the token of the last command, the insertion of the breakpoint at k.
SentLast(c, k, p) ==
  /\ p.key = k /\ p.token \in Nat
  /\ \A q \in c.breakpoints : q.token < p.token
  /\ \A i \in 1..Len(c.output) : c.output[i].token < p.token
  /\ \A i \in 1..Len(c.stdin) : c.stdin[i].token <= p.token
  /\ \E l \in 1..Len(c.stdin) :
       /\ c.stdin[l].token = p.token /\ c.stdin[l].op = "insert"
       /\ c.stdin[l].key = k /\ c.stdin[l].log = c.desired[k].log

\* The insertion that was sent last will be what the user wants, for it was
\* sent with the properties of the breakpoint.
LEMMA BookedWait ==
  ASSUME NEW stops, NEW c, ClientTyped(c, stops), Wired(c), NEW g, NEW K, Booked(c, g, K),
         NEW k \in DOMAIN c.desired, NEW p, SentLast(c, k, p),
         NEW e, e.stdin = c.stdin, e.output = c.output, e.breakpoints = c.breakpoints \union {p},
         e.numbers = c.numbers, OnlyStatus(c, e, k)
  PROVE  Booked(e, g, K \union {k})
  <1>a. /\ p.key = k /\ p.token \in Nat
        /\ \A q \in c.breakpoints : q.token < p.token
        /\ \A i \in 1..Len(c.output) : c.output[i].token < p.token
        /\ \A i \in 1..Len(c.stdin) : c.stdin[i].token <= p.token
    BY DEF SentLast
  <1>b. PICK l \in 1..Len(c.stdin) :
          /\ c.stdin[l].token = p.token /\ c.stdin[l].op = "insert"
          /\ c.stdin[l].key = k /\ c.stdin[l].log = c.desired[k].log
    BY DEF SentLast
  <1>c. /\ DOMAIN e.desired = DOMAIN c.desired
        /\ \A j \in DOMAIN c.desired : /\ e.desired[j].log = c.desired[j].log
                                       /\ j # k => e.desired[j] = c.desired[j]
    BY DEF OnlyStatus
  <1>1. /\ c.token \in Nat
        /\ \A i \in 1..Len(c.stdin) : c.stdin[i].token \in Nat
        /\ \A i \in 1..Len(c.output) : c.output[i].token \in Nat
        /\ \A q \in c.breakpoints : q.token \in Nat
    BY <1>a, <1>b, <1>c, WireTypes
  <1>2. \A i, j \in 1..Len(c.stdin) : i < j => c.stdin[i].token < c.stdin[j].token  BY <1>a, <1>b, <1>c DEF Wired
  <1>3. Len(c.stdin) \in Nat  BY <1>a, <1>b, <1>c, WireTypes
  <1>4. \A i \in 1..Len(c.stdin) : c.stdin[i].token = p.token => i = l
    BY <1>a, <1>b, <1>c, <1>1, <1>2, <1>3
  <1>5. \A q \in c.breakpoints : \A log : AsDesired(c, K, q, log) => AsDesired(e, K \union {k}, q, log)
    <2> SUFFICES ASSUME NEW q \in c.breakpoints, NEW log, AsDesired(c, K, q, log),
                        Latest(e, q), q.key \in K \union {k}
                 PROVE  log = e.desired[q.key].log
      BY <1>a, <1>b, <1>c DEF AsDesired
    <2>1. q.key # k  BY <1>a, <1>b, <1>c, <1>1 DEF Latest
    <2>2. Latest(c, q)  BY <1>a, <1>b, <1>c DEF Latest
    <2>3. K \subseteq DOMAIN c.desired  BY <1>a, <1>b, <1>c DEF Booked
    <2> QED BY <1>a, <1>b, <1>c, <2>1, <2>2, <2>3 DEF AsDesired
  <1>6. ASSUME NEW q \in c.breakpoints PROVE Underway(e, g, K \union {k}, q)
    <2>1. Underway(c, g, K, q)  BY <1>a, <1>b, <1>c, <1>6 DEF Booked
    <2>2. \A i \in 1..Len(c.output) : Makes(c.output[i], q) => MadeFor(e, g, K \union {k}, q, c.output[i].number)
      <3> SUFFICES ASSUME NEW i \in 1..Len(c.output), Makes(c.output[i], q)
                   PROVE  MadeFor(e, g, K \union {k}, q, c.output[i].number)
        OBVIOUS
      <3> DEFINE n == c.output[i].number
      <3>1. MadeFor(c, g, K, q, n)  BY <2>1 DEF Underway
      <3> HIDE DEF n
      <3>2. AsDesired(e, K \union {k}, q, g.breakpoints[n].log)  BY <1>5, <1>6, <3>1 DEF MadeFor
      <3>3. MadeFor(e, g, K \union {k}, q, n)  BY <3>1, <3>2 DEF MadeFor
      <3> QED BY <3>3 DEF n
    <2> QED BY <1>a, <1>b, <1>c, <1>5, <1>6, <2>1, <2>2 DEF Underway
  <1>7. Underway(e, g, K \union {k}, p)
    <2>1. \A i \in 1..Len(c.output) : c.output[i].token # p.token  BY <1>a, <1>b, <1>c, <1>1
    <2>2. AsDesired(e, K \union {k}, p, c.stdin[l].log)  BY <1>a, <1>b, <1>c DEF AsDesired
    <2> QED BY <1>a, <1>b, <1>c, <1>4, <2>1, <2>2 DEF Underway, Makes
  <1>8. Apart(e)
    <2>1. \A i \in 1..Len(c.output) : ~Makes(c.output[i], p)  BY <1>a, <1>b, <1>c, <1>1 DEF Makes
    <2> QED BY <1>a, <1>b, <1>c, <2>1 DEF Apart, Booked
  <1>9. ASSUME NEW j \in DOMAIN e.numbers PROVE Known(e, g, j, e.numbers[j])
    <2>1. Known(c, g, j, c.numbers[j]) /\ j \in DOMAIN c.desired  BY <1>a, <1>b, <1>c, <1>9 DEF Booked
    <2>2. CASE j = k  BY <1>a, <1>b, <1>c, <2>1, <2>2 DEF Known
    <2>3. CASE j # k  BY <1>a, <1>b, <1>c, <2>1, <2>3 DEF Known
    <2> QED BY <1>a, <1>b, <1>c, <2>2, <2>3
  <1>10. ASSUME NEW j \in K \union {k}
         PROVE  \/ \E q \in e.breakpoints : q.key = j
                \/ e.desired[j].status = "rejected"
                \/ j \in DOMAIN e.numbers
    <2>1. CASE j = k  BY <1>a, <1>b, <1>c, <2>1
    <2>2. CASE j # k /\ j \in K  BY <1>a, <1>b, <1>c, <2>2 DEF Booked
    <2> QED BY <1>a, <1>b, <1>c, <1>10, <2>1, <2>2
  <1>11. Orders(e, g)
    <2>1. Orders(c, g)  BY <1>a, <1>b, <1>c DEF Booked
    <2>2. \A i \in 1..Len(c.stdin) : c.stdin[i].op # "insert" => c.stdin[i].token < p.token
      <3> TAKE i \in 1..Len(c.stdin)
      <3>1. c.stdin[i].op # "insert" => c.stdin[i].token # p.token  BY <1>a, <1>b, <1>c, <1>4
      <3> QED BY <1>a, <1>b, <1>c, <1>1, <3>1
    <2> QED BY <1>a, <1>b, <1>c, <2>1, <2>2 DEF Orders
  <1>12. DOMAIN e.numbers \subseteq K \union {k} /\ K \union {k} \subseteq DOMAIN e.desired  BY <1>a, <1>b, <1>c DEF Booked
  <1> QED BY <1>a, <1>b, <1>c, <1>6, <1>7, <1>8, <1>9, <1>10, <1>11, <1>12 DEF Booked
\* What is true of the breakpoints stays true of fewer of them, and when the
\* one that is not waited for any more was refused.
LEMMA BookedLess ==
  ASSUME NEW stops, NEW c, ClientTyped(c, stops), NEW g, NEW K, Booked(c, g, K),
         NEW L, L \subseteq K, NEW e, L \subseteq DOMAIN e.desired,
         e.stdin = c.stdin, e.output = c.output, e.breakpoints \subseteq c.breakpoints,
         DOMAIN e.numbers \subseteq L, DOMAIN e.numbers \subseteq DOMAIN c.numbers,
         \A k \in DOMAIN e.numbers : e.numbers[k] = c.numbers[k],
         \A k \in L : e.desired[k].log = c.desired[k].log,
         \A k \in L :
           \/ e.desired[k].status = "rejected"
           \/ /\ e.desired[k].status = c.desired[k].status
              /\ k \in DOMAIN c.numbers => k \in DOMAIN e.numbers
              /\ \A p \in c.breakpoints : p.key = k => p \in e.breakpoints,
         \A p \in e.breakpoints, q \in c.breakpoints :
           q.key = p.key => q \in e.breakpoints \/ q.token <= p.token
  PROVE  Booked(e, g, L)
  <1>1. \A p \in e.breakpoints : \A log : AsDesired(c, K, p, log) => AsDesired(e, L, p, log)
    <2> SUFFICES ASSUME NEW p \in e.breakpoints, NEW log, AsDesired(c, K, p, log), Latest(e, p), p.key \in L
                 PROVE  log = e.desired[p.key].log
      BY DEF AsDesired
    <2>1. Latest(c, p)  BY DEF Latest
    <2> QED BY <2>1 DEF AsDesired
  <1>2. ASSUME NEW p \in e.breakpoints PROVE Underway(e, g, L, p)
    <2>1. Underway(c, g, K, p)  BY <1>2 DEF Booked
    <2>2. \A i \in 1..Len(c.output) : Makes(c.output[i], p) => MadeFor(e, g, L, p, c.output[i].number)
      BY <1>1, <1>2, <2>1 DEF Underway, MadeFor
    <2> QED BY <1>1, <1>2, <2>1, <2>2 DEF Underway
  <1>3. Apart(e)  BY DEF Apart, Booked
  <1>4. ASSUME NEW k \in DOMAIN e.numbers PROVE Known(e, g, k, e.numbers[k])
    <2>1. Known(c, g, k, c.numbers[k])  BY <1>4 DEF Booked
    <2>2. k \in L  BY <1>4
    <2> QED BY <1>4, <2>1, <2>2 DEF Known
  <1>5. ASSUME NEW k \in L
        PROVE  \/ \E p \in e.breakpoints : p.key = k
               \/ e.desired[k].status = "rejected"
               \/ k \in DOMAIN e.numbers
    BY <1>5 DEF Booked
  <1>6. Orders(e, g)  BY DEF Booked, Orders
  <1> QED BY <1>2, <1>3, <1>4, <1>5, <1>6 DEF Booked

\* A record that answers no insertion is put aside.
LEMMA BookedRest ==
  ASSUME NEW stops, NEW c, ClientTyped(c, stops), NEW g, NEW K, Booked(c, g, K), c.output # <<>>,
         \A p \in c.breakpoints : ~Answer(Head(c.output), p),
         NEW e, e.stdin = c.stdin, e.output = Tail(c.output), e.breakpoints = c.breakpoints,
         e.numbers = c.numbers, e.desired = c.desired
  PROVE  Booked(e, g, K)
  <1>1. c.output \in Seq(RecordSet(stops))  BY WireTypes
  <1>2. /\ Len(e.output) = Len(c.output) - 1 /\ Head(c.output) = c.output[1]
        /\ \A i \in 1..(Len(c.output) - 1) : e.output[i] = c.output[i + 1] /\ i + 1 \in 1..Len(c.output)
        /\ \A i \in 1..Len(c.output) :
             i = 1 \/ (i - 1 \in 1..(Len(c.output) - 1) /\ e.output[i - 1] = c.output[i])
    BY <1>1, Taken
  <1>3. \A p \in c.breakpoints : \A log : AsDesired(e, K, p, log) <=> AsDesired(c, K, p, log)
    BY DEF AsDesired, Latest
  <1>4. ASSUME NEW p \in c.breakpoints PROVE Underway(e, g, K, p)
    <2>1. Underway(c, g, K, p)  BY <1>4 DEF Booked
    <2>2. \A i \in 1..Len(e.output) : Makes(e.output[i], p) => MadeFor(e, g, K, p, e.output[i].number)
      BY <1>2, <1>3, <1>4, <2>1 DEF Underway, MadeFor
    <2>3. \/ \E i \in 1..Len(e.stdin) : e.stdin[i].token = p.token
          \/ \E i \in 1..Len(e.output) : Answer(e.output[i], p)
      <3>1. CASE \E i \in 1..Len(c.stdin) : c.stdin[i].token = p.token  BY <3>1
      <3>2. ASSUME NEW i \in 1..Len(c.output), Answer(c.output[i], p)
            PROVE  \E j \in 1..Len(e.output) : Answer(e.output[j], p)
        <4>1. i # 1  BY <1>2, <1>4, <3>2
        <4>2. i - 1 \in 1..Len(e.output) /\ e.output[i - 1] = c.output[i]  BY <1>2, <3>2, <4>1
        <4> QED BY <3>2, <4>2
      <3> QED BY <2>1, <3>1, <3>2 DEF Underway
    <2> QED BY <1>3, <2>1, <2>2, <2>3 DEF Underway
  <1>5. Apart(e)
    <2>1. Apart(c)  BY DEF Booked
    <2> QED BY <1>2, <2>1 DEF Apart
  <1>6. \A k \in DOMAIN e.numbers : Known(e, g, k, e.numbers[k])  BY DEF Booked, Known
  <1>7. Orders(e, g)  BY DEF Booked, Orders
  <1> QED BY <1>4, <1>5, <1>6, <1>7 DEF Booked

\* n is the number of a breakpoint in gdb that is as the user wants the one at k.
Numbered(c, g, k, n) ==
  /\ n \in DOMAIN g.breakpoints /\ g.breakpoints[n].key = k /\ ~Sends(c.stdin, "delete", n)
  /\ c.desired[k].log => g.breakpoints[n].armed \/ Arming(c.stdin, n)
  /\ ~c.desired[k].log => ~g.breakpoints[n].armed /\ ~Sends(c.stdin, "commands", n)
  /\ (\E p \in c.breakpoints : p.key = k) \/ g.breakpoints[n].log = c.desired[k].log
  /\ \A p \in c.breakpoints, i \in 1..Len(c.output) :
       Makes(c.output[i], p) => c.output[i].number # n
  /\ \A i \in 1..Len(c.stdin) : c.stdin[i].op # "deleteAll"

\* The number of a breakpoint that gdb made is known from now on.
LEMMA BookedNumber ==
  ASSUME NEW stops, NEW c, ClientTyped(c, stops), NEW g, NEW K, Booked(c, g, K), NEW k \in K,
         NEW n, Numbered(c, g, k, n),
         NEW e, e.stdin = c.stdin, e.output = c.output, e.breakpoints = c.breakpoints,
         e.numbers = With(c.numbers, k, n), OnlyStatus(c, e, k)
  PROVE  Booked(e, g, K)
  <1>0. /\ DOMAIN e.desired = DOMAIN c.desired
        /\ \A j \in DOMAIN c.desired : /\ e.desired[j].log = c.desired[j].log
                                       /\ j # k => e.desired[j] = c.desired[j]
    BY DEF OnlyStatus
  <1>n. /\ n \in DOMAIN g.breakpoints /\ g.breakpoints[n].key = k /\ ~Sends(c.stdin, "delete", n)
        /\ c.desired[k].log => g.breakpoints[n].armed \/ Arming(c.stdin, n)
        /\ ~c.desired[k].log => ~g.breakpoints[n].armed /\ ~Sends(c.stdin, "commands", n)
        /\ (\E p \in c.breakpoints : p.key = k) \/ g.breakpoints[n].log = c.desired[k].log
        /\ \A p \in c.breakpoints, i \in 1..Len(c.output) :
             Makes(c.output[i], p) => c.output[i].number # n
        /\ \A i \in 1..Len(c.stdin) : c.stdin[i].op # "deleteAll"
    BY DEF Numbered
  <1>1. /\ DOMAIN e.numbers = DOMAIN c.numbers \union {k} /\ e.numbers[k] = n
        /\ \A j \in DOMAIN c.numbers : j # k => e.numbers[j] = c.numbers[j]
    BY <1>n, <1>0 DEF With
  <1>2. DOMAIN c.numbers \subseteq K /\ K \subseteq DOMAIN c.desired  BY <1>n, <1>0 DEF Booked
  <1>3. ASSUME NEW p \in c.breakpoints, NEW log, AsDesired(c, K, p, log) PROVE AsDesired(e, K, p, log)
    BY <1>n, <1>0, <1>2, <1>3 DEF AsDesired, Latest
  <1>4. ASSUME NEW p \in c.breakpoints PROVE Underway(e, g, K, p)
    <2>1. Underway(c, g, K, p)  BY <1>n, <1>0, <1>4 DEF Booked
    <2>2. ASSUME NEW i \in 1..Len(c.output), Makes(c.output[i], p)
          PROVE  MadeFor(e, g, K, p, c.output[i].number)
      <3>1. MadeFor(c, g, K, p, c.output[i].number)  BY <1>n, <1>0, <2>1, <2>2 DEF Underway
      <3>2. c.output[i].number # n  BY <1>n, <1>0, <2>2
      <3> QED BY <1>n, <1>0, <1>1, <1>3, <3>1, <3>2 DEF MadeFor
    <2> QED BY <1>n, <1>0, <1>3, <2>1, <2>2 DEF Underway
  <1>5. Apart(e)  BY <1>n, <1>0 DEF Apart, Booked
  <1>6. ASSUME NEW j \in DOMAIN e.numbers PROVE Known(e, g, j, e.numbers[j])
    <2>1. CASE j = k
      <3>1. e.desired[k].log = c.desired[k].log  BY <1>n, <1>0, <1>2
      <3> QED BY <1>n, <1>0, <1>1, <2>1, <3>1 DEF Known
    <2>2. CASE j # k
      <3>1. j \in DOMAIN c.numbers /\ Known(c, g, j, c.numbers[j])  BY <1>n, <1>0, <1>1, <1>6, <2>2 DEF Booked
      <3>2. e.desired[j] = c.desired[j] /\ e.numbers[j] = c.numbers[j]  BY <1>n, <1>0, <1>1, <1>2, <2>2, <3>1
      <3> QED BY <1>n, <1>0, <3>1, <3>2 DEF Known
    <2> QED BY <1>n, <1>0, <2>1, <2>2
  <1>7. ASSUME NEW j \in K
        PROVE  \/ \E q \in e.breakpoints : q.key = j
               \/ e.desired[j].status = "rejected"
               \/ j \in DOMAIN e.numbers
    BY <1>n, <1>0, <1>1, <1>2, <1>7 DEF Booked
  <1>8. Orders(e, g)  BY <1>n, <1>0 DEF Booked, Orders
  <1> QED BY <1>n, <1>0, <1>1, <1>2, <1>4, <1>5, <1>6, <1>7, <1>8 DEF Booked

\* gdb reads a command and answers it. What it does to its breakpoints is what
\* the command says, and nothing to the others.
Reads(g, h, m, r) ==
  /\ r.token = m.token /\ g.next <= h.next
  /\ \A n \in DOMAIN g.breakpoints :
       \/ n \in DOMAIN h.breakpoints /\ h.breakpoints[n] = g.breakpoints[n]
       \/ m.op = "delete" /\ m.number = n
       \/ m.op = "deleteAll"
       \/ /\ m.op = "commands" /\ m.number = n /\ n \in DOMAIN h.breakpoints
          /\ h.breakpoints[n] = [g.breakpoints[n] EXCEPT !.armed = TRUE]
  /\ m.op = "commands" /\ m.number \in DOMAIN h.breakpoints => h.breakpoints[m.number].armed
  /\ m.op = "insert" =>
       /\ r.kind \in {"done", "error"}
       /\ r.kind = "done" =>
            /\ r.number \in DOMAIN h.breakpoints \ DOMAIN g.breakpoints
            /\ r.number >= g.next
            /\ h.breakpoints[r.number] = [key |-> m.key, log |-> m.log, armed |-> FALSE]

\* Reading a command keeps what is true of the breakpoints.
LEMMA BookedReads ==
  ASSUME NEW stops, NEW c, ClientTyped(c, stops), Wired(c), Tracked(c), NEW g, GdbTyped(g), NEW K,
         Booked(c, g, K), c.stdin # <<>>, NEW r \in RecordSet(stops), NEW h, h.next \in Nat,
         Reads(g, h, Head(c.stdin), r),
         NEW e, e.stdin = Tail(c.stdin), e.output = Append(c.output, r), e.breakpoints = c.breakpoints,
         e.numbers = c.numbers, e.desired = c.desired
  PROVE  Booked(e, h, K)
  <1> DEFINE m == Head(c.stdin)
  <1>1. /\ c.stdin \in Seq(MessageSet) /\ c.output \in Seq(RecordSet(stops))
        /\ \A i \in 1..Len(c.stdin) : c.stdin[i].token \in Nat /\ c.stdin[i].number \in Nat
        /\ \A i \in 1..Len(c.output) : c.output[i].token \in Nat
        /\ \A p \in c.breakpoints : p.token \in Nat
    BY WireTypes
  <1>2. /\ Len(e.stdin) = Len(c.stdin) - 1 /\ m = c.stdin[1] /\ 1 \in 1..Len(c.stdin)
        /\ \A i \in 1..(Len(c.stdin) - 1) : e.stdin[i] = c.stdin[i + 1] /\ i + 1 \in 1..Len(c.stdin)
        /\ \A i \in 1..Len(c.stdin) :
             i = 1 \/ (i - 1 \in 1..(Len(c.stdin) - 1) /\ e.stdin[i - 1] = c.stdin[i])
    BY <1>1, Taken
  <1>3. /\ Len(e.output) = Len(c.output) + 1 /\ Len(c.output) \in Nat
        /\ e.output[Len(c.output) + 1] = r
        /\ \A i \in 1..Len(c.output) : e.output[i] = c.output[i] /\ i \in 1..(Len(c.output) + 1)
        /\ \A i \in 1..(Len(c.output) + 1) : i \in 1..Len(c.output) \/ i = Len(c.output) + 1
    BY <1>1, Appended
  <1>4. \A o, n : Sends(e.stdin, o, n) => Sends(c.stdin, o, n)
    BY <1>1, SendsTail
  <1>5. \A o, n : m.op = o /\ m.number = n => Sends(c.stdin, o, n)  BY <1>2 DEF Sends
  <1>6. \A n : Arming(c.stdin, n) => Arming(e.stdin, n) \/ (m.op = "commands" /\ m.number = n)
    BY <1>1, ArmingTail
  <1>7. /\ \A i \in 1..Len(c.output), j \in 1..Len(c.stdin) : c.output[i].token < c.stdin[j].token
        /\ \A i, j \in 1..Len(c.stdin) : i < j => c.stdin[i].token < c.stdin[j].token
    BY DEF Wired
  <1>8. \A n \in DOMAIN g.breakpoints : n \in Nat /\ n < g.next  BY DEF GdbTyped, MapOf
  <1>9. g.next \in Nat /\ r.token \in Nat  BY DEF GdbTyped, RecordSet
  <1>10. Orders(c, g)  BY DEF Booked
  <1> HIDE DEF MessageSet, RecordSet, m
  <1>11. Reads(g, h, m, r)  BY DEF m
  <1>12. \A p \in c.breakpoints : \A log : AsDesired(e, K, p, log) <=> AsDesired(c, K, p, log)
    BY DEF AsDesired, Latest
  <1>13. ASSUME NEW p \in c.breakpoints, p.token = m.token
         PROVE  m.op = "insert" /\ m.key = p.key /\ AsDesired(c, K, p, m.log)
    BY <1>2, <1>13 DEF Booked, Underway
  <1>14. ASSUME NEW p \in c.breakpoints, NEW i \in 1..Len(c.output), Makes(c.output[i], p)
         PROVE  /\ MadeFor(c, g, K, p, c.output[i].number)
                /\ MadeFor(e, h, K, p, c.output[i].number)
    <2> DEFINE n == c.output[i].number
    <2>1. MadeFor(c, g, K, p, n)  BY <1>14 DEF Booked, Underway
    <2>2. m.op # "deleteAll"
      <3>1. p.token < m.token  BY <1>2, <1>7, <1>14 DEF Makes
      <3>2. m.op = "deleteAll" => m.token < p.token  BY <1>2, <1>10, <1>14 DEF Orders
      <3>3. m.token \in Nat /\ p.token \in Nat  BY <1>1, <1>2
      <3> QED BY <3>1, <3>2, <3>3
    <2> HIDE DEF n
    <2>3. n \in DOMAIN h.breakpoints /\ h.breakpoints[n] = g.breakpoints[n]
      BY <1>5, <1>11, <2>1, <2>2 DEF Reads, MadeFor
    <2>4. MadeFor(e, h, K, p, n)  BY <1>4, <1>12, <1>14, <2>1, <2>3 DEF MadeFor
    <2> QED BY <2>1, <2>4 DEF n
  <1>15. ASSUME NEW p \in c.breakpoints, Makes(r, p)
         PROVE  /\ r.number \notin DOMAIN g.breakpoints /\ MadeFor(e, h, K, p, r.number)
    <2>1. p.token = m.token /\ r.kind = "done"  BY <1>11, <1>15 DEF Makes, Reads
    <2>2. m.op = "insert" /\ m.key = p.key /\ AsDesired(c, K, p, m.log)  BY <1>13, <2>1
    <2> DEFINE n == r.number
    <2>3. /\ n \in DOMAIN h.breakpoints /\ n \notin DOMAIN g.breakpoints /\ n >= g.next
          /\ h.breakpoints[n] = [key |-> m.key, log |-> m.log, armed |-> FALSE]
      BY <1>11, <2>1, <2>2 DEF Reads
    <2>4. n \in Nat  BY DEF RecordSet
    <2>5. ~Sends(c.stdin, "delete", n) /\ ~Sends(c.stdin, "commands", n)
      <3>1. \A i \in 1..Len(c.stdin) : c.stdin[i].op \in {"delete", "commands"} => c.stdin[i].number < g.next
        BY <1>10 DEF Orders
      <3>2. \A i \in 1..Len(c.stdin) : c.stdin[i].op \in {"delete", "commands"} => c.stdin[i].number # n
        BY <1>1, <1>9, <2>3, <2>4, <3>1
      <3> QED BY <3>2 DEF Sends
    <2>6. \A k \in DOMAIN c.numbers : c.numbers[k] # n
      <3>1. \A k \in DOMAIN c.numbers : c.numbers[k] \in DOMAIN g.breakpoints  BY DEF Booked, Known
      <3> QED BY <2>3, <3>1
    <2> HIDE DEF n
    <2>7. MadeFor(e, h, K, p, n)
      BY <1>4, <1>12, <1>15, <2>2, <2>3, <2>5, <2>6 DEF MadeFor
    <2> QED BY <2>3, <2>7 DEF n
  <1>16. ASSUME NEW p \in c.breakpoints PROVE Underway(e, h, K, p)
    <2>1. Underway(c, g, K, p)  BY <1>16 DEF Booked
    <2>2. \A i \in 1..Len(e.output) : Makes(e.output[i], p) => MadeFor(e, h, K, p, e.output[i].number)
      BY <1>3, <1>14, <1>15, <1>16
    <2>3. p.token = m.token => Answer(r, p)  BY <1>11, <1>13, <1>16 DEF Reads, Answer
    <2>4. \/ \E i \in 1..Len(e.stdin) : e.stdin[i].token = p.token
          \/ \E i \in 1..Len(e.output) : Answer(e.output[i], p)
      <3>1. CASE \E i \in 1..Len(c.stdin) : c.stdin[i].token = p.token
        <4>1. PICK i \in 1..Len(c.stdin) : c.stdin[i].token = p.token  BY <3>1
        <4>2. CASE i = 1
          <5>1. Answer(r, p)  BY <1>2, <2>3, <4>1, <4>2
          <5>2. Len(c.output) + 1 \in 1..Len(e.output)  BY <1>3
          <5> QED BY <1>3, <5>1, <5>2
        <4>3. CASE i # 1  BY <1>2, <4>1, <4>3
        <4> QED BY <4>2, <4>3
      <3>2. CASE \E i \in 1..Len(c.output) : Answer(c.output[i], p)  BY <1>3, <3>2
      <3> QED BY <2>1, <3>1, <3>2 DEF Underway
    <2>5. \A i \in 1..Len(e.stdin) :
            e.stdin[i].token = p.token =>
              /\ e.stdin[i].op = "insert" /\ e.stdin[i].key = p.key
              /\ AsDesired(e, K, p, e.stdin[i].log)
      BY <1>2, <1>12, <1>16, <2>1 DEF Underway
    <2> QED BY <2>2, <2>4, <2>5 DEF Underway
  <1>17. Apart(e)
    <2> SUFFICES ASSUME NEW p \in c.breakpoints, NEW q \in c.breakpoints,
                        NEW i \in 1..Len(e.output), NEW j \in 1..Len(e.output),
                        Makes(e.output[i], p), Makes(e.output[j], q), p # q
                 PROVE  e.output[i].number # e.output[j].number
      BY DEF Apart
    <2>1. CASE i \in 1..Len(c.output) /\ j \in 1..Len(c.output)  BY <1>3, <2>1 DEF Booked, Apart
    <2>2. CASE i \in 1..Len(c.output) /\ j = Len(c.output) + 1
      BY <1>3, <1>14, <1>15, <2>2 DEF MadeFor
    <2>3. CASE i = Len(c.output) + 1 /\ j \in 1..Len(c.output)
      BY <1>3, <1>14, <1>15, <2>3 DEF MadeFor
    <2>4. CASE i = Len(c.output) + 1 /\ j = Len(c.output) + 1
      BY <1>3, <2>4 DEF Makes, Tracked
    <2> QED BY <1>3, <2>1, <2>2, <2>3, <2>4
  <1>18. ASSUME NEW k \in DOMAIN c.numbers PROVE Known(e, h, k, c.numbers[k])
    <2> DEFINE n == c.numbers[k]
    <2>1. Known(c, g, k, n)  BY <1>18 DEF Booked
    <2>2. m.op # "deleteAll"  BY <1>2, <1>10, <1>18 DEF Orders
    <2> HIDE DEF n
    <2>3. n \in DOMAIN g.breakpoints /\ ~(m.op = "delete" /\ m.number = n)  BY <1>5, <2>1 DEF Known
    <2>4. CASE ~(m.op = "commands" /\ m.number = n)
      <3>1. n \in DOMAIN h.breakpoints /\ h.breakpoints[n] = g.breakpoints[n]
        BY <1>11, <2>2, <2>3, <2>4 DEF Reads
      <3>2. Arming(c.stdin, n) => Arming(e.stdin, n)  BY <1>6, <2>4
      <3> QED BY <1>4, <2>1, <3>1, <3>2 DEF Known, n
    <2>5. CASE m.op = "commands" /\ m.number = n
      <3>1. c.desired[k].log  BY <1>5, <2>1, <2>5 DEF Known
      <3>2. /\ n \in DOMAIN h.breakpoints /\ h.breakpoints[n].armed
            /\ h.breakpoints[n] = g.breakpoints[n] \/ h.breakpoints[n] = [g.breakpoints[n] EXCEPT !.armed = TRUE]
        BY <1>11, <2>2, <2>3, <2>5 DEF Reads
      <3>3. h.breakpoints[n].key = g.breakpoints[n].key /\ h.breakpoints[n].log = g.breakpoints[n].log
        <4>1. g.breakpoints[n] \in [key : Keys \union {"none"}, log : BOOLEAN, armed : BOOLEAN]
          BY <2>3 DEF GdbTyped, MapOf
        <4> QED BY <3>2, <4>1
      <3> QED BY <1>4, <2>1, <3>1, <3>2, <3>3 DEF Known, n
    <2> QED BY <2>4, <2>5 DEF n
  <1>19. Orders(e, h)
    <2> SUFFICES ASSUME NEW i \in 1..Len(e.stdin)
                 PROVE  /\ e.stdin[i].op \in {"delete", "commands"} => e.stdin[i].number < h.next
                        /\ e.stdin[i].op \in {"deleteAll", "run"} =>
                             \A p \in c.breakpoints : e.stdin[i].token < p.token
                        /\ e.stdin[i].op = "deleteAll" => DOMAIN c.numbers = {}
      BY DEF Orders
    <2>1. i + 1 \in 1..Len(c.stdin) /\ e.stdin[i] = c.stdin[i + 1]  BY <1>2
    <2>2. e.stdin[i].op \in {"delete", "commands"} => e.stdin[i].number < g.next
      BY <1>10, <2>1 DEF Orders
    <2>3. e.stdin[i].number \in Nat /\ g.next <= h.next  BY <1>1, <1>11, <2>1 DEF Reads
    <2>4. e.stdin[i].op \in {"delete", "commands"} => e.stdin[i].number < h.next
      BY <1>9, <2>2, <2>3
    <2> QED BY <1>10, <2>1, <2>4 DEF Orders
  <1> QED BY <1>16, <1>17, <1>18, <1>19 DEF Booked

----------------------------------------------------------------------------
(* The client and the debugger, but for an attached program *)

Base(c, g, K) ==
  /\ ClientTyped(c, g.stops) /\ GdbTyped(g) /\ Wired(c) /\ Tracked(c) /\ InSession(c)
  /\ c.running /\ c.mode # "core" => Booked(c, g, K)

\* A command that a session may send.
Allowed(c, g, m) ==
  /\ c.mode = "core" => m.op \in ReadOnly
  /\ c.mode # "core" => m.op \notin {"executable", "core"} /\ MaySend(c, g, m)
  /\ m.op = "run" => c.mode = "launch"

\* Such a command changes only the token and what gdb is to read.
LEMMA Sending ==
  ASSUME NEW g, NEW c, NEW K, Base(c, g, K), NEW op \in Ops, NEW key \in Keys \union {"none"},
         NEW number \in Nat, NEW log \in BOOLEAN,
         c.running => Allowed(c, g, Message(c.token, op, key, number, log))
  PROVE  LET e == CommandOn(c, op, key, number, log)
             m == Message(c.token, op, key, number, log) IN
         /\ Base(e, g, K) /\ Same(c, e) /\ e.token = c.token + 1 /\ e.output = c.output
         /\ m \in MessageSet /\ e.stdin = Sent(c, m)
  <1> DEFINE m == Message(c.token, op, key, number, log)
             e == CommandOn(c, op, key, number, log)
  <1>1. /\ ClientTyped(c, g.stops) /\ GdbTyped(g) /\ Wired(c) /\ Tracked(c) /\ InSession(c)
        /\ c.running /\ c.mode # "core" => Booked(c, g, K)
    BY DEF Base
  <1>2. /\ m \in MessageSet /\ Sent(c, m) \in Seq(MessageSet)
        /\ ClientTyped(e, g.stops) /\ Same(c, e)
        /\ e.token = c.token + 1 /\ e.stdin = Sent(c, m) /\ e.output = c.output
    BY <1>1, CommandFields
  <1>3. m.token = c.token /\ m.op = op  BY DEF Message
  <1>4. c.running => Allowed(c, g, m)  OBVIOUS
  <1> HIDE DEF m, e
  <1>5. Same(c, e) /\ e.token = c.token + 1 /\ e.output = c.output /\ e.stdin = Sent(c, m)
    BY <1>2
  <1>6. Wired(e)  BY <1>1, <1>2, <1>3, <1>5, WiredSend
  <1>7. /\ c.token \in Nat /\ c.stdin \in Seq(MessageSet) /\ c.running \in BOOLEAN
        /\ \A p \in c.breakpoints : p.token \in Nat
    BY <1>1, WireTypes
  <1>8. \A t \in Others(c) : t \in Nat
    BY <1>1 DEF ClientTyped, Others, Waiting
  <1>9. Others(e) = Others(c)  BY <1>5 DEF Others, Same
  <1>10. Tracked(e)
    <2>1. \A p \in c.breakpoints : p.token < c.token + 1  BY <1>1, <1>7 DEF Tracked
    <2>2. \A t \in Others(c) : t < c.token + 1  BY <1>1, <1>7, <1>8 DEF Tracked
    <2> QED BY <1>1, <1>5, <1>9, <2>1, <2>2 DEF Tracked, Same
  <1>11. InSession(e)
    <2>1. CASE ~c.running  BY <1>1, <1>5, <2>1 DEF InSession, Sent, Same
    <2>2. CASE c.running
      <3>1. e.stdin = Append(c.stdin, m)  BY <1>5, <2>2 DEF Sent
      <3>2. /\ Len(e.stdin) = Len(c.stdin) + 1 /\ e.stdin[Len(c.stdin) + 1] = m
            /\ \A i \in 1..Len(c.stdin) : e.stdin[i] = c.stdin[i] /\ i \in 1..(Len(c.stdin) + 1)
            /\ \A i \in 1..(Len(c.stdin) + 1) : i \in 1..Len(c.stdin) \/ i = Len(c.stdin) + 1
        BY <1>2, <1>7, <3>1, Appended
      <3>3. Allowed(c, g, m)  BY <1>4, <2>2
      <3>4. \A i \in 1..Len(e.stdin) :
              /\ c.mode # "launch" => e.stdin[i].op # "run"
              /\ c.mode = "core" => e.stdin[i].op \in ReadOnly
              /\ c.mode # "core" => e.stdin[i].op \notin {"executable", "core"}
        BY <1>1, <3>2, <3>3 DEF InSession, Allowed
      <3> QED BY <1>1, <1>5, <2>2, <3>4 DEF InSession, Same
    <2> QED BY <1>7, <2>1, <2>2
  <1>12. ASSUME c.running, c.mode # "core" PROVE Booked(e, g, K)
    <2>1. e.stdin = Append(c.stdin, m)  BY <1>5, <1>12 DEF Sent
    <2>2. MaySend(c, g, m)  BY <1>4, <1>12 DEF Allowed
    <2>3. /\ e.output = c.output /\ e.breakpoints = c.breakpoints
          /\ e.numbers = c.numbers /\ e.desired = c.desired
      BY <1>5 DEF Same
    <2> QED BY <1>1, <1>2, <1>3, <1>12, <2>1, <2>2, <2>3, BookedSend
  <1>13. Base(e, g, K)  BY <1>1, <1>2, <1>5, <1>6, <1>10, <1>11, <1>12 DEF Base, Same
  <1> QED BY <1>2, <1>5, <1>13 DEF m, e

\* What the breakpoints depend on.
LEMMA BookedSame ==
  ASSUME NEW c, NEW g, NEW K, Booked(c, g, K), NEW e, e.stdin = c.stdin, e.output = c.output,
         e.breakpoints = c.breakpoints, e.numbers = c.numbers, e.desired = c.desired
  PROVE  Booked(e, g, K)
  BY DEF Booked, Underway, MadeFor, AsDesired, Latest, Apart, Known, Orders

\* The client changes fields without sending anything.
LEMMA Changing ==
  ASSUME NEW g, NEW c, NEW K, Base(c, g, K), NEW e, ClientTyped(e, g.stops),
         e.running = c.running, e.mode = c.mode, e.token = c.token, e.stdin = c.stdin,
         e.output = c.output, e.breakpoints \subseteq c.breakpoints,
         e.detaching => c.mode = "attach", e.runRequested => c.mode = "launch",
         c.mode = "core" => DOMAIN e.numbers = {} /\ e.commands = {} /\ e.signal = 0,
         c.mode # "core" => e.coreExecutable = 0 /\ e.coreTarget = 0,
         \A t \in Others(e) : t \in Others(c) \/ (t < c.token /\ \A p \in c.breakpoints : p.token # t),
         NEW L, c.running /\ c.mode # "core" => Booked(e, g, L)
  PROVE  Base(e, g, L)
  <1>1. Wired(e)  BY DEF Base, Wired
  <1>2. Tracked(e)  BY DEF Base, Tracked
  <1>3. InSession(e)
    <2>1. InSession(c)  BY DEF Base
    <2>2. c.mode = "core" => e.breakpoints = {}  BY <2>1 DEF InSession
    <2> QED BY <2>1, <2>2 DEF InSession
  <1> QED BY <1>1, <1>2, <1>3 DEF Base

\* A record that answers no insertion is put aside.
LEMMA Resting ==
  ASSUME NEW g, NEW c, NEW K, Base(c, g, K), c.output # <<>>,
         \A p \in c.breakpoints : ~Answer(Head(c.output), p),
         NEW e, Same(c, e), ClientTyped(e, g.stops), e.token = c.token, e.stdin = c.stdin,
         e.output = Tail(c.output)
  PROVE  Base(e, g, K)
  <1>1. c.output \in Seq(RecordSet(g.stops))  BY WireTypes DEF Base
  <1>2. /\ Len(e.output) = Len(c.output) - 1 /\ Len(c.output) \in Nat
        /\ \A i \in 1..(Len(c.output) - 1) : e.output[i] = c.output[i + 1] /\ i + 1 \in 1..Len(c.output)
    BY <1>1, Taken
  <1>3. Wired(e)
    <2>1. Wired(c)  BY DEF Base
    <2>2. \A i, j \in 1..Len(e.output) : i < j => i + 1 < j + 1  BY <1>2
    <2> QED BY <1>2, <2>1, <2>2 DEF Wired
  <1>4. Others(e) = Others(c)  BY DEF Same, Others
  <1>5. Tracked(e)  BY <1>4 DEF Base, Same, Tracked
  <1>6. InSession(e)  BY DEF Base, Same, InSession
  <1>7. ASSUME c.running, c.mode # "core" PROVE Booked(e, g, K)
    <2>1. Booked(c, g, K) /\ ClientTyped(c, g.stops)  BY <1>7 DEF Base
    <2>2. e.breakpoints = c.breakpoints /\ e.numbers = c.numbers /\ e.desired = c.desired  BY DEF Same
    <2> QED BY <2>1, <2>2, BookedRest
  <1> QED BY <1>3, <1>5, <1>6, <1>7 DEF Base, Same

----------------------------------------------------------------------------
(* An attached program *)

\* Sending a command other than attach, or a first detach.
LEMMA AttachedSend ==
  ASSUME NEW g, NEW c, NEW K, Base(c, g, K), Attached(c, g), NEW m \in MessageSet, m.token = c.token,
         m.op # "attach", NEW e, e.stdin = Append(c.stdin, m), e.output = c.output,
         e.attach = c.attach, e.detach = c.detach \/ (m.op = "detach" /\ e.detach = m.token),
         e.detaching /\ e.detachConfirmed => Over(c, g), e.active \/ e.active = c.active
  PROVE  Attached(e, g)
  <1>1. /\ c.stdin \in Seq(MessageSet) /\ c.token \in Nat
        /\ \A i \in 1..Len(c.stdin) : c.stdin[i].token \in Nat
        /\ \A i \in 1..Len(c.output) : c.output[i].token \in Nat
    BY WireTypes DEF Base
  <1>2. /\ Len(e.stdin) = Len(c.stdin) + 1
        /\ e.stdin[Len(c.stdin) + 1] = m
        /\ \A i \in 1..Len(c.stdin) : e.stdin[i] = c.stdin[i] /\ i \in 1..(Len(c.stdin) + 1)
        /\ \A i \in 1..(Len(c.stdin) + 1) : i \in 1..Len(c.stdin) \/ i = Len(c.stdin) + 1
    BY <1>1, Appended
  <1> HIDE DEF MessageSet
  <1>3. c.attach \in Nat /\ c.detach \in Nat /\ c.attach < c.token /\ c.detach < c.token
    BY DEF Base, Tracked, Others, ClientTyped
  <1>4. Over(c, g) => Over(e, g)  BY <1>2 DEF Over
  <1>5. /\ \A i \in 1..Len(c.stdin) : c.stdin[i].token < c.token
        /\ \A i \in 1..Len(c.output) : c.output[i].token < c.token
    BY DEF Base, Wired
  <1>6. ASSUME NEW i \in 1..Len(e.stdin)
        PROVE  /\ e.stdin[i].op = "attach" <=> e.stdin[i].token = e.attach
               /\ e.stdin[i].op = "attach" => g.program = "none"
               /\ e.stdin[i].token = e.detach => e.stdin[i].op = "detach"
    <2>1. CASE i \in 1..Len(c.stdin)
      <3>1. c.stdin[i].token # m.token  BY <1>1, <1>5, <2>1
      <3> QED BY <1>2, <2>1, <3>1 DEF Attached
    <2>2. CASE i = Len(c.stdin) + 1  BY <1>1, <1>2, <1>3, <2>2
    <2> QED BY <1>2, <2>1, <2>2
  <1>7. \A i \in 1..Len(c.output) : c.output[i].token # m.token  BY <1>1, <1>5
  <1>8. \A i \in 1..Len(e.output) :
          /\ e.attach = 0 /\ e.output[i].kind = "exited" => Over(e, g)
          /\ e.detach # 0 /\ e.output[i].token = e.detach /\ e.output[i].kind = "done" => Over(e, g)
          /\ e.attach # 0 /\ e.output[i].token = e.attach /\ e.output[i].kind = "error" => Over(e, g)
    BY <1>4, <1>7 DEF Attached
  <1>9. e.detach # 0 => e.attach < e.detach  BY <1>3 DEF Attached
  <1>10. ASSUME NEW i \in 1..Len(e.output), NEW j \in 1..Len(e.output),
                e.attach # 0, e.output[i].token = e.attach, e.output[i].kind = "done",
                i < j, e.output[j].kind = "exited"
         PROVE  Over(e, g)
    BY <1>4, <1>10 DEF Attached
  <1>11. e.detaching /\ e.detachConfirmed => Over(e, g)  BY <1>4
  <1>12. e.attach = 0 /\ ~e.active => Over(e, g)  BY <1>4 DEF Attached
  <1> QED BY <1>6, <1>8, <1>9, <1>10, <1>11, <1>12 DEF Attached

\* A record is put aside.
LEMMA AttachedRest ==
  ASSUME NEW g, NEW c, NEW K, Base(c, g, K), Attached(c, g), c.output # <<>>,
         NEW e, e.stdin = c.stdin, e.output = Tail(c.output), e.attach = c.attach,
         e.detach = c.detach, e.detaching = c.detaching, e.detachConfirmed = c.detachConfirmed,
         e.active = c.active
  PROVE  Attached(e, g)
  <1>1. c.output \in Seq(RecordSet(g.stops))  BY WireTypes DEF Base
  <1>2. /\ Len(e.output) = Len(c.output) - 1 /\ Len(c.output) \in Nat
        /\ \A i \in 1..(Len(c.output) - 1) : e.output[i] = c.output[i + 1] /\ i + 1 \in 1..Len(c.output)
    BY <1>1, Taken
  <1>3. \A i, j \in 1..Len(e.output) : i < j => i + 1 < j + 1  BY <1>2
  <1>4. Over(c, g) <=> Over(e, g)  BY DEF Over
  <1> QED BY <1>2, <1>3, <1>4 DEF Attached

----------------------------------------------------------------------------
(* Commands and panels *)

\* What is sound is sound for its parts.
LEMMA SoundParts ==
  ASSUME NEW c, NEW g, NEW K
  PROVE  SoundFor(c, g, K) <=> Base(c, g, K) /\ (c.running /\ c.mode = "attach" => Attached(c, g))
  BY DEF SoundFor, Base

\* A command that is allowed may be sent at any time.
LEMMA SoundSend ==
  ASSUME NEW g, NEW c, NEW K, SoundFor(c, g, K), NEW op \in Ops, NEW key \in Keys \union {"none"},
         NEW number \in Nat, NEW log \in BOOLEAN, op # "attach",
         c.running => Allowed(c, g, Message(c.token, op, key, number, log))
  PROVE  LET e == CommandOn(c, op, key, number, log)
             m == Message(c.token, op, key, number, log) IN
         /\ SoundFor(e, g, K) /\ Same(c, e) /\ e.token = c.token + 1 /\ e.output = c.output
         /\ m \in MessageSet /\ e.stdin = Sent(c, m)
  <1> DEFINE m == Message(c.token, op, key, number, log)
             e == CommandOn(c, op, key, number, log)
  <1>1. Base(c, g, K) /\ (c.running /\ c.mode = "attach" => Attached(c, g))  BY SoundParts
  <1>2. /\ Base(e, g, K) /\ Same(c, e) /\ e.token = c.token + 1 /\ e.output = c.output
        /\ m \in MessageSet /\ e.stdin = Sent(c, m)
    BY <1>1, Sending
  <1>3. m.token = c.token /\ m.op = op  BY DEF Message
  <1> HIDE DEF m, e
  <1>4. ASSUME c.running, c.mode = "attach" PROVE Attached(e, g)
    <2>1. /\ e.attach = c.attach /\ e.detach = c.detach /\ e.detaching = c.detaching
          /\ e.detachConfirmed = c.detachConfirmed /\ e.active = c.active
      BY <1>2 DEF Same
    <2>2. e.stdin = Append(c.stdin, m)  BY <1>2, <1>4 DEF Sent
    <2>3. e.detaching /\ e.detachConfirmed => Over(c, g)  BY <1>1, <1>4, <2>1 DEF Attached
    <2> QED BY <1>1, <1>2, <1>3, <1>4, <2>1, <2>2, <2>3, AttachedSend
  <1>5. SoundFor(e, g, K)  BY <1>2, <1>4, SoundParts DEF Same
  <1> QED BY <1>2, <1>5 DEF m, e

\* What is shown, and what is waited for other than a breakpoint, may change.
LEMMA Touching ==
  ASSUME NEW g, NEW c, NEW K, SoundFor(c, g, K), NEW e, ClientTyped(e, g.stops),
         e.running = c.running, e.mode = c.mode, e.token = c.token, e.stdin = c.stdin,
         e.output = c.output, e.breakpoints = c.breakpoints, e.numbers = c.numbers,
         e.desired = c.desired, e.attach = c.attach, e.detach = c.detach,
         e.detaching = c.detaching, e.detachConfirmed = c.detachConfirmed,
         e.active \/ e.active = c.active, e.runRequested => c.runRequested \/ c.mode = "launch",
         c.mode = "core" => e.commands = {} /\ e.signal = 0,
         c.mode # "core" => e.coreExecutable = 0 /\ e.coreTarget = 0,
         \A t \in Others(e) : t \in Others(c) \/ (t < c.token /\ \A p \in c.breakpoints : p.token # t)
  PROVE  SoundFor(e, g, K)
  <1>1. Base(c, g, K) /\ (c.running /\ c.mode = "attach" => Attached(c, g))  BY SoundParts
  <1>2. InSession(c)  BY <1>1 DEF Base
  <1>3. c.running /\ c.mode # "core" => Booked(c, g, K)  BY <1>1 DEF Base
  <1>4. c.running /\ c.mode # "core" => Booked(e, g, K)  BY <1>3, BookedSame
  <1>5. /\ e.detaching => c.mode = "attach"
        /\ e.runRequested => c.mode = "launch"
        /\ c.mode = "core" => DOMAIN e.numbers = {}
    BY <1>2 DEF InSession
  <1>6. e.breakpoints \subseteq c.breakpoints  OBVIOUS
  <1>7. Base(e, g, K)  BY <1>1, <1>4, <1>5, <1>6, Changing
  <1>8. Over(c, g) <=> Over(e, g)  BY DEF Over
  <1>9. c.running /\ c.mode = "attach" => Attached(e, g)
    <2> HAVE c.running /\ c.mode = "attach"
    <2>1. Attached(c, g)  BY <1>1
    <2> QED BY <1>8, <2>1 DEF Attached
  <1> QED BY <1>7, <1>9, SoundParts

\* command() without arguments, for a command that says nothing of breakpoints.
LEMMA SoundCommand ==
  ASSUME NEW g, NEW c, NEW K, SoundFor(c, g, K),
         NEW op \in {"stack", "variables", "evaluate", "continue", "finish", "signal", "interrupt",
                     "detach", "executable", "core"},
         c.running => op \in {"stack", "variables", "evaluate"} \/
                      (c.mode = "core" <=> op \in {"executable", "core"})
  PROVE  LET e == Command(c, op) IN
         /\ SoundFor(e, g, K) /\ Same(c, e) /\ e.token = c.token + 1 /\ e.output = c.output
         /\ e.stdin = Sent(c, Message(c.token, op, "none", 0, FALSE))
  <1>1. c.running => Allowed(c, g, Message(c.token, op, "none", 0, FALSE))
    BY DEF Allowed, MaySend, Message, ReadOnly
  <1>2. op \in Ops /\ op # "attach" /\ 0 \in Nat /\ "none" \in Keys \union {"none"}
    BY DEF Ops, ReadOnly
  <1>3. PICK log \in BOOLEAN : log = FALSE  OBVIOUS
  <1>4. c.running => Allowed(c, g, Message(c.token, op, "none", 0, log))  BY <1>1, <1>3
  <1>5. LET e == CommandOn(c, op, "none", 0, log)
            m == Message(c.token, op, "none", 0, log) IN
        /\ SoundFor(e, g, K) /\ Same(c, e) /\ e.token = c.token + 1 /\ e.output = c.output
        /\ m \in MessageSet /\ e.stdin = Sent(c, m)
    BY <1>2, <1>4, SoundSend
  <1> QED BY <1>3, <1>5 DEF Command

\* A token that was just used is waited for.
LEMMA Newest ==
  ASSUME NEW g, NEW c, NEW K, SoundFor(c, g, K), NEW e, Same(c, e), e.token = c.token + 1
  PROVE  c.token \in Nat \ {0} /\ c.token < e.token /\ \A p \in e.breakpoints : p.token # c.token
  <1>1. ClientTyped(c, g.stops) /\ Wired(c) /\ Tracked(c)  BY DEF SoundFor
  <1>2. c.token \in Nat /\ \A p \in c.breakpoints : p.token \in Nat  BY <1>1, WireTypes
  <1>3. 0 < c.token /\ \A p \in c.breakpoints : p.token < c.token  BY <1>1 DEF Wired, Tracked
  <1> QED BY <1>2, <1>3 DEF Same

\* refreshWatches() asks for the values of the stop.
LEMMA RefreshWatchesSound ==
  ASSUME NEW g, NEW c, NEW K, SoundFor(c, g, K)
  PROVE  SoundFor(RefreshWatches(c), g, K) /\ RefreshWatches(c).desired = c.desired
  <1>1. CASE ~c.stopped  BY <1>1 DEF RefreshWatches
  <1>2. CASE c.stopped
    <2> DEFINE b == Command(c, "evaluate")
               e == [b EXCEPT !.watches = @ \union {c.token}, !.watch = 0]
    <2>1. SoundFor(b, g, K) /\ Same(c, b) /\ b.token = c.token + 1  BY SoundCommand
    <2>2. c.token \in Nat \ {0} /\ c.token < b.token /\ \A p \in b.breakpoints : p.token # c.token
      <3> HIDE DEF b
      <3> QED BY <2>1, Newest
    <2> HIDE DEF b
    <2>3. ClientTyped(b, g.stops) /\ InSession(b) /\ g.stops \in Nat
      BY <2>1, Constants DEF SoundFor, GdbTyped
    <2>4. ClientTyped(e, g.stops)
      <3>1. b.watches \union {c.token} \in SUBSET Nat  BY <2>2, <2>3 DEF ClientTyped
      <3>2. 0 \in 0..g.stops  BY <2>3
      <3> QED BY <2>3, <3>1, <3>2 DEF ClientTyped
    <2>5. /\ e.running = b.running /\ e.mode = b.mode /\ e.token = b.token /\ e.stdin = b.stdin
          /\ e.output = b.output /\ e.breakpoints = b.breakpoints /\ e.numbers = b.numbers
          /\ e.desired = b.desired /\ e.attach = b.attach /\ e.detach = b.detach
          /\ e.detaching = b.detaching /\ e.detachConfirmed = b.detachConfirmed
          /\ e.active = b.active /\ e.runRequested = b.runRequested /\ e.commands = b.commands
          /\ e.signal = b.signal /\ e.coreExecutable = b.coreExecutable
          /\ e.coreTarget = b.coreTarget /\ e.watches = b.watches \union {c.token}
      BY <2>3 DEF ClientTyped
    <2> HIDE DEF e
    <2>6. \A t \in Others(e) : t \in Others(b) \/ (t < b.token /\ \A p \in b.breakpoints : p.token # t)
      BY <2>2, <2>5 DEF Others
    <2>7. /\ b.mode = "core" => e.commands = {} /\ e.signal = 0
          /\ b.mode # "core" => e.coreExecutable = 0 /\ e.coreTarget = 0
      BY <2>3, <2>5 DEF InSession
    <2>8. SoundFor(e, g, K)  BY <2>1, <2>4, <2>5, <2>6, <2>7, Touching
    <2>9. e.desired = c.desired  BY <2>1, <2>5 DEF Same
    <2> QED BY <1>2, <2>8, <2>9 DEF RefreshWatches, b, e
  <1> QED BY <1>1, <1>2

\* All but what is shown of the program.
Shows(c, e) ==
  /\ e.running = c.running /\ e.stdin = c.stdin /\ e.output = c.output /\ e.token = c.token
  /\ e.mode = c.mode /\ e.runRequested = c.runRequested /\ e.desired = c.desired
  /\ e.numbers = c.numbers /\ e.breakpoints = c.breakpoints /\ e.commands = c.commands
  /\ e.signal = c.signal /\ e.attach = c.attach /\ e.detach = c.detach
  /\ e.coreExecutable = c.coreExecutable /\ e.coreTarget = c.coreTarget
  /\ e.detachConfirmed = c.detachConfirmed /\ e.detaching = c.detaching

\* The panels and the state of the program may change.
LEMMA Showing ==
  ASSUME NEW g, NEW c, NEW K, SoundFor(c, g, K), NEW e, ClientTyped(e, g.stops), Shows(c, e),
         e.active \/ e.active = c.active, e.watches \subseteq c.watches
  PROVE  SoundFor(e, g, K)
  <1>1. InSession(c)  BY DEF SoundFor
  <1>2. Others(e) \subseteq Others(c)  BY DEF Others, Shows
  <1>3. /\ c.mode = "core" => e.commands = {} /\ e.signal = 0
        /\ c.mode # "core" => e.coreExecutable = 0 /\ e.coreTarget = 0
    BY <1>1 DEF InSession, Shows
  <1>4. /\ e.running = c.running /\ e.mode = c.mode /\ e.token = c.token /\ e.stdin = c.stdin
        /\ e.output = c.output /\ e.breakpoints = c.breakpoints /\ e.numbers = c.numbers
        /\ e.desired = c.desired /\ e.attach = c.attach /\ e.detach = c.detach
        /\ e.detaching = c.detaching /\ e.detachConfirmed = c.detachConfirmed
        /\ e.runRequested = c.runRequested
    BY DEF Shows
  <1> QED BY <1>2, <1>3, <1>4, Touching

\* A panel with no variables.
LEMMA Empty ==
  ASSUME NEW g, NEW c, NEW K, SoundFor(c, g, K)
  PROVE  ClientTyped(c, g.stops) /\ InSession(c) /\ g.stops \in Nat /\ 0 \in 0..g.stops
  BY Constants DEF SoundFor, GdbTyped

\* refreshVariables() empties the panel and asks for the variables.
LEMMA RefreshVariablesSound ==
  ASSUME NEW g, NEW c, NEW K, SoundFor(c, g, K)
  PROVE  SoundFor(RefreshVariables(c), g, K) /\ RefreshVariables(c).desired = c.desired
  <1> DEFINE b == [c EXCEPT !.variables = Nothing]
  <1>1. ClientTyped(c, g.stops)  BY Empty
  <1>2. ClientTyped(b, g.stops) /\ Shows(c, b) /\ b.active = c.active /\ b.watches = c.watches
    BY <1>1 DEF ClientTyped, Shows
  <1> HIDE DEF b
  <1>3. SoundFor(b, g, K)  BY <1>2, Showing
  <1>4. SoundFor(Command(b, "variables"), g, K) /\ Same(b, Command(b, "variables"))
    BY <1>3, SoundCommand
  <1>5. Command(b, "variables").desired = c.desired  BY <1>2, <1>4 DEF Same, Shows
  <1> QED BY <1>4, <1>5 DEF RefreshVariables, b

\* refreshState() asks for everything that is shown of a stop.
LEMMA RefreshStateSound ==
  ASSUME NEW g, NEW c, NEW K, SoundFor(c, g, K)
  PROVE  SoundFor(RefreshState(c), g, K) /\ RefreshState(c).desired = c.desired
  <1> DEFINE b == Command(c, "stack")
  <1>1. SoundFor(b, g, K) /\ Same(c, b)  BY SoundCommand
  <1> HIDE DEF b
  <1>2. SoundFor(RefreshVariables(b), g, K) /\ RefreshVariables(b).desired = c.desired
    BY <1>1, RefreshVariablesSound DEF Same
  <1> DEFINE d == RefreshVariables(b)
  <1> HIDE DEF d
  <1>3. SoundFor(RefreshWatches(d), g, K) /\ RefreshWatches(d).desired = c.desired
    BY <1>2, RefreshWatchesSound DEF d
  <1> QED BY <1>3 DEF RefreshState, b, d

\* The panels of a program that goes on are empty.
LEMMA ResumingSound ==
  ASSUME NEW g, NEW c, NEW K, SoundFor(c, g, K)
  PROVE  SoundFor(Resuming(c), g, K) /\ Shows(c, Resuming(c)) /\ ClientTyped(Resuming(c), g.stops)
  <1> DEFINE b == Resuming(c)
  <1>1. ClientTyped(c, g.stops) /\ 0 \in 0..g.stops  BY Empty
  <1>2. ClientTyped(b, g.stops) /\ Shows(c, b) /\ b.active /\ b.watches = {}
    BY <1>1 DEF ClientTyped, Shows, Resuming
  <1> HIDE DEF b
  <1>3. SoundFor(b, g, K)  BY <1>2, Showing
  <1> QED BY <1>2, <1>3 DEF b

\* resume() and its like are refused for a core dump.
LEMMA ResumeSound ==
  ASSUME NEW g, NEW c, NEW K, SoundFor(c, g, K), NEW op \in {"continue", "finish"}
  PROVE  SoundFor(Resume(c, op), g, K) /\ Resume(c, op).desired = c.desired
  <1> DEFINE b == Resuming(c)
  <1>1. SoundFor(b, g, K) /\ Shows(c, b)  BY ResumingSound
  <1> HIDE DEF b
  <1>2. c.mode # "core" => SoundFor(Command(b, op), g, K) /\ Same(b, Command(b, op))
    BY <1>1, SoundCommand DEF Shows
  <1>3. c.mode # "core" => Command(b, op).desired = c.desired  BY <1>1, <1>2 DEF Shows, Same
  <1> QED BY <1>2, <1>3 DEF Resume, b

\* The signal that continues the program is waited for.
LEMMA SendSignalSound ==
  ASSUME NEW g, NEW c, NEW K, SoundFor(c, g, K)
  PROVE  SoundFor(SendSignal(c), g, K) /\ SendSignal(c).desired = c.desired
  <1>1. CASE ~(c.running /\ c.mode # "core" /\ c.active /\ c.stopped /\ c.signal = 0)
    BY <1>1 DEF SendSignal
  <1>2. CASE c.running /\ c.mode # "core" /\ c.active /\ c.stopped /\ c.signal = 0
    <2> DEFINE b == Command(c, "signal")
               e == [b EXCEPT !.signal = c.token, !.stopped = FALSE]
    <2>1. SoundFor(b, g, K) /\ Same(c, b) /\ b.token = c.token + 1  BY <1>2, SoundCommand
    <2>2. c.token \in Nat \ {0} /\ c.token < b.token /\ \A p \in b.breakpoints : p.token # c.token
      <3> HIDE DEF b
      <3> QED BY <2>1, Newest
    <2> HIDE DEF b
    <2>3. ClientTyped(b, g.stops) /\ InSession(b)  BY <2>1, Empty
    <2>4. ClientTyped(e, g.stops)  BY <2>2, <2>3 DEF ClientTyped
    <2>5. /\ e.running = b.running /\ e.mode = b.mode /\ e.token = b.token /\ e.stdin = b.stdin
          /\ e.output = b.output /\ e.breakpoints = b.breakpoints /\ e.numbers = b.numbers
          /\ e.desired = b.desired /\ e.attach = b.attach /\ e.detach = b.detach
          /\ e.detaching = b.detaching /\ e.detachConfirmed = b.detachConfirmed
          /\ e.active = b.active /\ e.runRequested = b.runRequested /\ e.commands = b.commands
          /\ e.signal = c.token /\ e.coreExecutable = b.coreExecutable
          /\ e.coreTarget = b.coreTarget /\ e.watches = b.watches
      BY <2>3 DEF ClientTyped
    <2> HIDE DEF e
    <2>6. \A t \in Others(e) : t \in Others(b) \/ (t < b.token /\ \A p \in b.breakpoints : p.token # t)
      BY <2>2, <2>5 DEF Others
    <2>7. /\ b.mode # "core"
          /\ b.mode # "core" => e.coreExecutable = 0 /\ e.coreTarget = 0
      BY <1>2, <2>1, <2>3, <2>5 DEF InSession, Same
    <2>8. SoundFor(e, g, K)  BY <2>1, <2>4, <2>5, <2>6, <2>7, Touching
    <2>9. e.desired = c.desired  BY <2>1, <2>5 DEF Same
    <2> QED BY <1>2, <2>8, <2>9 DEF SendSignal, b, e
  <1> QED BY <1>1, <1>2

\* selectFrame() shows the variables of another frame.
LEMMA SelectFrameSound ==
  ASSUME NEW g, NEW c, NEW K, SoundFor(c, g, K), NEW level \in Nat
  PROVE  SoundFor(SelectFrame(c, level), g, K) /\ SelectFrame(c, level).desired = c.desired
  <1> DEFINE b == [c EXCEPT !.selected = level]
  <1>1. ClientTyped(c, g.stops)  BY Empty
  <1>2. ClientTyped(b, g.stops) /\ Shows(c, b) /\ b.active = c.active /\ b.watches = c.watches
    BY <1>1 DEF ClientTyped, Shows
  <1> HIDE DEF b
  <1>3. SoundFor(b, g, K)  BY <1>2, Showing
  <1>4. PICK log \in BOOLEAN : log = FALSE  OBVIOUS
  <1>5. "frame" \in Ops /\ "none" \in Keys \union {"none"}  BY DEF Ops, ReadOnly
  <1>6. b.running => Allowed(b, g, Message(b.token, "frame", "none", level, log))
    BY DEF Allowed, MaySend, Message, ReadOnly
  <1> DEFINE d == CommandOn(b, "frame", "none", level, log)
             f == RefreshVariables(d)
  <1>7. SoundFor(d, g, K) /\ Same(b, d)  BY <1>3, <1>5, <1>6, SoundSend
  <1>8. d.desired = c.desired  BY <1>2, <1>7 DEF Same, Shows
  <1> HIDE DEF d
  <1>9. SoundFor(f, g, K) /\ f.desired = c.desired  BY <1>7, <1>8, RefreshVariablesSound
  <1> HIDE DEF f
  <1>10. SoundFor(RefreshWatches(f), g, K) /\ RefreshWatches(f).desired = c.desired
    BY <1>9, RefreshWatchesSound
  <1> QED BY <1>4, <1>10 DEF SelectFrame, b, d, f

\* The run that was requested starts when nothing is waited for.
LEMMA StartRequestedRunSound ==
  ASSUME NEW g, NEW c, NEW K, SoundFor(c, g, K)
  PROVE  SoundFor(StartRequestedRun(c), g, K) /\ StartRequestedRun(c).desired = c.desired
  <1>1. CASE ~(c.runRequested /\ c.breakpoints = {} /\ c.commands = {})
    BY <1>1 DEF StartRequestedRun
  <1>2. CASE c.runRequested /\ c.breakpoints = {} /\ c.commands = {}
    <2> DEFINE b == [c EXCEPT !.runRequested = FALSE]
    <2>1. ClientTyped(c, g.stops) /\ InSession(c)  BY Empty
    <2>2. ClientTyped(b, g.stops)  BY <2>1 DEF ClientTyped
    <2>3. /\ b.running = c.running /\ b.mode = c.mode /\ b.token = c.token /\ b.stdin = c.stdin
          /\ b.output = c.output /\ b.breakpoints = c.breakpoints /\ b.numbers = c.numbers
          /\ b.desired = c.desired /\ b.attach = c.attach /\ b.detach = c.detach
          /\ b.detaching = c.detaching /\ b.detachConfirmed = c.detachConfirmed
          /\ b.active = c.active /\ ~b.runRequested /\ b.commands = c.commands
          /\ b.signal = c.signal /\ b.coreExecutable = c.coreExecutable
          /\ b.coreTarget = c.coreTarget /\ b.watches = c.watches
      BY <2>1 DEF ClientTyped
    <2> HIDE DEF b
    <2>4. Others(b) = Others(c)  BY <2>3 DEF Others
    <2>5. /\ c.mode = "core" => b.commands = {} /\ b.signal = 0
          /\ c.mode # "core" => b.coreExecutable = 0 /\ b.coreTarget = 0
      BY <2>1, <2>3 DEF InSession
    <2>6. SoundFor(b, g, K)  BY <2>2, <2>3, <2>4, <2>5, Touching
    <2>7. PICK log \in BOOLEAN : log = FALSE  OBVIOUS
    <2>8. "run" \in Ops /\ "none" \in Keys \union {"none"} /\ 0 \in Nat  BY DEF Ops
    <2>9. c.mode = "launch"  BY <1>2, <2>1 DEF InSession
    <2>10. b.running => Allowed(b, g, Message(b.token, "run", "none", 0, log))
      BY <1>2, <2>3, <2>9 DEF Allowed, MaySend, Message
    <2> DEFINE e == CommandOn(b, "run", "none", 0, log)
    <2>11. SoundFor(e, g, K) /\ Same(b, e)  BY <2>6, <2>8, <2>10, SoundSend
    <2>12. e.desired = c.desired  BY <2>3, <2>11 DEF Same
    <2> QED BY <1>2, <2>7, <2>11, <2>12 DEF StartRequestedRun, Command, b
  <1> QED BY <1>1, <1>2

\* run() asks for the program to be started.
LEMMA RunSound ==
  ASSUME NEW g, NEW c, NEW K, SoundFor(c, g, K)
  PROVE  SoundFor(Run(c), g, K) /\ Run(c).desired = c.desired
  <1>1. CASE ~(c.running /\ c.mode = "launch")  BY <1>1 DEF Run
  <1>2. CASE c.running /\ c.mode = "launch"
    <2> DEFINE b == Resuming(c)
               e == [b EXCEPT !.exited = FALSE, !.runRequested = TRUE]
    <2>1. SoundFor(b, g, K) /\ Shows(c, b)  BY ResumingSound
    <2> HIDE DEF b
    <2>2. ClientTyped(b, g.stops) /\ InSession(b)  BY <2>1, Empty
    <2>3. ClientTyped(e, g.stops)  BY <2>2 DEF ClientTyped
    <2>4. /\ e.running = b.running /\ e.mode = b.mode /\ e.token = b.token /\ e.stdin = b.stdin
          /\ e.output = b.output /\ e.breakpoints = b.breakpoints /\ e.numbers = b.numbers
          /\ e.desired = b.desired /\ e.attach = b.attach /\ e.detach = b.detach
          /\ e.detaching = b.detaching /\ e.detachConfirmed = b.detachConfirmed
          /\ e.active = b.active /\ e.commands = b.commands
          /\ e.signal = b.signal /\ e.coreExecutable = b.coreExecutable
          /\ e.coreTarget = b.coreTarget /\ e.watches = b.watches
      BY <2>2 DEF ClientTyped
    <2> HIDE DEF e
    <2>5. Others(e) = Others(b)  BY <2>4 DEF Others
    <2>6. /\ b.mode = "launch"
          /\ b.mode # "core" => e.coreExecutable = 0 /\ e.coreTarget = 0
      BY <1>2, <2>1, <2>2, <2>4 DEF InSession, Shows
    <2>7. SoundFor(e, g, K)  BY <2>1, <2>3, <2>4, <2>5, <2>6, Touching
    <2>8. SoundFor(StartRequestedRun(e), g, K) /\ StartRequestedRun(e).desired = c.desired
      BY <2>1, <2>4, <2>7, StartRequestedRunSound DEF Shows
    <2> QED BY <1>2, <2>8 DEF Run, b, e
  <1> QED BY <1>1, <1>2

----------------------------------------------------------------------------
(* The operations on breakpoints *)

\* All but the breakpoints and what is sent.
Steady(c, e) ==
  /\ e.running = c.running /\ e.mode = c.mode /\ e.active = c.active /\ e.stopped = c.stopped
  /\ e.exited = c.exited /\ e.runRequested = c.runRequested /\ e.output = c.output
  /\ e.signal = c.signal /\ e.attach = c.attach /\ e.detach = c.detach
  /\ e.coreExecutable = c.coreExecutable /\ e.coreTarget = c.coreTarget
  /\ e.detachConfirmed = c.detachConfirmed /\ e.detaching = c.detaching
  /\ e.selected = c.selected /\ e.frames = c.frames /\ e.variables = c.variables
  /\ e.watch = c.watch /\ e.watches = c.watches

\* What is wanted of a breakpoint.
LEMMA DesiredTypes ==
  ASSUME NEW stops, NEW c, ClientTyped(c, stops)
  PROVE  /\ DOMAIN c.desired \subseteq Keys /\ DOMAIN c.numbers \subseteq DOMAIN c.desired
         /\ \A k \in DOMAIN c.desired :
              /\ c.desired[k] \in Wishes
              /\ c.desired[k].log \in BOOLEAN /\ c.desired[k].status \in Statuses
         /\ \A k \in DOMAIN c.numbers : c.numbers[k] \in Nat
  <1>1. /\ MapOf(c.desired, Keys, Wishes)
        /\ MapOf(c.numbers, DOMAIN c.desired, Nat)
    BY DEF ClientTyped
  <1>2. \A k \in DOMAIN c.desired : c.desired[k] \in Wishes
    BY <1>1 DEF MapOf
  <1> QED BY <1>1, <1>2 DEF MapOf, Wishes

\* A breakpoint is shown in another state.
LEMMA StatusTyped ==
  ASSUME NEW stops, NEW c, ClientTyped(c, stops), NEW k \in DOMAIN c.desired, NEW s \in Statuses
  PROVE  LET e == [c EXCEPT !.desired[k].status = s] IN
         /\ ClientTyped(e, stops) /\ Steady(c, e) /\ e.token = c.token /\ e.stdin = c.stdin
         /\ e.numbers = c.numbers /\ e.breakpoints = c.breakpoints /\ e.commands = c.commands
         /\ DOMAIN e.desired = DOMAIN c.desired
         /\ \A j \in DOMAIN c.desired : /\ e.desired[j].log = c.desired[j].log
                                        /\ j # k => e.desired[j] = c.desired[j]
         /\ e.desired[k].status = s
  <1> DEFINE d == [c.desired EXCEPT ![k].status = s]
             e == [c EXCEPT !.desired = d]
  <1>1. [c EXCEPT !.desired[k].status = s] = e  BY DEF ClientTyped
  <1>2. \A j \in DOMAIN c.desired : c.desired[j] \in Wishes
    BY DesiredTypes
  <1>3. /\ DOMAIN d = DOMAIN c.desired /\ \A j \in DOMAIN c.desired : j # k => d[j] = c.desired[j]
        /\ d[k] = [c.desired[k] EXCEPT !.status = s]
    OBVIOUS
  <1>4. d[k] \in Wishes /\ d[k].log = c.desired[k].log /\ d[k].status = s
    BY <1>2, <1>3 DEF Wishes
  <1>5. MapOf(d, Keys, Wishes)
    <2>1. MapOf(c.desired, Keys, Wishes)  BY DEF ClientTyped
    <2>2. d \in [DOMAIN d -> Wishes]
      BY <1>2, <1>3, <1>4
    <2> QED BY <1>3, <2>1, <2>2 DEF MapOf
  <1>6. /\ Steady(c, e) /\ e.token = c.token /\ e.stdin = c.stdin /\ e.desired = d
        /\ e.numbers = c.numbers /\ e.breakpoints = c.breakpoints /\ e.commands = c.commands
    <2> HIDE DEF d
    <2> QED BY DEF ClientTyped, Steady
  <1>7. ClientTyped(e, stops)
    <2> HIDE DEF d
    <2> QED BY <1>3, <1>5 DEF ClientTyped
  <1> HIDE DEF d, e
  <1> QED BY <1>1, <1>3, <1>4, <1>6, <1>7

\* insertBreakpoint() sends what the user wants now, and waits for the answer.
LEMMA InsertBreakpointSound ==
  ASSUME NEW g, NEW c, NEW K, SoundFor(c, g, K), c.running, c.mode # "core",
         NEW k \in DOMAIN c.desired
  PROVE  LET e == InsertBreakpoint(c, k) IN
         /\ SoundFor(e, g, K \union {k}) /\ Steady(c, e)
         /\ DOMAIN e.desired = DOMAIN c.desired /\ e.numbers = c.numbers
  <1> DEFINE log == c.desired[k].log
             m == Message(c.token, "insert", k, 0, log)
             p == [token |-> c.token, key |-> k]
             b == [c EXCEPT !.desired[k].status = "pending"]
             f == CommandOn(b, "insert", k, 0, log)
             e == [f EXCEPT !.breakpoints = @ \union {p}]
             d == CommandOn(c, "insert", k, 0, log)
  <1>0. InsertBreakpoint(c, k) = e  BY DEF InsertBreakpoint
  <1>1. ClientTyped(c, g.stops) /\ InSession(c) /\ Wired(c) /\ Tracked(c)  BY DEF SoundFor
  <1>2. k \in Keys /\ log \in BOOLEAN  BY <1>1, DesiredTypes
  <1>3. "insert" \in Ops /\ 0 \in Nat /\ "insert" # "attach" /\ "pending" \in Statuses
    BY DEF Ops, Statuses
  <1>4. /\ ClientTyped(b, g.stops) /\ Steady(c, b) /\ b.token = c.token /\ b.stdin = c.stdin
        /\ b.numbers = c.numbers /\ b.breakpoints = c.breakpoints /\ b.commands = c.commands
        /\ DOMAIN b.desired = DOMAIN c.desired
        /\ \A j \in DOMAIN c.desired : /\ b.desired[j].log = c.desired[j].log
                                       /\ j # k => b.desired[j] = c.desired[j]
    BY <1>1, <1>3, StatusTyped
  <1>5. Allowed(c, g, m)  BY DEF Allowed, MaySend, Message
  <1>6. m.token = c.token /\ m.op = "insert" /\ m.key = k /\ m.log = log  BY DEF Message
  <1>7. p.token = c.token /\ p.key = k /\ p \in [token : {c.token}, key : {k}]  OBVIOUS
  <1> HIDE DEF b, log
  <1>8. /\ SoundFor(d, g, K) /\ Same(c, d) /\ d.token = c.token + 1 /\ d.output = c.output
        /\ m \in MessageSet /\ d.stdin = Sent(c, m)
    <2> HIDE DEF d, m
    <2> QED BY <1>2, <1>3, <1>5, SoundSend DEF d, m
  <1>9. /\ ClientTyped(f, g.stops) /\ Same(b, f)
        /\ f.token = b.token + 1 /\ f.stdin = Sent(b, m) /\ f.output = b.output
    BY <1>2, <1>3, <1>4, CommandFields
  <1> HIDE DEF f, d, m, p
  <1>10. c.token \in Nat /\ c.stdin \in Seq(MessageSet) /\ c.running \in BOOLEAN
         /\ (\A q \in c.breakpoints : q.token \in Nat) /\ c.breakpoints \subseteq Waiting
         /\ \A i \in 1..Len(c.stdin) : c.stdin[i].token \in Nat
    BY <1>1, WireTypes
  <1>11. d.stdin = Append(c.stdin, m) /\ f.stdin = Append(c.stdin, m)
    BY <1>4, <1>8, <1>9 DEF Sent, Steady
  <1>12. p \in Waiting  BY <1>2, <1>7, <1>10 DEF Waiting
  <1>13. /\ e.token = c.token + 1 /\ e.stdin = d.stdin /\ e.output = c.output
         /\ e.breakpoints = c.breakpoints \union {p} /\ e.commands = c.commands
         /\ e.desired = b.desired /\ e.numbers = c.numbers /\ Steady(c, e)
    <2>1. /\ e.breakpoints = f.breakpoints \union {p} /\ e.token = f.token /\ e.stdin = f.stdin
          /\ e.commands = f.commands /\ e.desired = f.desired /\ e.numbers = f.numbers
          /\ Steady(f, e)
      BY <1>9 DEF ClientTyped, Steady
    <2> HIDE DEF e
    <2>2. Steady(c, f)  BY <1>4, <1>9 DEF Same, Steady
    <2>3. Steady(c, e) /\ e.output = c.output  BY <2>1, <2>2 DEF Steady
    <2> QED BY <1>4, <1>9, <1>11, <2>1, <2>3 DEF Same
  <1>14. ClientTyped(e, g.stops)
    <2>1. f.breakpoints \union {p} \in SUBSET Waiting  BY <1>4, <1>9, <1>10, <1>12 DEF Same
    <2> QED BY <1>9, <2>1 DEF ClientTyped
  <1> HIDE DEF e
  <1>15. /\ Len(d.stdin) = Len(c.stdin) + 1 /\ Len(c.stdin) \in Nat
         /\ d.stdin[Len(c.stdin) + 1] = m
         /\ \A i \in 1..Len(c.stdin) : d.stdin[i] = c.stdin[i] /\ i \in 1..(Len(c.stdin) + 1)
         /\ \A i \in 1..(Len(c.stdin) + 1) : i \in 1..Len(c.stdin) \/ i = Len(c.stdin) + 1
    BY <1>8, <1>10, <1>11, Appended
  <1>16. /\ \A i \in 1..Len(c.stdin) : c.stdin[i].token < c.token
         /\ \A i \in 1..Len(c.output) : c.output[i].token < c.token
    BY <1>1 DEF Wired
  <1>17. \A q \in c.breakpoints : q.token < c.token  BY <1>1 DEF Tracked
  <1>18. ClientTyped(d, g.stops) /\ Wired(d) /\ GdbTyped(g) /\ InSession(d) /\ Tracked(d)
         /\ Booked(d, g, K)
    BY <1>8 DEF SoundFor, Same
  <1>19. Booked(e, g, K \union {k})
    <2> DEFINE l == Len(c.stdin) + 1
    <2>1. /\ l \in 1..Len(d.stdin) /\ d.stdin[l].token = p.token /\ d.stdin[l].op = "insert"
          /\ d.stdin[l].key = k /\ d.stdin[l].log = d.desired[k].log
      BY <1>6, <1>7, <1>8, <1>15 DEF Same, log
    <2>2. /\ p.token \in Nat /\ p.key = k /\ k \in DOMAIN d.desired
          /\ \A q \in d.breakpoints : q.token < p.token
          /\ \A i \in 1..Len(d.output) : d.output[i].token < p.token
      BY <1>7, <1>8, <1>10, <1>16, <1>17 DEF Same
    <2>3. ASSUME NEW i \in 1..Len(d.stdin) PROVE d.stdin[i].token <= p.token
      <3>1. CASE i \in 1..Len(c.stdin)  BY <1>7, <1>10, <1>15, <1>16, <3>1
      <3>2. CASE i = Len(c.stdin) + 1  BY <1>6, <1>7, <1>10, <1>15, <3>2
      <3> QED BY <1>15, <3>1, <3>2
    <2>4. /\ e.stdin = d.stdin /\ e.output = d.output /\ e.breakpoints = d.breakpoints \union {p}
          /\ e.numbers = d.numbers /\ DOMAIN e.desired = DOMAIN d.desired
          /\ \A j \in DOMAIN d.desired : /\ e.desired[j].log = d.desired[j].log
                                         /\ j # k => e.desired[j] = d.desired[j]
      BY <1>4, <1>8, <1>13 DEF Same
    <2> HIDE DEF l
    <2>5. ClientTyped(d, g.stops) /\ Wired(d) /\ Booked(d, g, K)  BY <1>18
    <2>6. SentLast(d, k, p)  BY <2>1, <2>2, <2>3 DEF SentLast
    <2>7. OnlyStatus(d, e, k)  BY <2>4 DEF OnlyStatus
    <2> QED BY <2>2, <2>4, <2>5, <2>6, <2>7, BookedWait
  <1>20. Others(e) = Others(c) /\ Others(d) = Others(c)  BY <1>8, <1>13 DEF Others, Steady, Same
  <1>21. \A t \in Others(c) : t \in Nat /\ t < c.token
    BY <1>1 DEF ClientTyped, Tracked, Others, Waiting
  <1>22. Tracked(e)
    <2>1. c.token # 0  BY <1>1 DEF Wired
    <2>2. \A q \in c.breakpoints : 0 < q.token /\ q.token \notin Others(c)  BY <1>1 DEF Tracked
    <2>3. \A q, r \in c.breakpoints : q.token = r.token => q = r  BY <1>1 DEF Tracked
    <2>4. \A q \in e.breakpoints : q = p \/ q \in c.breakpoints  BY <1>13
    <2>5. \A q \in e.breakpoints : 0 < q.token /\ q.token < e.token /\ q.token \notin Others(e)
      BY <1>7, <1>10, <1>13, <1>17, <1>20, <1>21, <2>1, <2>2, <2>4
    <2>6. \A q, r \in e.breakpoints : q.token = r.token => q = r
      BY <1>7, <1>10, <1>17, <2>3, <2>4
    <2>7. \A t \in Others(e) : t < e.token  BY <1>10, <1>13, <1>20, <1>21
    <2> QED BY <2>5, <2>6, <2>7 DEF Tracked
  <1>23. Wired(e)
    <2>1. e.stdin = d.stdin /\ e.output = d.output /\ e.token = d.token  BY <1>8, <1>13
    <2> QED BY <1>18, <2>1 DEF Wired
  <1>24. InSession(e)  BY <1>8, <1>13, <1>18 DEF InSession, Steady, Same
  <1>25. ASSUME c.mode = "attach" PROVE Attached(e, g)
    <2>1. Attached(d, g)  BY <1>8, <1>25 DEF SoundFor, Same
    <2>2. /\ e.stdin = d.stdin /\ e.output = d.output /\ e.attach = d.attach /\ e.detach = d.detach
          /\ e.detaching = d.detaching /\ e.detachConfirmed = d.detachConfirmed /\ e.active = d.active
      BY <1>8, <1>13 DEF Steady, Same
    <2>3. Over(e, g) <=> Over(d, g)  BY <2>2 DEF Over
    <2> QED BY <2>1, <2>2, <2>3 DEF Attached
  <1>26. SoundFor(e, g, K \union {k})
    BY <1>13, <1>14, <1>18, <1>19, <1>22, <1>23, <1>24, <1>25 DEF SoundFor, Steady
  <1> QED BY <1>0, <1>4, <1>13, <1>26

\* Fewer breakpoints may count.
LEMMA Narrower ==
  ASSUME NEW g, NEW c, NEW K, SoundFor(c, g, K), NEW L,
         c.running /\ c.mode # "core" => L \subseteq K /\ DOMAIN c.numbers \subseteq L
  PROVE  SoundFor(c, g, L)
  <1>1. ASSUME c.running, c.mode # "core" PROVE Booked(c, g, L)
    <2>1. Booked(c, g, K) /\ L \subseteq K /\ DOMAIN c.numbers \subseteq L
          /\ ClientTyped(c, g.stops)
      BY <1>1 DEF SoundFor
    <2>2. L \subseteq DOMAIN c.desired  BY <2>1 DEF Booked
    <2> QED BY <2>1, <2>2, BookedLess
  <1> QED BY <1>1 DEF SoundFor

\* What is wanted may change for breakpoints that do not count.
LEMMA Wanting ==
  ASSUME NEW g, NEW c, NEW K, SoundFor(c, g, K), NEW d,
         MapOf(d, Keys, Wishes), DOMAIN c.numbers \subseteq DOMAIN d,
         NEW L, L \subseteq K, L \subseteq DOMAIN d, \A k \in L : d[k] = c.desired[k],
         c.running /\ c.mode # "core" => DOMAIN c.numbers \subseteq L
  PROVE  LET e == [c EXCEPT !.desired = d] IN
         /\ SoundFor(e, g, L) /\ Steady(c, e) /\ e.token = c.token /\ e.stdin = c.stdin
         /\ e.desired = d /\ e.numbers = c.numbers /\ e.breakpoints = c.breakpoints
         /\ e.commands = c.commands
  <1> DEFINE e == [c EXCEPT !.desired = d]
  <1>1. SoundFor(c, g, L)  BY Narrower
  <1>2. Base(c, g, L) /\ (c.running /\ c.mode = "attach" => Attached(c, g))  BY <1>1, SoundParts
  <1>3. ClientTyped(c, g.stops) /\ InSession(c)  BY <1>2 DEF Base
  <1>4. /\ Steady(c, e) /\ e.token = c.token /\ e.stdin = c.stdin
        /\ e.desired = d /\ e.numbers = c.numbers /\ e.breakpoints = c.breakpoints
        /\ e.commands = c.commands
    BY <1>3 DEF ClientTyped, Steady
  <1>5. ClientTyped(e, g.stops)
    <2>1. MapOf(c.numbers, DOMAIN d, Nat)  BY <1>3 DEF ClientTyped, MapOf
    <2> QED BY <1>3, <2>1 DEF ClientTyped
  <1> HIDE DEF e
  <1>6. ASSUME c.running, c.mode # "core" PROVE Booked(e, g, L)
    <2>1. Booked(c, g, L)  BY <1>2, <1>6 DEF Base
    <2>2. /\ L \subseteq L /\ L \subseteq DOMAIN e.desired /\ e.stdin = c.stdin /\ e.output = c.output
          /\ e.breakpoints \subseteq c.breakpoints /\ DOMAIN e.numbers \subseteq L
          /\ DOMAIN e.numbers \subseteq DOMAIN c.numbers
          /\ \A k \in DOMAIN e.numbers : e.numbers[k] = c.numbers[k]
          /\ \A k \in L : e.desired[k].log = c.desired[k].log
      BY <1>4, <1>6 DEF Steady
    <2>3. \A k \in L :
            \/ e.desired[k].status = "rejected"
            \/ /\ e.desired[k].status = c.desired[k].status
               /\ k \in DOMAIN c.numbers => k \in DOMAIN e.numbers
               /\ \A p \in c.breakpoints : p.key = k => p \in e.breakpoints
      BY <1>4
    <2>4. \A p \in e.breakpoints, q \in c.breakpoints :
            q.key = p.key => q \in e.breakpoints \/ q.token <= p.token
      BY <1>4
    <2> QED BY <1>3, <2>1, <2>2, <2>3, <2>4, BookedLess
  <1>7. Base(e, g, L)
    <2>1. Others(e) = Others(c)  BY <1>4 DEF Others, Steady
    <2>2. /\ e.running = c.running /\ e.mode = c.mode /\ e.token = c.token /\ e.stdin = c.stdin
          /\ e.output = c.output /\ e.breakpoints \subseteq c.breakpoints
          /\ e.detaching => c.mode = "attach"
          /\ e.runRequested => c.mode = "launch"
          /\ c.mode = "core" => DOMAIN e.numbers = {} /\ e.commands = {} /\ e.signal = 0
          /\ c.mode # "core" => e.coreExecutable = 0 /\ e.coreTarget = 0
      BY <1>3, <1>4 DEF InSession, Steady
    <2> QED BY <1>2, <1>5, <1>6, <2>1, <2>2, Changing
  <1>8. ASSUME c.running, c.mode = "attach" PROVE Attached(e, g)
    <2>1. Attached(c, g)  BY <1>2, <1>8
    <2>2. Over(c, g) <=> Over(e, g)  BY <1>4 DEF Over
    <2> QED BY <1>4, <2>1, <2>2 DEF Attached, Steady
  <1>9. SoundFor(e, g, L)  BY <1>4, <1>7, <1>8, SoundParts DEF Steady
  <1> QED BY <1>4, <1>9 DEF e

\* deleteBreakpoint() forgets the number it sends.
LEMMA DeletedSound ==
  ASSUME NEW g, NEW c, NEW K, SoundFor(c, g, K), NEW k
  PROVE  LET e == Deleted(c, k) IN
         /\ SoundFor(e, g, K \ {k}) /\ Steady(c, e)
         /\ e.desired = c.desired /\ DOMAIN e.numbers = DOMAIN c.numbers \ {k}
  <1>1. CASE k \notin DOMAIN c.numbers
    <2>1. SoundFor(c, g, K \ {k})
      <3>1. c.running /\ c.mode # "core" => DOMAIN c.numbers \subseteq K  BY DEF SoundFor, Booked
      <3> QED BY <1>1, <3>1, Narrower
    <2> QED BY <1>1, <2>1 DEF Deleted, Steady
  <1>2. CASE k \in DOMAIN c.numbers
    <2> DEFINE n == c.numbers[k]
               w == Without(c.numbers, k)
               b == [c EXCEPT !.numbers = w]
               L == K \ {k}
    <2>1. ClientTyped(c, g.stops) /\ InSession(c) /\ GdbTyped(g) /\ Base(c, g, K)
      BY DEF SoundFor, Base
    <2>2. n \in Nat  BY <1>2, <2>1, DesiredTypes
    <2>3. /\ DOMAIN w = DOMAIN c.numbers \ {k}
          /\ \A j \in DOMAIN w : w[j] = c.numbers[j]
      BY DEF Without
    <2>4. MapOf(w, DOMAIN c.desired, Nat)
      <3> HIDE DEF w
      <3>1. MapOf(c.numbers, DOMAIN c.desired, Nat)  BY <2>1 DEF ClientTyped
      <3>2. w = [j \in DOMAIN w |-> w[j]]  BY DEF w, Without
      <3>3. \A j \in DOMAIN w : w[j] \in Nat  BY <2>1, <2>3, DesiredTypes
      <3>4. w \in [DOMAIN w -> Nat]  BY <3>2, <3>3
      <3> QED BY <2>3, <3>1, <3>4 DEF MapOf
    <2> HIDE DEF w, n
    <2>5. /\ Steady(c, b) /\ b.token = c.token /\ b.stdin = c.stdin
          /\ b.desired = c.desired /\ b.numbers = w /\ b.breakpoints = c.breakpoints
          /\ b.commands = c.commands
      BY <2>1 DEF ClientTyped, Steady
    <2>6. ClientTyped(b, g.stops)  BY <2>1, <2>4 DEF ClientTyped
    <2>7. Deleted(c, k) = CommandOn(b, "delete", "none", n, FALSE)
      BY <1>2, <2>1 DEF Deleted, CommandOn, ClientTyped, w, n
    <2> HIDE DEF b
    <2>8. c.mode # "core"  BY <1>2, <2>1 DEF InSession
    <2>9. ASSUME c.running PROVE Booked(c, g, K) /\ Booked(b, g, L)
      <3>1. Booked(c, g, K)  BY <2>1, <2>8, <2>9 DEF Base
      <3>2. /\ L \subseteq K /\ L \subseteq DOMAIN b.desired /\ b.stdin = c.stdin
            /\ b.output = c.output /\ b.breakpoints \subseteq c.breakpoints
            /\ DOMAIN b.numbers \subseteq L /\ DOMAIN b.numbers \subseteq DOMAIN c.numbers
            /\ \A j \in DOMAIN b.numbers : b.numbers[j] = c.numbers[j]
            /\ \A j \in L : b.desired[j].log = c.desired[j].log
        BY <2>3, <2>5, <3>1 DEF Booked, Steady
      <3>3. \A j \in L :
              \/ b.desired[j].status = "rejected"
              \/ /\ b.desired[j].status = c.desired[j].status
                 /\ j \in DOMAIN c.numbers => j \in DOMAIN b.numbers
                 /\ \A p \in c.breakpoints : p.key = j => p \in b.breakpoints
        BY <2>3, <2>5
      <3>4. \A p \in b.breakpoints, q \in c.breakpoints :
              q.key = p.key => q \in b.breakpoints \/ q.token <= p.token
        BY <2>5
      <3> HIDE DEF L
      <3> QED BY <2>1, <3>1, <3>2, <3>3, <3>4, BookedLess
    <2> HIDE DEF L
    <2>10. SoundFor(b, g, L)
      <3>1. Others(b) = Others(c)  BY <2>5 DEF Others, Steady
      <3>2. /\ b.running = c.running /\ b.mode = c.mode /\ b.token = c.token /\ b.stdin = c.stdin
            /\ b.output = c.output /\ b.breakpoints \subseteq c.breakpoints
            /\ b.detaching => c.mode = "attach"
            /\ b.runRequested => c.mode = "launch"
            /\ c.mode = "core" => DOMAIN b.numbers = {} /\ b.commands = {} /\ b.signal = 0
            /\ c.mode # "core" => b.coreExecutable = 0 /\ b.coreTarget = 0
        BY <2>1, <2>5, <2>8 DEF InSession, Steady
      <3>3. Base(b, g, L)  BY <2>1, <2>6, <2>9, <3>1, <3>2, Changing
      <3>4. Over(c, g) <=> Over(b, g)  BY <2>5 DEF Over
      <3>5. c.running /\ c.mode = "attach" => Attached(b, g)
        <4> HAVE c.running /\ c.mode = "attach"
        <4>1. Attached(c, g)  BY DEF SoundFor
        <4> QED BY <2>5, <3>4, <4>1 DEF Attached, Steady
      <3> QED BY <2>5, <3>3, <3>5, SoundParts DEF Steady
    <2>11. PICK log \in BOOLEAN : log = FALSE  OBVIOUS
    <2>12. "delete" \in Ops /\ "none" \in Keys \union {"none"} /\ "delete" # "attach"  BY DEF Ops
    <2> DEFINE m == Message(b.token, "delete", "none", n, log)
    <2>13. m.op = "delete" /\ m.number = n  BY DEF Message
    <2> HIDE DEF m
    <2>14. b.running => Allowed(b, g, m)
      <3> HAVE b.running
      <3>1. Booked(c, g, K)  BY <2>5, <2>9 DEF Steady
      <3>2. n \in DOMAIN g.breakpoints /\ g.breakpoints[n].key = k
        BY <1>2, <3>1 DEF Booked, Known, n
      <3>3. n < g.next  BY <2>1, <3>2 DEF GdbTyped
      <3>4. \A p \in c.breakpoints, i \in 1..Len(c.output) :
              Makes(c.output[i], p) => c.output[i].number # n
        BY <1>2, <3>1 DEF Booked, Underway, MadeFor, n
      <3>5. \A j \in DOMAIN b.numbers : b.numbers[j] # n
        <4> TAKE j \in DOMAIN b.numbers
        <4>1. j \in DOMAIN c.numbers /\ j # k /\ b.numbers[j] = c.numbers[j]  BY <2>3, <2>5
        <4>2. g.breakpoints[c.numbers[j]].key = j  BY <3>1, <4>1 DEF Booked, Known
        <4> QED BY <3>2, <4>1, <4>2
      <3>6. MaySend(b, g, m)  BY <2>5, <2>13, <3>3, <3>4, <3>5 DEF MaySend, Steady
      <3> QED BY <2>5, <2>8, <2>13, <3>6 DEF Allowed, Steady
    <2> DEFINE e == CommandOn(b, "delete", "none", n, log)
    <2>15. SoundFor(e, g, L) /\ Same(b, e) /\ e.token = b.token + 1 /\ e.output = b.output
      <3> HIDE DEF e
      <3> QED BY <2>2, <2>10, <2>12, <2>14, SoundSend DEF e, m
    <2>16. e = Deleted(c, k)  BY <2>7, <2>11
    <2> HIDE DEF e
    <2>17. /\ Steady(c, e) /\ e.desired = c.desired /\ DOMAIN e.numbers = DOMAIN c.numbers \ {k}
      BY <2>3, <2>5, <2>15 DEF Steady, Same
    <2> QED BY <2>15, <2>16, <2>17 DEF L
  <1> QED BY <1>1, <1>2

\* In a session that may have breakpoints, one is inserted.
LEMMA InsertingSound ==
  ASSUME NEW g, NEW c, NEW K, SoundFor(c, g, K), NEW k \in DOMAIN c.desired,
         DOMAIN c.desired \subseteq K \union {k}
  PROVE  Sound(Inserting(c, k), g)
  <1>1. CASE ~(c.running /\ c.mode # "core")
    <2>1. SoundFor(c, g, DOMAIN c.desired)  BY <1>1, Narrower
    <2> QED BY <1>1, <2>1 DEF Inserting, Sound
  <1>2. CASE c.running /\ c.mode # "core"
    <2> DEFINE e == InsertBreakpoint(c, k)
    <2>1. SoundFor(e, g, K \union {k}) /\ Steady(c, e) /\ DOMAIN e.desired = DOMAIN c.desired
      BY <1>2, InsertBreakpointSound
    <2> HIDE DEF e
    <2>2. Booked(e, g, K \union {k})  BY <1>2, <2>1 DEF SoundFor, Steady
    <2>3. DOMAIN e.desired = K \union {k}  BY <2>1, <2>2 DEF Booked
    <2> QED BY <1>2, <2>1, <2>3 DEF Inserting, Sound, e
  <1> QED BY <1>1, <1>2

\* What is wanted, with one more.
LEMMA WantedTypes ==
  ASSUME NEW stops, NEW c, ClientTyped(c, stops), NEW k \in Keys,
         NEW v \in Wishes
  PROVE  LET d == With(c.desired, k, v) IN
         /\ MapOf(d, Keys, Wishes)
         /\ DOMAIN d = DOMAIN c.desired \union {k}
         /\ \A j \in DOMAIN c.desired : j # k => d[j] = c.desired[j]
  <1> DEFINE d == With(c.desired, k, v)
             T == Wishes
  <1>1. /\ DOMAIN d = DOMAIN c.desired \union {k} /\ d[k] = v
        /\ \A j \in DOMAIN c.desired : j # k => d[j] = c.desired[j]
        /\ d = [j \in DOMAIN d |-> d[j]]
    BY DEF With
  <1>2. \A j \in DOMAIN c.desired : c.desired[j] \in T  BY DesiredTypes
  <1>3. DOMAIN c.desired \subseteq Keys  BY DesiredTypes
  <1> HIDE DEF d
  <1>4. \A j \in DOMAIN d : d[j] \in T  BY <1>1, <1>2
  <1> HIDE DEF T
  <1>5. d \in [DOMAIN d -> T]  BY <1>1, <1>4
  <1> QED BY <1>1, <1>3, <1>5 DEF MapOf, d, T

\* ... and with one less.
LEMMA UnwantedTypes ==
  ASSUME NEW stops, NEW c, ClientTyped(c, stops), NEW k
  PROVE  LET d == Without(c.desired, k) IN
         /\ MapOf(d, Keys, Wishes)
         /\ DOMAIN d = DOMAIN c.desired \ {k}
         /\ \A j \in DOMAIN d : d[j] = c.desired[j]
  <1> DEFINE d == Without(c.desired, k)
             T == Wishes
  <1>1. /\ DOMAIN d = DOMAIN c.desired \ {k}
        /\ \A j \in DOMAIN d : d[j] = c.desired[j]
        /\ d = [j \in DOMAIN d |-> d[j]]
    BY DEF Without
  <1>2. \A j \in DOMAIN c.desired : c.desired[j] \in T  BY DesiredTypes
  <1>3. DOMAIN c.desired \subseteq Keys  BY DesiredTypes
  <1> HIDE DEF d
  <1>4. \A j \in DOMAIN d : d[j] \in T  BY <1>1, <1>2
  <1> HIDE DEF T
  <1>5. d \in [DOMAIN d -> T]  BY <1>1, <1>4
  <1> QED BY <1>1, <1>3, <1>5 DEF MapOf, d, T

\* Whether the wish changes before the number is deleted or after makes no difference.
LEMMA DeletedWanting ==
  ASSUME NEW stops, NEW c, ClientTyped(c, stops), NEW d, NEW k
  PROVE  Deleted([c EXCEPT !.desired = d], k) = [Deleted(c, k) EXCEPT !.desired = d]
  BY DEF Deleted, CommandOn, ClientTyped

\* addBreakpoint() wants a breakpoint, and inserts it.
LEMMA AddBreakpointSound ==
  ASSUME NEW g, NEW c, Sound(c, g), NEW k \in Keys, k \notin DOMAIN c.desired
  PROVE  Sound(AddBreakpoint(c, k), g)
  <1> DEFINE v == [log |-> FALSE, status |-> "unset"]
             d == With(c.desired, k, v)
             b == [c EXCEPT !.desired = d]
  <1>1. ClientTyped(c, g.stops)  BY Empty DEF Sound
  <1>2. v \in Wishes  BY DEF Wishes, Statuses
  <1> HIDE DEF v
  <1>3. /\ MapOf(d, Keys, Wishes)
        /\ DOMAIN d = DOMAIN c.desired \union {k}
        /\ \A j \in DOMAIN c.desired : j # k => d[j] = c.desired[j]
    BY <1>1, <1>2, WantedTypes
  <1> HIDE DEF d
  <1>4. DOMAIN c.numbers \subseteq DOMAIN c.desired  BY <1>1, DesiredTypes
  <1>5. \A j \in DOMAIN c.desired : d[j] = c.desired[j]  BY <1>3
  <1>6. SoundFor(c, g, DOMAIN c.desired)  BY DEF Sound
  <1>7. /\ SoundFor(b, g, DOMAIN c.desired) /\ Steady(c, b) /\ b.token = c.token /\ b.stdin = c.stdin
        /\ b.desired = d /\ b.numbers = c.numbers /\ b.breakpoints = c.breakpoints
        /\ b.commands = c.commands
    BY <1>3, <1>4, <1>5, <1>6, Wanting
  <1> HIDE DEF b
  <1>8. Sound(Inserting(b, k), g)  BY <1>3, <1>7, InsertingSound
  <1> QED BY <1>8 DEF AddBreakpoint, b, d, v

\* updateBreakpoint() wants it otherwise: it deletes the old one and inserts a new one.
LEMMA UpdateBreakpointSound ==
  ASSUME NEW g, NEW c, Sound(c, g), NEW k \in DOMAIN c.desired
  PROVE  Sound(UpdateBreakpoint(c, k), g)
  <1> DEFINE v == [log |-> ~c.desired[k].log, status |-> "unset"]
             d == [c.desired EXCEPT ![k] = v]
             x == Deleted(c, k)
             b == [x EXCEPT !.desired = d]
             L == DOMAIN c.desired \ {k}
  <1>1. ClientTyped(c, g.stops)  BY Empty DEF Sound
  <1>2. v \in Wishes  BY DEF Wishes, Statuses
  <1>3. Deleted([c EXCEPT !.desired[k] = [log |-> ~@.log, status |-> "unset"]], k)
          = Deleted([c EXCEPT !.desired = d], k)
    BY <1>1 DEF ClientTyped
  <1> HIDE DEF v
  <1>4. k \in Keys /\ d = With(c.desired, k, v)
    <2>1. k \in Keys  BY <1>1, DesiredTypes
    <2> QED BY <2>1 DEF With
  <1>5. /\ MapOf(d, Keys, Wishes)
        /\ DOMAIN d = DOMAIN c.desired \union {k}
        /\ \A j \in DOMAIN c.desired : j # k => d[j] = c.desired[j]
    <2> HIDE DEF d
    <2> QED BY <1>1, <1>2, <1>4, WantedTypes
  <1> HIDE DEF d
  <1>6. /\ SoundFor(x, g, L) /\ Steady(c, x)
        /\ x.desired = c.desired /\ DOMAIN x.numbers = DOMAIN c.numbers \ {k}
    BY DeletedSound DEF Sound
  <1>7. Deleted([c EXCEPT !.desired = d], k) = b  BY <1>1, DeletedWanting
  <1> HIDE DEF x
  <1>8. /\ DOMAIN x.numbers \subseteq L /\ DOMAIN x.numbers \subseteq DOMAIN d
        /\ L \subseteq L /\ L \subseteq DOMAIN d /\ \A j \in L : d[j] = x.desired[j]
    <2>1. DOMAIN c.numbers \subseteq DOMAIN c.desired  BY <1>1, DesiredTypes
    <2> QED BY <1>5, <1>6, <2>1
  <1> HIDE DEF L
  <1>9. /\ SoundFor(b, g, L) /\ Steady(x, b) /\ b.token = x.token /\ b.stdin = x.stdin
        /\ b.desired = d /\ b.numbers = x.numbers /\ b.breakpoints = x.breakpoints
        /\ b.commands = x.commands
    BY <1>5, <1>6, <1>8, Wanting
  <1> HIDE DEF b
  <1>10. k \in DOMAIN b.desired /\ DOMAIN b.desired \subseteq L \union {k}  BY <1>5, <1>9 DEF L
  <1>11. Sound(Inserting(b, k), g)  BY <1>9, <1>10, InsertingSound
  <1> QED BY <1>3, <1>7, <1>11 DEF UpdateBreakpoint

\* removeBreakpoint() wants it no more.
LEMMA RemoveBreakpointSound ==
  ASSUME NEW g, NEW c, Sound(c, g), NEW k \in DOMAIN c.desired
  PROVE  Sound(RemoveBreakpoint(c, k), g)
  <1> DEFINE d == Without(c.desired, k)
             x == Deleted(c, k)
             b == [x EXCEPT !.desired = d]
             L == DOMAIN c.desired \ {k}
  <1>1. ClientTyped(c, g.stops)  BY Empty DEF Sound
  <1>2. RemoveBreakpoint(c, k) = Deleted([c EXCEPT !.desired = d], k)
    BY <1>1 DEF RemoveBreakpoint, ClientTyped
  <1>3. /\ MapOf(d, Keys, Wishes)
        /\ DOMAIN d = DOMAIN c.desired \ {k}
        /\ \A j \in DOMAIN d : d[j] = c.desired[j]
    BY <1>1, UnwantedTypes
  <1> HIDE DEF d
  <1>4. /\ SoundFor(x, g, L) /\ Steady(c, x)
        /\ x.desired = c.desired /\ DOMAIN x.numbers = DOMAIN c.numbers \ {k}
    BY DeletedSound DEF Sound
  <1>5. Deleted([c EXCEPT !.desired = d], k) = b  BY <1>1, DeletedWanting
  <1> HIDE DEF x
  <1>6. /\ DOMAIN x.numbers \subseteq L /\ DOMAIN x.numbers \subseteq DOMAIN d
        /\ L \subseteq L /\ L \subseteq DOMAIN d /\ \A j \in L : d[j] = x.desired[j]
    <2>1. DOMAIN c.numbers \subseteq DOMAIN c.desired  BY <1>1, DesiredTypes
    <2> QED BY <1>3, <1>4, <2>1
  <1>7. L = DOMAIN d  BY <1>3
  <1> HIDE DEF L
  <1>8. /\ SoundFor(b, g, L) /\ Steady(x, b) /\ b.token = x.token /\ b.stdin = x.stdin
        /\ b.desired = d /\ b.numbers = x.numbers /\ b.breakpoints = x.breakpoints
        /\ b.commands = x.commands
    BY <1>3, <1>4, <1>6, Wanting
  <1> HIDE DEF b
  <1> QED BY <1>2, <1>5, <1>7, <1>8 DEF Sound

\* clearBreakpoints() waits for no answer any more, and wants nothing.
LEMMA ClearBreakpointsSound ==
  ASSUME NEW g, NEW c, Sound(c, g)
  PROVE  Sound(ClearBreakpoints(c), g)
  <1> DEFINE b == [c EXCEPT !.desired = <<>>, !.numbers = <<>>, !.breakpoints = {}]
  <1>1. SoundFor(c, g, DOMAIN c.desired)  BY DEF Sound
  <1>2. ClientTyped(c, g.stops) /\ InSession(c) /\ Base(c, g, DOMAIN c.desired)
    BY <1>1 DEF SoundFor, Base
  <1>3. /\ Steady(c, b) /\ b.token = c.token /\ b.stdin = c.stdin
        /\ b.desired = <<>> /\ b.numbers = <<>> /\ b.breakpoints = {} /\ b.commands = c.commands
    BY <1>2 DEF ClientTyped, Steady
  <1>4. DOMAIN <<>> = {} /\ <<>> \in [{} -> Nat] /\ <<>> \in [{} -> Wishes]
    OBVIOUS
  <1>5. ClientTyped(b, g.stops)
    <2>1. MapOf(<<>>, Keys, Wishes) /\ MapOf(<<>>, {}, Nat)
      BY <1>4 DEF MapOf
    <2> QED BY <1>2, <1>4, <2>1 DEF ClientTyped
  <1>6. ClearBreakpoints(c) = IF c.running /\ c.mode # "core" /\ DOMAIN c.numbers # {}
                              THEN Command(b, "deleteAll") ELSE b
    BY <1>2 DEF ClearBreakpoints, Command, CommandOn, ClientTyped
  <1> HIDE DEF b
  <1>7. ASSUME c.running, c.mode # "core" PROVE Booked(b, g, {})
    <2>1. Booked(c, g, DOMAIN c.desired)  BY <1>2, <1>7 DEF Base
    <2>2. /\ {} \subseteq DOMAIN c.desired /\ {} \subseteq DOMAIN b.desired
          /\ b.stdin = c.stdin /\ b.output = c.output /\ b.breakpoints \subseteq c.breakpoints
          /\ DOMAIN b.numbers \subseteq {} /\ DOMAIN b.numbers \subseteq DOMAIN c.numbers
          /\ \A j \in DOMAIN b.numbers : b.numbers[j] = c.numbers[j]
      BY <1>3, <1>4 DEF Steady
    <2>3. \A p \in b.breakpoints, q \in c.breakpoints :
            q.key = p.key => q \in b.breakpoints \/ q.token <= p.token
      BY <1>3
    <2> QED BY <1>2, <2>1, <2>2, <2>3, BookedLess
  <1>8. SoundFor(b, g, {})
    <2>1. Others(b) = Others(c)  BY <1>3 DEF Others, Steady
    <2>2. /\ b.running = c.running /\ b.mode = c.mode /\ b.token = c.token /\ b.stdin = c.stdin
          /\ b.output = c.output /\ b.breakpoints \subseteq c.breakpoints
          /\ b.detaching => c.mode = "attach"
          /\ b.runRequested => c.mode = "launch"
          /\ c.mode = "core" => DOMAIN b.numbers = {} /\ b.commands = {} /\ b.signal = 0
          /\ c.mode # "core" => b.coreExecutable = 0 /\ b.coreTarget = 0
      BY <1>2, <1>3, <1>4 DEF InSession, Steady
    <2>3. Base(b, g, {})  BY <1>2, <1>5, <1>7, <2>1, <2>2, Changing
    <2>4. Over(c, g) <=> Over(b, g)  BY <1>3 DEF Over
    <2>5. c.running /\ c.mode = "attach" => Attached(b, g)
      <3> HAVE c.running /\ c.mode = "attach"
      <3>1. Attached(c, g)  BY <1>1 DEF SoundFor
      <3> QED BY <1>3, <2>4, <3>1 DEF Attached, Steady
    <2> QED BY <1>3, <2>3, <2>5, SoundParts DEF Steady
  <1>9. CASE ~(c.running /\ c.mode # "core" /\ DOMAIN c.numbers # {})
    BY <1>3, <1>4, <1>6, <1>8, <1>9 DEF Sound
  <1>10. CASE c.running /\ c.mode # "core" /\ DOMAIN c.numbers # {}
    <2>1. PICK log \in BOOLEAN : log = FALSE  OBVIOUS
    <2>2. "deleteAll" \in Ops /\ "none" \in Keys \union {"none"} /\ 0 \in Nat /\ "deleteAll" # "attach"
      BY DEF Ops
    <2> DEFINE e == CommandOn(b, "deleteAll", "none", 0, log)
               m == Message(b.token, "deleteAll", "none", 0, log)
    <2>3. Allowed(b, g, m)
      <3>1. m.op = "deleteAll"  BY DEF Message
      <3> HIDE DEF m
      <3> QED BY <1>3, <1>4, <1>10, <3>1 DEF Allowed, MaySend, Steady
    <2>4. SoundFor(e, g, {}) /\ Same(b, e)
      <3> HIDE DEF e, m
      <3> QED BY <1>8, <2>2, <2>3, SoundSend DEF e, m
    <2>5. e = ClearBreakpoints(c)  BY <1>6, <1>10, <2>1 DEF Command
    <2> HIDE DEF e
    <2> QED BY <1>3, <1>4, <2>4, <2>5 DEF Sound, Same
  <1> QED BY <1>9, <1>10

\* The clients between the insertions of a start.
Between(c, g) ==
  {e \in [running : BOOLEAN, stdin : Seq(MessageSet), output : Seq(RecordSet(g.stops)),
          token : Nat, mode : {"none"} \union Modes, active : BOOLEAN, stopped : BOOLEAN,
          exited : BOOLEAN, runRequested : BOOLEAN,
          desired : [DOMAIN c.desired -> Wishes], numbers : {c.numbers},
          breakpoints : SUBSET Waiting, commands : SUBSET Waiting, signal : Nat, attach : Nat,
          detach : Nat, coreExecutable : Nat, coreTarget : Nat, detachConfirmed : BOOLEAN,
          detaching : BOOLEAN, selected : Nat, frames : 0..g.stops, variables : {c.variables},
          watch : 0..g.stops, watches : SUBSET Nat] :
     Steady(c, e) /\ \E K : SoundFor(e, g, K)}

\* A client is between the insertions when it is sound and wants the same.
LEMMA BetweenIs ==
  ASSUME NEW g, NEW c, NEW e
  PROVE  e \in Between(c, g) <=>
           /\ Steady(c, e) /\ DOMAIN e.desired = DOMAIN c.desired /\ e.numbers = c.numbers
           /\ \E K : SoundFor(e, g, K)
  <1>1. ASSUME Steady(c, e), DOMAIN e.desired = DOMAIN c.desired, e.numbers = c.numbers,
               NEW K, SoundFor(e, g, K)
        PROVE  e \in Between(c, g)
    <2>1. ClientTyped(e, g.stops)  BY <1>1, Empty
    <2>2. e.desired \in [DOMAIN c.desired -> Wishes] /\ e.variables = c.variables
      BY <1>1, <2>1 DEF ClientTyped, MapOf, Steady
    <2> QED BY <1>1, <2>1, <2>2 DEF ClientTyped, Between
  <1>2. ASSUME e \in Between(c, g)
        PROVE  /\ Steady(c, e) /\ DOMAIN e.desired = DOMAIN c.desired /\ e.numbers = c.numbers
               /\ \E K : SoundFor(e, g, K)
    BY <1>2 DEF Between
  <1> QED BY <1>1, <1>2

\* f has the clients after each of the insertions.
Inserts(f, c, g, keys) ==
  /\ f \in [0..Len(keys) -> Between(c, g)] /\ f[0] = c
  /\ \A n \in 1..Len(keys) : f[n] = InsertBreakpoint(f[n - 1], keys[n])

\* insertAll() inserts one breakpoint after the other.
LEMMA InsertTrace ==
  ASSUME NEW g, NEW c, NEW K, SoundFor(c, g, K), c.running, c.mode # "core",
         NEW keys \in Seq(DOMAIN c.desired)
  PROVE  \E f : Inserts(f, c, g, keys) /\ InsertEach(c, keys) = f[Len(keys)]
  <1> DEFINE L == Len(keys)
             V == Between(c, g)
             Round(h, n) == IF n = 0 THEN c ELSE InsertBreakpoint(h[n - 1], keys[n])
             G == [n \in 1..L |-> [x \in V |-> InsertBreakpoint(x, keys[n])]]
             After == CHOOSE h : h = [n \in 0..L |-> Round(h, n)]
  <1>1. L \in Nat /\ \A n \in 1..L : keys[n] \in DOMAIN c.desired
    BY LenProperties, ElementOfSeq
  <1>2. G \in [1..L -> [V -> V]]
    <2>1. ASSUME NEW n \in 1..L, NEW x \in V PROVE InsertBreakpoint(x, keys[n]) \in V
      <3>1. /\ Steady(c, x) /\ DOMAIN x.desired = DOMAIN c.desired /\ x.numbers = c.numbers
            /\ \E J : SoundFor(x, g, J)
        BY BetweenIs
      <3>2. PICK J : SoundFor(x, g, J)  BY <3>1
      <3> DEFINE k == keys[n]
                 e == InsertBreakpoint(x, k)
      <3>3. k \in DOMAIN x.desired /\ x.running /\ x.mode # "core"
        BY <1>1, <3>1 DEF Steady
      <3> HIDE DEF k, V
      <3>4. /\ SoundFor(e, g, J \union {k}) /\ Steady(x, e)
            /\ DOMAIN e.desired = DOMAIN x.desired /\ e.numbers = x.numbers
        BY <3>2, <3>3, InsertBreakpointSound
      <3> HIDE DEF e
      <3>5. Steady(c, e)  BY <3>1, <3>4 DEF Steady
      <3>6. e \in Between(c, g)  BY <3>1, <3>4, <3>5, BetweenIs
      <3> QED BY <3>6 DEF e, k, V
    <2> HIDE DEF V
    <2> QED BY <2>1
  <1>3. c \in V
    <2>1. Steady(c, c)  BY DEF Steady
    <2> QED BY <2>1, BetweenIs
  <1> HIDE DEF V
  <1>4. PICK f : Rounds(f, L, V, c, G)
    <2> HIDE DEF G
    <2> QED BY <1>1, <1>2, <1>3, Recursion
  <1>5. f = [n \in 0..L |-> Round(f, n)]
    <2>1. ASSUME NEW n \in 0..L PROVE f[n] = Round(f, n)
      <3>1. CASE n = 0  BY <1>4, <3>1 DEF Rounds
      <3>2. CASE n # 0
        <4>1. n \in 1..L /\ n - 1 \in 0..L  BY <1>1, <3>2
        <4>2. G[n] = [x \in V |-> InsertBreakpoint(x, keys[n])]  BY <4>1
        <4>3. f[n - 1] \in V  BY <1>4, <4>1 DEF Rounds
        <4> QED BY <1>4, <3>2, <4>1, <4>2, <4>3 DEF Rounds
      <3> QED BY <3>1, <3>2
    <2>2. f \in [0..L -> V]  BY <1>4 DEF Rounds
    <2> HIDE DEF Round, G
    <2> QED BY <2>1, <2>2
  <1>6. After = [n \in 0..L |-> Round(After, n)]
    <2> HIDE DEF Round, L
    <2> QED BY <1>5, Zenon
  <1>7. InsertEach(c, keys) = After[L]
    BY Zenon DEF InsertEach
  <1> HIDE DEF After
  <1>8. \A n \in 0..L : After[n] = Round(After, n)
    <2> HIDE DEF Round
    <2> QED BY <1>6
  <1>9. \A n \in 0..L : After[n] \in V
    <2> DEFINE S == {n \in 0..L : After[n] \in V}
    <2>1. 0 \in S  BY <1>1, <1>3, <1>8
    <2>2. ASSUME NEW n \in 0..(L - 1), n \in S PROVE n + 1 \in S
      <3>1. n + 1 \in 1..L /\ n + 1 # 0 /\ (n + 1) - 1 = n /\ n + 1 \in 0..L  BY <1>1
      <3>2. After[n + 1] = InsertBreakpoint(After[n], keys[n + 1])  BY <1>8, <3>1
      <3>3. After[n] \in V  BY <2>2
      <3>4. G[n + 1] = [x \in V |-> InsertBreakpoint(x, keys[n + 1])] /\ G[n + 1] \in [V -> V]
        BY <1>2, <3>1
      <3>5. G[n + 1][After[n]] \in V /\ G[n + 1][After[n]] = InsertBreakpoint(After[n], keys[n + 1])
        <4> HIDE DEF G
        <4> QED BY <3>3, <3>4
      <3> QED BY <3>1, <3>2, <3>5
    <2> HIDE DEF S
    <2>3. 0..L \subseteq S  BY <1>1, <2>1, <2>2, IntervalInduction
    <2> QED BY <2>3 DEF S
  <1>10. Inserts(After, c, g, keys)
    <2>1. After[0] = c /\ \A n \in 1..L : After[n] = InsertBreakpoint(After[n - 1], keys[n])
      BY <1>1, <1>8
    <2>2. After \in [0..L -> V]
      <3> HIDE DEF Round
      <3> QED BY <1>6, <1>9
    <2> QED BY <2>1, <2>2 DEF Inserts, V
  <1> QED BY <1>7, <1>10

\* After insertAll() everything that is wanted counts.
LEMMA InsertAllSound ==
  ASSUME NEW g, NEW c, SoundFor(c, g, {}), c.running, c.mode # "core"
  PROVE  Sound(InsertAll(c), g) /\ Steady(c, InsertAll(c))
  <1> DEFINE D == DOMAIN c.desired
             keys == SetToSeq(D)
             L == Len(keys)
  <1>1. IsFiniteSet(D)
    <2>1. D \subseteq Keys  BY Empty, DesiredTypes
    <2> QED BY <2>1, Constants, FS_Subset
  <1> HIDE DEF D
  <1>2. /\ keys \in Seq(D) /\ L \in Nat /\ (\A n \in 1..L : keys[n] \in D)
        /\ \A k \in D : \E n \in 1..L : keys[n] = k
    BY <1>1, Listed
  <1> HIDE DEF keys
  <1>3. PICK f : Inserts(f, c, g, keys) /\ InsertEach(c, keys) = f[L]
    BY <1>2, InsertTrace DEF D
  <1> DEFINE First(n) == {keys[i] : i \in 1..n}
             S == {n \in 0..L : SoundFor(f[n], g, First(n))}
  <1>4. 0 \in S
    <2>1. First(0) = {}  OBVIOUS
    <2>2. f[0] = c  BY <1>3 DEF Inserts
    <2>3. SoundFor(f[0], g, First(0))
      <3> HIDE DEF First
      <3> QED BY <2>1, <2>2
    <2> HIDE DEF First
    <2> QED BY <1>2, <2>3
  <1>5. ASSUME NEW n \in 0..(L - 1), n \in S PROVE n + 1 \in S
    <2>1. n + 1 \in 1..L /\ n + 1 \in 0..L /\ (n + 1) - 1 = n /\ n \in 0..L  BY <1>2
    <2>2. f[n + 1] = InsertBreakpoint(f[n], keys[n + 1]) /\ f[n] \in Between(c, g)
      BY <1>3, <2>1 DEF Inserts
    <2>3. SoundFor(f[n], g, First(n))  BY <1>5
    <2> DEFINE x == f[n]
               k == keys[n + 1]
               K == First(n)
               e == InsertBreakpoint(x, k)
    <2>4. /\ Steady(c, x) /\ DOMAIN x.desired = DOMAIN c.desired /\ x.numbers = c.numbers
          /\ \E J : SoundFor(x, g, J)
      BY <2>2, BetweenIs
    <2>5. k \in DOMAIN x.desired /\ x.running /\ x.mode # "core"
      BY <1>2, <2>1, <2>4 DEF Steady, D
    <2>6. K \union {k} = First(n + 1)
      <3>1. \A i \in 1..(n + 1) : i \in 1..n \/ i = n + 1  OBVIOUS
      <3>2. n + 1 \in 1..(n + 1) /\ \A i \in 1..n : i \in 1..(n + 1)  OBVIOUS
      <3> HIDE DEF keys
      <3> QED BY <3>1, <3>2
    <2> HIDE DEF K, k, x, First
    <2>7. SoundFor(x, g, K)  BY <2>3 DEF x, K, First
    <2>8. /\ SoundFor(e, g, K \union {k}) /\ Steady(x, e)
          /\ DOMAIN e.desired = DOMAIN x.desired /\ e.numbers = x.numbers
      BY <2>5, <2>7, InsertBreakpointSound
    <2>9. SoundFor(f[n + 1], g, First(n + 1))  BY <2>2, <2>6, <2>8 DEF x, k
    <2> QED BY <2>1, <2>9
  <1> HIDE DEF S
  <1>6. 0..L \subseteq S  BY <1>2, <1>4, <1>5, IntervalInduction
  <1>7. SoundFor(f[L], g, First(L)) /\ L \in 0..L
    <2> HIDE DEF First
    <2> QED BY <1>2, <1>6 DEF S
  <1>8. First(L) = D  BY <1>2
  <1>9. f[L] \in Between(c, g)  BY <1>3, <1>7 DEF Inserts
  <1>10. Steady(c, f[L]) /\ DOMAIN f[L].desired = DOMAIN c.desired  BY <1>9, BetweenIs
  <1> QED BY <1>3, <1>7, <1>8, <1>10 DEF Sound, InsertAll, D, keys

----------------------------------------------------------------------------
(* Sessions *)

\* The gdb that the next session starts.
Fresh(g) == [IdleGdb EXCEPT !.stops = g.stops]

\* It has no breakpoints, and no program.
LEMMA FreshTyped ==
  ASSUME NEW g, GdbTyped(g)
  PROVE  /\ GdbTyped(Fresh(g)) /\ Fresh(g).stops = g.stops /\ Fresh(g).program = "none"
         /\ Fresh(Fresh(g)) = Fresh(g)
  <1>1. /\ Fresh(g).program = "none" /\ Fresh(g).stops = g.stops /\ Fresh(g).frame = 0
        /\ Fresh(g).breakpoints = <<>> /\ Fresh(g).next = 1
        /\ Fresh(g) \in [program : {"none"}, stops : {g.stops}, frame : {0},
                         breakpoints : {<<>>}, next : {1}]
    BY DEF Fresh, IdleGdb
  <1>2. g.stops \in 0..MaxStops  BY DEF GdbTyped
  <1>3. MapOf(<<>>, Nat, [key : Keys \union {"none"}, log : BOOLEAN, armed : BOOLEAN])
    BY DEF MapOf
  <1>4. Fresh(Fresh(g)) = Fresh(g)  BY <1>1 DEF Fresh
  <1>5. GdbTyped(Fresh(g))  BY <1>1, <1>2, <1>3 DEF GdbTyped
  <1> QED BY <1>1, <1>4, <1>5

\* Opened, given its empty sequences and sets.
OpenedWith(c, mode, silent, numbers, none) ==
  [c EXCEPT !.running = TRUE, !.stdin = silent, !.mode = mode,
            !.active = FALSE, !.stopped = FALSE, !.exited = FALSE, !.runRequested = FALSE,
            !.signal = 0, !.attach = 0, !.detach = 0, !.coreExecutable = 0, !.coreTarget = 0,
            !.selected = 0, !.numbers = numbers, !.breakpoints = none, !.commands = none]

\* Reset, likewise.
ResetWith(output, token, confirmed, desired, silent, numbers, none, free, nothing) ==
  [running |-> FALSE, stdin |-> silent, output |-> output, token |-> token, mode |-> "none",
   active |-> FALSE, stopped |-> FALSE, exited |-> FALSE, runRequested |-> FALSE,
   desired |-> desired, numbers |-> numbers, breakpoints |-> none, commands |-> none,
   signal |-> 0, attach |-> 0, detach |-> 0, coreExecutable |-> 0, coreTarget |-> 0,
   detachConfirmed |-> confirmed, detaching |-> FALSE, selected |-> 0,
   frames |-> 0, variables |-> nothing, watch |-> 0, watches |-> free]

\* The types of a session that begins, and its fields.
LEMMA OpenedTyped ==
  ASSUME NEW c, NEW stops, ClientTyped(c, stops), NEW mode \in Modes,
         NEW silent \in Seq(MessageSet), NEW none \in SUBSET Waiting,
         NEW numbers, MapOf(numbers, DOMAIN c.desired, Nat)
  PROVE  LET b == OpenedWith(c, mode, silent, numbers, none) IN
         /\ ClientTyped(b, stops)
         /\ b.running /\ b.stdin = silent /\ b.mode = mode /\ ~b.active /\ ~b.runRequested
         /\ b.signal = 0 /\ b.attach = 0 /\ b.detach = 0 /\ b.coreExecutable = 0 /\ b.coreTarget = 0
         /\ b.numbers = numbers /\ b.breakpoints = none /\ b.commands = none /\ b.watches = c.watches
         /\ b.output = c.output /\ b.token = c.token /\ b.desired = c.desired
         /\ b.detaching = c.detaching
  <1> DEFINE b == OpenedWith(c, mode, silent, numbers, none)
  <1>1. ClientTyped(b, stops)
    <2>1. MapOf(c.desired, Keys, Wishes) /\ b.desired = c.desired /\ b.numbers = numbers
      BY DEF ClientTyped, OpenedWith
    <2>2. b \in [running : BOOLEAN, stdin : Seq(MessageSet), output : Seq(RecordSet(stops)),
            token : Nat, mode : {"none"} \union Modes, active : BOOLEAN, stopped : BOOLEAN,
            exited : BOOLEAN, runRequested : BOOLEAN, desired : {b.desired}, numbers : {b.numbers},
            breakpoints : SUBSET Waiting, commands : SUBSET Waiting, signal : Nat, attach : Nat,
            detach : Nat, coreExecutable : Nat, coreTarget : Nat, detachConfirmed : BOOLEAN,
            detaching : BOOLEAN, selected : Nat, frames : 0..stops, variables : {b.variables},
            watch : 0..stops, watches : SUBSET Nat]
      BY DEF ClientTyped, OpenedWith
    <2> HIDE DEF b
    <2> QED BY <2>1, <2>2 DEF ClientTyped
  <1>2. /\ b.running /\ b.stdin = silent /\ b.mode = mode /\ ~b.active /\ ~b.runRequested
        /\ b.signal = 0 /\ b.attach = 0 /\ b.detach = 0 /\ b.coreExecutable = 0 /\ b.coreTarget = 0
        /\ b.numbers = numbers /\ b.breakpoints = none /\ b.commands = none /\ b.watches = c.watches
        /\ b.output = c.output /\ b.token = c.token /\ b.desired = c.desired
        /\ b.detaching = c.detaching
    BY DEF ClientTyped, OpenedWith
  <1> HIDE DEF b
  <1> QED BY <1>1, <1>2 DEF b

\* The types of a client that is reset, and its fields.
LEMMA ResetTyped ==
  ASSUME NEW stops \in Nat, NEW output \in Seq(RecordSet(stops)), NEW token \in Nat,
         NEW confirmed \in BOOLEAN, NEW desired, MapOf(desired, Keys, Wishes), NEW nothing,
         NEW silent \in Seq(MessageSet), NEW none \in SUBSET Waiting, NEW free \in SUBSET Nat,
         NEW numbers, MapOf(numbers, DOMAIN desired, Nat)
  PROVE  LET e == ResetWith(output, token, confirmed, desired, silent, numbers, none, free, nothing) IN
         /\ ClientTyped(e, stops)
         /\ ~e.running /\ e.stdin = silent /\ e.mode = "none" /\ ~e.active /\ ~e.runRequested
         /\ e.signal = 0 /\ e.attach = 0 /\ e.detach = 0 /\ e.coreExecutable = 0 /\ e.coreTarget = 0
         /\ e.numbers = numbers /\ e.breakpoints = none /\ e.commands = none /\ e.watches = free
         /\ e.output = output /\ e.token = token /\ e.desired = desired /\ ~e.detaching
         /\ e.detachConfirmed = confirmed
  BY DEF ClientTyped, ResetWith

\* start(), attach() and openCore() begin with a gdb that was told nothing.
LEMMA OpenedSound ==
  ASSUME NEW g, NEW c, NEW K, SoundFor(c, g, K), ~c.detaching, NEW mode \in Modes
  PROVE  LET b == Opened(c, mode) IN
         /\ SoundFor(b, Fresh(g), {}) /\ b.desired = c.desired
         /\ b.running /\ b.mode = mode /\ b.attach = 0 /\ b.detach = 0 /\ ~b.active /\ ~b.detaching
  <1> DEFINE b == Opened(c, mode)
             h == Fresh(g)
  <1>1. /\ ClientTyped(c, g.stops) /\ GdbTyped(g) /\ Wired(c) /\ Tracked(c) /\ InSession(c)
    BY DEF SoundFor
  <1>2. GdbTyped(h) /\ h.stops = g.stops /\ h.program = "none"  BY <1>1, FreshTyped
  <1>4. DOMAIN <<>> = {} /\ Len(<<>>) = 0 /\ <<>> \in Seq(MessageSet) /\ <<>> \in [{} -> Nat]
    OBVIOUS
  <1>3. /\ ClientTyped(b, g.stops)
        /\ b.running /\ b.stdin = <<>> /\ b.mode = mode /\ ~b.active /\ ~b.runRequested
        /\ b.signal = 0 /\ b.attach = 0 /\ b.detach = 0 /\ b.coreExecutable = 0 /\ b.coreTarget = 0
        /\ b.numbers = <<>> /\ b.breakpoints = {} /\ b.commands = {} /\ b.watches = c.watches
        /\ b.output = c.output /\ b.token = c.token /\ b.desired = c.desired
        /\ b.detaching = c.detaching
    <2>1. MapOf(<<>>, DOMAIN c.desired, Nat)  BY <1>4 DEF MapOf
    <2>2. PICK silent \in Seq(MessageSet) : silent = <<>>  BY <1>4
    <2>3. PICK none \in SUBSET Waiting : none = {}  OBVIOUS
    <2>4. PICK numbers : numbers = <<>> /\ MapOf(numbers, DOMAIN c.desired, Nat)  BY <2>1
    <2>5. b = OpenedWith(c, mode, silent, numbers, none)
      BY ONLY <2>2, <2>3, <2>4, Zenon DEF Opened, OpenedWith
    <2> HIDE DEF b
    <2>6. /\ ClientTyped(b, g.stops)
          /\ b.running /\ b.stdin = silent /\ b.mode = mode /\ ~b.active /\ ~b.runRequested
          /\ b.signal = 0 /\ b.attach = 0 /\ b.detach = 0 /\ b.coreExecutable = 0 /\ b.coreTarget = 0
          /\ b.numbers = numbers /\ b.breakpoints = none /\ b.commands = none /\ b.watches = c.watches
          /\ b.output = c.output /\ b.token = c.token /\ b.desired = c.desired
          /\ b.detaching = c.detaching
      BY ONLY <1>1, mode \in Modes, <2>4, <2>5, OpenedTyped,
         silent \in Seq(MessageSet), none \in SUBSET Waiting
    <2> QED BY ONLY <2>2, <2>3, <2>4, <2>6, Zenon
  <1>5. ClientTyped(b, g.stops)  BY <1>3
  <1> HIDE DEF b, h
  <1>6. Wired(b)  BY <1>1, <1>3, <1>4 DEF Wired
  <1>7. Tracked(b)
    <2>1. \A t \in Others(b) : t \in c.watches \/ t = 0  BY <1>3 DEF Others
    <2>2. \A t \in c.watches : t < c.token  BY <1>1 DEF Tracked, Others
    <2>3. 0 < c.token  BY <1>1 DEF Wired
    <2>4. \A t \in Others(b) : t < b.token  BY <1>3, <2>1, <2>2, <2>3
    <2> QED BY <1>3, <2>4 DEF Tracked
  <1>8. InSession(b)  BY <1>3, <1>4, Constants DEF InSession
  <1>9. Booked(b, h, {})
    BY <1>3, <1>4 DEF Booked, Apart, Orders
  <1>10. Attached(b, h)
    <2>1. Over(b, h)  BY <1>2, <1>3, <1>4 DEF Over
    <2> QED BY <1>3, <1>4, <2>1 DEF Attached
  <1>11. SoundFor(b, h, {})  BY <1>2, <1>5, <1>6, <1>7, <1>8, <1>9, <1>10 DEF SoundFor
  <1> QED BY <1>3, <1>11 DEF b, h

\* startDebug() opens a session and asks for the run.
LEMMA StartSound ==
  ASSUME NEW g, NEW c, NEW K, SoundFor(c, g, K), ~c.detaching, "launch" \in Modes
  PROVE  Sound(Run(Start(c)), Fresh(g))
  <1> DEFINE b == Opened(c, "launch")
             e == InsertAll(b)
  <1>1. SoundFor(b, Fresh(g), {}) /\ b.running /\ b.mode = "launch"  BY OpenedSound
  <1> HIDE DEF b
  <1>2. Sound(e, Fresh(g))  BY <1>1, InsertAllSound
  <1> HIDE DEF e
  <1>3. SoundFor(Run(e), Fresh(g), DOMAIN e.desired) /\ Run(e).desired = e.desired
    BY <1>2, RunSound DEF Sound
  <1> QED BY <1>3 DEF Sound, Start, e, b

\* attach() asks for the program when the breakpoints are on their way.
LEMMA AttachSound ==
  ASSUME NEW g, NEW c, NEW K, SoundFor(c, g, K), ~c.detaching, "attach" \in Modes
  PROVE  Sound(Attach(c), Fresh(g))
  <1> DEFINE h == Fresh(g)
             o == Opened(c, "attach")
             b == InsertAll(o)
             d == Command(b, "attach")
             e == [d EXCEPT !.attach = b.token]
  <1>1. /\ SoundFor(o, h, {}) /\ o.running /\ o.mode = "attach" /\ o.attach = 0 /\ o.detach = 0
        /\ ~o.active /\ ~o.detaching
    BY OpenedSound
  <1> HIDE DEF o, h
  <1>2. Sound(b, h) /\ Steady(o, b)  BY <1>1, InsertAllSound
  <1>3. Attach(c) = e  BY DEF Attach, o
  <1> DEFINE D == DOMAIN b.desired
  <1> HIDE DEF b
  <1>4. /\ b.running /\ b.mode = "attach" /\ b.attach = 0 /\ b.detach = 0 /\ ~b.active /\ ~b.detaching
        /\ SoundFor(b, h, D)
    BY <1>1, <1>2 DEF Steady, Sound
  <1> HIDE DEF D
  <1>5. PICK log \in BOOLEAN : log = FALSE  OBVIOUS
  <1>6. "attach" \in Ops /\ "none" \in Keys \union {"none"} /\ 0 \in Nat  BY DEF Ops
  <1> DEFINE m == Message(b.token, "attach", "none", 0, log)
             x == CommandOn(b, "attach", "none", 0, log)
  <1>7. Allowed(b, h, m)  BY <1>4 DEF Allowed, MaySend, Message
  <1>8. m.token = b.token /\ m.op = "attach"  BY DEF Message
  <1>9. Base(b, h, D) /\ Attached(b, h)  BY <1>4, SoundParts
  <1>10. /\ Base(x, h, D) /\ Same(b, x) /\ x.token = b.token + 1 /\ x.output = b.output
         /\ m \in MessageSet /\ x.stdin = Sent(b, m)
    <2> HIDE DEF x, m
    <2> QED BY <1>6, <1>7, <1>9, Sending DEF x, m
  <1>11. d = x  BY <1>5 DEF Command
  <1> HIDE DEF x, m, d
  <1>12. ClientTyped(x, h.stops) /\ InSession(x)  BY <1>10 DEF Base
  <1>13. b.token \in Nat \ {0} /\ b.token < x.token /\ \A p \in x.breakpoints : p.token # b.token
    BY <1>4, <1>10, Newest
  <1>14. /\ e.running = x.running /\ e.mode = x.mode /\ e.token = x.token /\ e.stdin = x.stdin
         /\ e.output = x.output /\ e.breakpoints = x.breakpoints /\ e.numbers = x.numbers
         /\ e.desired = x.desired /\ e.attach = b.token /\ e.detach = x.detach
         /\ e.detaching = x.detaching /\ e.detachConfirmed = x.detachConfirmed
         /\ e.active = x.active /\ e.runRequested = x.runRequested /\ e.commands = x.commands
         /\ e.signal = x.signal /\ e.coreExecutable = x.coreExecutable
         /\ e.coreTarget = x.coreTarget /\ e.watches = x.watches
    BY <1>11, <1>12 DEF ClientTyped
  <1>15. ClientTyped(e, h.stops)  BY <1>11, <1>12, <1>13 DEF ClientTyped
  <1> HIDE DEF e
  <1>16. Base(e, h, D)
    <2>1. \A t \in Others(e) : t \in Others(x) \/ (t < x.token /\ \A p \in x.breakpoints : p.token # t)
      BY <1>13, <1>14 DEF Others
    <2>2. x.running /\ x.mode # "core" => Booked(e, h, D)
      <3>1. x.running /\ x.mode # "core" => Booked(x, h, D)  BY <1>10 DEF Base
      <3> QED BY <1>14, <3>1, BookedSame
    <2>3. /\ e.running = x.running /\ e.mode = x.mode /\ e.token = x.token /\ e.stdin = x.stdin
          /\ e.output = x.output /\ e.breakpoints \subseteq x.breakpoints
          /\ e.detaching => x.mode = "attach"
          /\ e.runRequested => x.mode = "launch"
          /\ x.mode = "core" => DOMAIN e.numbers = {} /\ e.commands = {} /\ e.signal = 0
          /\ x.mode # "core" => e.coreExecutable = 0 /\ e.coreTarget = 0
      BY <1>12, <1>14 DEF InSession
    <2> QED BY <1>10, <1>15, <2>1, <2>2, <2>3, Changing
  <1>17. Attached(e, h)
    <2>1. Over(b, h)  BY <1>4, <1>9 DEF Attached
    <2>2. b.stdin \in Seq(MessageSet) /\ \A i \in 1..Len(b.stdin) : b.stdin[i].token \in Nat
      BY <1>9, WireTypes DEF Base
    <2>3. e.stdin = Append(b.stdin, m)  BY <1>4, <1>10, <1>14 DEF Sent
    <2>4. /\ Len(e.stdin) = Len(b.stdin) + 1 /\ e.stdin[Len(b.stdin) + 1] = m
          /\ \A i \in 1..Len(b.stdin) : e.stdin[i] = b.stdin[i] /\ i \in 1..(Len(b.stdin) + 1)
          /\ \A i \in 1..(Len(b.stdin) + 1) : i \in 1..Len(b.stdin) \/ i = Len(b.stdin) + 1
      BY <1>10, <2>2, <2>3, Appended
    <2>5. /\ \A i \in 1..Len(b.stdin) : 0 < b.stdin[i].token /\ b.stdin[i].token < b.token
          /\ \A i \in 1..Len(b.output) : b.output[i].token < b.token
      BY <1>9 DEF Base, Wired
    <2>6. /\ e.attach = b.token /\ e.detach = 0 /\ ~e.detaching /\ e.output = b.output
      BY <1>4, <1>10, <1>14 DEF Same
    <2>7. \A i \in 1..Len(b.output) : b.output[i].token # b.token
      <3>1. \A i \in 1..Len(b.output) : b.output[i].token \in Nat
        BY <1>9, WireTypes DEF Base
      <3> QED BY <1>13, <2>5, <3>1
    <2>8. ASSUME NEW i \in 1..Len(e.stdin)
          PROVE  /\ e.stdin[i].op = "attach" <=> e.stdin[i].token = e.attach
                 /\ e.stdin[i].op = "attach" => h.program = "none"
                 /\ e.stdin[i].token = e.detach => e.stdin[i].op = "detach"
      <3>1. CASE i \in 1..Len(b.stdin)
        <4>1. b.stdin[i].op # "attach"  BY <2>1, <3>1 DEF Over
        <4>2. b.stdin[i].token # b.token /\ b.stdin[i].token # 0  BY <1>13, <2>2, <2>5, <3>1
        <4> QED BY <2>4, <2>6, <3>1, <4>1, <4>2
      <3>2. CASE i = Len(b.stdin) + 1  BY <1>8, <1>13, <2>1, <2>4, <2>6, <3>2 DEF Over
      <3> QED BY <2>4, <3>1, <3>2
    <2> QED BY <1>13, <2>6, <2>7, <2>8 DEF Attached
  <1>18. D = DOMAIN e.desired  BY <1>10, <1>14 DEF Same, D
  <1> QED BY <1>3, <1>16, <1>17, <1>18, SoundParts DEF Sound, h

\* openCore() loads the program first.
LEMMA OpenCoreSound ==
  ASSUME NEW g, NEW c, NEW K, SoundFor(c, g, K), ~c.detaching, "core" \in Modes
  PROVE  Sound(OpenCore(c), Fresh(g))
  <1> DEFINE h == Fresh(g)
             b == Opened(c, "core")
             d == Command(b, "executable")
             e == [d EXCEPT !.coreExecutable = b.token]
  <1>1. SoundFor(b, h, {}) /\ b.running /\ b.mode = "core"  BY OpenedSound
  <1>2. OpenCore(c) = e  BY DEF OpenCore
  <1> HIDE DEF b, h
  <1>3. SoundFor(d, h, {}) /\ Same(b, d) /\ d.token = b.token + 1  BY <1>1, SoundCommand
  <1> HIDE DEF d
  <1>4. b.token \in Nat \ {0}  BY <1>1, <1>3, Newest
  <1>5. ClientTyped(d, h.stops) /\ InSession(d)  BY <1>3, Empty
  <1>6. ClientTyped(e, h.stops)  BY <1>4, <1>5 DEF ClientTyped
  <1>7. /\ e.running = d.running /\ e.mode = d.mode /\ e.token = d.token /\ e.stdin = d.stdin
        /\ e.output = d.output /\ e.breakpoints = d.breakpoints /\ e.numbers = d.numbers
        /\ e.desired = d.desired /\ e.attach = d.attach /\ e.detach = d.detach
        /\ e.detaching = d.detaching /\ e.detachConfirmed = d.detachConfirmed
        /\ e.active = d.active /\ e.runRequested = d.runRequested /\ e.commands = d.commands
        /\ e.signal = d.signal /\ e.watches = d.watches
    BY <1>5 DEF ClientTyped
  <1> HIDE DEF e
  <1>8. Others(e) = Others(d)  BY <1>7 DEF Others
  <1>9. d.mode = "core" /\ e.commands = {} /\ e.signal = 0  BY <1>1, <1>3, <1>5, <1>7 DEF InSession, Same
  <1>10. SoundFor(e, h, {})  BY <1>3, <1>6, <1>7, <1>8, <1>9, Touching
  <1>11. SoundFor(e, h, DOMAIN e.desired)  BY <1>7, <1>9, <1>10, Narrower
  <1> QED BY <1>2, <1>11 DEF Sound, h

\* The client before any session.
LEMMA IdleFields ==
  ASSUME NEW s \in Nat
  PROVE  /\ ClientTyped(IdleClient, s)
         /\ ~IdleClient.running /\ IdleClient.stdin = <<>> /\ IdleClient.mode = "none"
         /\ ~IdleClient.active /\ ~IdleClient.runRequested /\ IdleClient.signal = 0
         /\ IdleClient.attach = 0 /\ IdleClient.detach = 0 /\ IdleClient.coreExecutable = 0
         /\ IdleClient.coreTarget = 0 /\ IdleClient.numbers = <<>> /\ IdleClient.breakpoints = {}
         /\ IdleClient.commands = {} /\ IdleClient.watches = {} /\ IdleClient.output = <<>>
         /\ IdleClient.token = 1 /\ IdleClient.desired = <<>> /\ ~IdleClient.detaching
  <1>1. DOMAIN <<>> = {} /\ Len(<<>>) = 0 /\ <<>> \in Seq(MessageSet) /\ <<>> \in [{} -> Nat]
    OBVIOUS
  <1>2. PICK silent \in Seq(MessageSet) : silent = <<>>  BY <1>1
  <1>3. PICK none \in SUBSET Waiting : none = {}  OBVIOUS
  <1>4. PICK free \in SUBSET Nat : free = {}  OBVIOUS
  <1>5. PICK numbers : numbers = <<>> /\ MapOf(numbers, {}, Nat)  BY <1>1 DEF MapOf
  <1>6. PICK read \in Seq(RecordSet(s)) : read = <<>>  BY EmptySeq
  <1>7. PICK wish : wish = <<>> /\ DOMAIN wish = {} /\ MapOf(wish, Keys, Wishes)
    <2>1. DOMAIN <<>> = {} /\ <<>> \in [{} -> Wishes]  OBVIOUS
    <2> QED BY <2>1 DEF MapOf
  <1>8. PICK confirmed \in BOOLEAN : confirmed = FALSE  OBVIOUS
  <1>9. PICK one \in Nat : one = 1  OBVIOUS
  <1> DEFINE i == ResetWith(read, one, confirmed, wish, silent, numbers, none, free, Nothing)
  <1>10. IdleClient = i
    <2>1. IdleClient = ResetWith(<<>>, 1, FALSE, <<>>, <<>>, <<>>, {}, {}, Nothing)
      BY DEF IdleClient, ResetWith
    <2> QED BY ONLY <1>2, <1>3, <1>4, <1>5, <1>6, <1>7, <1>8, <1>9, <2>1, Zenon
  <1>11. /\ ClientTyped(i, s)
         /\ ~i.running /\ i.stdin = silent /\ i.mode = "none" /\ ~i.active /\ ~i.runRequested
         /\ i.signal = 0 /\ i.attach = 0 /\ i.detach = 0 /\ i.coreExecutable = 0 /\ i.coreTarget = 0
         /\ i.numbers = numbers /\ i.breakpoints = none /\ i.commands = none /\ i.watches = free
         /\ i.output = read /\ i.token = one /\ i.desired = wish /\ ~i.detaching
         /\ i.detachConfirmed = confirmed
    <2>1. DOMAIN wish = {}  BY <1>7
    <2>2. MapOf(numbers, DOMAIN wish, Nat) /\ MapOf(wish, Keys, Wishes)  BY <1>5, <1>7, <2>1, Zenon
    <2> HIDE DEF i
    <2> QED BY ONLY s \in Nat, one \in Nat, <2>2, ResetTyped, read \in Seq(RecordSet(s)),
               silent \in Seq(MessageSet), none \in SUBSET Waiting, free \in SUBSET Nat,
               confirmed \in BOOLEAN DEF i
  <1> HIDE DEF i
  <1> QED BY ONLY <1>2, <1>3, <1>4, <1>5, <1>6, <1>7, <1>9, <1>10, <1>11, Zenon

\* The end of stop() forgets the session.
LEMMA ResetSound ==
  ASSUME NEW g, NEW c, NEW K, SoundFor(c, g, K), NEW confirmed \in BOOLEAN
  PROVE  LET e == Reset([c EXCEPT !.detachConfirmed = confirmed]) IN
         /\ Sound(e, Fresh(g)) /\ ~e.running /\ e.mode = "none" /\ ~e.detaching
         /\ e.detachConfirmed = confirmed
  <1> DEFINE e == Reset([c EXCEPT !.detachConfirmed = confirmed])
             h == Fresh(g)
             d == [k \in DOMAIN c.desired |-> [c.desired[k] EXCEPT !.status = "unset"]]
  <1>1. /\ ClientTyped(c, g.stops) /\ GdbTyped(g) /\ Wired(c) /\ Tracked(c) /\ InSession(c)
    BY DEF SoundFor
  <1>2. GdbTyped(h) /\ h.stops = g.stops  BY <1>1, FreshTyped
  <1>3. e = [IdleClient EXCEPT !.output = c.output, !.token = c.token,
                               !.detachConfirmed = confirmed, !.desired = d]
    BY <1>1 DEF ClientTyped, Reset
  <1>4. MapOf(d, Keys, Wishes)
    <2>1. \A k \in DOMAIN c.desired : c.desired[k] \in Wishes  BY <1>1, DesiredTypes
    <2>2. \A k \in DOMAIN c.desired : [c.desired[k] EXCEPT !.status = "unset"] \in Wishes
      BY <2>1 DEF Wishes, Statuses
    <2>3. DOMAIN c.desired \subseteq Keys  BY <1>1, DesiredTypes
    <2> QED BY <2>2, <2>3 DEF MapOf
  <1> HIDE DEF d
  <1>6. DOMAIN <<>> = {} /\ Len(<<>>) = 0 /\ <<>> \in Seq(MessageSet) /\ <<>> \in [{} -> Nat]
    OBVIOUS
  <1>5. /\ ClientTyped(e, g.stops)
        /\ ~e.running /\ e.stdin = <<>> /\ e.mode = "none" /\ ~e.active /\ ~e.runRequested
        /\ e.signal = 0 /\ e.attach = 0 /\ e.detach = 0 /\ e.coreExecutable = 0 /\ e.coreTarget = 0
        /\ e.numbers = <<>> /\ e.breakpoints = {} /\ e.commands = {} /\ e.watches = {}
        /\ e.output = c.output /\ e.token = c.token /\ e.desired = d /\ ~e.detaching
        /\ e.detachConfirmed = confirmed
    <2>1. MapOf(<<>>, DOMAIN d, Nat)  BY <1>6 DEF MapOf
    <2>2. c.output \in Seq(RecordSet(g.stops)) /\ c.token \in Nat  BY <1>1, WireTypes
    <2>3. g.stops \in Nat  BY Empty
    <2> DEFINE i == IdleClient
    <2>4. ClientTyped(i, g.stops) /\ i.numbers = <<>>  BY <2>3, IdleFields
    <2>5. e = [i EXCEPT !.output = c.output, !.token = c.token, !.detachConfirmed = confirmed,
                        !.desired = d]
      BY <1>3
    <2> HIDE DEF e, i
    <2>6. MapOf(i.numbers, DOMAIN d, Nat)  BY <2>1, <2>4
    <2>7. ClientTyped(e, g.stops)
      BY ONLY <1>4, <2>2, <2>4, <2>5, <2>6, confirmed \in BOOLEAN DEF ClientTyped
    <2>8. /\ e.running = i.running /\ e.stdin = i.stdin /\ e.mode = i.mode /\ e.active = i.active
          /\ e.runRequested = i.runRequested /\ e.signal = i.signal /\ e.attach = i.attach
          /\ e.detach = i.detach /\ e.coreExecutable = i.coreExecutable
          /\ e.coreTarget = i.coreTarget /\ e.numbers = i.numbers
          /\ e.breakpoints = i.breakpoints /\ e.commands = i.commands /\ e.watches = i.watches
          /\ e.output = c.output /\ e.token = c.token /\ e.desired = d
          /\ e.detaching = i.detaching /\ e.detachConfirmed = confirmed
      BY ONLY <2>4, <2>5 DEF ClientTyped
    <2>9. /\ ~i.running /\ i.stdin = <<>> /\ i.mode = "none"
          /\ ~i.active /\ ~i.runRequested /\ i.signal = 0
          /\ i.attach = 0 /\ i.detach = 0 /\ i.coreExecutable = 0
          /\ i.coreTarget = 0 /\ i.numbers = <<>> /\ i.breakpoints = {}
          /\ i.commands = {} /\ i.watches = {} /\ ~i.detaching
      BY <2>3, IdleFields, Zenon DEF i
    <2> QED BY ONLY <2>7, <2>8, <2>9, Zenon
  <1>7. ClientTyped(e, g.stops)  BY <1>5
  <1> HIDE DEF e, h
  <1>8. Wired(e)  BY <1>1, <1>5, <1>6 DEF Wired
  <1>9. Tracked(e)
    <2>1. \A t \in Others(e) : t = 0  BY <1>5 DEF Others
    <2>2. 0 < e.token  BY <1>1, <1>5 DEF Wired
    <2> QED BY <1>5, <2>1, <2>2 DEF Tracked
  <1>10. InSession(e)  BY <1>5, <1>6 DEF InSession
  <1>11. Sound(e, h)  BY <1>2, <1>5, <1>7, <1>8, <1>9, <1>10 DEF Sound, SoundFor
  <1> QED BY <1>5, <1>11 DEF e, h

\* stop() asks to let the attached program go, or forgets the session.
LEMMA StopSound ==
  ASSUME NEW g, NEW c, Sound(c, g), ~c.detaching
  PROVE  LET e == Stop(c) IN
         IF c.running /\ c.mode = "attach" /\ (c.active \/ c.attach # 0)
         THEN Sound(e, g) /\ e.detaching /\ e.running
         ELSE /\ Sound(e, Fresh(g)) /\ ~e.detaching /\ ~e.running
              /\ c.running /\ c.mode = "attach" => g.program = "none"
  <1> DEFINE K == DOMAIN c.desired
  <1>1. SoundFor(c, g, K)  BY DEF Sound
  <1> HIDE DEF K
  <1>2. Base(c, g, K) /\ (c.running /\ c.mode = "attach" => Attached(c, g))  BY <1>1, SoundParts
  <1>3. CASE ~(c.running /\ c.mode = "attach" /\ (c.active \/ c.attach # 0))
    <2>1. Stop(c) = Reset([c EXCEPT !.detachConfirmed = TRUE])  BY <1>3 DEF Stop
    <2>2. PICK confirmed \in BOOLEAN : confirmed = TRUE  OBVIOUS
    <2> DEFINE e == Reset([c EXCEPT !.detachConfirmed = confirmed])
    <2>3. Sound(e, Fresh(g)) /\ ~e.running /\ ~e.detaching
      <3> HIDE DEF e
      <3> QED BY <1>1, ResetSound DEF e
    <2>4. Stop(c) = e  BY <2>1, <2>2
    <2> HIDE DEF e
    <2>5. c.running /\ c.mode = "attach" => g.program = "none"
      BY <1>2, <1>3 DEF Attached, Over
    <2> QED BY <1>3, <2>3, <2>4, <2>5
  <1>4. CASE c.running /\ c.mode = "attach" /\ (c.active \/ c.attach # 0)
    <2>1. PICK log \in BOOLEAN : log = FALSE  OBVIOUS
    <2>2. "detach" \in Ops /\ "none" \in Keys \union {"none"} /\ 0 \in Nat  BY DEF Ops
    <2> DEFINE m == Message(c.token, "detach", "none", 0, log)
               x == CommandOn(c, "detach", "none", 0, log)
               e == [x EXCEPT !.detach = c.token, !.detachConfirmed = FALSE, !.detaching = TRUE]
    <2>3. Stop(c) = e  BY <1>4, <2>1 DEF Stop, Command
    <2>4. Allowed(c, g, m)  BY <1>4 DEF Allowed, MaySend, Message
    <2>5. m.token = c.token /\ m.op = "detach" /\ m.op # "attach"  BY DEF Message
    <2>6. /\ Base(x, g, K) /\ Same(c, x) /\ x.token = c.token + 1 /\ x.output = c.output
          /\ m \in MessageSet /\ x.stdin = Sent(c, m)
      <3> HIDE DEF x, m
      <3> QED BY <1>2, <2>2, <2>4, Sending DEF x, m
    <2> HIDE DEF x, m
    <2>7. ClientTyped(x, g.stops) /\ InSession(x)  BY <2>6 DEF Base
    <2>8. c.token \in Nat \ {0} /\ c.token < x.token /\ \A p \in x.breakpoints : p.token # c.token
      BY <1>1, <2>6, Newest
    <2>9. /\ e.running = x.running /\ e.mode = x.mode /\ e.token = x.token /\ e.stdin = x.stdin
          /\ e.output = x.output /\ e.breakpoints = x.breakpoints /\ e.numbers = x.numbers
          /\ e.desired = x.desired /\ e.attach = x.attach /\ e.detach = c.token
          /\ e.detaching = TRUE /\ e.detachConfirmed = FALSE
          /\ e.active = x.active /\ e.runRequested = x.runRequested /\ e.commands = x.commands
          /\ e.signal = x.signal /\ e.coreExecutable = x.coreExecutable
          /\ e.coreTarget = x.coreTarget /\ e.watches = x.watches
      BY <2>7 DEF ClientTyped
    <2>10. ClientTyped(e, g.stops)  BY <2>7, <2>8 DEF ClientTyped
    <2> HIDE DEF e
    <2>11. e.running /\ e.mode = "attach" /\ x.mode = "attach"  BY <1>4, <2>6, <2>9 DEF Same
    <2>12. Base(e, g, K)
      <3>1. \A t \in Others(e) : t \in Others(x) \/ (t < x.token /\ \A p \in x.breakpoints : p.token # t)
        BY <2>8, <2>9 DEF Others
      <3>2. x.running /\ x.mode # "core" => Booked(e, g, K)
        <4>1. x.running /\ x.mode # "core" => Booked(x, g, K)  BY <2>6 DEF Base
        <4> QED BY <2>9, <4>1, BookedSame
      <3>3. /\ e.running = x.running /\ e.mode = x.mode /\ e.token = x.token /\ e.stdin = x.stdin
            /\ e.output = x.output /\ e.breakpoints \subseteq x.breakpoints
            /\ e.detaching => x.mode = "attach"
            /\ e.runRequested => x.mode = "launch"
            /\ x.mode = "core" => DOMAIN e.numbers = {} /\ e.commands = {} /\ e.signal = 0
            /\ x.mode # "core" => e.coreExecutable = 0 /\ e.coreTarget = 0
        BY <2>7, <2>9, <2>11 DEF InSession
      <3> QED BY <2>6, <2>10, <3>1, <3>2, <3>3, Changing
    <2>13. Attached(e, g)
      <3>1. Attached(c, g)  BY <1>2, <1>4
      <3>2. e.stdin = Append(c.stdin, m)  BY <1>4, <2>6, <2>9 DEF Sent
      <3>3. /\ e.output = c.output /\ e.attach = c.attach /\ e.active = c.active
            /\ e.detach = m.token /\ ~e.detachConfirmed
        BY <2>5, <2>6, <2>9 DEF Same
      <3> QED BY <1>2, <2>5, <2>6, <3>1, <3>2, <3>3, AttachedSend
    <2>14. K = DOMAIN e.desired  BY <2>6, <2>9 DEF Same, K
    <2>15. Sound(e, g)  BY <2>12, <2>13, <2>14, SoundParts DEF Sound
    <2> QED BY <1>4, <2>3, <2>9, <2>11, <2>15
  <1> QED BY <1>3, <1>4

----------------------------------------------------------------------------
(* poll(): the records that are about the program *)

\* What the record says that is handled.
LEMMA IncomingTyped ==
  ASSUME Sound(client, gdb), client.output # <<>>
  PROVE  /\ Incoming \in RecordSet(gdb.stops) /\ Incoming.token \in Nat /\ Incoming.number \in Nat
         /\ Incoming.stop \in 0..gdb.stops /\ Incoming.frame \in Nat
         /\ Incoming = client.output[1] /\ 1 \in 1..Len(client.output)
         /\ \A i \in 1..Len(client.stdin) : Incoming.token # client.stdin[i].token
  <1>1. ClientTyped(client, gdb.stops) /\ Wired(client)  BY DEF Sound, SoundFor
  <1>2. client.output \in Seq(RecordSet(gdb.stops))  BY <1>1, WireTypes
  <1>3. Incoming \in RecordSet(gdb.stops) /\ Incoming = client.output[1] /\ 1 \in 1..Len(client.output)
    BY <1>2, Taken DEF Incoming
  <1>4. /\ Incoming.token \in Nat /\ Incoming.number \in Nat
        /\ Incoming.stop \in 0..gdb.stops /\ Incoming.frame \in Nat
    BY <1>3 DEF RecordSet
  <1>5. \A i \in 1..Len(client.stdin) : client.stdin[i].token \in Nat  BY <1>1, WireTypes
  <1>6. \A i \in 1..Len(client.stdin) : Incoming.token < client.stdin[i].token
    BY <1>1, <1>3 DEF Wired
  <1>7. \A i \in 1..Len(client.stdin) : Incoming.token # client.stdin[i].token
    BY <1>4, <1>5, <1>6
  <1> QED BY <1>3, <1>4, <1>7

\* A token that is waited for otherwise answers no insertion.
LEMMA Foreign ==
  ASSUME Sound(client, gdb), NEW t \in Others(client), Incoming.token = t
  PROVE  \A p \in client.breakpoints : ~Answer(Incoming, p)
  BY DEF Sound, SoundFor, Tracked, Answer

\* A record that answers no insertion is put aside.
LEMMA RestSound ==
  ASSUME Sound(client, gdb), client.output # <<>>,
         \A p \in client.breakpoints : ~Answer(Incoming, p)
  PROVE  /\ Sound(Rest, gdb) /\ Same(client, Rest) /\ Rest.token = client.token
         /\ Rest.stdin = client.stdin /\ Rest.output = Tail(client.output)
         /\ ClientTyped(Rest, gdb.stops) /\ Rest.desired = client.desired
  <1> DEFINE K == DOMAIN client.desired
  <1>1. SoundFor(client, gdb, K)  BY DEF Sound
  <1> HIDE DEF K
  <1>2. /\ Base(client, gdb, K)
        /\ client.running /\ client.mode = "attach" => Attached(client, gdb)
    BY <1>1, SoundParts
  <1>3. ClientTyped(client, gdb.stops)  BY <1>2 DEF Base
  <1>4. Tail(client.output) \in Seq(RecordSet(gdb.stops))  BY <1>3, Taken, WireTypes
  <1>5. Rest = [client EXCEPT !.output = Tail(client.output)]  BY <1>3 DEF Rest, ClientTyped
  <1>6. ClientTyped(Rest, gdb.stops)
    <2> DEFINE q == Tail(client.output)
    <2> HIDE DEF q
    <2> QED BY <1>3, <1>4, <1>5 DEF ClientTyped, q
  <1>7. /\ Same(client, Rest) /\ Rest.token = client.token
        /\ Rest.stdin = client.stdin /\ Rest.output = Tail(client.output)
    BY <1>3, <1>5 DEF ClientTyped, Same
  <1>8. \A p \in client.breakpoints : ~Answer(Head(client.output), p)  BY DEF Incoming
  <1> DEFINE r == Rest
  <1> HIDE DEF r
  <1>9. /\ ClientTyped(r, gdb.stops) /\ Same(client, r) /\ r.token = client.token
        /\ r.stdin = client.stdin /\ r.output = Tail(client.output)
    BY <1>6, <1>7 DEF r
  <1>10. Base(r, gdb, K)  BY <1>2, <1>8, <1>9, Resting
  <1>11. r.running /\ r.mode = "attach" => Attached(r, gdb)
    <2>1. /\ r.attach = client.attach /\ r.detach = client.detach /\ r.detaching = client.detaching
          /\ r.detachConfirmed = client.detachConfirmed /\ r.active = client.active
          /\ r.running = client.running /\ r.mode = client.mode
      BY <1>9 DEF Same
    <2> QED BY <1>2, <1>9, <2>1, AttachedRest
  <1>12. SoundFor(r, gdb, K) /\ r.desired = client.desired  BY <1>9, <1>10, <1>11, SoundParts DEF Same
  <1>13. Sound(r, gdb)  BY <1>12 DEF Sound, K
  <1> QED BY <1>9, <1>12, <1>13 DEF r

\* A record about the program itself, or for a panel.
LEMMA RestOfOutput ==
  ASSUME Sound(client, gdb), NEW kinds, Has(kinds), "done" \notin kinds, "error" \notin kinds
  PROVE  /\ Sound(Rest, gdb) /\ Same(client, Rest) /\ ClientTyped(Rest, gdb.stops)
         /\ Incoming.kind \in kinds /\ client.output # <<>>
  <1>1. \A p \in client.breakpoints : ~Answer(Incoming, p)  BY DEF Has, Answer
  <1>2. client.output # <<>> /\ Incoming.kind \in kinds  BY DEF Has
  <1> QED BY <1>1, <1>2, RestSound

\* The answer to a command of which no breakpoint depends.
LEMMA RestOfAnswer ==
  ASSUME Sound(client, gdb), NEW t \in Others(client), Answers(t)
  PROVE  /\ Sound(Rest, gdb) /\ Same(client, Rest) /\ ClientTyped(Rest, gdb.stops)
         /\ client.output # <<>> /\ Incoming.token = t /\ t # 0
         /\ Incoming.kind \in {"done", "error"}
  <1>1. client.output # <<>> /\ Incoming.token = t /\ t # 0 /\ Incoming.kind \in {"done", "error"}
    BY DEF Answers, Has
  <1>2. \A p \in client.breakpoints : ~Answer(Incoming, p)  BY <1>1, Foreign
  <1> QED BY <1>1, <1>2, RestSound

\* The panels and the state of the program change.
LEMMA SoundShowing ==
  ASSUME NEW g, NEW c, Sound(c, g), NEW e, ClientTyped(e, g.stops), Shows(c, e),
         e.active \/ e.active = c.active, e.watches \subseteq c.watches
  PROVE  Sound(e, g)
  <1> DEFINE K == DOMAIN c.desired
  <1>1. SoundFor(c, g, K)  BY DEF Sound
  <1>2. K = DOMAIN e.desired  BY DEF Shows
  <1> HIDE DEF K
  <1>3. SoundFor(e, g, K)  BY <1>1, Showing
  <1> QED BY <1>2, <1>3 DEF Sound

\* The panels are asked for.
LEMMA SoundRefreshState ==
  ASSUME NEW g, NEW c, Sound(c, g)
  PROVE  Sound(RefreshState(c), g)
  <1> DEFINE K == DOMAIN c.desired
  <1>1. SoundFor(c, g, K)  BY DEF Sound
  <1> HIDE DEF K
  <1>2. SoundFor(RefreshState(c), g, K) /\ RefreshState(c).desired = c.desired
    BY <1>1, RefreshStateSound
  <1> QED BY <1>2 DEF Sound, K

\* The program stopped: its panels are asked for.
LEMMA HandleStoppedSound ==
  ASSUME Sound(client, gdb), HandleStopped
  PROVE  Sound(client', gdb')
  <1> DEFINE r == Rest
             e == [r EXCEPT !.active = TRUE, !.stopped = TRUE, !.exited = FALSE, !.selected = 0]
  <1>1. Sound(r, gdb) /\ ClientTyped(r, gdb.stops)  BY RestOfOutput DEF HandleStopped
  <1>2. client' = RefreshState(e) /\ gdb' = gdb  BY DEF HandleStopped, Handles
  <1> HIDE DEF r
  <1>3. ClientTyped(e, gdb.stops) /\ Shows(r, e) /\ e.active /\ e.watches = r.watches
    BY <1>1 DEF ClientTyped, Shows
  <1> HIDE DEF e
  <1>4. Sound(e, gdb)  BY <1>1, <1>3, SoundShowing
  <1> QED BY <1>2, <1>4, SoundRefreshState

\* The program goes on.
LEMMA HandleRunningSound ==
  ASSUME Sound(client, gdb), HandleRunning
  PROVE  Sound(client', gdb')
  <1> DEFINE r == Rest
             e == [r EXCEPT !.active = TRUE, !.stopped = FALSE, !.exited = FALSE]
  <1>1. Sound(r, gdb) /\ ClientTyped(r, gdb.stops)  BY RestOfOutput DEF HandleRunning
  <1>2. client' = e /\ gdb' = gdb  BY DEF HandleRunning, Handles
  <1> HIDE DEF r
  <1>3. ClientTyped(e, gdb.stops) /\ Shows(r, e) /\ e.active /\ e.watches = r.watches
    BY <1>1 DEF ClientTyped, Shows
  <1> HIDE DEF e
  <1> QED BY <1>1, <1>2, <1>3, SoundShowing

\* The panels show what gdb says.
LEMMA HandleStackSound ==
  ASSUME Sound(client, gdb), HandleStack
  PROVE  Sound(client', gdb')
  <1> DEFINE r == Rest
             e == [r EXCEPT !.frames = Incoming.stop]
  <1>1. Sound(r, gdb) /\ ClientTyped(r, gdb.stops) /\ client.output # <<>>
    BY RestOfOutput DEF HandleStack
  <1>2. client' = e /\ gdb' = gdb  BY DEF HandleStack, Handles
  <1>3. Incoming.stop \in 0..gdb.stops  BY <1>1, IncomingTyped
  <1> HIDE DEF r
  <1>4. ClientTyped(e, gdb.stops) /\ Shows(r, e) /\ e.active = r.active /\ e.watches = r.watches
    BY <1>1, <1>3 DEF ClientTyped, Shows
  <1> HIDE DEF e
  <1> QED BY <1>1, <1>2, <1>4, SoundShowing

\* The variables too.
LEMMA HandleVariablesSound ==
  ASSUME Sound(client, gdb), HandleVariables
  PROVE  Sound(client', gdb')
  <1> DEFINE r == Rest
             v == <<Incoming.stop, Incoming.frame>>
             e == [r EXCEPT !.variables = v]
  <1>1. Sound(r, gdb) /\ ClientTyped(r, gdb.stops) /\ client.output # <<>>
    BY RestOfOutput DEF HandleVariables
  <1>2. client' = e /\ gdb' = gdb  BY DEF HandleVariables, Handles
  <1> HIDE DEF r, v
  <1>3. ClientTyped(e, gdb.stops) /\ Shows(r, e) /\ e.active = r.active /\ e.watches = r.watches
    BY <1>1 DEF ClientTyped, Shows
  <1> HIDE DEF e
  <1> QED BY <1>1, <1>2, <1>3, SoundShowing

\* A watch is shown once.
LEMMA HandleWatchSound ==
  ASSUME Sound(client, gdb), HandleWatch
  PROVE  Sound(client', gdb')
  <1>1. PICK t \in client.watches :
          /\ Answers(t)
          /\ Handles([Rest EXCEPT !.watches = @ \ {t}, !.watch = Incoming.stop])
    BY DEF HandleWatch
  <1>2. t \in Others(client)  BY DEF Others
  <1> DEFINE r == Rest
             e == [r EXCEPT !.watches = @ \ {t}, !.watch = Incoming.stop]
  <1>3. Sound(r, gdb) /\ ClientTyped(r, gdb.stops) /\ client.output # <<>>
    BY <1>1, <1>2, RestOfAnswer
  <1>4. client' = e /\ gdb' = gdb  BY <1>1 DEF Handles
  <1>5. Incoming.stop \in 0..gdb.stops  BY <1>3, IncomingTyped
  <1> HIDE DEF r
  <1>6. r.watches \ {t} \in SUBSET Nat  BY <1>3 DEF ClientTyped
  <1>7. ClientTyped(e, gdb.stops) /\ Shows(r, e) /\ e.active = r.active /\ e.watches \subseteq r.watches
    BY <1>3, <1>5, <1>6 DEF ClientTyped, Shows
  <1> HIDE DEF e
  <1> QED BY <1>3, <1>4, <1>7, SoundShowing

\* Any other answer is ignored.
LEMMA HandleOtherSound ==
  ASSUME Sound(client, gdb), HandleOther
  PROVE  Sound(client', gdb')
  <1>1. client.output # <<>>  BY DEF HandleOther, Has
  <1>2. \A p \in client.breakpoints : ~Answer(Incoming, p)  BY DEF HandleOther, Awaited, Answer
  <1> QED BY <1>1, <1>2, RestSound DEF HandleOther, Handles

\* What the handling of a record may change of an attached program.
LEMMA SoundAttached ==
  ASSUME NEW g, NEW c, Sound(c, g), NEW e, ClientTyped(e, g.stops),
         e.running = c.running, e.mode = c.mode, e.token = c.token, e.stdin = c.stdin,
         e.output = c.output, e.breakpoints = c.breakpoints, e.numbers = c.numbers,
         e.desired = c.desired, e.commands = c.commands, e.runRequested = c.runRequested,
         e.detaching = c.detaching, Others(e) \subseteq Others(c) \union {0},
         e.signal \in {c.signal, 0}, e.coreExecutable \in {c.coreExecutable, 0},
         e.coreTarget \in {c.coreTarget, 0}, e.running /\ e.mode = "attach" => Attached(e, g)
  PROVE  Sound(e, g)
  <1> DEFINE K == DOMAIN c.desired
  <1>1. Base(c, g, K)  BY SoundParts DEF Sound
  <1>2. K = DOMAIN e.desired  OBVIOUS
  <1> HIDE DEF K
  <1>3. ClientTyped(c, g.stops) /\ InSession(c) /\ Tracked(c) /\ Wired(c)  BY <1>1 DEF Base
  <1>4. c.running /\ c.mode # "core" => Booked(e, g, K)
    <2>1. c.running /\ c.mode # "core" => Booked(c, g, K)  BY <1>1 DEF Base
    <2> QED BY <2>1, BookedSame
  <1>5. \A t \in Others(e) : t \in Others(c) \/ (t < c.token /\ \A p \in c.breakpoints : p.token # t)
    <2>1. 0 < c.token /\ \A p \in c.breakpoints : 0 < p.token /\ p.token \in Nat
      BY <1>3, WireTypes DEF Wired, Tracked
    <2> QED BY <2>1
  <1>6. /\ e.breakpoints \subseteq c.breakpoints
        /\ e.detaching => c.mode = "attach"
        /\ e.runRequested => c.mode = "launch"
        /\ c.mode = "core" => DOMAIN e.numbers = {} /\ e.commands = {} /\ e.signal = 0
        /\ c.mode # "core" => e.coreExecutable = 0 /\ e.coreTarget = 0
    BY <1>3 DEF InSession
  <1>7. Base(e, g, K)  BY <1>1, <1>4, <1>5, <1>6, Changing
  <1> QED BY <1>2, <1>7, SoundParts DEF Sound

\* The program is gone, and a program that was attached is known to be.
LEMMA HandleExitedSound ==
  ASSUME Sound(client, gdb), HandleExited
  PROVE  Sound(client', gdb')
  <1> DEFINE r == Rest
             e == [r EXCEPT !.active = FALSE, !.stopped = FALSE, !.exited = TRUE, !.selected = 0,
                            !.frames = 0, !.variables = Nothing, !.watches = {}, !.watch = 0]
  <1>1. /\ Sound(r, gdb) /\ Same(client, r) /\ ClientTyped(r, gdb.stops)
        /\ Incoming.kind = "exited" /\ client.output # <<>>
        /\ r.stdin = client.stdin
    <2>1. r.stdin = client.stdin  BY DEF Rest, Sound, SoundFor, ClientTyped
    <2>2. Has({"exited"})  BY DEF HandleExited
    <2> HIDE DEF r
    <2> QED BY <2>1, <2>2, RestOfOutput DEF r
  <1>2. client' = e /\ gdb' = gdb  BY DEF HandleExited, Handles
  <1>3. client.running /\ client.mode = "attach" /\ client.attach = 0 => Over(client, gdb)
    <2>1. client.running /\ client.mode = "attach" => Attached(client, gdb)  BY DEF Sound, SoundFor
    <2>2. Incoming = client.output[1] /\ 1 \in 1..Len(client.output)  BY <1>1, IncomingTyped
    <2> QED BY <1>1, <2>1, <2>2 DEF Attached
  <1> HIDE DEF r
  <1>4. 0 \in 0..gdb.stops
    <2>1. gdb.stops \in Nat  BY Constants DEF Sound, SoundFor, GdbTyped
    <2> QED BY <2>1
  <1>5. ClientTyped(e, gdb.stops)  BY <1>1, <1>4 DEF ClientTyped
  <1>6. /\ e.running = r.running /\ e.mode = r.mode /\ e.token = r.token /\ e.stdin = r.stdin
        /\ e.output = r.output /\ e.breakpoints = r.breakpoints /\ e.numbers = r.numbers
        /\ e.desired = r.desired /\ e.commands = r.commands /\ e.runRequested = r.runRequested
        /\ e.detaching = r.detaching /\ e.signal = r.signal /\ e.attach = r.attach
        /\ e.detach = r.detach /\ e.coreExecutable = r.coreExecutable
        /\ e.coreTarget = r.coreTarget /\ e.detachConfirmed = r.detachConfirmed
        /\ e.watches = {} /\ ~e.active
    BY <1>1 DEF ClientTyped
  <1> HIDE DEF e
  <1>7. Others(e) \subseteq Others(r) \union {0}  BY <1>6 DEF Others
  <1>8. ASSUME e.running, e.mode = "attach" PROVE Attached(e, gdb)
    <2>1. Attached(r, gdb)  BY <1>1, <1>6, <1>8 DEF Sound, SoundFor
    <2>2. e.attach = 0 => Over(e, gdb)  BY <1>1, <1>3, <1>6, <1>8 DEF Same, Over
    <2>3. Over(r, gdb) <=> Over(e, gdb)  BY <1>6 DEF Over
    <2> QED BY <1>6, <2>1, <2>2, <2>3 DEF Attached
  <1>9. Sound(e, gdb)  BY <1>1, <1>5, <1>6, <1>7, <1>8, SoundAttached
  <1> QED BY <1>2, <1>9

\* The fields of a client that is not attached, nor loaded, any more.
LEMMA NotLoadedFields ==
  ASSUME NEW stops, NEW c, ClientTyped(c, stops)
  PROVE  LET e == NotLoaded(c) IN
         ClientTyped(e, stops) /\ Shows(c, e) /\ ~e.active /\ e.watches = c.watches
  BY DEF NotLoaded, ClientTyped, Shows

\* The program is there, stopped: its panels are asked for.
LEMMA LoadedSound ==
  ASSUME NEW g, NEW c, Sound(c, g)
  PROVE  Sound(Loaded(c), g)
  <1> DEFINE e == [c EXCEPT !.active = TRUE, !.stopped = TRUE, !.exited = FALSE]
  <1>1. ClientTyped(c, g.stops)  BY DEF Sound, SoundFor
  <1>2. ClientTyped(e, g.stops) /\ Shows(c, e) /\ e.active /\ e.watches = c.watches
    BY <1>1 DEF ClientTyped, Shows
  <1> HIDE DEF e
  <1>3. Sound(e, g)  BY <1>2, SoundShowing
  <1>4. Sound(RefreshState(e), g)  BY <1>3, SoundRefreshState
  <1> QED BY <1>4 DEF Loaded, e

\* The answer to attach: the program is there, or is not.
LEMMA HandleAttachSound ==
  ASSUME Sound(client, gdb), HandleAttach
  PROVE  Sound(client', gdb')
  <1> DEFINE r == Rest
             a == [r EXCEPT !.attach = 0]
             d == [a EXCEPT !.active = TRUE]
             n == NotLoaded(a)
  <1>1. Answers(client.attach) /\ client.attach \in Others(client)  BY DEF HandleAttach, Others
  <1>2. /\ Sound(r, gdb) /\ Same(client, r) /\ ClientTyped(r, gdb.stops)
        /\ client.output # <<>> /\ Incoming.token = client.attach /\ client.attach # 0
        /\ Incoming.kind \in {"done", "error"}
    BY <1>1, RestOfAnswer
  <1>3. r.output = Tail(client.output) /\ r.stdin = client.stdin
    BY DEF Rest, Sound, SoundFor, ClientTyped
  <1>4. /\ client' = IF Incoming.kind = "done" THEN Loaded(a) ELSE n
        /\ gdb' = gdb
    BY DEF HandleAttach, Handles, Accepted
  <1> HIDE DEF r
  <1>5. /\ a.running = r.running /\ a.mode = r.mode /\ a.token = r.token /\ a.stdin = r.stdin
        /\ a.output = r.output /\ a.breakpoints = r.breakpoints /\ a.numbers = r.numbers
        /\ a.desired = r.desired /\ a.commands = r.commands /\ a.runRequested = r.runRequested
        /\ a.detaching = r.detaching /\ a.signal = r.signal /\ a.attach = 0
        /\ a.detach = r.detach /\ a.coreExecutable = r.coreExecutable
        /\ a.coreTarget = r.coreTarget /\ a.detachConfirmed = r.detachConfirmed
        /\ a.watches = r.watches /\ a.active = r.active
    BY <1>2 DEF ClientTyped
  <1>6. ClientTyped(a, gdb.stops)  BY <1>2 DEF ClientTyped
  <1> HIDE DEF a
  <1>7. Loaded(a) = Loaded(d)  BY <1>6 DEF Loaded, ClientTyped
  <1>8. /\ ClientTyped(d, gdb.stops) /\ Shows(a, d) /\ d.active /\ d.watches = a.watches
    BY <1>6 DEF ClientTyped, Shows
  <1>9. /\ ClientTyped(n, gdb.stops) /\ Shows(a, n) /\ ~n.active /\ n.watches = a.watches
    BY <1>6, NotLoadedFields
  <1> HIDE DEF d, n
  <1>10. ASSUME client.running, client.mode = "attach"
         PROVE  /\ Attached(r, gdb)
                /\ Incoming.kind = "error" => Over(client, gdb)
                /\ Incoming.kind = "done" =>
                     \A i \in 1..Len(r.output) : r.output[i].kind = "exited" => Over(client, gdb)
                /\ \A i \in 1..Len(r.stdin) : r.stdin[i].op # "attach" /\ r.stdin[i].token # 0
    <2>1. Attached(client, gdb)  BY <1>10 DEF Sound, SoundFor
    <2>2. Attached(r, gdb)  BY <1>2, <1>10 DEF Sound, SoundFor, Same
    <2>3. /\ Incoming = client.output[1] /\ 1 \in 1..Len(client.output)
          /\ \A i \in 1..Len(client.stdin) : Incoming.token # client.stdin[i].token
      BY <1>2, IncomingTyped
    <2>4. Incoming.kind = "error" => Over(client, gdb)  BY <1>2, <2>1, <2>3 DEF Attached
    <2>5. ASSUME Incoming.kind = "done", NEW i \in 1..Len(r.output), r.output[i].kind = "exited"
          PROVE  Over(client, gdb)
      <3>1. client.output \in Seq(RecordSet(gdb.stops))  BY WireTypes DEF Sound, SoundFor
      <3>2. r.output[i] = client.output[i + 1] /\ i + 1 \in 1..Len(client.output) /\ 1 < i + 1
        BY <1>2, <1>3, <2>5, <3>1, Taken
      <3> QED BY <1>2, <2>1, <2>3, <2>5, <3>2 DEF Attached
    <2>6. \A i \in 1..Len(r.stdin) : r.stdin[i].op # "attach"
      BY <1>2, <1>3, <2>1, <2>3 DEF Attached
    <2>7. \A i \in 1..Len(r.stdin) : r.stdin[i].token # 0
      <3>1. \A i \in 1..Len(client.stdin) : 0 < client.stdin[i].token /\ client.stdin[i].token \in Nat
        BY WireTypes DEF Sound, SoundFor, Wired
      <3> QED BY <1>3, <3>1
    <2> QED BY <2>2, <2>4, <2>5, <2>6, <2>7
  <1>11. /\ client.running = r.running /\ client.mode = r.mode
         /\ Over(client, gdb) <=> Over(r, gdb)
    BY <1>2, <1>3 DEF Same, Over
  <1>12. r.detach \in Nat  BY <1>2 DEF ClientTyped
  <1>13. CASE Incoming.kind = "done"
    <2>1. ASSUME d.running, d.mode = "attach" PROVE Attached(d, gdb)
      <3>1. client.running /\ client.mode = "attach"  BY <1>5, <1>8, <1>11, <2>1 DEF Shows
      <3>2. Over(r, gdb) <=> Over(d, gdb)  BY <1>5, <1>8 DEF Over, Shows
      <3>3. /\ d.attach = 0 /\ d.detach = r.detach /\ d.stdin = r.stdin /\ d.output = r.output
            /\ d.detaching = r.detaching /\ d.detachConfirmed = r.detachConfirmed
        BY <1>5, <1>8 DEF Shows
      <3>4. d.detach # 0 => 0 < d.detach  BY <1>12, <3>3
      <3> QED BY <1>8, <1>10, <1>11, <1>13, <3>1, <3>2, <3>3, <3>4 DEF Attached
    <2>2. Others(d) \subseteq Others(r) \union {0}  BY <1>5, <1>8 DEF Others, Shows
    <2>3. Sound(d, gdb)  BY <1>2, <1>5, <1>8, <2>1, <2>2, SoundAttached DEF Shows
    <2>4. Sound(Loaded(d), gdb)  BY <2>3, LoadedSound
    <2> QED BY <1>4, <1>7, <1>13, <2>4
  <1>14. CASE Incoming.kind = "error"
    <2>1. ASSUME n.running, n.mode = "attach" PROVE Attached(n, gdb)
      <3>1. client.running /\ client.mode = "attach"  BY <1>5, <1>9, <1>11, <2>1 DEF Shows
      <3>2. Over(r, gdb) <=> Over(n, gdb)  BY <1>5, <1>9 DEF Over, Shows
      <3>3. /\ n.attach = 0 /\ n.detach = r.detach /\ n.stdin = r.stdin /\ n.output = r.output
            /\ n.detaching = r.detaching /\ n.detachConfirmed = r.detachConfirmed
        BY <1>5, <1>9 DEF Shows
      <3>4. n.detach # 0 => 0 < n.detach  BY <1>12, <3>3
      <3>5. Over(n, gdb)  BY <1>10, <1>11, <1>14, <3>1, <3>2
      <3> QED BY <1>10, <3>1, <3>3, <3>4, <3>5 DEF Attached
    <2>2. Others(n) \subseteq Others(r) \union {0}  BY <1>5, <1>9 DEF Others, Shows
    <2>3. Sound(n, gdb)  BY <1>2, <1>5, <1>9, <2>1, <2>2, SoundAttached DEF Shows
    <2> QED BY <1>4, <1>14, <2>3
  <1> QED BY <1>2, <1>13, <1>14

\* The answer to detach: an accepted one says that the program is gone.
LEMMA HandleDetachSound ==
  ASSUME Sound(client, gdb), HandleDetach
  PROVE  Sound(client', gdb')
  <1> DEFINE r == Rest
             a == [r EXCEPT !.detach = 0]
             d == [a EXCEPT !.detachConfirmed = TRUE, !.active = FALSE, !.stopped = FALSE,
                            !.exited = FALSE]
  <1>1. Answers(client.detach) /\ client.detach \in Others(client)  BY DEF HandleDetach, Others
  <1>2. /\ Sound(r, gdb) /\ Same(client, r) /\ ClientTyped(r, gdb.stops)
        /\ client.output # <<>> /\ Incoming.token = client.detach /\ client.detach # 0
        /\ Incoming.kind \in {"done", "error"}
    BY <1>1, RestOfAnswer
  <1>3. r.output = Tail(client.output) /\ r.stdin = client.stdin
    BY DEF Rest, Sound, SoundFor, ClientTyped
  <1>4. /\ client' = IF Incoming.kind = "done" THEN d ELSE a
        /\ gdb' = gdb
    BY DEF HandleDetach, Handles, Accepted
  <1> HIDE DEF r
  <1>5. /\ a.running = r.running /\ a.mode = r.mode /\ a.token = r.token /\ a.stdin = r.stdin
        /\ a.output = r.output /\ a.breakpoints = r.breakpoints /\ a.numbers = r.numbers
        /\ a.desired = r.desired /\ a.commands = r.commands /\ a.runRequested = r.runRequested
        /\ a.detaching = r.detaching /\ a.signal = r.signal /\ a.attach = r.attach
        /\ a.detach = 0 /\ a.coreExecutable = r.coreExecutable
        /\ a.coreTarget = r.coreTarget /\ a.detachConfirmed = r.detachConfirmed
        /\ a.watches = r.watches /\ a.active = r.active
    BY <1>2 DEF ClientTyped
  <1>6. ClientTyped(a, gdb.stops)  BY <1>2 DEF ClientTyped
  <1> HIDE DEF a
  <1>7. /\ d.running = r.running /\ d.mode = r.mode /\ d.token = r.token /\ d.stdin = r.stdin
        /\ d.output = r.output /\ d.breakpoints = r.breakpoints /\ d.numbers = r.numbers
        /\ d.desired = r.desired /\ d.commands = r.commands /\ d.runRequested = r.runRequested
        /\ d.detaching = r.detaching /\ d.signal = r.signal /\ d.attach = r.attach
        /\ d.detach = 0 /\ d.coreExecutable = r.coreExecutable
        /\ d.coreTarget = r.coreTarget /\ d.watches = r.watches
    BY <1>5, <1>6 DEF ClientTyped
  <1>8. ClientTyped(d, gdb.stops)  BY <1>6 DEF ClientTyped
  <1> HIDE DEF d
  <1>9. ASSUME client.running, client.mode = "attach"
        PROVE  /\ Attached(r, gdb)
               /\ Incoming.kind = "done" => Over(r, gdb)
               /\ \A i \in 1..Len(r.stdin) : r.stdin[i].token # 0
    <2>1. Attached(client, gdb)  BY <1>9 DEF Sound, SoundFor
    <2>2. Attached(r, gdb)  BY <1>2, <1>9 DEF Sound, SoundFor, Same
    <2>3. Incoming = client.output[1] /\ 1 \in 1..Len(client.output)  BY <1>2, IncomingTyped
    <2>4. Incoming.kind = "done" => Over(client, gdb)  BY <1>2, <2>1, <2>3 DEF Attached
    <2>5. Over(client, gdb) <=> Over(r, gdb)  BY <1>3 DEF Over
    <2>6. \A i \in 1..Len(client.stdin) : 0 < client.stdin[i].token /\ client.stdin[i].token \in Nat
      BY WireTypes DEF Sound, SoundFor, Wired
    <2> QED BY <1>3, <2>2, <2>4, <2>5, <2>6
  <1>10. client.running = r.running /\ client.mode = r.mode  BY <1>2 DEF Same
  <1>11. CASE Incoming.kind = "done"
    <2>1. ASSUME d.running, d.mode = "attach" PROVE Attached(d, gdb)
      <3>1. client.running /\ client.mode = "attach"  BY <1>7, <1>10, <2>1
      <3>2. Over(d, gdb)  BY <1>7, <1>9, <1>11, <3>1 DEF Over
      <3> QED BY <1>7, <1>9, <3>1, <3>2 DEF Attached
    <2>2. Others(d) \subseteq Others(r) \union {0}  BY <1>7 DEF Others
    <2>3. Sound(d, gdb)  BY <1>2, <1>7, <1>8, <2>1, <2>2, SoundAttached
    <2> QED BY <1>4, <1>11, <2>3
  <1>12. CASE Incoming.kind = "error"
    <2>1. ASSUME a.running, a.mode = "attach" PROVE Attached(a, gdb)
      <3>1. client.running /\ client.mode = "attach"  BY <1>5, <1>10, <2>1
      <3>2. Over(r, gdb) <=> Over(a, gdb)  BY <1>5 DEF Over
      <3> QED BY <1>5, <1>9, <3>1, <3>2 DEF Attached
    <2>2. Others(a) \subseteq Others(r) \union {0}  BY <1>5 DEF Others
    <2>3. Sound(a, gdb)  BY <1>2, <1>5, <1>6, <2>1, <2>2, SoundAttached
    <2> QED BY <1>4, <1>12, <2>3
  <1> QED BY <1>2, <1>11, <1>12

\* The signal was refused: the program is still stopped.
LEMMA HandleSignalSound ==
  ASSUME Sound(client, gdb), HandleSignal
  PROVE  Sound(client', gdb')
  <1> DEFINE r == Rest
             a == [r EXCEPT !.signal = 0]
             d == [a EXCEPT !.stopped = TRUE]
  <1>1. Answers(client.signal) /\ client.signal \in Others(client)  BY DEF HandleSignal, Others
  <1>2. Sound(r, gdb) /\ ClientTyped(r, gdb.stops)
    <2> HIDE DEF r
    <2> QED BY <1>1, RestOfAnswer DEF r
  <1>3. /\ client' = IF Accepted THEN a ELSE RefreshState(d)
        /\ gdb' = gdb
    BY DEF HandleSignal, Handles
  <1> HIDE DEF r
  <1>4. /\ a.running = r.running /\ a.mode = r.mode /\ a.token = r.token /\ a.stdin = r.stdin
        /\ a.output = r.output /\ a.breakpoints = r.breakpoints /\ a.numbers = r.numbers
        /\ a.desired = r.desired /\ a.commands = r.commands /\ a.runRequested = r.runRequested
        /\ a.detaching = r.detaching /\ a.signal = 0 /\ a.attach = r.attach
        /\ a.detach = r.detach /\ a.coreExecutable = r.coreExecutable
        /\ a.coreTarget = r.coreTarget /\ a.detachConfirmed = r.detachConfirmed
        /\ a.watches = r.watches /\ a.active = r.active
    BY <1>2 DEF ClientTyped
  <1>5. ClientTyped(a, gdb.stops)  BY <1>2 DEF ClientTyped
  <1> HIDE DEF a
  <1>6. ASSUME a.running, a.mode = "attach" PROVE Attached(a, gdb)
    <2>1. Attached(r, gdb)  BY <1>2, <1>4, <1>6 DEF Sound, SoundFor
    <2>2. Over(r, gdb) <=> Over(a, gdb)  BY <1>4 DEF Over
    <2> QED BY <1>4, <2>1, <2>2 DEF Attached
  <1>7. Others(a) \subseteq Others(r) \union {0}  BY <1>4 DEF Others
  <1>8. Sound(a, gdb)  BY <1>2, <1>4, <1>5, <1>6, <1>7, SoundAttached
  <1>9. ClientTyped(d, gdb.stops) /\ Shows(a, d) /\ d.active = a.active /\ d.watches = a.watches
    BY <1>5 DEF ClientTyped, Shows
  <1> HIDE DEF d
  <1>10. Sound(d, gdb)  BY <1>8, <1>9, SoundShowing
  <1>11. Sound(RefreshState(d), gdb)  BY <1>10, SoundRefreshState
  <1> QED BY <1>3, <1>8, <1>11

\* A token of a core dump answers no insertion: there are none.
LEMMA RestOfCore ==
  ASSUME Sound(client, gdb), client.output # <<>>,
         client.coreExecutable # 0 \/ client.coreTarget # 0
  PROVE  /\ Sound(Rest, gdb) /\ Same(client, Rest) /\ ClientTyped(Rest, gdb.stops)
         /\ Rest.mode = "core"
  <1>1. InSession(client)  BY DEF Sound, SoundFor
  <1>2. client.mode = "core" /\ client.breakpoints = {}  BY <1>1 DEF InSession
  <1>3. \A p \in client.breakpoints : ~Answer(Incoming, p)  BY <1>2
  <1> QED BY <1>2, <1>3, RestSound DEF Same

\* The program of a core dump was loaded: the dump is asked for, and waited for.
LEMMA CoreSound ==
  ASSUME NEW g, NEW c, Sound(c, g), c.mode = "core"
  PROVE  Sound([Command(c, "core") EXCEPT !.coreTarget = c.token], g)
  <1> DEFINE K == DOMAIN c.desired
             d == Command(c, "core")
             e == [d EXCEPT !.coreTarget = c.token]
  <1>1. SoundFor(c, g, K)  BY DEF Sound
  <1> HIDE DEF K
  <1>2. SoundFor(d, g, K) /\ Same(c, d) /\ d.token = c.token + 1  BY <1>1, SoundCommand
  <1> HIDE DEF d
  <1>3. c.token \in Nat \ {0}  BY <1>1, <1>2, Newest
  <1>4. ClientTyped(d, g.stops) /\ InSession(d)  BY <1>2, Empty
  <1>5. ClientTyped(e, g.stops)  BY <1>3, <1>4 DEF ClientTyped
  <1>6. /\ e.running = d.running /\ e.mode = d.mode /\ e.token = d.token /\ e.stdin = d.stdin
        /\ e.output = d.output /\ e.breakpoints = d.breakpoints /\ e.numbers = d.numbers
        /\ e.desired = d.desired /\ e.attach = d.attach /\ e.detach = d.detach
        /\ e.detaching = d.detaching /\ e.detachConfirmed = d.detachConfirmed
        /\ e.active = d.active /\ e.runRequested = d.runRequested /\ e.commands = d.commands
        /\ e.signal = d.signal /\ e.watches = d.watches
    BY <1>4 DEF ClientTyped
  <1> HIDE DEF e
  <1>7. Others(e) = Others(d)  BY <1>6 DEF Others
  <1>8. d.mode = "core" /\ e.commands = {} /\ e.signal = 0  BY <1>2, <1>4, <1>6 DEF InSession, Same
  <1>9. SoundFor(e, g, K)  BY <1>2, <1>5, <1>6, <1>7, <1>8, Touching
  <1>10. K = DOMAIN e.desired  BY <1>2, <1>6 DEF Same, K
  <1> QED BY <1>9, <1>10 DEF Sound, d, e

\* A core dump of which no panel is shown.
LEMMA CoreFields ==
  ASSUME NEW g, NEW c, Sound(c, g), c.mode = "core", NEW e, ClientTyped(e, g.stops),
         e.running = c.running, e.mode = c.mode, e.token = c.token, e.stdin = c.stdin,
         e.output = c.output, e.breakpoints = c.breakpoints, e.numbers = c.numbers,
         e.desired = c.desired, e.commands = c.commands, e.runRequested = c.runRequested,
         e.detaching = c.detaching, e.signal = c.signal, e.attach = c.attach, e.detach = c.detach,
         e.watches = c.watches, e.coreExecutable \in {c.coreExecutable, 0},
         e.coreTarget \in {c.coreTarget, 0}
  PROVE  Sound(e, g)
  <1>1. Others(e) \subseteq Others(c) \union {0}  BY DEF Others
  <1>2. e.running /\ e.mode = "attach" => Attached(e, g)  OBVIOUS
  <1> QED BY <1>1, <1>2, SoundAttached

\* The answer about the program of a core dump.
LEMMA HandleCoreExecutableSound ==
  ASSUME Sound(client, gdb), HandleCoreExecutable
  PROVE  Sound(client', gdb')
  <1> DEFINE r == Rest
             a == [r EXCEPT !.coreExecutable = 0]
             n == NotLoaded(a)
  <1>1. client.output # <<>> /\ client.coreExecutable # 0
    BY DEF HandleCoreExecutable, Answers, Has
  <1>2. Sound(r, gdb) /\ ClientTyped(r, gdb.stops) /\ r.mode = "core"  BY <1>1, RestOfCore
  <1>3. /\ client' = IF Accepted THEN [Command(a, "core") EXCEPT !.coreTarget = a.token] ELSE n
        /\ gdb' = gdb
    BY DEF HandleCoreExecutable, Handles
  <1> HIDE DEF r
  <1>4. /\ a.running = r.running /\ a.mode = r.mode /\ a.token = r.token /\ a.stdin = r.stdin
        /\ a.output = r.output /\ a.breakpoints = r.breakpoints /\ a.numbers = r.numbers
        /\ a.desired = r.desired /\ a.commands = r.commands /\ a.runRequested = r.runRequested
        /\ a.detaching = r.detaching /\ a.signal = r.signal /\ a.attach = r.attach
        /\ a.detach = r.detach /\ a.coreExecutable = 0
        /\ a.coreTarget = r.coreTarget /\ a.watches = r.watches
    BY <1>2 DEF ClientTyped
  <1>5. ClientTyped(a, gdb.stops)  BY <1>2 DEF ClientTyped
  <1> HIDE DEF a
  <1>6. Sound(a, gdb)
    <2>1. a.coreExecutable \in {r.coreExecutable, 0} /\ a.coreTarget \in {r.coreTarget, 0}  BY <1>4
    <2> QED BY <1>2, <1>4, <1>5, <2>1, CoreFields
  <1>7. ClientTyped(n, gdb.stops) /\ Shows(a, n) /\ n.watches = a.watches
    BY <1>5, NotLoadedFields
  <1> HIDE DEF n
  <1>8. Sound(n, gdb)
    <2>1. n.coreExecutable \in {a.coreExecutable, 0} /\ n.coreTarget \in {a.coreTarget, 0}
      BY <1>7 DEF Shows
    <2>2. a.mode = "core"  BY <1>2, <1>4
    <2> QED BY <1>6, <1>7, <2>1, <2>2, CoreFields DEF Shows
  <1>9. Sound([Command(a, "core") EXCEPT !.coreTarget = a.token], gdb)
    <2>1. a.mode = "core"  BY <1>2, <1>4
    <2> QED BY <1>6, <2>1, CoreSound
  <1> QED BY <1>3, <1>8, <1>9

\* The answer about the dump itself.
LEMMA HandleCoreTargetSound ==
  ASSUME Sound(client, gdb), HandleCoreTarget
  PROVE  Sound(client', gdb')
  <1> DEFINE r == Rest
             a == [r EXCEPT !.coreTarget = 0]
             d == [a EXCEPT !.selected = 0]
             n == NotLoaded(a)
  <1>1. client.output # <<>> /\ client.coreTarget # 0
    BY DEF HandleCoreTarget, Answers, Has
  <1>2. Sound(r, gdb) /\ ClientTyped(r, gdb.stops) /\ r.mode = "core"  BY <1>1, RestOfCore
  <1>3. /\ client' = IF Accepted THEN Loaded(d) ELSE n
        /\ gdb' = gdb
    BY DEF HandleCoreTarget, Handles
  <1> HIDE DEF r
  <1>4. /\ a.running = r.running /\ a.mode = r.mode /\ a.token = r.token /\ a.stdin = r.stdin
        /\ a.output = r.output /\ a.breakpoints = r.breakpoints /\ a.numbers = r.numbers
        /\ a.desired = r.desired /\ a.commands = r.commands /\ a.runRequested = r.runRequested
        /\ a.detaching = r.detaching /\ a.signal = r.signal /\ a.attach = r.attach
        /\ a.detach = r.detach /\ a.coreExecutable = r.coreExecutable
        /\ a.coreTarget = 0 /\ a.watches = r.watches
    BY <1>2 DEF ClientTyped
  <1>5. ClientTyped(a, gdb.stops)  BY <1>2 DEF ClientTyped
  <1> HIDE DEF a
  <1>6. Sound(a, gdb)
    <2>1. a.coreExecutable \in {r.coreExecutable, 0} /\ a.coreTarget \in {r.coreTarget, 0}  BY <1>4
    <2> QED BY <1>2, <1>4, <1>5, <2>1, CoreFields
  <1>7. ClientTyped(n, gdb.stops) /\ Shows(a, n) /\ n.watches = a.watches
    BY <1>5, NotLoadedFields
  <1>8. ClientTyped(d, gdb.stops) /\ Shows(a, d) /\ d.active = a.active /\ d.watches = a.watches
    BY <1>5 DEF ClientTyped, Shows
  <1> HIDE DEF n, d
  <1>9. Sound(n, gdb)
    <2>1. n.coreExecutable \in {a.coreExecutable, 0} /\ n.coreTarget \in {a.coreTarget, 0}
      BY <1>7 DEF Shows
    <2>2. a.mode = "core"  BY <1>2, <1>4
    <2> QED BY <1>6, <1>7, <2>1, <2>2, CoreFields DEF Shows
  <1>10. Sound(d, gdb)  BY <1>6, <1>8, SoundShowing
  <1>11. Sound(Loaded(d), gdb)  BY <1>10, LoadedSound
  <1> QED BY <1>3, <1>9, <1>11

----------------------------------------------------------------------------
(* poll(): the answers about breakpoints *)

\* What is known of the breakpoints, and waited for, changes.
LEMMA Marking ==
  ASSUME NEW g, NEW c, NEW K, SoundFor(c, g, K), c.mode # "core", NEW e, ClientTyped(e, g.stops),
         Steady(c, e), e.token = c.token, e.stdin = c.stdin, e.breakpoints \subseteq c.breakpoints,
         \A t \in Others(e) : t \in Others(c) \/ (t < c.token /\ \A p \in c.breakpoints : p.token # t),
         NEW L, c.running => Booked(e, g, L)
  PROVE  SoundFor(e, g, L)
  <1>1. Base(c, g, K) /\ (c.running /\ c.mode = "attach" => Attached(c, g))  BY SoundParts
  <1>2. InSession(c)  BY <1>1 DEF Base
  <1>3. /\ e.running = c.running /\ e.mode = c.mode /\ e.output = c.output
        /\ e.attach = c.attach /\ e.detach = c.detach /\ e.detaching = c.detaching
        /\ e.detachConfirmed = c.detachConfirmed /\ e.active = c.active
        /\ e.runRequested = c.runRequested
        /\ e.coreExecutable = c.coreExecutable /\ e.coreTarget = c.coreTarget
    BY DEF Steady
  <1>4. /\ e.detaching => c.mode = "attach"
        /\ e.runRequested => c.mode = "launch"
        /\ c.mode = "core" => DOMAIN e.numbers = {} /\ e.commands = {} /\ e.signal = 0
        /\ c.mode # "core" => e.coreExecutable = 0 /\ e.coreTarget = 0
        /\ c.running /\ c.mode # "core" => Booked(e, g, L)
    BY <1>2, <1>3 DEF InSession
  <1>5. Base(e, g, L)  BY <1>1, <1>3, <1>4, Changing
  <1>6. e.running /\ e.mode = "attach" => Attached(e, g)
    <2>1. Over(c, g) <=> Over(e, g)  BY DEF Over
    <2> QED BY <1>1, <1>3, <2>1 DEF Attached
  <1> QED BY <1>5, <1>6, SoundParts

\* The breakpoint at k, if it is still wanted, could not be set.
Refused(c, k) ==
  IF k \in DOMAIN c.desired THEN [c EXCEPT !.desired[k].status = "rejected"] ELSE c

\* Only its state changes.
LEMMA RefusedFields ==
  ASSUME NEW stops, NEW c, ClientTyped(c, stops), NEW k
  PROVE  LET e == Refused(c, k) IN
         /\ ClientTyped(e, stops) /\ Steady(c, e) /\ e.token = c.token /\ e.stdin = c.stdin
         /\ e.numbers = c.numbers /\ e.breakpoints = c.breakpoints /\ e.commands = c.commands
         /\ OnlyStatus(c, e, k)
         /\ k \in DOMAIN c.desired => e.desired[k].status = "rejected"
  <1>1. CASE k \in DOMAIN c.desired
    <2> DEFINE e == [c EXCEPT !.desired[k].status = "rejected"]
    <2>1. "rejected" \in Statuses  BY DEF Statuses
    <2>2. /\ ClientTyped(e, stops) /\ Steady(c, e) /\ e.token = c.token /\ e.stdin = c.stdin
          /\ e.numbers = c.numbers /\ e.breakpoints = c.breakpoints /\ e.commands = c.commands
          /\ DOMAIN e.desired = DOMAIN c.desired
          /\ \A j \in DOMAIN c.desired : /\ e.desired[j].log = c.desired[j].log
                                         /\ j # k => e.desired[j] = c.desired[j]
          /\ e.desired[k].status = "rejected"
      BY <1>1, <2>1, StatusTyped
    <2>3. Refused(c, k) = e  BY <1>1 DEF Refused
    <2> HIDE DEF e
    <2> QED BY <1>1, <2>2, <2>3 DEF OnlyStatus
  <1>2. CASE k \notin DOMAIN c.desired
    <2>1. Refused(c, k) = c  BY <1>2 DEF Refused
    <2>2. Steady(c, c) /\ OnlyStatus(c, c, k)  BY DEF Steady, OnlyStatus
    <2> QED BY <1>2, <2>1, <2>2
  <1> QED BY <1>1, <1>2

\* It is the same change for clients that want the same.
LEMMA RefusedDesired ==
  ASSUME NEW stops, NEW c, ClientTyped(c, stops), NEW e, ClientTyped(e, stops),
         e.desired = c.desired, NEW k
  PROVE  Refused(e, k).desired = Refused(c, k).desired
  BY DEF Refused, ClientTyped

\* A breakpoint that could not be set counts no more.
LEMMA RefusedSound ==
  ASSUME NEW g, NEW c, Sound(c, g), c.mode # "core", NEW k
  PROVE  Sound(Refused(c, k), g)
  <1> DEFINE e == Refused(c, k)
             K == DOMAIN c.desired
  <1>1. SoundFor(c, g, K)  BY DEF Sound
  <1>2. /\ ClientTyped(e, g.stops) /\ Steady(c, e) /\ e.token = c.token /\ e.stdin = c.stdin
        /\ e.numbers = c.numbers /\ e.breakpoints = c.breakpoints /\ e.commands = c.commands
        /\ OnlyStatus(c, e, k)
        /\ k \in DOMAIN c.desired => e.desired[k].status = "rejected"
    <2>1. ClientTyped(c, g.stops)  BY DEF Sound, SoundFor
    <2> HIDE DEF e
    <2> QED BY <2>1, RefusedFields DEF e
  <1>3. DOMAIN e.desired = DOMAIN c.desired /\ K = DOMAIN c.desired  BY <1>2 DEF OnlyStatus
  <1> HIDE DEF e, K
  <1>4. ASSUME c.running PROVE Booked(e, g, K)
    <2>1. ClientTyped(c, g.stops) /\ Booked(c, g, K)  BY <1>1, <1>4 DEF SoundFor
    <2>2. \A j \in K : /\ e.desired[j].log = c.desired[j].log
                       /\ j # k => e.desired[j] = c.desired[j]
      BY <1>2, <1>3 DEF OnlyStatus
    <2>3. \A j \in K : \/ e.desired[j].status = "rejected"
                       \/ /\ e.desired[j].status = c.desired[j].status
                          /\ j \in DOMAIN c.numbers => j \in DOMAIN e.numbers
                          /\ \A p \in c.breakpoints : p.key = j => p \in e.breakpoints
      BY <1>2, <1>3, <2>2
    <2>4. /\ K \subseteq K /\ K \subseteq DOMAIN e.desired
          /\ e.stdin = c.stdin /\ e.output = c.output /\ e.breakpoints \subseteq c.breakpoints
          /\ DOMAIN e.numbers \subseteq K /\ DOMAIN e.numbers \subseteq DOMAIN c.numbers
          /\ \A j \in DOMAIN e.numbers : e.numbers[j] = c.numbers[j]
          /\ \A p \in e.breakpoints, q \in c.breakpoints :
               q.key = p.key => q \in e.breakpoints \/ q.token <= p.token
      BY <1>2, <1>3, <2>1 DEF Steady, Booked
    <2> QED BY <2>1, <2>2, <2>3, <2>4, BookedLess
  <1>5. Others(e) = Others(c)  BY <1>2 DEF Others, Steady
  <1>6. SoundFor(e, g, K)  BY <1>1, <1>2, <1>4, <1>5, Marking
  <1> QED BY <1>3, <1>6 DEF Sound, e

\* The run that was requested may start.
LEMMA SoundStartRequestedRun ==
  ASSUME NEW g, NEW c, Sound(c, g)
  PROVE  Sound(StartRequestedRun(c), g)
  <1> DEFINE K == DOMAIN c.desired
  <1>1. SoundFor(c, g, K)  BY DEF Sound
  <1> HIDE DEF K
  <1>2. SoundFor(StartRequestedRun(c), g, K) /\ StartRequestedRun(c).desired = c.desired
    BY <1>1, StartRequestedRunSound
  <1> QED BY <1>2 DEF Sound, K

\* The answer about the commands of a logpoint.
LEMMA HandleCommandsSound ==
  ASSUME Sound(client, gdb), HandleCommands
  PROVE  Sound(client', gdb')
  <1>1. PICK p \in client.commands :
          /\ Answers(p.token)
          /\ LET c == [Rest EXCEPT !.commands = @ \ {p}] IN
             Handles(StartRequestedRun(
               IF ~Accepted /\ p.key \in DOMAIN c.desired
               THEN [c EXCEPT !.desired[p.key].status = "rejected"] ELSE c))
    BY DEF HandleCommands
  <1>2. p.token \in Others(client)  BY DEF Others
  <1> DEFINE r == Rest
             a == [r EXCEPT !.commands = @ \ {p}]
             k == p.key
  <1>3. /\ Sound(r, gdb) /\ Same(client, r) /\ ClientTyped(r, gdb.stops)
    <2> HIDE DEF r
    <2> QED BY <1>1, <1>2, RestOfAnswer DEF r
  <1>4. /\ client' = StartRequestedRun(IF Accepted THEN a ELSE Refused(a, k))
        /\ gdb' = gdb
    BY <1>1 DEF Handles, Refused
  <1> HIDE DEF r, k
  <1>5. ClientTyped(a, gdb.stops)
    <2>1. r.commands \ {p} \in SUBSET Waiting  BY <1>3 DEF ClientTyped
    <2> QED BY <1>3, <2>1 DEF ClientTyped
  <1>6. /\ Steady(r, a) /\ a.token = r.token /\ a.stdin = r.stdin /\ a.desired = r.desired
        /\ a.numbers = r.numbers /\ a.breakpoints = r.breakpoints /\ a.commands \subseteq r.commands
    BY <1>3 DEF ClientTyped, Steady
  <1> HIDE DEF a
  <1>7. r.mode # "core" /\ a.mode # "core"
    <2>1. InSession(client)  BY DEF Sound, SoundFor
    <2> QED BY <1>3, <1>6, <2>1 DEF InSession, Same, Steady
  <1>8. Sound(a, gdb)
    <2> DEFINE K == DOMAIN r.desired
    <2>1. SoundFor(r, gdb, K)  BY <1>3 DEF Sound
    <2>2. K = DOMAIN a.desired  BY <1>6
    <2> HIDE DEF K
    <2>3. r.running => Booked(r, gdb, K)  BY <1>7, <2>1 DEF SoundFor
    <2>4. r.running => Booked(a, gdb, K)  BY <1>6, <2>3, BookedSame DEF Steady
    <2>5. Others(a) \subseteq Others(r)  BY <1>6 DEF Others, Steady
    <2>6. SoundFor(a, gdb, K)  BY <1>5, <1>6, <1>7, <2>1, <2>4, <2>5, Marking
    <2> QED BY <2>2, <2>6 DEF Sound
  <1>9. Sound(Refused(a, k), gdb)  BY <1>7, <1>8, RefusedSound
  <1>10. CASE Accepted  BY <1>4, <1>8, <1>10, SoundStartRequestedRun
  <1>11. CASE ~Accepted  BY <1>4, <1>9, <1>11, SoundStartRequestedRun
  <1> QED BY <1>10, <1>11

\* What is known of a breakpoint when its insertion is answered.
LEMMA MadeIs ==
  ASSUME Sound(client, gdb), client.running, NEW p \in client.breakpoints, Answers(p.token), Accepted
  PROVE  LET n == Incoming.number IN
         /\ n \in DOMAIN gdb.breakpoints /\ n < gdb.next /\ gdb.breakpoints[n].key = p.key
         /\ ~gdb.breakpoints[n].armed
         /\ ~Sends(client.stdin, "delete", n) /\ ~Sends(client.stdin, "commands", n)
         /\ \A k \in DOMAIN client.numbers : client.numbers[k] # n
         /\ p.key \in DOMAIN client.desired =>
              \/ \E q \in client.breakpoints \ {p} : q.key = p.key
              \/ gdb.breakpoints[n].log = client.desired[p.key].log
         /\ \A q \in client.breakpoints \ {p}, i \in 1..Len(Tail(client.output)) :
              Makes(Tail(client.output)[i], q) => Tail(client.output)[i].number # n
         /\ \A i \in 1..Len(client.stdin) : client.stdin[i].op \notin {"deleteAll", "run"}
  <1> DEFINE n == Incoming.number
             K == DOMAIN client.desired
  <1>1. /\ client.output # <<>> /\ Incoming.token = p.token /\ Incoming.kind = "done"
    BY DEF Answers, Has, Accepted
  <1>2. /\ Incoming = client.output[1] /\ 1 \in 1..Len(client.output) /\ Incoming.token \in Nat
        /\ \A i \in 1..Len(client.stdin) : Incoming.token # client.stdin[i].token
    BY <1>1, IncomingTyped
  <1>3. /\ ClientTyped(client, gdb.stops) /\ GdbTyped(gdb) /\ Wired(client) /\ Tracked(client)
        /\ InSession(client)
    BY DEF Sound, SoundFor
  <1>4. client.mode # "core"  BY <1>3 DEF InSession
  <1>5. Booked(client, gdb, K)  BY <1>4 DEF Sound, SoundFor
  <1>6. Makes(client.output[1], p)  BY <1>1, <1>2 DEF Makes
  <1>7. MadeFor(client, gdb, K, p, n)  BY <1>2, <1>5, <1>6 DEF Booked, Underway
  <1>8. n < gdb.next  BY <1>3, <1>7 DEF MadeFor, GdbTyped
  <1>9. p.key \in K =>
          \/ \E q \in client.breakpoints \ {p} : q.key = p.key
          \/ gdb.breakpoints[n].log = client.desired[p.key].log
    <2> SUFFICES ASSUME p.key \in K, \A q \in client.breakpoints \ {p} : q.key # p.key
                 PROVE  gdb.breakpoints[n].log = client.desired[p.key].log
      OBVIOUS
    <2>1. p.token <= p.token  BY <1>1, <1>2
    <2>2. Latest(client, p)  BY <2>1 DEF Latest
    <2> QED BY <1>7, <2>2 DEF MadeFor, AsDesired
  <1>10. client.output \in Seq(RecordSet(gdb.stops))  BY <1>3, WireTypes
  <1>11. ASSUME NEW q \in client.breakpoints \ {p}, NEW i \in 1..Len(Tail(client.output)),
                Makes(Tail(client.output)[i], q)
         PROVE  Tail(client.output)[i].number # n
    <2>1. i + 1 \in 1..Len(client.output) /\ Tail(client.output)[i] = client.output[i + 1]
      BY <1>1, <1>10, Taken
    <2> QED BY <1>2, <1>5, <1>6, <1>11, <2>1 DEF Booked, Apart
  <1>12. ASSUME NEW i \in 1..Len(client.stdin), client.stdin[i].op \in {"deleteAll", "run"}
         PROVE  FALSE
    <2>1. client.stdin[i].token < p.token  BY <1>5, <1>12 DEF Booked, Orders
    <2>2. client.output[1].token < client.stdin[i].token  BY <1>2, <1>3 DEF Wired
    <2>3. client.stdin[i].token \in Nat  BY <1>3, WireTypes
    <2> QED BY <1>1, <1>2, <2>1, <2>2, <2>3
  <1> QED BY <1>7, <1>8, <1>9, <1>11, <1>12 DEF MadeFor

\* The client when an insertion was answered, and is not waited for any more.
Heard(p) == [Rest EXCEPT !.breakpoints = @ \ {p}]

\* Its fields.
LEMMA HeardFields ==
  ASSUME Sound(client, gdb), client.output # <<>>, NEW p
  PROVE  LET x == Heard(p) IN
         /\ ClientTyped(x, gdb.stops) /\ x.output = Tail(client.output)
         /\ x.breakpoints = client.breakpoints \ {p} /\ x.token = client.token
         /\ x.stdin = client.stdin /\ x.numbers = client.numbers /\ x.desired = client.desired
         /\ x.commands = client.commands /\ Steady(Rest, x) /\ Same(client, Rest)
  <1>1. ClientTyped(client, gdb.stops)  BY DEF Sound, SoundFor
  <1> DEFINE q == Tail(client.output)
             w == client.breakpoints \ {p}
             r == [client EXCEPT !.output = q]
             x == [r EXCEPT !.breakpoints = w]
  <1>2. q \in Seq(RecordSet(gdb.stops)) /\ w \in SUBSET Waiting
    <2>1. client.breakpoints \subseteq Waiting  BY <1>1, WireTypes
    <2> QED BY <1>1, <2>1, Taken, WireTypes
  <1>3. Rest = r  BY <1>1 DEF Rest, ClientTyped
  <1> HIDE DEF q
  <1>4. /\ ClientTyped(r, gdb.stops) /\ Same(client, r) /\ r.output = q /\ r.token = client.token
        /\ r.stdin = client.stdin
    BY <1>1, <1>2 DEF ClientTyped, Same
  <1>5. Heard(p) = x
    <2> HIDE DEF r
    <2>1. r.breakpoints = client.breakpoints  BY <1>4 DEF Same
    <2>2. Heard(p) = [r EXCEPT !.breakpoints = r.breakpoints \ {p}]  BY <1>3, <1>4 DEF Heard, ClientTyped
    <2> QED BY <2>1, <2>2
  <1> HIDE DEF r, w
  <1>6. ClientTyped(x, gdb.stops)  BY <1>2, <1>4 DEF ClientTyped
  <1>7. /\ x.output = r.output /\ x.breakpoints = w /\ x.token = r.token
        /\ x.stdin = r.stdin /\ x.numbers = r.numbers /\ x.desired = r.desired
        /\ x.commands = r.commands /\ Steady(r, x)
    BY <1>4 DEF ClientTyped, Steady
  <1> HIDE DEF x
  <1>8. x.numbers = client.numbers /\ x.desired = client.desired /\ x.commands = client.commands
    BY <1>4, <1>7 DEF Same
  <1> QED BY <1>3, <1>4, <1>5, <1>6, <1>7, <1>8 DEF q, w

\* The insertion was answered: as long as nothing is known of the breakpoint it
\* counts as one that could not be set.
LEMMA HeardSound ==
  ASSUME Sound(client, gdb), NEW p \in client.breakpoints, Answers(p.token)
  PROVE  SoundFor(Refused(Heard(p), p.key), gdb, DOMAIN client.desired)
  <1> DEFINE K == DOMAIN client.desired
             k == p.key
             w == client.breakpoints \ {p}
             b == [client EXCEPT !.breakpoints = w]
             y == Refused(b, k)
             x == Heard(p)
             z == Refused(x, k)
  <1>1. SoundFor(client, gdb, K)  BY DEF Sound
  <1>2. /\ ClientTyped(client, gdb.stops) /\ GdbTyped(gdb) /\ Wired(client) /\ Tracked(client)
        /\ InSession(client)
    BY <1>1 DEF SoundFor
  <1>3. client.mode # "core"  BY <1>2 DEF InSession
  <1>4. client.output # <<>> /\ Incoming.token = p.token  BY DEF Answers, Has
  <1>5. /\ Incoming = client.output[1] /\ 1 \in 1..Len(client.output) /\ Incoming.token \in Nat
    BY <1>4, IncomingTyped
  <1>6. client.running => Booked(client, gdb, K)  BY <1>1, <1>3 DEF SoundFor
  <1>7. ClientTyped(b, gdb.stops)
    <2>1. client.breakpoints \subseteq Waiting  BY <1>2, WireTypes
    <2>2. w \in SUBSET Waiting  BY <2>1
    <2> HIDE DEF w
    <2> QED BY <1>2, <2>2 DEF ClientTyped
  <1>8. /\ Steady(client, b) /\ b.token = client.token /\ b.stdin = client.stdin
        /\ b.numbers = client.numbers /\ b.breakpoints = w /\ b.commands = client.commands
        /\ b.desired = client.desired
    <2> HIDE DEF w
    <2> QED BY <1>2 DEF ClientTyped, Steady
  <1>9. /\ ClientTyped(x, gdb.stops) /\ x.output = Tail(client.output)
        /\ x.breakpoints = client.breakpoints \ {p} /\ x.token = client.token
        /\ x.stdin = client.stdin /\ x.numbers = client.numbers /\ x.desired = client.desired
        /\ x.commands = client.commands /\ Steady(Rest, x) /\ Same(client, Rest)
    <2> HIDE DEF x
    <2> QED BY <1>4, HeardFields DEF x
  <1> HIDE DEF b, x, K, k
  <1>10. /\ ClientTyped(y, gdb.stops) /\ Steady(b, y) /\ y.token = b.token /\ y.stdin = b.stdin
         /\ y.numbers = b.numbers /\ y.breakpoints = b.breakpoints /\ y.commands = b.commands
         /\ OnlyStatus(b, y, k)
         /\ k \in DOMAIN b.desired => y.desired[k].status = "rejected"
    <2> HIDE DEF y
    <2> QED BY <1>7, RefusedFields DEF y
  <1>11. /\ ClientTyped(z, gdb.stops) /\ Steady(x, z) /\ z.token = x.token /\ z.stdin = x.stdin
         /\ z.numbers = x.numbers /\ z.breakpoints = x.breakpoints /\ z.commands = x.commands
         /\ OnlyStatus(x, z, k)
         /\ k \in DOMAIN x.desired => z.desired[k].status = "rejected"
    <2> HIDE DEF z
    <2> QED BY <1>9, RefusedFields DEF z
  <1>12. z.desired = y.desired
    <2>1. x.desired = b.desired  BY <1>8, <1>9
    <2> QED BY <1>7, <1>9, <2>1, RefusedDesired
  <1> HIDE DEF y, z
  <1>13. \A q \in w : q \in client.breakpoints /\ q.token # p.token  BY <1>2 DEF Tracked
  <1>14. ASSUME client.running, NEW q \in w PROVE p.token <= q.token
    <2>1. q \in client.breakpoints /\ q.token # p.token  BY <1>13
    <2>2. q.token \in Nat /\ p.token \in Nat /\ 0 < q.token  BY <1>2, <2>1, WireTypes DEF Tracked
    <2>3. Underway(client, gdb, K, q)  BY <1>6, <1>14, <2>1 DEF Booked
    <2>4. CASE \E i \in 1..Len(client.stdin) : client.stdin[i].token = q.token
      <3>1. p.token < q.token  BY <1>2, <1>4, <1>5, <2>4 DEF Wired
      <3> QED BY <2>2, <3>1
    <2>5. CASE \E i \in 1..Len(client.output) : Answer(client.output[i], q)
      <3>1. PICK i \in 1..Len(client.output) : client.output[i].token = q.token  BY <2>5 DEF Answer
      <3>2. 1 < i  BY <1>4, <1>5, <2>1, <3>1
      <3>3. client.output[i].token = 0 \/ p.token < q.token  BY <1>2, <1>4, <1>5, <3>1, <3>2 DEF Wired
      <3> QED BY <2>2, <3>1, <3>3
    <2> QED BY <2>3, <2>4, <2>5 DEF Underway
  <1> HIDE DEF w
  <1>15. /\ y.stdin = client.stdin /\ y.output = client.output /\ y.token = client.token
         /\ y.numbers = client.numbers /\ y.breakpoints = w /\ w \subseteq client.breakpoints
         /\ y.commands = client.commands /\ y.running = client.running /\ y.mode = client.mode
         /\ Steady(client, y)
    BY <1>8, <1>10 DEF Steady, w
  <1>16. /\ DOMAIN y.desired = K
         /\ \A j \in K : /\ y.desired[j].log = client.desired[j].log
                         /\ j # k => y.desired[j] = client.desired[j]
         /\ k \in K => y.desired[k].status = "rejected"
    BY <1>8, <1>10 DEF OnlyStatus, K
  <1>17. ASSUME client.running PROVE Booked(y, gdb, K)
    <2>1. Booked(client, gdb, K)  BY <1>6, <1>17
    <2>2. \A j \in K : \/ y.desired[j].status = "rejected"
                       \/ /\ y.desired[j].status = client.desired[j].status
                          /\ j \in DOMAIN client.numbers => j \in DOMAIN y.numbers
                          /\ \A q \in client.breakpoints : q.key = j => q \in y.breakpoints
      BY <1>15, <1>16 DEF w, k
    <2>3. \A q \in y.breakpoints, o \in client.breakpoints :
            o.key = q.key => o \in y.breakpoints \/ o.token <= q.token
      BY <1>14, <1>15, <1>17 DEF w
    <2>4. /\ K \subseteq K /\ K \subseteq DOMAIN y.desired
          /\ DOMAIN y.numbers \subseteq K /\ DOMAIN y.numbers \subseteq DOMAIN client.numbers
          /\ \A j \in DOMAIN y.numbers : y.numbers[j] = client.numbers[j]
          /\ \A j \in K : y.desired[j].log = client.desired[j].log
      BY <1>15, <1>16, <2>1 DEF Booked
    <2> QED BY <1>2, <1>15, <2>1, <2>2, <2>3, <2>4, BookedLess
  <1>18. SoundFor(y, gdb, K)
    <2>1. Others(y) = Others(client)  BY <1>15 DEF Others, Steady
    <2> QED BY <1>1, <1>3, <1>10, <1>15, <1>17, <2>1, Marking
  <1>19. /\ z.stdin = y.stdin /\ z.output = Tail(y.output) /\ z.token = y.token /\ Same(y, z)
    <2>1. z.output = Tail(client.output)  BY <1>9, <1>11 DEF Steady
    <2>2. z.breakpoints = y.breakpoints /\ z.numbers = y.numbers /\ z.commands = y.commands
      BY <1>9, <1>11, <1>15 DEF w
    <2> QED BY <1>9, <1>11, <1>12, <1>15, <2>1, <2>2 DEF Steady, Same
  <1>20. \A q \in y.breakpoints : ~Answer(Head(y.output), q)
    BY <1>4, <1>13, <1>15 DEF Answer, Incoming
  <1>21. Base(y, gdb, K) /\ (y.running /\ y.mode = "attach" => Attached(y, gdb))  BY <1>18, SoundParts
  <1>22. y.output # <<>>  BY <1>4, <1>15
  <1>23. Base(z, gdb, K)  BY <1>11, <1>19, <1>20, <1>21, <1>22, Resting
  <1>24. z.running /\ z.mode = "attach" => Attached(z, gdb)
    <2>1. /\ z.attach = y.attach /\ z.detach = y.detach /\ z.detaching = y.detaching
          /\ z.detachConfirmed = y.detachConfirmed /\ z.active = y.active
          /\ z.running = y.running /\ z.mode = y.mode
      BY <1>19 DEF Same
    <2> QED BY <1>19, <1>21, <1>22, <2>1, AttachedRest
  <1>25. SoundFor(z, gdb, K)  BY <1>23, <1>24, SoundParts
  <1> QED BY <1>25 DEF z, x, K, k

\* The breakpoint at k is set, under the number n.
Placed(c, k, n) == [c EXCEPT !.numbers = With(@, k, n), !.desired[k].status = "set"]

\* Only its number and its state change.
LEMMA PlacedFields ==
  ASSUME NEW stops, NEW c, ClientTyped(c, stops), NEW k \in DOMAIN c.desired, NEW n \in Nat
  PROVE  LET e == Placed(c, k, n) IN
         /\ ClientTyped(e, stops) /\ Steady(c, e) /\ e.token = c.token /\ e.stdin = c.stdin
         /\ e.numbers = With(c.numbers, k, n) /\ e.breakpoints = c.breakpoints
         /\ e.commands = c.commands /\ OnlyStatus(c, e, k)
  <1> DEFINE v == [c EXCEPT !.desired[k].status = "set"]
             w == With(c.numbers, k, n)
             e == [v EXCEPT !.numbers = w]
  <1>1. "set" \in Statuses  BY DEF Statuses
  <1>2. /\ ClientTyped(v, stops) /\ Steady(c, v) /\ v.token = c.token /\ v.stdin = c.stdin
        /\ v.numbers = c.numbers /\ v.breakpoints = c.breakpoints /\ v.commands = c.commands
        /\ DOMAIN v.desired = DOMAIN c.desired
        /\ \A j \in DOMAIN c.desired : /\ v.desired[j].log = c.desired[j].log
                                       /\ j # k => v.desired[j] = c.desired[j]
        /\ v.desired[k].status = "set"
    BY <1>1, StatusTyped
  <1>3. Placed(c, k, n) = e
    <2> HIDE DEF w
    <2>1. Placed(c, k, n) = [c EXCEPT !.numbers = w, !.desired[k].status = "set"]
      BY DEF Placed, w, ClientTyped
    <2> QED BY <2>1 DEF ClientTyped
  <1>4. MapOf(w, DOMAIN c.desired, Nat)
    <2>1. MapOf(c.numbers, DOMAIN c.desired, Nat)  BY DEF ClientTyped
    <2>2. \A j \in DOMAIN c.numbers : c.numbers[j] \in Nat  BY DesiredTypes
    <2>3. /\ DOMAIN w = DOMAIN c.numbers \union {k}
          /\ \A j \in DOMAIN w : w[j] = IF j = k THEN n ELSE c.numbers[j]
          /\ w = [j \in DOMAIN w |-> w[j]]
      BY DEF With
    <2> HIDE DEF w
    <2>4. \A j \in DOMAIN w : w[j] \in Nat  BY <2>2, <2>3
    <2> QED BY <2>1, <2>3, <2>4 DEF MapOf
  <1> HIDE DEF v, w
  <1>5. MapOf(w, DOMAIN v.desired, Nat)  BY <1>2, <1>4
  <1>6. ClientTyped(e, stops)  BY <1>2, <1>5 DEF ClientTyped
  <1>7. /\ Steady(v, e) /\ e.token = v.token /\ e.stdin = v.stdin /\ e.numbers = w
        /\ e.breakpoints = v.breakpoints /\ e.commands = v.commands /\ e.desired = v.desired
    BY <1>2 DEF ClientTyped, Steady
  <1> HIDE DEF e
  <1>8. Steady(c, e)  BY <1>2, <1>7 DEF Steady
  <1>9. OnlyStatus(c, e, k)  BY <1>2, <1>7 DEF OnlyStatus
  <1> QED BY <1>2, <1>3, <1>6, <1>7, <1>8, <1>9 DEF w

\* A logpoint is set: gdb is told what to do at it, and the answer is waited for.
Armed(c, k, n, log) ==
  [CommandOn(Placed(c, k, n), "commands", "none", n, log) EXCEPT
     !.commands = @ \union {[token |-> c.token, key |-> k]}]

\* What the answer changes.
LEMMA InsertAnsweredIs ==
  ASSUME NEW c, NEW p
  PROVE  LET k == p.key
             n == Incoming.number
             e == InsertAnswered(c, p) IN
         /\ ~Accepted => e = Refused(c, k)
         /\ Accepted /\ k \notin DOMAIN c.desired => e = CommandOn(c, "delete", "none", n, FALSE)
         /\ Accepted /\ k \in DOMAIN c.desired /\ ~c.desired[k].log => e = Placed(c, k, n)
         /\ Accepted /\ k \in DOMAIN c.desired /\ c.desired[k].log => e = Armed(c, k, n, FALSE)
  BY DEF InsertAnswered, Refused, Placed, Armed

\* The fields of a client with one logpoint more.
LEMMA ArmedFields ==
  ASSUME NEW stops, NEW c, ClientTyped(c, stops), NEW k \in DOMAIN c.desired, NEW n \in Nat,
         NEW log \in BOOLEAN
  PROVE  LET e == Armed(c, k, n, log)
             m == Message(c.token, "commands", "none", n, log) IN
         /\ ClientTyped(e, stops) /\ Steady(c, e) /\ e.token = c.token + 1 /\ e.stdin = Sent(c, m)
         /\ e.numbers = With(c.numbers, k, n) /\ e.breakpoints = c.breakpoints
         /\ \A o \in e.commands : o \in c.commands \/ o.token = c.token
         /\ OnlyStatus(c, e, k)
  <1> DEFINE d == Placed(c, k, n)
             f == CommandOn(d, "commands", "none", n, log)
             q == [token |-> c.token, key |-> k]
             w == f.commands \union {q}
             e == [f EXCEPT !.commands = w]
             m == Message(c.token, "commands", "none", n, log)
  <1>1. /\ ClientTyped(d, stops) /\ Steady(c, d) /\ d.token = c.token /\ d.stdin = c.stdin
        /\ d.numbers = With(c.numbers, k, n) /\ d.breakpoints = c.breakpoints
        /\ d.commands = c.commands /\ OnlyStatus(c, d, k)
    <2> HIDE DEF d
    <2> QED BY PlacedFields DEF d
  <1>2. Armed(c, k, n, log) = [f EXCEPT !.commands = f.commands \union {q}]  BY DEF Armed
  <1> HIDE DEF d
  <1>3. "commands" \in Ops /\ "none" \in Keys \union {"none"}  BY DEF Ops
  <1>4. /\ ClientTyped(f, stops) /\ Same(d, f)
        /\ f.token = d.token + 1 /\ f.output = d.output
        /\ f.stdin = Sent(d, Message(d.token, "commands", "none", n, log))
    <2> HIDE DEF f
    <2>1. LET y == CommandOn(d, "commands", "none", n, log)
              z == Message(d.token, "commands", "none", n, log) IN
          /\ z \in MessageSet /\ Sent(d, z) \in Seq(MessageSet)
          /\ ClientTyped(y, stops) /\ Same(d, y)
          /\ y.token = d.token + 1 /\ y.stdin = Sent(d, z) /\ y.output = d.output
      BY <1>1, <1>3, CommandFields
    <2> QED BY <2>1 DEF f
  <1> HIDE DEF f
  <1>5. q \in Waiting /\ q.token = c.token
    <2>1. c.token \in Nat /\ k \in Keys  BY DesiredTypes, WireTypes
    <2> QED BY <2>1 DEF Waiting
  <1>6. w \in SUBSET Waiting /\ \A o \in w : o \in f.commands \/ o.token = c.token
    <2> HIDE DEF q
    <2> QED BY <1>4, <1>5 DEF ClientTyped
  <1>7. Armed(c, k, n, log) = e  BY <1>2
  <1> HIDE DEF w
  <1>8. ClientTyped(e, stops)  BY <1>4, <1>6 DEF ClientTyped
  <1>9. /\ Steady(f, e) /\ e.token = f.token /\ e.stdin = f.stdin /\ e.numbers = f.numbers
        /\ e.breakpoints = f.breakpoints /\ e.commands = w /\ e.desired = f.desired
    BY <1>4 DEF ClientTyped, Steady
  <1> HIDE DEF e
  <1>10. Steady(c, e)  BY <1>1, <1>4, <1>9 DEF Same, Steady
  <1>11. OnlyStatus(c, e, k)  BY <1>1, <1>4, <1>9 DEF OnlyStatus, Same
  <1>12. e.stdin = Sent(c, m)  BY <1>1, <1>4, <1>9 DEF Sent, Steady
  <1>13. e.numbers = With(c.numbers, k, n) /\ e.breakpoints = c.breakpoints /\ e.token = c.token + 1
    BY <1>1, <1>4, <1>9 DEF Same
  <1>14. \A o \in e.commands : o \in c.commands \/ o.token = c.token
    BY <1>1, <1>4, <1>6, <1>9 DEF Same
  <1> QED BY <1>7, <1>8, <1>10, <1>11, <1>12, <1>13, <1>14 DEF m

\* What is wanted is the same after two changes of one breakpoint.
LEMMA StatusTwice ==
  ASSUME NEW c, NEW d, NEW e, NEW k, OnlyStatus(c, d, k), OnlyStatus(c, e, k)
  PROVE  OnlyStatus(d, e, k)
  BY DEF OnlyStatus

\* poll() handles the answer to an insertion, whatever was done meanwhile.
LEMMA InsertAnsweredSound ==
  ASSUME Sound(client, gdb), NEW p \in client.breakpoints, Answers(p.token)
  PROVE  Sound(InsertAnswered(Heard(p), p), gdb)
  <1> DEFINE K == DOMAIN client.desired
             k == p.key
             n == Incoming.number
             x == Heard(p)
             z == Refused(x, k)
             t == InsertAnswered(x, p)
  <1>1. SoundFor(z, gdb, K)  BY HeardSound
  <1>2. client.output # <<>> /\ Incoming.token = p.token  BY DEF Answers, Has
  <1>3. n \in Nat  BY <1>2, IncomingTyped
  <1>4. /\ ClientTyped(x, gdb.stops) /\ x.output = Tail(client.output)
        /\ x.breakpoints = client.breakpoints \ {p} /\ x.token = client.token
        /\ x.stdin = client.stdin /\ x.numbers = client.numbers /\ x.desired = client.desired
        /\ x.commands = client.commands /\ Steady(Rest, x) /\ Same(client, Rest)
    <2> HIDE DEF x
    <2> QED BY <1>2, HeardFields DEF x
  <1>5. x.running = client.running /\ x.mode = client.mode  BY <1>4 DEF Steady, Same
  <1> HIDE DEF x
  <1>6. /\ ~Accepted => t = z
        /\ Accepted /\ k \notin DOMAIN x.desired => t = CommandOn(x, "delete", "none", n, FALSE)
        /\ Accepted /\ k \in DOMAIN x.desired /\ ~x.desired[k].log => t = Placed(x, k, n)
        /\ Accepted /\ k \in DOMAIN x.desired /\ x.desired[k].log => t = Armed(x, k, n, FALSE)
    BY InsertAnsweredIs
  <1> HIDE DEF k, n, K
  <1>7. /\ ClientTyped(z, gdb.stops) /\ Steady(x, z) /\ z.token = x.token /\ z.stdin = x.stdin
        /\ z.numbers = x.numbers /\ z.breakpoints = x.breakpoints /\ z.commands = x.commands
        /\ OnlyStatus(x, z, k)
        /\ k \in DOMAIN x.desired => z.desired[k].status = "rejected"
    <2> HIDE DEF z
    <2> QED BY <1>4, RefusedFields DEF z
  <1>8. k \notin DOMAIN x.desired => z = x  BY DEF Refused
  <1> HIDE DEF z, t
  <1>9. K = DOMAIN z.desired /\ K = DOMAIN x.desired  BY <1>4, <1>7 DEF OnlyStatus, K
  <1>10. z.mode # "core" /\ x.mode # "core"
    <2>1. InSession(client)  BY DEF Sound, SoundFor
    <2> QED BY <1>5, <1>7, <2>1 DEF InSession, Steady
  <1>11. z.running = x.running /\ z.mode = x.mode /\ z.output = x.output  BY <1>7 DEF Steady
  <1>12. ASSUME Accepted, x.running
         PROVE  /\ n \in DOMAIN gdb.breakpoints /\ n < gdb.next /\ gdb.breakpoints[n].key = k
                /\ ~gdb.breakpoints[n].armed
                /\ ~Sends(z.stdin, "delete", n) /\ ~Sends(z.stdin, "commands", n)
                /\ \A j \in DOMAIN z.numbers : z.numbers[j] # n
                /\ k \in K =>
                     \/ \E q \in z.breakpoints : q.key = k
                     \/ gdb.breakpoints[n].log = z.desired[k].log
                /\ \A q \in z.breakpoints, i \in 1..Len(z.output) :
                     Makes(z.output[i], q) => z.output[i].number # n
                /\ \A i \in 1..Len(z.stdin) : z.stdin[i].op \notin {"deleteAll", "run"}
    <2>1. /\ n \in DOMAIN gdb.breakpoints /\ n < gdb.next /\ gdb.breakpoints[n].key = p.key
          /\ ~gdb.breakpoints[n].armed
          /\ ~Sends(client.stdin, "delete", n) /\ ~Sends(client.stdin, "commands", n)
          /\ \A j \in DOMAIN client.numbers : client.numbers[j] # n
          /\ p.key \in DOMAIN client.desired =>
               \/ \E q \in client.breakpoints \ {p} : q.key = p.key
               \/ gdb.breakpoints[n].log = client.desired[p.key].log
          /\ \A q \in client.breakpoints \ {p}, i \in 1..Len(Tail(client.output)) :
               Makes(Tail(client.output)[i], q) => Tail(client.output)[i].number # n
          /\ \A i \in 1..Len(client.stdin) : client.stdin[i].op \notin {"deleteAll", "run"}
      BY <1>5, <1>12, MadeIs DEF n
    <2>2. z.stdin = client.stdin /\ z.numbers = client.numbers /\ z.output = Tail(client.output)
          /\ z.breakpoints = client.breakpoints \ {p}
      BY <1>4, <1>7, <1>11
    <2>3. k \in K => z.desired[k].log = client.desired[k].log
      BY <1>4, <1>7, <1>9 DEF OnlyStatus
    <2> QED BY <2>1, <2>2, <2>3 DEF k, K
  <1>13. CASE ~Accepted  BY <1>1, <1>6, <1>9, <1>13 DEF Sound, t, x
  <1>14. CASE Accepted /\ k \notin DOMAIN x.desired
    <2>1. PICK log \in BOOLEAN : log = FALSE  OBVIOUS
    <2> DEFINE m == Message(z.token, "delete", "none", n, log)
               e == CommandOn(z, "delete", "none", n, log)
    <2>2. z.running => Allowed(z, gdb, m)
      <3>1. m.op = "delete" /\ m.number = n  BY DEF Message
      <3> HIDE DEF m
      <3> QED BY <1>10, <1>11, <1>12, <1>14, <3>1 DEF Allowed, MaySend
    <2>3. "delete" \in Ops /\ "none" \in Keys \union {"none"} /\ "delete" # "attach"  BY DEF Ops
    <2>4. SoundFor(e, gdb, K) /\ Same(z, e)
      <3> HIDE DEF e
      <3> QED BY <1>1, <1>3, <2>2, <2>3, SoundSend DEF e
    <2>5. t = e  BY <1>6, <1>8, <1>14, <2>1
    <2> HIDE DEF e
    <2>6. DOMAIN e.desired = K  BY <1>9, <2>4 DEF Same
    <2> QED BY <2>4, <2>5, <2>6 DEF Sound, t, x
  <1>15. CASE Accepted /\ k \in DOMAIN x.desired /\ ~x.desired[k].log
    <2> DEFINE e == Placed(x, k, n)
    <2>1. /\ ClientTyped(e, gdb.stops) /\ Steady(x, e) /\ e.token = x.token /\ e.stdin = x.stdin
          /\ e.numbers = With(x.numbers, k, n) /\ e.breakpoints = x.breakpoints
          /\ e.commands = x.commands /\ OnlyStatus(x, e, k)
      <3> HIDE DEF e
      <3> QED BY <1>3, <1>4, <1>15, PlacedFields DEF e
    <2>2. t = e  BY <1>6, <1>15
    <2> HIDE DEF e
    <2>3. OnlyStatus(z, e, k)  BY <1>7, <2>1, StatusTwice
    <2>4. Steady(z, e)  BY <1>7, <2>1 DEF Steady
    <2>5. ASSUME z.running PROVE Booked(e, gdb, K)
      <3>1. Booked(z, gdb, K)  BY <1>1, <1>10, <2>5 DEF SoundFor
      <3>2. ~z.desired[k].log  BY <1>7, <1>15 DEF OnlyStatus
      <3>3. Numbered(z, gdb, k, n)
        <4>1. k \in K  BY <1>9, <1>15
        <4> QED BY <1>11, <1>12, <1>15, <2>5, <3>2, <4>1 DEF Numbered
      <3>4. e.stdin = z.stdin /\ e.output = z.output /\ e.breakpoints = z.breakpoints
            /\ e.numbers = With(z.numbers, k, n)
        BY <1>7, <2>1, <2>4 DEF Steady
      <3>5. k \in K  BY <1>9, <1>15
      <3> QED BY <1>7, <2>3, <3>1, <3>3, <3>4, <3>5, BookedNumber
    <2>6. Others(e) = Others(z)  BY <1>7, <2>1, <2>4 DEF Others, Steady
    <2>7. e.token = z.token /\ e.stdin = z.stdin /\ e.breakpoints \subseteq z.breakpoints
      BY <1>7, <2>1
    <2>8. SoundFor(e, gdb, K)  BY <1>1, <1>10, <2>1, <2>4, <2>5, <2>6, <2>7, Marking
    <2>9. DOMAIN e.desired = K  BY <1>9, <2>3 DEF OnlyStatus
    <2> QED BY <2>2, <2>8, <2>9 DEF Sound, t, x
  <1>16. CASE Accepted /\ k \in DOMAIN x.desired /\ x.desired[k].log
    <2>1. PICK log \in BOOLEAN : log = FALSE  OBVIOUS
    <2> DEFINE e == Armed(x, k, n, log)
               m == Message(x.token, "commands", "none", n, log)
               d == CommandOn(z, "commands", "none", n, log)
    <2>2. /\ ClientTyped(e, gdb.stops) /\ Steady(x, e) /\ e.token = x.token + 1 /\ e.stdin = Sent(x, m)
          /\ e.numbers = With(x.numbers, k, n) /\ e.breakpoints = x.breakpoints
          /\ \A o \in e.commands : o \in x.commands \/ o.token = x.token
          /\ OnlyStatus(x, e, k)
      <3> HIDE DEF e, m
      <3> QED BY <1>3, <1>4, <1>16, ArmedFields DEF e, m
    <2>3. t = e  BY <1>6, <1>16, <2>1
    <2> HIDE DEF e
    <2>4. m.op = "commands" /\ m.number = n /\ m.token = x.token  BY DEF Message
    <2>5. k \in K /\ z.desired[k].log  BY <1>7, <1>9, <1>16 DEF OnlyStatus
    <2>6. z.running => Allowed(z, gdb, m)
      <3> HIDE DEF m
      <3> QED BY <1>10, <1>11, <1>12, <1>16, <2>4 DEF Allowed, MaySend
    <2>7. "commands" \in Ops /\ "none" \in Keys \union {"none"} /\ "commands" # "attach"  BY DEF Ops
    <2>8. /\ SoundFor(d, gdb, K) /\ Same(z, d) /\ d.token = z.token + 1 /\ d.output = z.output
          /\ m \in MessageSet /\ d.stdin = Sent(z, m)
      <3>1. m = Message(z.token, "commands", "none", n, log)  BY <1>7
      <3> HIDE DEF d, m
      <3> QED BY <1>1, <1>3, <2>6, <2>7, <3>1, SoundSend DEF d
    <2> HIDE DEF d, m
    <2>9. x.token < d.token /\ \A q \in d.breakpoints : q.token # x.token
      <3>1. z.token < d.token /\ \A q \in d.breakpoints : q.token # z.token  BY <1>1, <2>8, Newest
      <3> QED BY <1>7, <3>1
    <2>10. OnlyStatus(d, e, k)
      <3>1. OnlyStatus(z, e, k)  BY <1>7, <2>2, StatusTwice
      <3>2. d.desired = z.desired  BY <2>8 DEF Same
      <3> QED BY <3>1, <3>2 DEF OnlyStatus
    <2>11. Steady(d, e)  BY <1>7, <2>2, <2>8 DEF Steady, Same
    <2>12. e.stdin = d.stdin  BY <1>7, <1>11, <2>2, <2>8 DEF Sent
    <2>13. ASSUME d.running PROVE Booked(e, gdb, K)
      <3>1. d.running = z.running /\ d.mode = z.mode /\ d.breakpoints = z.breakpoints
            /\ d.numbers = z.numbers /\ d.desired = z.desired
        BY <2>8 DEF Same
      <3>2. Booked(d, gdb, K) /\ ClientTyped(d, gdb.stops)
        BY <1>10, <2>8, <2>13, <3>1 DEF SoundFor
      <3>3. d.stdin = Append(z.stdin, m) /\ z.stdin \in Seq(MessageSet)
        BY <1>7, <2>8, <2>13, <3>1, WireTypes DEF Sent
      <3>4. Arming(d.stdin, n)
        <4>1. \A i \in 1..Len(z.stdin) : z.stdin[i].op # "run"  BY <1>11, <1>12, <1>16, <2>13, <3>1
        <4> QED BY <2>4, <2>8, <3>3, <4>1, ArmingNow
      <3>5. ~Sends(d.stdin, "delete", n)
        <4>1. ~Sends(z.stdin, "delete", n)  BY <1>11, <1>12, <1>16, <2>13, <3>1
        <4> QED BY <2>4, <2>8, <3>3, <4>1, SendsAppend
      <3>6. \A i \in 1..Len(d.stdin) : d.stdin[i].op # "deleteAll"
        <4>1. \A i \in 1..Len(z.stdin) : z.stdin[i].op # "deleteAll"
          BY <1>11, <1>12, <1>16, <2>13, <3>1
        <4>2. /\ Len(d.stdin) = Len(z.stdin) + 1 /\ d.stdin[Len(z.stdin) + 1] = m
              /\ \A i \in 1..Len(z.stdin) : d.stdin[i] = z.stdin[i]
              /\ \A i \in 1..(Len(z.stdin) + 1) : i \in 1..Len(z.stdin) \/ i = Len(z.stdin) + 1
          BY <2>8, <3>3, Appended
        <4> QED BY <2>4, <4>1, <4>2
      <3>7. Numbered(d, gdb, k, n)
        <4>1. /\ n \in DOMAIN gdb.breakpoints /\ gdb.breakpoints[n].key = k
              /\ (\E q \in d.breakpoints : q.key = k) \/ gdb.breakpoints[n].log = d.desired[k].log
              /\ \A q \in d.breakpoints, i \in 1..Len(d.output) :
                   Makes(d.output[i], q) => d.output[i].number # n
          BY <1>11, <1>12, <1>16, <2>5, <2>8, <2>13, <3>1
        <4>2. d.desired[k].log  BY <2>5, <3>1
        <4> QED BY <3>4, <3>5, <3>6, <4>1, <4>2 DEF Numbered
      <3>8. e.stdin = d.stdin /\ e.output = d.output /\ e.breakpoints = d.breakpoints
            /\ e.numbers = With(d.numbers, k, n)
        BY <1>7, <2>2, <2>11, <2>12, <3>1 DEF Steady
      <3> QED BY <2>5, <2>10, <3>2, <3>7, <3>8, BookedNumber
    <2>14. \A s \in Others(e) : s \in Others(d) \/ (s < d.token /\ \A q \in d.breakpoints : q.token # s)
      <3>1. d.commands = x.commands  BY <1>7, <2>8 DEF Same
      <3> QED BY <2>2, <2>9, <2>11, <3>1 DEF Others, Steady
    <2>15. e.token = d.token /\ e.breakpoints \subseteq d.breakpoints
      BY <1>7, <2>2, <2>8 DEF Same
    <2>16. d.mode # "core"  BY <1>10, <2>8 DEF Same
    <2>17. SoundFor(e, gdb, K)
      BY <2>2, <2>8, <2>11, <2>12, <2>13, <2>14, <2>15, <2>16, Marking
    <2>18. DOMAIN e.desired = K  BY <1>9, <2>2 DEF OnlyStatus
    <2> QED BY <2>3, <2>17, <2>18 DEF Sound, t, x
  <1> QED BY <1>13, <1>14, <1>15, <1>16

\* The answer to an insertion.
LEMMA HandleInsertSound ==
  ASSUME Sound(client, gdb), HandleInsert
  PROVE  Sound(client', gdb')
  <1>1. PICK p \in client.breakpoints :
          /\ Answers(p.token)
          /\ Handles(StartRequestedRun(InsertAnswered(Heard(p), p)))
    BY DEF HandleInsert, Heard
  <1> DEFINE t == InsertAnswered(Heard(p), p)
  <1>2. Sound(t, gdb)  BY <1>1, InsertAnsweredSound
  <1>3. client' = StartRequestedRun(t) /\ gdb' = gdb  BY <1>1 DEF Handles
  <1> HIDE DEF t
  <1> QED BY <1>2, <1>3, SoundStartRequestedRun

----------------------------------------------------------------------------
(* gdb prints, and its program comes and goes *)

\* More stops are counted.
LEMMA MoreStops ==
  ASSUME NEW s \in Nat, NEW t \in Nat, s <= t, NEW c, ClientTyped(c, s)
  PROVE  ClientTyped(c, t) /\ RecordSet(s) \subseteq RecordSet(t)
  <1>1. 0..s \subseteq 0..t  OBVIOUS
  <1>2. RecordSet(s) \subseteq RecordSet(t)  BY <1>1 DEF RecordSet
  <1>3. c.output \in Seq(RecordSet(s))  BY WireTypes
  <1>4. \A i \in 1..Len(c.output) : c.output[i] \in RecordSet(t)
    BY <1>2, <1>3, ElementOfSeq
  <1>5. c.output \in Seq(RecordSet(t))
    <2> DEFINE S == RecordSet(s)
               T == RecordSet(t)
    <2> HIDE DEF S, T
    <2>1. c.output \in Seq(S) /\ \A i \in 1..Len(c.output) : c.output[i] \in T  BY <1>3, <1>4 DEF S, T
    <2> QED BY <2>1 DEF S, T
  <1>6. c.watch \in 0..t /\ c.frames \in 0..t
    <2>1. c.watch \in 0..s /\ c.frames \in 0..s  BY DEF ClientTyped
    <2> QED BY <1>1, <2>1
  <1>7. ClientTyped(c, t)  BY <1>5, <1>6 DEF ClientTyped
  <1> QED BY <1>2, <1>7

\* The states of the program that leave everything else as it is.
LEMMA Programs ==
  ASSUME NEW g, GdbTyped(g)
  PROVE  /\ GdbTyped(Going(g)) /\ Going(g).breakpoints = g.breakpoints /\ Going(g).next = g.next
         /\ Going(g).stops = g.stops
         /\ \A f \in Nat : LET h == [g EXCEPT !.frame = f] IN
              /\ GdbTyped(h) /\ h.breakpoints = g.breakpoints /\ h.next = g.next
              /\ h.stops = g.stops /\ h.program = g.program
         /\ LET h == [g EXCEPT !.program = "none"] IN
              /\ GdbTyped(h) /\ h.breakpoints = g.breakpoints /\ h.next = g.next
              /\ h.stops = g.stops /\ h.program = "none"
         /\ g.stops < MaxStops =>
              /\ GdbTyped(Stopping(g)) /\ Stopping(g).breakpoints = g.breakpoints
              /\ Stopping(g).next = g.next /\ Stopping(g).stops = g.stops + 1
         /\ g.stops \in Nat
  <1>1. g.stops \in Nat /\ MaxStops \in Nat /\ g.stops \in 0..MaxStops  BY Constants DEF GdbTyped
  <1>2. /\ GdbTyped(Going(g)) /\ Going(g).breakpoints = g.breakpoints /\ Going(g).next = g.next
        /\ Going(g).stops = g.stops
    BY DEF GdbTyped, Going
  <1>3. ASSUME NEW f \in Nat
        PROVE  LET h == [g EXCEPT !.frame = f] IN
               /\ GdbTyped(h) /\ h.breakpoints = g.breakpoints /\ h.next = g.next
               /\ h.stops = g.stops /\ h.program = g.program
    BY DEF GdbTyped
  <1>4. LET h == [g EXCEPT !.program = "none"] IN
        /\ GdbTyped(h) /\ h.breakpoints = g.breakpoints /\ h.next = g.next
        /\ h.stops = g.stops /\ h.program = "none"
    BY DEF GdbTyped
  <1>5. ASSUME g.stops < MaxStops
        PROVE  /\ GdbTyped(Stopping(g)) /\ Stopping(g).breakpoints = g.breakpoints
               /\ Stopping(g).next = g.next /\ Stopping(g).stops = g.stops + 1
    <2>1. g.stops + 1 \in 0..MaxStops  BY <1>1, <1>5
    <2>2. Stopping(g) = [g EXCEPT !.program = "stopped", !.frame = 0, !.stops = g.stops + 1]
      BY DEF Stopping
    <2> DEFINE s == g.stops + 1
    <2> HIDE DEF s
    <2>3. Stopping(g) = [g EXCEPT !.program = "stopped", !.frame = 0, !.stops = s] /\ s \in 0..MaxStops
      BY <2>1, <2>2 DEF s
    <2> DEFINE h == Stopping(g)
    <2> HIDE DEF h
    <2>4. h = [g EXCEPT !.program = "stopped", !.frame = 0, !.stops = s] /\ s \in 0..MaxStops
      BY <2>3 DEF h
    <2>5. /\ g \in [program : {"none", "running", "stopped"}, stops : 0..MaxStops, frame : Nat,
                    breakpoints : {g.breakpoints}, next : Nat]
          /\ MapOf(g.breakpoints, Nat, [key : Keys \union {"none"}, log : BOOLEAN, armed : BOOLEAN])
          /\ \A n \in DOMAIN g.breakpoints : n < g.next
      BY DEF GdbTyped
    <2>6. /\ h \in [program : {"none", "running", "stopped"}, stops : 0..MaxStops, frame : Nat,
                    breakpoints : {g.breakpoints}, next : Nat]
          /\ h.breakpoints = g.breakpoints /\ h.next = g.next /\ h.stops = s
      BY <2>4, <2>5
    <2>7. h \in [program : {"none", "running", "stopped"}, stops : 0..MaxStops, frame : Nat,
                 breakpoints : {h.breakpoints}, next : Nat]
      BY <2>6
    <2>8. GdbTyped(h)  BY <2>5, <2>6, <2>7 DEF GdbTyped
    <2> QED BY <2>6, <2>8 DEF s, h
  <1> QED BY <1>1, <1>2, <1>3, <1>4, <1>5

\* The program changes and gdb says nothing.
LEMMA GdbMoves ==
  ASSUME NEW g, NEW c, Sound(c, g), NEW h, GdbTyped(h), h.breakpoints = g.breakpoints,
         h.next = g.next, g.stops <= h.stops, g.program = "none" => h.program = "none",
         \A i \in 1..Len(c.stdin) : c.stdin[i].op = "attach" => h.program = "none" \/ c.mode # "attach"
  PROVE  Sound(c, h)
  <1> DEFINE K == DOMAIN c.desired
  <1>1. SoundFor(c, g, K)  BY DEF Sound
  <1> HIDE DEF K
  <1>2. /\ ClientTyped(c, g.stops) /\ GdbTyped(g) /\ Wired(c) /\ Tracked(c) /\ InSession(c)
    BY <1>1 DEF SoundFor
  <1>3. g.stops \in Nat /\ h.stops \in Nat  BY <1>2, Programs
  <1>4. ClientTyped(c, h.stops)  BY <1>2, <1>3, MoreStops
  <1>5. c.running /\ c.mode # "core" => Booked(c, h, K)
    <2>1. c.running /\ c.mode # "core" => Booked(c, g, K)  BY <1>1 DEF SoundFor
    <2> HAVE c.running /\ c.mode # "core"
    <2>2. Booked(c, g, K)  BY <2>1
    <2>3. \A p \in c.breakpoints : \A n : MadeFor(c, g, K, p, n) => MadeFor(c, h, K, p, n)
      BY DEF MadeFor
    <2>4. \A p \in c.breakpoints : Underway(c, g, K, p) => Underway(c, h, K, p)
      BY <2>3 DEF Underway
    <2>5. \A k \in DOMAIN c.numbers : Known(c, g, k, c.numbers[k]) => Known(c, h, k, c.numbers[k])
      BY DEF Known
    <2>6. Orders(c, g) => Orders(c, h)  BY DEF Orders
    <2> QED BY <2>2, <2>4, <2>5, <2>6 DEF Booked
  <1>6. c.running /\ c.mode = "attach" => Attached(c, h)
    <2> HAVE c.running /\ c.mode = "attach"
    <2>1. Attached(c, g)  BY <1>1 DEF SoundFor
    <2>2. Over(c, g) => Over(c, h)  BY DEF Over
    <2>3. \A i \in 1..Len(c.stdin) : c.stdin[i].op = "attach" => h.program = "none"  OBVIOUS
    <2> QED BY <2>1, <2>2, <2>3 DEF Attached
  <1>7. SoundFor(c, h, K)  BY <1>2, <1>4, <1>5, <1>6 DEF SoundFor
  <1> QED BY <1>7 DEF Sound, K

\* A record that answers nothing changes nothing about the breakpoints.
LEMMA BookedPrint ==
  ASSUME NEW stops, NEW c, ClientTyped(c, stops), Tracked(c), NEW g, NEW K, Booked(c, g, K),
         NEW r \in RecordSet(stops), r.token = 0,
         NEW e, e.stdin = c.stdin, e.output = Append(c.output, r), e.breakpoints = c.breakpoints,
         e.numbers = c.numbers, e.desired = c.desired
  PROVE  Booked(e, g, K)
  <1>1. c.output \in Seq(RecordSet(stops))  BY WireTypes
  <1>2. /\ Len(e.output) = Len(c.output) + 1 /\ e.output[Len(c.output) + 1] = r
        /\ \A i \in 1..Len(c.output) : e.output[i] = c.output[i] /\ i \in 1..(Len(c.output) + 1)
        /\ \A i \in 1..(Len(c.output) + 1) : i \in 1..Len(c.output) \/ i = Len(c.output) + 1
    BY <1>1, Appended
  <1> HIDE DEF RecordSet
  <1>3. \A p \in c.breakpoints : ~Answer(r, p) /\ ~Makes(r, p)
    <2>1. \A p \in c.breakpoints : p.token \in Nat /\ 0 < p.token  BY WireTypes DEF Tracked
    <2> QED BY <2>1 DEF Answer, Makes
  <1>4. \A p \in c.breakpoints : \A log : AsDesired(e, K, p, log) <=> AsDesired(c, K, p, log)
    BY DEF AsDesired, Latest
  <1>5. ASSUME NEW p \in c.breakpoints PROVE Underway(e, g, K, p)
    <2>1. Underway(c, g, K, p)  BY <1>5 DEF Booked
    <2>2. \A i \in 1..Len(e.output) : Makes(e.output[i], p) => MadeFor(e, g, K, p, e.output[i].number)
      BY <1>2, <1>3, <1>4, <1>5, <2>1 DEF Underway, MadeFor
    <2>3. \/ \E i \in 1..Len(e.stdin) : e.stdin[i].token = p.token
          \/ \E i \in 1..Len(e.output) : Answer(e.output[i], p)
      BY <1>2, <2>1 DEF Underway
    <2> QED BY <1>4, <2>1, <2>2, <2>3 DEF Underway
  <1>6. Apart(e)
    <2>1. Apart(c)  BY DEF Booked
    <2> QED BY <1>2, <1>3, <2>1 DEF Apart
  <1>7. \A k \in DOMAIN e.numbers : Known(e, g, k, e.numbers[k])  BY DEF Booked, Known
  <1>8. Orders(e, g)  BY DEF Booked, Orders
  <1> QED BY <1>5, <1>6, <1>7, <1>8 DEF Booked

\* gdb prints what the program does.
LEMMA Printing ==
  ASSUME NEW g, NEW c, Sound(c, g), c.running, NEW r \in RecordSet(g.stops), r.token = 0,
         r.kind = "exited" => g.program = "none",
         NEW e, ClientTyped(e, g.stops), Same(c, e), e.token = c.token, e.stdin = c.stdin,
         e.output = Append(c.output, r)
  PROVE  Sound(e, g)
  <1> DEFINE K == DOMAIN c.desired
  <1>1. SoundFor(c, g, K)  BY DEF Sound
  <1> HIDE DEF K
  <1>2. /\ ClientTyped(c, g.stops) /\ GdbTyped(g) /\ Wired(c) /\ Tracked(c) /\ InSession(c)
    BY <1>1 DEF SoundFor
  <1>3. c.output \in Seq(RecordSet(g.stops)) /\ \A i \in 1..Len(c.stdin) : c.stdin[i].token \in Nat
    BY <1>2, WireTypes
  <1>4. /\ Len(e.output) = Len(c.output) + 1 /\ e.output[Len(c.output) + 1] = r
        /\ \A i \in 1..Len(c.output) : e.output[i] = c.output[i] /\ i \in 1..(Len(c.output) + 1)
        /\ \A i \in 1..(Len(c.output) + 1) : i \in 1..Len(c.output) \/ i = Len(c.output) + 1
        /\ Len(c.output) \in Nat
    BY <1>3, Appended
  <1> HIDE DEF RecordSet
  <1>5. Wired(e)
    <2>1. \A i \in 1..Len(e.output) : e.output[i].token < e.token  BY <1>2, <1>4 DEF Wired
    <2>2. \A i \in 1..Len(e.output), j \in 1..Len(e.stdin) : e.output[i].token < e.stdin[j].token
      BY <1>2, <1>4 DEF Wired
    <2>3. ASSUME NEW i \in 1..Len(e.output), NEW j \in 1..Len(e.output), i < j
          PROVE  e.output[j].token = 0 \/ e.output[i].token < e.output[j].token
      <3>1. i \in 1..Len(c.output)  BY <1>4, <2>3
      <3> QED BY <1>2, <1>4, <2>3, <3>1 DEF Wired
    <2> QED BY <1>2, <2>1, <2>2, <2>3 DEF Wired
  <1>6. Others(e) = Others(c)  BY DEF Same, Others
  <1>7. Tracked(e)  BY <1>2, <1>6 DEF Same, Tracked
  <1>8. InSession(e)  BY <1>2 DEF Same, InSession
  <1>9. ASSUME c.mode # "core" PROVE Booked(e, g, K)
    <2>1. Booked(c, g, K)  BY <1>1, <1>9 DEF SoundFor
    <2>2. e.breakpoints = c.breakpoints /\ e.numbers = c.numbers /\ e.desired = c.desired  BY DEF Same
    <2> QED BY <1>2, <2>1, <2>2, BookedPrint
  <1>10. ASSUME c.mode = "attach" PROVE Attached(e, g)
    <2>1. Attached(c, g)  BY <1>1, <1>10 DEF SoundFor
    <2>2. Over(c, g) <=> Over(e, g)  BY DEF Over
    <2>3. /\ e.attach = c.attach /\ e.detach = c.detach /\ e.detaching = c.detaching
          /\ e.detachConfirmed = c.detachConfirmed /\ e.active = c.active
      BY DEF Same
    <2>4. r.kind = "exited" /\ c.attach = 0 => Over(c, g)
      <3>1. \A i \in 1..Len(c.stdin) : c.stdin[i].token # 0  BY <1>2, <1>3 DEF Wired
      <3> QED BY <2>1, <3>1 DEF Attached, Over
    <2>5. ASSUME r.kind = "exited", NEW i \in 1..Len(c.output), c.output[i].token = c.attach
          PROVE  Over(c, g)
      <3>1. c.output[i].token \in Nat  BY <1>2, WireTypes
      <3>2. \A j \in 1..Len(c.stdin) : c.output[i].token < c.stdin[j].token  BY <1>2 DEF Wired
      <3>3. \A j \in 1..Len(c.stdin) : c.stdin[j].token # c.attach
        <4> DEFINE t == c.output[i].token
        <4>1. t \in Nat /\ t = c.attach /\ \A j \in 1..Len(c.stdin) : t < c.stdin[j].token
          BY <2>5, <3>1, <3>2
        <4> HIDE DEF t
        <4> QED BY <1>3, <4>1
      <3> QED BY <2>1, <2>5, <3>3 DEF Attached, Over
    <2>6. \A i \in 1..Len(e.output) :
            /\ e.attach = 0 /\ e.output[i].kind = "exited" => Over(e, g)
            /\ e.detach # 0 /\ e.output[i].token = e.detach /\ e.output[i].kind = "done" => Over(e, g)
            /\ e.attach # 0 /\ e.output[i].token = e.attach /\ e.output[i].kind = "error" => Over(e, g)
      BY <1>4, <2>1, <2>2, <2>3, <2>4 DEF Attached
    <2>7. ASSUME NEW i \in 1..Len(e.output), NEW j \in 1..Len(e.output),
                 e.attach # 0, e.output[i].token = e.attach, e.output[i].kind = "done",
                 i < j, e.output[j].kind = "exited"
          PROVE  Over(e, g)
      <3>1. i \in 1..Len(c.output) /\ e.output[i] = c.output[i]  BY <1>4, <2>7
      <3>2. CASE j \in 1..Len(c.output)
        BY <1>4, <2>1, <2>2, <2>3, <2>7, <3>1, <3>2 DEF Attached
      <3>3. CASE j = Len(c.output) + 1  BY <1>4, <2>2, <2>3, <2>5, <2>7, <3>1, <3>3
      <3> QED BY <1>4, <3>2, <3>3
    <2>8. /\ \A i \in 1..Len(e.stdin) :
               /\ e.stdin[i].op = "attach" <=> e.stdin[i].token = e.attach
               /\ e.stdin[i].op = "attach" => g.program = "none"
               /\ e.stdin[i].token = e.detach => e.stdin[i].op = "detach"
          /\ e.detach # 0 => e.attach < e.detach
          /\ e.detaching /\ e.detachConfirmed => Over(e, g)
          /\ e.attach = 0 /\ ~e.active => Over(e, g)
      BY <2>1, <2>2, <2>3 DEF Attached
    <2> QED BY <2>6, <2>7, <2>8 DEF Attached
  <1>11. SoundFor(e, g, K)  BY <1>2, <1>5, <1>7, <1>8, <1>9, <1>10 DEF SoundFor, Same
  <1> QED BY <1>11 DEF Sound, K, Same

----------------------------------------------------------------------------
(* gdb reads a command *)

\* What reading a command does to the program: only attaching, starting or
\* opening one makes it, a refused attach changes nothing, and one that was
\* detached is gone. No answer says that the program exited.
Minds(g, h, m, r) ==
  /\ m.op \notin {"attach", "run", "core"} /\ g.program = "none" => h.program = "none"
  /\ m.op = "attach" /\ r.kind = "error" => h.program = g.program
  /\ m.op = "detach" /\ r.kind = "done" => h.program = "none"
  /\ r.kind # "exited" /\ r.token = m.token

\* Reading a command keeps what is true of an attached program.
LEMMA AttachedReads ==
  ASSUME NEW stops, NEW c, ClientTyped(c, stops), Wired(c), InSession(c), c.mode = "attach", NEW g,
         Attached(c, g), c.stdin # <<>>, NEW r \in RecordSet(stops), NEW h,
         Minds(g, h, Head(c.stdin), r),
         NEW e, e.stdin = Tail(c.stdin), e.output = Append(c.output, r), Same(c, e)
  PROVE  Attached(e, h)
  <1> DEFINE m == Head(c.stdin)
  <1>1. /\ c.stdin \in Seq(MessageSet) /\ c.output \in Seq(RecordSet(stops))
        /\ \A i \in 1..Len(c.stdin) : c.stdin[i].token \in Nat
    BY WireTypes
  <1>2. /\ Len(e.stdin) = Len(c.stdin) - 1 /\ m = c.stdin[1] /\ 1 \in 1..Len(c.stdin)
        /\ \A i \in 1..(Len(c.stdin) - 1) : e.stdin[i] = c.stdin[i + 1] /\ i + 1 \in 1..Len(c.stdin)
        /\ Len(c.stdin) \in Nat
    BY <1>1, Taken
  <1>3. /\ Len(e.output) = Len(c.output) + 1 /\ Len(c.output) \in Nat
        /\ e.output[Len(c.output) + 1] = r
        /\ \A i \in 1..Len(c.output) : e.output[i] = c.output[i] /\ i \in 1..(Len(c.output) + 1)
        /\ \A i \in 1..(Len(c.output) + 1) : i \in 1..Len(c.output) \/ i = Len(c.output) + 1
    BY <1>1, Appended
  <1>4. \A i, j \in 1..Len(c.stdin) : i < j => c.stdin[i].token < c.stdin[j].token  BY DEF Wired
  <1>5. \A i \in 1..Len(c.stdin) : c.stdin[i].op # "run" /\ c.stdin[i].op # "core"
    BY DEF InSession
  <1> HIDE DEF MessageSet, RecordSet, m
  <1>6. Minds(g, h, m, r)  BY DEF m
  <1>7. m.token \in Nat /\ m.op # "run" /\ m.op # "core"  BY <1>1, <1>2, <1>5
  <1>8. \A i \in 1..Len(e.stdin) :
          e.stdin[i].token \in Nat /\ m.token < e.stdin[i].token /\ m.token # e.stdin[i].token
    <2> TAKE i \in 1..Len(e.stdin)
    <2>1. i \in 1..(Len(c.stdin) - 1) /\ 1 < i + 1 /\ i + 1 \in 1..Len(c.stdin)  BY <1>2
    <2>2. e.stdin[i] = c.stdin[i + 1]  BY <1>2, <2>1
    <2>3. e.stdin[i].token \in Nat /\ m.token < e.stdin[i].token  BY <1>1, <1>2, <1>4, <2>1, <2>2
    <2>4. m.token # e.stdin[i].token
      <3> DEFINE t == e.stdin[i].token
      <3>1. t \in Nat /\ m.token \in Nat /\ m.token < t  BY <1>7, <2>3
      <3> HIDE DEF t
      <3>2. m.token # t  BY <3>1
      <3> QED BY <3>2 DEF t
    <2> QED BY <2>3, <2>4
  <1>9. /\ e.attach = c.attach /\ e.detach = c.detach /\ e.detaching = c.detaching
        /\ e.detachConfirmed = c.detachConfirmed /\ e.active = c.active
        /\ c.attach \in Nat /\ c.detach \in Nat
    BY DEF Same, ClientTyped
  <1>10. /\ m.op = "attach" <=> m.token = c.attach
         /\ m.op = "attach" => g.program = "none"
         /\ m.token = c.detach => m.op = "detach"
    BY <1>2 DEF Attached
  <1>11. /\ \A i \in 1..Len(e.stdin) :
              /\ e.stdin[i].op = "attach" <=> e.stdin[i].token = c.attach
              /\ e.stdin[i].op = "attach" => g.program = "none"
              /\ e.stdin[i].token = c.detach => e.stdin[i].op = "detach"
    BY <1>2 DEF Attached
  <1>12. \A i \in 1..Len(e.stdin) : e.stdin[i].op = "attach" => h.program = "none"
    <2> SUFFICES ASSUME NEW i \in 1..Len(e.stdin), e.stdin[i].op = "attach" PROVE h.program = "none"
      OBVIOUS
    <2>0. i \in 1..Len(e.stdin) /\ e.stdin[i].op = "attach"  OBVIOUS
    <2>1. m.token # c.attach  BY ONLY <1>8, <1>11, <2>0, Zenon
    <2> QED BY <1>6, <1>7, <1>10, <1>11, <2>1 DEF Minds
  <1>13. Over(c, g) => Over(e, h)
    <2> HAVE Over(c, g)
    <2>1. g.program = "none" /\ m.op # "attach" /\ \A i \in 1..Len(e.stdin) : e.stdin[i].op # "attach"
      BY <1>2 DEF Over
    <2> QED BY <1>6, <1>7, <2>1 DEF Minds, Over
  <1>14. c.detach # 0 /\ r.token = c.detach /\ r.kind = "done" => Over(e, h)
    <2> HAVE c.detach # 0 /\ r.token = c.detach /\ r.kind = "done"
    <2>1. m.token = c.detach /\ h.program = "none"  BY <1>6, <1>10 DEF Minds
    <2>2. c.attach < c.detach  BY DEF Attached
    <2>3. \A i \in 1..Len(e.stdin) : e.stdin[i].token # c.attach
      <3> TAKE i \in 1..Len(e.stdin)
      <3> DEFINE t == e.stdin[i].token
      <3>1. t \in Nat /\ m.token < t  BY <1>8
      <3>2. m.token \in Nat /\ c.attach \in Nat /\ c.attach < m.token  BY <1>7, <1>9, <2>1, <2>2
      <3> HIDE DEF t
      <3>3. t # c.attach  BY <3>1, <3>2
      <3> QED BY <3>3 DEF t
    <2> QED BY <1>11, <2>1, <2>3 DEF Over
  <1>15. c.attach # 0 /\ r.token = c.attach /\ r.kind = "error" => Over(e, h)
    <2> HAVE c.attach # 0 /\ r.token = c.attach /\ r.kind = "error"
    <2>1. m.token = c.attach /\ h.program = "none"  BY <1>6, <1>10 DEF Minds
    <2>3. c.attach = m.token  BY <2>1
    <2>2. \A i \in 1..Len(e.stdin) : e.stdin[i].token # c.attach  BY ONLY <1>8, <2>1, <2>3, Zenon
    <2> QED BY <1>11, <2>1, <2>2 DEF Over
  <1>16. \A i \in 1..Len(e.output) :
           /\ e.attach = 0 /\ e.output[i].kind = "exited" => Over(e, h)
           /\ e.detach # 0 /\ e.output[i].token = e.detach /\ e.output[i].kind = "done" => Over(e, h)
           /\ e.attach # 0 /\ e.output[i].token = e.attach /\ e.output[i].kind = "error" => Over(e, h)
    <2> TAKE i \in 1..Len(e.output)
    <2>1. r.kind # "exited"  BY <1>6 DEF Minds
    <2>2. CASE i \in 1..Len(c.output)  BY <1>3, <1>9, <1>13, <2>2 DEF Attached
    <2>3. CASE i = Len(c.output) + 1  BY <1>3, <1>9, <1>14, <1>15, <2>1, <2>3
    <2> QED BY <1>3, <2>2, <2>3
  <1>17. ASSUME NEW i \in 1..Len(e.output), NEW j \in 1..Len(e.output),
                e.attach # 0, e.output[i].token = e.attach, e.output[i].kind = "done",
                i < j, e.output[j].kind = "exited"
         PROVE  Over(e, h)
    <2>1. r.kind # "exited"  BY <1>6 DEF Minds
    <2>2. j \in 1..Len(c.output)  BY <1>3, <1>17, <2>1
    <2>3. i \in 1..Len(c.output)  BY <1>3, <1>17, <2>2
    <2> QED BY <1>3, <1>9, <1>13, <1>17, <2>2, <2>3 DEF Attached
  <1>18. /\ e.detach # 0 => e.attach < e.detach
         /\ e.detaching /\ e.detachConfirmed => Over(e, h)
         /\ e.attach = 0 /\ ~e.active => Over(e, h)
    BY <1>9, <1>13 DEF Attached
  <1> QED BY <1>9, <1>11, <1>12, <1>16, <1>17, <1>18 DEF Attached

\* Reading a command keeps all that is true.
LEMMA Reading ==
  ASSUME NEW c, NEW g, Sound(c, g), c.running, c.stdin # <<>>, NEW h, GdbTyped(h), g.stops <= h.stops,
         NEW r \in RecordSet(h.stops), Reads(g, h, Head(c.stdin), r), Minds(g, h, Head(c.stdin), r),
         NEW e, ClientTyped(e, h.stops), Same(c, e), e.token = c.token, e.stdin = Tail(c.stdin),
         e.output = Append(c.output, r)
  PROVE  Sound(e, h)
  <1> DEFINE K == DOMAIN c.desired
             m == Head(c.stdin)
  <1>1. SoundFor(c, g, K)  BY DEF Sound
  <1> HIDE DEF K
  <1>2. /\ ClientTyped(c, g.stops) /\ GdbTyped(g) /\ Wired(c) /\ Tracked(c) /\ InSession(c)
    BY <1>1 DEF SoundFor
  <1>3. g.stops \in Nat /\ h.stops \in Nat  BY <1>2, Programs
  <1>4. ClientTyped(c, h.stops)  BY <1>2, <1>3, MoreStops
  <1>5. /\ c.stdin \in Seq(MessageSet) /\ c.output \in Seq(RecordSet(h.stops))
        /\ \A i \in 1..Len(c.stdin) : c.stdin[i].token \in Nat
    BY <1>4, WireTypes
  <1>6. /\ Len(e.stdin) = Len(c.stdin) - 1 /\ m = c.stdin[1] /\ 1 \in 1..Len(c.stdin)
        /\ \A i \in 1..(Len(c.stdin) - 1) : e.stdin[i] = c.stdin[i + 1] /\ i + 1 \in 1..Len(c.stdin)
        /\ Len(c.stdin) \in Nat
    BY <1>5, Taken
  <1>7. /\ Len(e.output) = Len(c.output) + 1 /\ Len(c.output) \in Nat
        /\ e.output[Len(c.output) + 1] = r
        /\ \A i \in 1..Len(c.output) : e.output[i] = c.output[i] /\ i \in 1..(Len(c.output) + 1)
        /\ \A i \in 1..(Len(c.output) + 1) : i \in 1..Len(c.output) \/ i = Len(c.output) + 1
    BY <1>5, Appended
  <1>8. r.token = m.token  BY DEF Minds
  <1> HIDE DEF MessageSet, RecordSet, m
  <1>9. Wired(e)
    <2>1. /\ 0 < c.token
          /\ \A i \in 1..Len(c.stdin) : 0 < c.stdin[i].token /\ c.stdin[i].token < c.token
          /\ \A i, j \in 1..Len(c.stdin) : i < j => c.stdin[i].token < c.stdin[j].token
          /\ \A i \in 1..Len(c.output) : c.output[i].token < c.token
          /\ \A i \in 1..Len(c.output), j \in 1..Len(c.stdin) : c.output[i].token < c.stdin[j].token
          /\ \A i, j \in 1..Len(c.output) :
               i < j => c.output[j].token = 0 \/ c.output[i].token < c.output[j].token
      BY <1>2 DEF Wired
    <2>2. ASSUME NEW i \in 1..Len(e.stdin)
          PROVE  /\ i + 1 \in 1..Len(c.stdin) /\ e.stdin[i] = c.stdin[i + 1] /\ i \in Nat
                 /\ m.token < e.stdin[i].token
      <3>1. i \in 1..(Len(c.stdin) - 1) /\ 1 < i + 1 /\ i \in Nat  BY <1>6
      <3>2. i + 1 \in 1..Len(c.stdin) /\ e.stdin[i] = c.stdin[i + 1]  BY <1>6, <3>1
      <3>3. c.stdin[1].token < c.stdin[i + 1].token  BY <1>6, <2>1, <3>1, <3>2
      <3> QED BY <1>6, <3>1, <3>2, <3>3
    <2>3. \A i \in 1..Len(e.stdin) : 0 < e.stdin[i].token /\ e.stdin[i].token < e.token
      BY <2>1, <2>2
    <2>4. \A i, j \in 1..Len(e.stdin) : i < j => e.stdin[i].token < e.stdin[j].token
      BY <2>1, <2>2
    <2>5. \A i \in 1..Len(e.output) : e.output[i].token < e.token
      BY <1>6, <1>7, <1>8, <2>1
    <2>6. \A i \in 1..Len(e.output), j \in 1..Len(e.stdin) : e.output[i].token < e.stdin[j].token
      BY <1>7, <1>8, <2>1, <2>2
    <2>7. ASSUME NEW i \in 1..Len(e.output), NEW j \in 1..Len(e.output), i < j
          PROVE  e.output[j].token = 0 \/ e.output[i].token < e.output[j].token
      <3>1. i \in 1..Len(c.output) /\ e.output[i] = c.output[i]  BY <1>7, <2>7
      <3>2. CASE j \in 1..Len(c.output)  BY <1>7, <2>1, <2>7, <3>1, <3>2
      <3>3. CASE j = Len(c.output) + 1  BY <1>6, <1>7, <1>8, <2>1, <3>1, <3>3
      <3> QED BY <1>7, <3>2, <3>3
    <2> QED BY <2>1, <2>3, <2>4, <2>5, <2>6, <2>7 DEF Wired
  <1>10. Others(e) = Others(c)  BY DEF Same, Others
  <1>11. Tracked(e)  BY <1>2, <1>10 DEF Same, Tracked
  <1>12. InSession(e)
    <2>1. \A i \in 1..Len(e.stdin) : \E j \in 1..Len(c.stdin) : e.stdin[i] = c.stdin[j]
      BY <1>6
    <2> QED BY <1>2, <2>1 DEF Same, InSession
  <1>13. ASSUME c.mode # "core" PROVE Booked(e, h, K)
    <2>1. Booked(c, g, K)  BY <1>1, <1>13 DEF SoundFor
    <2>2. e.breakpoints = c.breakpoints /\ e.numbers = c.numbers /\ e.desired = c.desired  BY DEF Same
    <2>3. h.next \in Nat  BY DEF GdbTyped
    <2> QED BY <1>2, <1>4, <2>1, <2>2, <2>3, BookedReads
  <1>14. ASSUME c.mode = "attach" PROVE Attached(e, h)
    <2>1. Attached(c, g)  BY <1>1, <1>14 DEF SoundFor
    <2> QED BY <1>2, <1>4, <1>14, <2>1, AttachedReads
  <1>15. e.mode = c.mode /\ e.running = c.running /\ e.desired = c.desired  BY DEF Same
  <1>16. SoundFor(e, h, K)  BY <1>9, <1>11, <1>12, <1>13, <1>14, <1>15 DEF SoundFor
  <1> QED BY <1>15, <1>16 DEF Sound, K

\* One reading of a command: gdb answers it with the record r, and prints no
\* more than one record about its program.
Answered(g, o, m, r) ==
  /\ GdbTyped(o.gdb) /\ g.stops <= o.gdb.stops /\ r \in RecordSet(o.gdb.stops)
  /\ Reads(g, o.gdb, m, r) /\ Minds(g, o.gdb, m, r)
  /\ \/ o.records = <<r>>
     \/ o.records = <<r, Async("running")>>
     \/ o.records = <<r, Async("stopped")>>
     \/ o.records = <<Async("stopped"), r>>

\* The records of gdb.
LEMMA Answering ==
  ASSUME NEW s \in Nat, NEW m \in MessageSet
  PROVE  /\ Done(m) \in RecordSet(s) /\ Done(m).token = m.token /\ Done(m).kind = "done"
         /\ Error(m) \in RecordSet(s) /\ Error(m).token = m.token /\ Error(m).kind = "error"
         /\ \A kind \in {"stopped", "exited", "running"} :
              /\ Async(kind) \in RecordSet(s) /\ Async(kind).token = 0
              /\ Async(kind).kind = kind
         /\ \A stop \in 0..s, frame \in Nat, number \in Nat, kind \in {"done", "stack", "variables"} :
              LET r == Record(kind, m.token, number, stop, frame) IN
              r \in RecordSet(s) /\ r.token = m.token /\ r.kind = kind /\ r.number = number
  <1>1. m.token \in Nat /\ 0 \in 0..s  BY DEF MessageSet
  <1>2. /\ Done(m) \in RecordSet(s) /\ Done(m).token = m.token /\ Done(m).kind = "done"
        /\ Error(m) \in RecordSet(s) /\ Error(m).token = m.token /\ Error(m).kind = "error"
    BY <1>1 DEF Done, Error, Record, RecordSet
  <1>3. \A kind \in {"stopped", "exited", "running"} :
          /\ Async(kind) \in RecordSet(s) /\ Async(kind).token = 0
          /\ Async(kind).kind = kind
    BY <1>1 DEF Async, Record, RecordSet
  <1>4. \A stop \in 0..s, frame \in Nat, number \in Nat, kind \in {"done", "stack", "variables"} :
          LET r == Record(kind, m.token, number, stop, frame) IN
          r \in RecordSet(s) /\ r.token = m.token /\ r.kind = kind /\ r.number = number
    BY <1>1 DEF Record, RecordSet
  <1> QED BY <1>2, <1>3, <1>4

\* A command that leaves the breakpoints alone.
LEMMA LeftAlone ==
  ASSUME NEW g, GdbTyped(g), NEW h, h.breakpoints = g.breakpoints, h.next = g.next, NEW m, NEW r,
         r.token = m.token, m.op # "insert" \/ r.kind = "error",
         m.op # "commands" \/ m.number \notin DOMAIN g.breakpoints
  PROVE  Reads(g, h, m, r)
  <1>1. g.next \in Nat  BY DEF GdbTyped
  <1>2. g.next <= h.next  BY <1>1
  <1> QED BY <1>2 DEF Reads

\* gdb refuses.
LEMMA Refusing ==
  ASSUME GdbTyped(gdb), NEW m \in MessageSet, m.op # "commands" \/ m.number \notin DOMAIN gdb.breakpoints,
         NEW o \in Refuse(m)
  PROVE  Answered(gdb, o, m, Error(m))
  <1>1. o.gdb = gdb /\ o.records = <<Error(m)>>  BY DEF Refuse, Outcome
  <1>2. gdb.stops \in Nat  BY Programs
  <1>3. Error(m) \in RecordSet(gdb.stops) /\ Error(m).token = m.token /\ Error(m).kind = "error"
    BY <1>2, Answering
  <1>4. Reads(gdb, gdb, m, Error(m))  BY <1>3, LeftAlone
  <1>5. Minds(gdb, gdb, m, Error(m))  BY <1>3 DEF Minds
  <1>6. gdb.stops <= gdb.stops  BY <1>2
  <1> HIDE DEF RecordSet, MessageSet
  <1> QED BY <1>1, <1>3, <1>4, <1>5, <1>6 DEF Answered

\* gdb changes no more than its program.
LEMMA Accepting ==
  ASSUME GdbTyped(gdb), NEW m \in MessageSet, m.op \notin {"insert", "commands"},
         NEW h, GdbTyped(h), h.breakpoints = gdb.breakpoints, h.next = gdb.next, gdb.stops <= h.stops,
         NEW r \in RecordSet(h.stops), r.token = m.token, Minds(gdb, h, m, r),
         NEW o, o.gdb = h,
         \/ o.records = <<r>>
         \/ o.records = <<r, Async("running")>>
         \/ o.records = <<r, Async("stopped")>>
         \/ o.records = <<Async("stopped"), r>>
  PROVE  Answered(gdb, o, m, r)
  <1>1. Reads(gdb, h, m, r)  BY LeftAlone
  <1> HIDE DEF RecordSet, MessageSet
  <1> QED BY <1>1 DEF Answered

\* gdb makes a breakpoint.
LEMMA AnswersInsert ==
  ASSUME GdbTyped(gdb), NEW m \in MessageSet, m.op = "insert", NEW o \in Execute(m)
  PROVE  \E r : Answered(gdb, o, m, r)
  <1> DEFINE b == [key |-> m.key, log |-> m.log, armed |-> FALSE]
             f == With(gdb.breakpoints, gdb.next, b)
             h == [gdb EXCEPT !.breakpoints = f, !.next = gdb.next + 1]
             r == Record("done", m.token, gdb.next, 0, 0)
             B == [key : Keys \union {"none"}, log : BOOLEAN, armed : BOOLEAN]
  <1>1. Execute(m) = Refuse(m) \union {Outcome(h, <<r>>)}  BY DEF Execute
  <1>2. CASE o \in Refuse(m)  BY <1>2, Refusing
  <1>3. CASE o = Outcome(h, <<r>>)
    <2>1. /\ gdb \in [program : {"none", "running", "stopped"}, stops : 0..MaxStops, frame : Nat,
                      breakpoints : {gdb.breakpoints}, next : Nat]
          /\ MapOf(gdb.breakpoints, Nat, B)
          /\ \A n \in DOMAIN gdb.breakpoints : n < gdb.next
      BY DEF GdbTyped
    <2>2. b \in B  BY DEF MessageSet
    <2>3. gdb.next \in Nat /\ gdb.stops \in Nat /\ m.token \in Nat  BY <2>1, Programs DEF MessageSet
    <2>4. r \in RecordSet(gdb.stops) /\ r.token = m.token /\ r.kind = "done" /\ r.number = gdb.next
      BY <2>3, Answering
    <2>5. b = [key |-> m.key, log |-> m.log, armed |-> FALSE]  OBVIOUS
    <2> HIDE DEF b, B
    <2>6. /\ DOMAIN f = DOMAIN gdb.breakpoints \union {gdb.next}
          /\ \A n \in DOMAIN f : f[n] = IF n = gdb.next THEN b ELSE gdb.breakpoints[n]
          /\ f = [n \in DOMAIN f |-> f[n]]
      BY DEF With
    <2> HIDE DEF f
    <2>7. gdb.next \notin DOMAIN gdb.breakpoints
      <3>1. ~(gdb.next < gdb.next)  BY <2>3
      <3> QED BY <2>1, <3>1
    <2>8. MapOf(f, Nat, B) /\ \A n \in DOMAIN f : n < gdb.next + 1
      <3>1. \A n \in DOMAIN gdb.breakpoints : n \in Nat /\ n < gdb.next /\ gdb.breakpoints[n] \in B
        BY <2>1 DEF MapOf
      <3>2. \A n \in DOMAIN f : n \in Nat /\ n < gdb.next + 1 /\ f[n] \in B  BY <2>2, <2>3, <2>6, <3>1
      <3>3. f \in [DOMAIN f -> B]  BY <2>6, <3>2
      <3> QED BY <3>2, <3>3 DEF MapOf
    <2>9. /\ h \in [program : {"none", "running", "stopped"}, stops : 0..MaxStops, frame : Nat,
                    breakpoints : {f}, next : Nat]
          /\ h.breakpoints = f /\ h.next = gdb.next + 1 /\ h.stops = gdb.stops
          /\ h.program = gdb.program
      <3>1. gdb.next + 1 \in Nat  BY <2>3
      <3> QED BY <2>1, <3>1
    <2> HIDE DEF h, r
    <2>10. GdbTyped(h)  BY <2>8, <2>9 DEF GdbTyped, B
    <2>11. Reads(gdb, h, m, r)
      <3>1. gdb.next <= h.next /\ r.number >= gdb.next  BY <2>3, <2>4, <2>9
      <3>2. \A n \in DOMAIN gdb.breakpoints : n \in DOMAIN h.breakpoints /\ h.breakpoints[n] = gdb.breakpoints[n]
        BY <2>6, <2>7, <2>9
      <3>3. /\ r.number \in DOMAIN h.breakpoints \ DOMAIN gdb.breakpoints
            /\ h.breakpoints[r.number] = [key |-> m.key, log |-> m.log, armed |-> FALSE]
        BY <2>4, <2>5, <2>6, <2>7, <2>9
      <3> QED BY <2>4, <3>1, <3>2, <3>3 DEF Reads
    <2>12. Minds(gdb, h, m, r)  BY <2>4, <2>9 DEF Minds
    <2>13. o.gdb = h /\ o.records = <<r>>  BY <1>3 DEF Outcome
    <2>14. gdb.stops <= h.stops  BY <2>3, <2>9
    <2> HIDE DEF RecordSet, MessageSet
    <2>15. Answered(gdb, o, m, r)  BY <2>4, <2>9, <2>10, <2>11, <2>12, <2>13, <2>14 DEF Answered
    <2> QED BY <2>15
  <1> QED BY <1>1, <1>2, <1>3

\* gdb puts commands on a breakpoint.
LEMMA AnswersCommands ==
  ASSUME GdbTyped(gdb), NEW m \in MessageSet, m.op = "commands", NEW o \in Execute(m)
  PROVE  \E r : Answered(gdb, o, m, r)
  <1> DEFINE n == m.number
             f == [gdb.breakpoints EXCEPT ![n].armed = TRUE]
             h == [gdb EXCEPT !.breakpoints = f]
             r == Done(m)
             B == [key : Keys \union {"none"}, log : BOOLEAN, armed : BOOLEAN]
  <1>1. Execute(m) = IF n \in DOMAIN gdb.breakpoints THEN {Outcome(h, <<r>>)} ELSE Refuse(m)
    BY DEF Execute
  <1>2. CASE n \notin DOMAIN gdb.breakpoints  BY <1>1, <1>2, Refusing
  <1>3. CASE n \in DOMAIN gdb.breakpoints
    <2>1. /\ gdb \in [program : {"none", "running", "stopped"}, stops : 0..MaxStops, frame : Nat,
                      breakpoints : {gdb.breakpoints}, next : Nat]
          /\ MapOf(gdb.breakpoints, Nat, B)
          /\ \A x \in DOMAIN gdb.breakpoints : x < gdb.next
      BY DEF GdbTyped
    <2>3. gdb.next \in Nat /\ gdb.stops \in Nat /\ m.token \in Nat  BY <2>1, Programs DEF MessageSet
    <2>4. r \in RecordSet(gdb.stops) /\ r.token = m.token /\ r.kind = "done"
      BY <2>3, Answering
    <2>6. /\ DOMAIN f = DOMAIN gdb.breakpoints
          /\ f[n] = [gdb.breakpoints[n] EXCEPT !.armed = TRUE] /\ f[n].armed
          /\ \A x \in DOMAIN gdb.breakpoints : x # n => f[x] = gdb.breakpoints[x]
          /\ MapOf(f, Nat, B)
      <3> HIDE DEF B
      <3>1. DOMAIN f = DOMAIN gdb.breakpoints
            /\ \A x \in DOMAIN gdb.breakpoints : x # n => f[x] = gdb.breakpoints[x]
        OBVIOUS
      <3>2. f[n] = [gdb.breakpoints[n] EXCEPT !.armed = TRUE]  BY <1>3
      <3>3. gdb.breakpoints[n] \in B /\ DOMAIN gdb.breakpoints \subseteq Nat
            /\ \A x \in DOMAIN gdb.breakpoints : gdb.breakpoints[x] \in B
        BY <1>3, <2>1 DEF MapOf
      <3> HIDE DEF f
      <3>4. f[n] \in B /\ f[n].armed  BY <3>2, <3>3 DEF B
      <3>5. \A x \in DOMAIN f : f[x] \in B  BY <3>1, <3>3, <3>4
      <3>6. f = [x \in DOMAIN f |-> f[x]]  BY DEF f
      <3>7. f \in [DOMAIN f -> B]  BY ONLY <3>5, <3>6
      <3>8. MapOf(f, Nat, B)  BY <3>1, <3>3, <3>7 DEF MapOf
      <3> QED BY <3>1, <3>2, <3>4, <3>8
    <2> HIDE DEF f, B
    <2>9. /\ h \in [program : {"none", "running", "stopped"}, stops : 0..MaxStops, frame : Nat,
                    breakpoints : {f}, next : Nat]
          /\ h.breakpoints = f /\ h.next = gdb.next /\ h.stops = gdb.stops
          /\ h.program = gdb.program
      BY <2>1
    <2> HIDE DEF h, r, n
    <2>10. GdbTyped(h)  BY <2>1, <2>6, <2>9 DEF GdbTyped, B
    <2>11. Reads(gdb, h, m, r)
      <3>1. gdb.next <= h.next /\ m.number = n  BY <2>3, <2>9 DEF n
      <3> HIDE DEF RecordSet, MessageSet
      <3>2. /\ \A x \in DOMAIN gdb.breakpoints : x # n =>
                 x \in DOMAIN h.breakpoints /\ h.breakpoints[x] = gdb.breakpoints[x]
            /\ n \in DOMAIN h.breakpoints /\ h.breakpoints[n].armed
            /\ h.breakpoints[n] = [gdb.breakpoints[n] EXCEPT !.armed = TRUE]
        BY ONLY <1>3, <2>6, <2>9
      <3>3. \A x \in DOMAIN gdb.breakpoints :
              \/ x \in DOMAIN h.breakpoints /\ h.breakpoints[x] = gdb.breakpoints[x]
              \/ /\ m.op = "commands" /\ m.number = x /\ x \in DOMAIN h.breakpoints
                 /\ h.breakpoints[x] = [gdb.breakpoints[x] EXCEPT !.armed = TRUE]
        <4> TAKE x \in DOMAIN gdb.breakpoints
        <4>1. CASE x = n  BY ONLY <3>1, <3>2, <4>1, m.op = "commands", Zenon
        <4>2. CASE x # n  BY ONLY <3>2, <4>2, x \in DOMAIN gdb.breakpoints, Zenon
        <4> QED BY <4>1, <4>2
      <3>4. h.breakpoints[m.number].armed /\ m.op # "insert"  BY <3>1, <3>2
      <3> QED BY ONLY <2>4, <3>1, <3>3, <3>4, Zenon DEF Reads
    <2>12. Minds(gdb, h, m, r)  BY <2>4, <2>9 DEF Minds
    <2>13. o.gdb = h /\ o.records = <<r>>  BY <1>1, <1>3 DEF Outcome
    <2>14. gdb.stops <= h.stops  BY <2>3, <2>9
    <2> HIDE DEF RecordSet, MessageSet
    <2>15. Answered(gdb, o, m, r)  BY <2>4, <2>9, <2>10, <2>11, <2>12, <2>13, <2>14 DEF Answered
    <2> QED BY <2>15
  <1> QED BY <1>2, <1>3

\* gdb deletes breakpoints.
LEMMA AnswersDelete ==
  ASSUME GdbTyped(gdb), NEW m \in MessageSet, m.op \in {"delete", "deleteAll"}, NEW o \in Execute(m)
  PROVE  \E r : Answered(gdb, o, m, r)
  <1> DEFINE n == m.number
             f == IF m.op = "delete" THEN Without(gdb.breakpoints, n) ELSE <<>>
             h == [gdb EXCEPT !.breakpoints = f]
             r == Done(m)
             B == [key : Keys \union {"none"}, log : BOOLEAN, armed : BOOLEAN]
  <1>1. o = Outcome(h, <<r>>)
    <2>1. CASE m.op = "delete"  BY <2>1 DEF Execute
    <2>2. CASE m.op = "deleteAll"  BY <2>2 DEF Execute
    <2> QED BY <2>1, <2>2
  <1>2. /\ gdb \in [program : {"none", "running", "stopped"}, stops : 0..MaxStops, frame : Nat,
                    breakpoints : {gdb.breakpoints}, next : Nat]
        /\ MapOf(gdb.breakpoints, Nat, B)
        /\ \A x \in DOMAIN gdb.breakpoints : x < gdb.next
    BY DEF GdbTyped
  <1>3. gdb.next \in Nat /\ gdb.stops \in Nat /\ m.token \in Nat  BY <1>2, Programs DEF MessageSet
  <1>4. r \in RecordSet(gdb.stops) /\ r.token = m.token /\ r.kind = "done"
    BY <1>3, Answering
  <1> HIDE DEF B
  <1>5. /\ DOMAIN f \subseteq DOMAIN gdb.breakpoints
        /\ \A x \in DOMAIN f : f[x] = gdb.breakpoints[x]
        /\ MapOf(f, Nat, B)
        /\ \A x \in DOMAIN gdb.breakpoints : x \in DOMAIN f \/ m.op = "deleteAll" \/ x = n
    <2>1. CASE m.op = "delete"
      <3>1. f = [x \in DOMAIN gdb.breakpoints \ {n} |-> gdb.breakpoints[x]]  BY <2>1 DEF Without
      <3> HIDE DEF f
      <3> QED BY <1>2, <3>1 DEF MapOf
    <2>2. CASE m.op # "delete"
      <3>1. f = <<>>  BY <2>2
      <3>2. DOMAIN f = {}  BY <3>1
      <3> HIDE DEF f
      <3>4. MapOf(<<>>, Nat, B)  BY DEF MapOf
      <3>3. MapOf(f, Nat, B)  BY ONLY <3>1, <3>4, Zenon
      <3> QED BY <2>2, <3>2, <3>3
    <2> QED BY <2>1, <2>2
  <1> HIDE DEF f
  <1>6. /\ h \in [program : {"none", "running", "stopped"}, stops : 0..MaxStops, frame : Nat,
                  breakpoints : {f}, next : Nat]
        /\ h.breakpoints = f /\ h.next = gdb.next /\ h.stops = gdb.stops
        /\ h.program = gdb.program
    BY <1>2
  <1> HIDE DEF h, r, n
  <1>7. GdbTyped(h)  BY <1>2, <1>5, <1>6 DEF GdbTyped, B
  <1>8. Reads(gdb, h, m, r)
    <2>1. gdb.next <= h.next /\ m.number = n  BY <1>3, <1>6 DEF n
    <2> QED BY <1>4, <1>5, <1>6, <2>1 DEF Reads
  <1>9. Minds(gdb, h, m, r)  BY <1>4, <1>6 DEF Minds
  <1>10. o.gdb = h /\ o.records = <<r>>  BY <1>1 DEF Outcome
  <1>11. gdb.stops <= h.stops  BY <1>3, <1>6
  <1> HIDE DEF RecordSet, MessageSet
  <1>12. Answered(gdb, o, m, r)  BY <1>4, <1>6, <1>7, <1>8, <1>9, <1>10, <1>11 DEF Answered
  <1> QED BY <1>12

\* gdb starts, resumes, stops or leaves the program.
LEMMA AnswersProgram ==
  ASSUME GdbTyped(gdb), NEW m \in MessageSet,
         m.op \in {"run", "continue", "finish", "signal", "interrupt", "attach", "detach", "core"},
         NEW o \in Execute(m)
  PROVE  \E r : Answered(gdb, o, m, r)
  <1> DEFINE gone == [gdb EXCEPT !.program = "none"]
  <1>1. /\ GdbTyped(Going(gdb)) /\ Going(gdb).breakpoints = gdb.breakpoints
        /\ Going(gdb).next = gdb.next /\ Going(gdb).stops = gdb.stops
        /\ GdbTyped(gone) /\ gone.breakpoints = gdb.breakpoints /\ gone.next = gdb.next
        /\ gone.stops = gdb.stops /\ gone.program = "none"
        /\ MayStop => /\ GdbTyped(Stopping(gdb)) /\ Stopping(gdb).breakpoints = gdb.breakpoints
                      /\ Stopping(gdb).next = gdb.next /\ Stopping(gdb).stops = gdb.stops + 1
        /\ gdb.stops \in Nat /\ gdb.stops <= gdb.stops /\ gdb.stops <= gdb.stops + 1
    <2>1. gdb.stops \in Nat  BY Programs
    <2>2. gdb.stops <= gdb.stops /\ gdb.stops <= gdb.stops + 1  BY <2>1
    <2> QED BY <2>1, <2>2, Programs DEF MayStop
  <1>2. \A s \in Nat : Done(m) \in RecordSet(s) /\ Done(m).token = m.token /\ Done(m).kind = "done"
    BY Answering
  <1>3. \/ o \in Refuse(m)
        \/ /\ m.op \in {"run", "continue", "finish", "signal"} /\ (m.op = "run" \/ gdb.program = "stopped")
           /\ o = Outcome(Going(gdb), <<Done(m), Async("running")>>)
        \/ /\ m.op = "interrupt" /\ gdb.program = "running" /\ MayStop
           /\ o = Outcome(Stopping(gdb), <<Done(m), Async("stopped")>>)
        \/ /\ m.op = "attach" /\ MayStop
           /\ o \in {Outcome(Stopping(gdb), <<Async("stopped"), Done(m)>>),
                     Outcome(Stopping(gdb), <<Done(m), Async("stopped")>>)}
        \/ m.op = "core" /\ MayStop /\ o = Outcome(Stopping(gdb), <<Done(m)>>)
        \/ m.op = "detach" /\ o = Outcome(gone, <<Done(m)>>)
    <2>1. CASE m.op = "run"
      <3>1. Execute(m) = (IF MayRefuse THEN Refuse(m) ELSE {})
                         \union {Outcome(Going(gdb), <<Done(m), Async("running")>>)}
        BY <2>1 DEF Execute
      <3> QED BY <2>1, <3>1
    <2>2. CASE m.op \in {"continue", "finish", "signal"}
      <3>1. Execute(m) =
              (IF gdb.program = "stopped" THEN {Outcome(Going(gdb), <<Done(m), Async("running")>>)} ELSE {})
              \union (IF gdb.program # "stopped" \/ m.op = "signal" \/ (m.op = "finish" /\ MayRefuse)
                      THEN Refuse(m) ELSE {})
        BY <2>2 DEF Execute
      <3> QED BY <2>2, <3>1
    <2>3. CASE m.op = "interrupt"
      <3>1. Execute(m) = IF gdb.program = "running" /\ MayStop
                         THEN {Outcome(Stopping(gdb), <<Done(m), Async("stopped")>>)} ELSE Refuse(m)
        BY <2>3 DEF Execute
      <3> QED BY <2>3, <3>1
    <2>4. CASE m.op = "attach"
      <3>1. Execute(m) =
              Refuse(m) \union
              (IF MayStop THEN {Outcome(Stopping(gdb), <<Async("stopped"), Done(m)>>),
                                Outcome(Stopping(gdb), <<Done(m), Async("stopped")>>)} ELSE {})
        BY <2>4 DEF Execute
      <3> QED BY <2>4, <3>1
    <2>5. CASE m.op = "detach"
      <3>1. Execute(m) =
              (IF gdb.program # "none" THEN {Outcome(gone, <<Done(m)>>)} ELSE {})
              \union (IF gdb.program # "stopped" THEN Refuse(m) ELSE {})
        BY <2>5 DEF Execute
      <3> QED BY <2>5, <3>1
    <2>6. CASE m.op = "core"
      <3>1. Execute(m) =
              Refuse(m) \union (IF MayStop THEN {Outcome(Stopping(gdb), <<Done(m)>>)} ELSE {})
        BY <2>6 DEF Execute
      <3> QED BY <2>6, <3>1
    <2> QED BY <2>1, <2>2, <2>3, <2>4, <2>5, <2>6
  <1> HIDE DEF gone
  <1>4. m.op \notin {"insert", "commands"}  OBVIOUS
  <1>5. CASE o \in Refuse(m)  BY <1>4, <1>5, Refusing
  <1>6. CASE /\ m.op \in {"run", "continue", "finish", "signal"} /\ (m.op = "run" \/ gdb.program = "stopped")
             /\ o = Outcome(Going(gdb), <<Done(m), Async("running")>>)
    <2>1. Minds(gdb, Going(gdb), m, Done(m))
      <3> HIDE DEF RecordSet, MessageSet
      <3> QED BY <1>2, <1>6 DEF Minds
    <2>2. o.gdb = Going(gdb) /\ o.records = <<Done(m), Async("running")>>  BY <1>6 DEF Outcome
    <2>3. gdb.stops <= Going(gdb).stops /\ Going(gdb).stops \in Nat  BY <1>1
    <2>4. Done(m) \in RecordSet(Going(gdb).stops) /\ Done(m).token = m.token  BY <1>2, <2>3
    <2> HIDE DEF RecordSet, MessageSet
    <2>5. Answered(gdb, o, m, Done(m))  BY <1>1, <1>4, <2>1, <2>2, <2>3, <2>4, Accepting
    <2> QED BY <2>5
  <1>7. CASE /\ MayStop /\ m.op \in {"interrupt", "attach", "core"}
             /\ m.op = "interrupt" => gdb.program = "running"
             /\ \/ o = Outcome(Stopping(gdb), <<Done(m)>>)
                \/ o = Outcome(Stopping(gdb), <<Done(m), Async("stopped")>>)
                \/ o = Outcome(Stopping(gdb), <<Async("stopped"), Done(m)>>)
    <2>1. Minds(gdb, Stopping(gdb), m, Done(m))
      <3> HIDE DEF RecordSet, MessageSet
      <3> QED BY <1>2, <1>7 DEF Minds
    <2>2. /\ o.gdb = Stopping(gdb)
          /\ \/ o.records = <<Done(m)>>
             \/ o.records = <<Done(m), Async("running")>>
             \/ o.records = <<Done(m), Async("stopped")>>
             \/ o.records = <<Async("stopped"), Done(m)>>
      BY <1>7 DEF Outcome
    <2>3. gdb.stops <= Stopping(gdb).stops /\ Stopping(gdb).stops \in Nat
      <3>1. Stopping(gdb).stops = gdb.stops + 1  BY <1>1, <1>7
      <3>2. gdb.stops + 1 \in Nat  BY <1>1
      <3> QED BY <1>1, <3>1, <3>2
    <2>4. Done(m) \in RecordSet(Stopping(gdb).stops) /\ Done(m).token = m.token  BY <1>2, <2>3
    <2> HIDE DEF RecordSet, MessageSet
    <2>5. Answered(gdb, o, m, Done(m))  BY <1>1, <1>4, <1>7, <2>1, <2>2, <2>3, <2>4, Accepting
    <2> QED BY <2>5
  <1>8. CASE m.op = "detach" /\ o = Outcome(gone, <<Done(m)>>)
    <2>1. Minds(gdb, gone, m, Done(m))
      <3> HIDE DEF RecordSet, MessageSet
      <3> QED BY <1>1, <1>2, <1>8 DEF Minds
    <2>2. o.gdb = gone /\ o.records = <<Done(m)>>  BY <1>8 DEF Outcome
    <2>3. gdb.stops <= gone.stops /\ gone.stops \in Nat  BY <1>1
    <2>4. Done(m) \in RecordSet(gone.stops) /\ Done(m).token = m.token  BY <1>2, <2>3
    <2> HIDE DEF RecordSet, MessageSet
    <2>5. Answered(gdb, o, m, Done(m))  BY <1>1, <1>4, <2>1, <2>2, <2>3, <2>4, Accepting
    <2> QED BY <2>5
  <1> QED BY <1>3, <1>5, <1>6, <1>7, <1>8

\* gdb says what it sees, in the frame that is selected.
LEMMA AnswersOther ==
  ASSUME GdbTyped(gdb), NEW m \in MessageSet,
         m.op \in {"executable", "frame", "evaluate", "stack", "variables"}, NEW o \in Execute(m)
  PROVE  \E r : Answered(gdb, o, m, r)
  <1> DEFINE there == [gdb EXCEPT !.frame = m.number]
             r == IF m.op = "evaluate" THEN Record("done", m.token, 0, gdb.stops, 0)
                  ELSE IF m.op \in {"stack", "variables"}
                  THEN Record(m.op, m.token, 0, gdb.stops, gdb.frame) ELSE Done(m)
             h == IF m.op = "frame" THEN there ELSE gdb
  <1>1. /\ GdbTyped(h) /\ h.breakpoints = gdb.breakpoints /\ h.next = gdb.next
        /\ h.stops = gdb.stops /\ h.program = gdb.program /\ gdb.stops \in Nat
        /\ gdb.stops <= h.stops
    <2>1. m.number \in Nat  BY DEF MessageSet
    <2>2. /\ GdbTyped(there) /\ there.breakpoints = gdb.breakpoints /\ there.next = gdb.next
          /\ there.stops = gdb.stops /\ there.program = gdb.program /\ gdb.stops \in Nat
      BY <2>1, Programs
    <2>3. gdb.stops <= gdb.stops  BY <2>2
    <2> QED BY <2>2, <2>3
  <1>2. r \in RecordSet(gdb.stops) /\ r.token = m.token /\ r.kind # "exited" /\ r.kind # "error"
    <2>1. gdb.stops \in 0..gdb.stops /\ 0 \in 0..gdb.stops /\ gdb.frame \in Nat /\ 0 \in Nat
      BY <1>1 DEF GdbTyped
    <2>2. CASE m.op = "evaluate"
      <3>1. r = Record("done", m.token, 0, gdb.stops, 0)  BY <2>2
      <3> HIDE DEF r
      <3> QED BY <1>1, <2>1, <3>1, Answering
    <2>3. CASE m.op \in {"stack", "variables"}
      <3>1. r = Record(m.op, m.token, 0, gdb.stops, gdb.frame)  BY <2>3
      <3> HIDE DEF r
      <3> QED BY <1>1, <2>1, <2>3, <3>1, Answering
    <2>4. CASE m.op \notin {"evaluate", "stack", "variables"}
      <3>1. r = Done(m)  BY <2>4
      <3> HIDE DEF r
      <3> QED BY <1>1, <3>1, Answering
    <2> QED BY <2>2, <2>3, <2>4
  <1>3. o \in Refuse(m) \/ o = Outcome(h, <<r>>)
    <2>1. CASE m.op = "executable"  BY <2>1 DEF Execute
    <2>2. CASE m.op = "frame"  BY <2>2 DEF Execute
    <2>3. CASE m.op = "evaluate"  BY <2>3 DEF Execute
    <2>4. CASE m.op \in {"stack", "variables"}  BY <2>4 DEF Execute
    <2> QED BY <2>1, <2>2, <2>3, <2>4
  <1>4. m.op \notin {"insert", "commands", "detach", "attach"}  OBVIOUS
  <1> HIDE DEF h, r
  <1>5. CASE o \in Refuse(m)  BY <1>4, <1>5, Refusing
  <1>6. CASE o = Outcome(h, <<r>>)
    <2>1. Minds(gdb, h, m, r)
      <3> HIDE DEF RecordSet, MessageSet
      <3> QED BY <1>1, <1>2, <1>4 DEF Minds
    <2>2. o.gdb = h /\ o.records = <<r>>  BY <1>6 DEF Outcome
    <2>4. r \in RecordSet(h.stops) /\ r.token = m.token  BY <1>1, <1>2
    <2> HIDE DEF RecordSet, MessageSet
    <2>5. Answered(gdb, o, m, r)  BY <1>1, <1>4, <2>1, <2>2, <2>4, Accepting
    <2> QED BY <2>5
  <1> QED BY <1>3, <1>5, <1>6

\* What gdb reads it answers.
LEMMA Executing ==
  ASSUME GdbTyped(gdb), NEW m \in MessageSet, NEW o \in Execute(m)
  PROVE  \E r : Answered(gdb, o, m, r)
  <1>1. m.op \in Ops  BY DEF MessageSet
  <1>2. CASE m.op = "insert"  BY <1>2, AnswersInsert
  <1>3. CASE m.op = "commands"  BY <1>3, AnswersCommands
  <1>4. CASE m.op \in {"delete", "deleteAll"}  BY <1>4, AnswersDelete
  <1>5. CASE m.op \in {"run", "continue", "finish", "signal", "interrupt", "attach", "detach", "core"}
    BY <1>5, AnswersProgram
  <1>6. CASE m.op \in {"executable", "frame", "evaluate", "stack", "variables"}  BY <1>6, AnswersOther
  <1>7. \/ m.op = "insert" \/ m.op = "commands" \/ m.op \in {"delete", "deleteAll"}
        \/ m.op \in {"run", "continue", "finish", "signal", "interrupt", "attach", "detach", "core"}
        \/ m.op \in {"executable", "frame", "evaluate", "stack", "variables"}
    BY <1>1 DEF Ops, ReadOnly
  <1> QED BY <1>2, <1>3, <1>4, <1>5, <1>6, <1>7

\* The client when its process has q to read and has printed out.
Piped(c, q, out) == [c EXCEPT !.stdin = q, !.output = out]

\* Nothing else changes.
LEMMA PipedFields ==
  ASSUME NEW s, NEW c, ClientTyped(c, s), NEW q \in Seq(MessageSet), NEW out \in Seq(RecordSet(s))
  PROVE  LET e == Piped(c, q, out) IN
         /\ ClientTyped(e, s) /\ Same(c, e) /\ e.token = c.token /\ e.stdin = q /\ e.output = out
  <1> DEFINE e == Piped(c, q, out)
  <1>1. /\ Same(c, e) /\ e.token = c.token /\ e.stdin = q /\ e.output = out
    BY DEF Piped, Same, ClientTyped
  <1>2. ClientTyped(e, s)  BY DEF Piped, ClientTyped, MapOf
  <1> QED BY <1>1, <1>2

\* Two records printed one after the other.
LEMMA OneByOne ==
  ASSUME NEW T, NEW out \in Seq(T), NEW r \in T, NEW a \in T
  PROVE  /\ out \o <<r>> = Append(out, r) /\ Append(out, r) \in Seq(T)
         /\ out \o <<r, a>> = Append(Append(out, r), a) /\ Append(Append(out, r), a) \in Seq(T)
  <1>1. out \o <<r>> = Append(out, r)  OBVIOUS
  <1>2. out \o <<r, a>> = Append(Append(out, r), a)  OBVIOUS
  <1>3. Append(out, r) \in Seq(T)  OBVIOUS
  <1>4. Append(Append(out, r), a) \in Seq(T)
    <2> DEFINE q == Append(out, r)
    <2>1. q \in Seq(T)  BY <1>3
    <2> HIDE DEF q
    <2>2. Append(q, a) \in Seq(T)  BY <2>1
    <2> QED BY <2>2 DEF q
  <1> QED BY <1>1, <1>2, <1>3, <1>4

\* gdb reads a command, and answers it.
LEMMA GdbReadsSound ==
  ASSUME Sound(client, gdb), GdbReads
  PROVE  Sound(client', gdb')
  <1> DEFINE m == Head(client.stdin)
             q == Tail(client.stdin)
             h == gdb'
  <1>1. PICK o \in Execute(m) :
          /\ gdb' = o.gdb
          /\ client' = [client EXCEPT !.stdin = Tail(@), !.output = @ \o o.records]
    BY DEF GdbReads
  <1>2. /\ client.running /\ client.stdin # <<>>  BY DEF GdbReads
  <1>3. ClientTyped(client, gdb.stops) /\ GdbTyped(gdb)  BY DEF Sound, SoundFor
  <1>4. client.stdin \in Seq(MessageSet) /\ client.output \in Seq(RecordSet(gdb.stops))
    BY <1>3, WireTypes
  <1>5. m \in MessageSet /\ q \in Seq(MessageSet)  BY <1>2, <1>4, Taken
  <1>6. PICK r : Answered(gdb, o, m, r)  BY <1>3, <1>5, Executing
  <1>7. /\ GdbTyped(h) /\ gdb.stops <= h.stops /\ r \in RecordSet(h.stops)
        /\ Reads(gdb, h, m, r) /\ Minds(gdb, h, m, r)
        /\ \/ o.records = <<r>>
           \/ o.records = <<r, Async("running")>>
           \/ o.records = <<r, Async("stopped")>>
           \/ o.records = <<Async("stopped"), r>>
    BY <1>1, <1>6 DEF Answered
  <1>8. gdb.stops \in Nat /\ h.stops \in Nat  BY <1>3, <1>7, Programs
  <1>9. ClientTyped(client, h.stops) /\ RecordSet(gdb.stops) \subseteq RecordSet(h.stops)
    BY <1>3, <1>7, <1>8, MoreStops
  <1>10. client.output \in Seq(RecordSet(h.stops))  BY <1>9, WireTypes
  <1>11. \A s \in Nat, kind \in {"stopped", "running"} :
           /\ Async(kind) \in RecordSet(s) /\ Async(kind).token = 0 /\ Async(kind).kind = kind
    BY <1>5, Answering
  <1> DEFINE out == client.output
             T == RecordSet(h.stops)
  <1>12. client' = Piped(client, q, out \o o.records)
    BY <1>1, <1>3 DEF Piped, ClientTyped
  <1> HIDE DEF m, q, h, T, out
  <1>0. ASSUME NEW z \in Seq(T)
        PROVE  /\ ClientTyped(Piped(client, q, z), h.stops) /\ Same(client, Piped(client, q, z))
               /\ Piped(client, q, z).token = client.token /\ Piped(client, q, z).stdin = q
               /\ Piped(client, q, z).output = z
    BY <1>5, <1>9, PipedFields DEF T
  <1>13. CASE o.records = <<r>>
    <2> DEFINE e == Piped(client, q, Append(out, r))
    <2>1. out \o <<r>> = Append(out, r) /\ Append(out, r) \in Seq(T)
      <3>1. out \in Seq(T) /\ r \in T  BY <1>7, <1>10 DEF T, out
      <3> QED BY <3>1, OneByOne
    <2>2. ClientTyped(e, h.stops) /\ Same(client, e) /\ e.token = client.token /\ e.stdin = q
          /\ e.output = Append(out, r)
      BY <1>0, <2>1
    <2>3. client' = e  BY <1>12, <1>13, <2>1
    <2> HIDE DEF e
    <2>4. Sound(e, h)  BY <1>2, <1>7, <2>2, Reading DEF m, q, out
    <2> QED BY <2>3, <2>4 DEF h
  <1>14. ASSUME NEW kind \in {"stopped", "running"}, o.records = <<r, Async(kind)>>
         PROVE  Sound(client', gdb')
    <2> DEFINE a == Async(kind)
               x == Piped(client, q, Append(out, r))
               e == Piped(client, q, Append(Append(out, r), a))
    <2>1. out \o <<r, a>> = Append(Append(out, r), a) /\ Append(out, r) \in Seq(T)
          /\ Append(Append(out, r), a) \in Seq(T)
      <3>1. out \in Seq(T) /\ r \in T /\ a \in T  BY <1>7, <1>8, <1>10, <1>11, <1>14 DEF T, out
      <3> HIDE DEF a
      <3> QED BY <3>1, OneByOne
    <2>2. ClientTyped(x, h.stops) /\ Same(client, x) /\ x.token = client.token /\ x.stdin = q
          /\ x.output = Append(out, r)
      BY <1>0, <2>1
    <2>3. ClientTyped(e, h.stops) /\ Same(client, e) /\ e.token = client.token /\ e.stdin = q
          /\ e.output = Append(Append(out, r), a)
      BY <1>0, <2>1
    <2>4. client' = e  BY <1>12, <1>14, <2>1
    <2>5. a \in RecordSet(h.stops) /\ a.token = 0 /\ a.kind # "exited"  BY <1>8, <1>11, <1>14
    <2> HIDE DEF e, x, a
    <2>6. Sound(x, h)  BY <1>2, <1>7, <2>2, Reading DEF m, q, out
    <2>7. Same(x, e) /\ x.running /\ e.token = x.token /\ e.stdin = x.stdin /\ e.output = Append(x.output, a)
      BY <1>2, <2>2, <2>3 DEF Same
    <2>8. Sound(e, h)  BY <2>3, <2>5, <2>6, <2>7, Printing
    <2> QED BY <2>4, <2>8 DEF h
  <1>15. CASE o.records = <<Async("stopped"), r>>
    <2> DEFINE a == Async("stopped")
               x == Piped(client, client.stdin, Append(out, a))
               e == Piped(client, q, Append(Append(out, a), r))
    <2>1. out \o <<a, r>> = Append(Append(out, a), r) /\ Append(Append(out, a), r) \in Seq(T)
      <3>1. out \in Seq(T) /\ r \in T /\ a \in T  BY <1>7, <1>8, <1>10, <1>11 DEF T, out
      <3> HIDE DEF a
      <3> QED BY <3>1, OneByOne
    <2>5. a \in RecordSet(gdb.stops) /\ a.token = 0 /\ a.kind # "exited"  BY <1>8, <1>11
    <2>6. Append(out, a) \in Seq(RecordSet(gdb.stops))
      <3> HIDE DEF a
      <3> QED BY <1>4, <2>5, Appended DEF out
    <2>2. ClientTyped(x, gdb.stops) /\ Same(client, x) /\ x.token = client.token
          /\ x.stdin = client.stdin /\ x.output = Append(out, a)
      <3> DEFINE z == Append(out, a)
      <3>1. z \in Seq(RecordSet(gdb.stops)) /\ x = Piped(client, client.stdin, z)  BY <2>6
      <3> HIDE DEF z, x
      <3>2. LET y == Piped(client, client.stdin, z) IN
            /\ ClientTyped(y, gdb.stops) /\ Same(client, y) /\ y.token = client.token
            /\ y.stdin = client.stdin /\ y.output = z
        BY <1>3, <1>4, <3>1, PipedFields
      <3> QED BY <3>1, <3>2 DEF z
    <2>3. ClientTyped(e, h.stops) /\ Same(client, e) /\ e.token = client.token /\ e.stdin = q
          /\ e.output = Append(Append(out, a), r)
      BY <1>0, <2>1
    <2>4. client' = e  BY <1>12, <1>15, <2>1
    <2> HIDE DEF e, x, a
    <2>7. Sound(x, gdb)  BY <1>2, <2>2, <2>5, Printing DEF out
    <2>8. Same(x, e) /\ x.running /\ e.token = x.token /\ e.stdin = Tail(x.stdin)
          /\ e.output = Append(x.output, r) /\ x.stdin # <<>> /\ Head(x.stdin) = m
      BY <1>2, <2>2, <2>3 DEF Same, m, q
    <2>9. Sound(e, h)  BY <1>7, <2>3, <2>7, <2>8, Reading
    <2> QED BY <2>4, <2>9 DEF h
  <1> QED BY <1>7, <1>13, <1>14, <1>15

\* gdb prints about its program.
LEMMA PrintsSound ==
  ASSUME Sound(client, gdb), NEW h, GdbTyped(h), h.breakpoints = gdb.breakpoints, h.next = gdb.next,
         gdb.stops <= h.stops, gdb.program # "none", NEW kind \in {"stopped", "exited"},
         kind = "exited" => h.program = "none", Prints(h, Async(kind))
  PROVE  Sound(client', gdb')
  <1> DEFINE a == Async(kind)
  <1>1. client.running /\ gdb' = h /\ client' = [client EXCEPT !.output = Append(@, a)]  BY DEF Prints
  <1>2. \A i \in 1..Len(client.stdin) :
          client.stdin[i].op = "attach" => h.program = "none" \/ client.mode # "attach"
    BY <1>1 DEF Sound, SoundFor, Attached
  <1>3. Sound(client, h)  BY <1>2, GdbMoves
  <1>4. ClientTyped(client, h.stops) /\ h.stops \in Nat  BY <1>3, Programs DEF Sound, SoundFor
  <1>5. client.stdin \in Seq(MessageSet) /\ client.output \in Seq(RecordSet(h.stops))
    BY <1>4, WireTypes
  <1>6. a \in RecordSet(h.stops) /\ a.token = 0 /\ a.kind = kind
    BY <1>4 DEF Async, Record, RecordSet
  <1> HIDE DEF a
  <1>7. Append(client.output, a) \in Seq(RecordSet(h.stops))  BY <1>5, <1>6, Appended
  <1> DEFINE e == Piped(client, client.stdin, Append(client.output, a))
  <1>8. ClientTyped(e, h.stops) /\ Same(client, e) /\ e.token = client.token
        /\ e.stdin = client.stdin /\ e.output = Append(client.output, a)
    <2> DEFINE z == Append(client.output, a)
    <2>1. z \in Seq(RecordSet(h.stops)) /\ e = Piped(client, client.stdin, z)  BY <1>7
    <2> HIDE DEF z, e
    <2>2. LET y == Piped(client, client.stdin, z) IN
          /\ ClientTyped(y, h.stops) /\ Same(client, y) /\ y.token = client.token
          /\ y.stdin = client.stdin /\ y.output = z
      BY <1>4, <1>5, <2>1, PipedFields
    <2> QED BY <2>1, <2>2 DEF z
  <1>9. client' = e  BY <1>1, <1>4 DEF Piped, ClientTyped
  <1> HIDE DEF e
  <1>10. Sound(e, h)  BY <1>1, <1>3, <1>6, <1>8, Printing
  <1> QED BY <1>1, <1>9, <1>10

\* The program stops by itself.
LEMMA ProgramStopsSound ==
  ASSUME Sound(client, gdb), ProgramStops
  PROVE  Sound(client', gdb')
  <1>1. gdb.program = "running" /\ gdb.stops < MaxStops /\ Prints(Stopping(gdb), Async("stopped"))
    BY DEF ProgramStops, MayStop
  <1>2. GdbTyped(gdb)  BY DEF Sound, SoundFor
  <1>3. /\ GdbTyped(Stopping(gdb)) /\ Stopping(gdb).breakpoints = gdb.breakpoints
        /\ Stopping(gdb).next = gdb.next /\ Stopping(gdb).stops = gdb.stops + 1 /\ gdb.stops \in Nat
    BY <1>1, <1>2, Programs
  <1>4. gdb.stops <= Stopping(gdb).stops  BY <1>3
  <1> QED BY <1>1, <1>3, <1>4, PrintsSound

\* The program exits.
LEMMA ProgramExitsSound ==
  ASSUME Sound(client, gdb), ProgramExits
  PROVE  Sound(client', gdb')
  <1> DEFINE h == [gdb EXCEPT !.program = "none"]
  <1>1. gdb.program = "running" /\ Prints(h, Async("exited"))  BY DEF ProgramExits
  <1>2. GdbTyped(gdb)  BY DEF Sound, SoundFor
  <1>3. GdbTyped(h) /\ h.breakpoints = gdb.breakpoints /\ h.next = gdb.next
        /\ h.stops = gdb.stops /\ h.program = "none" /\ gdb.stops \in Nat
    BY <1>2, Programs
  <1> HIDE DEF h
  <1>4. gdb.stops <= h.stops  BY <1>3
  <1> QED BY <1>1, <1>3, <1>4, PrintsSound

----------------------------------------------------------------------------
(* gdb dies, and the user's commands *)

\* The client when its process has died.
Died(c, silent) == [c EXCEPT !.running = FALSE, !.stdin = silent]

\* Nothing else changes.
LEMMA DiedFields ==
  ASSUME NEW s, NEW c, ClientTyped(c, s), NEW silent \in Seq(MessageSet)
  PROVE  LET e == Died(c, silent) IN
         /\ ClientTyped(e, s) /\ ~e.running /\ e.stdin = silent /\ e.output = c.output
         /\ e.token = c.token /\ e.mode = c.mode /\ e.detaching = c.detaching
         /\ e.runRequested = c.runRequested /\ e.numbers = c.numbers /\ e.signal = c.signal
         /\ e.breakpoints = c.breakpoints /\ e.commands = c.commands /\ e.watches = c.watches
         /\ e.attach = c.attach /\ e.detach = c.detach /\ e.desired = c.desired
         /\ e.coreExecutable = c.coreExecutable /\ e.coreTarget = c.coreTarget
         /\ e.detachConfirmed = c.detachConfirmed
  <1> DEFINE e == Died(c, silent)
  <1>1. ClientTyped(e, s)  BY DEF Died, ClientTyped, MapOf
  <1>2. /\ ~e.running /\ e.stdin = silent /\ e.output = c.output
        /\ e.token = c.token /\ e.mode = c.mode /\ e.detaching = c.detaching
        /\ e.runRequested = c.runRequested /\ e.numbers = c.numbers /\ e.signal = c.signal
        /\ e.breakpoints = c.breakpoints /\ e.commands = c.commands /\ e.watches = c.watches
        /\ e.attach = c.attach /\ e.detach = c.detach /\ e.desired = c.desired
        /\ e.coreExecutable = c.coreExecutable /\ e.coreTarget = c.coreTarget
        /\ e.detachConfirmed = c.detachConfirmed
    BY DEF Died, ClientTyped
  <1> QED BY <1>1, <1>2

\* gdb exits by itself: what it was to read is gone, what it said is not.
LEMMA GdbDiesSound ==
  ASSUME Sound(client, gdb), GdbDies
  PROVE  Sound(client', gdb')
  <1> DEFINE c == client
             h == Fresh(gdb)
  <1>1. client' = [client EXCEPT !.running = FALSE, !.stdin = <<>>] /\ gdb' = h
    BY DEF GdbDies, Fresh
  <1>2. /\ ClientTyped(c, gdb.stops) /\ GdbTyped(gdb) /\ Wired(c) /\ Tracked(c) /\ InSession(c)
    BY DEF Sound, SoundFor
  <1>3. GdbTyped(h) /\ h.stops = gdb.stops  BY <1>2, FreshTyped
  <1>4. PICK silent \in Seq(MessageSet) : silent = <<>>  BY EmptySeq
  <1> DEFINE e == Died(c, silent)
  <1>5. client' = e  BY ONLY <1>1, <1>4, Zenon DEF Died
  <1> HIDE DEF h, e
  <1>6. /\ ClientTyped(e, gdb.stops) /\ ~e.running /\ e.stdin = silent /\ e.output = c.output
        /\ e.token = c.token /\ e.mode = c.mode /\ e.detaching = c.detaching
        /\ e.runRequested = c.runRequested /\ e.numbers = c.numbers /\ e.signal = c.signal
        /\ e.breakpoints = c.breakpoints /\ e.commands = c.commands /\ e.watches = c.watches
        /\ e.attach = c.attach /\ e.detach = c.detach /\ e.desired = c.desired
        /\ e.coreExecutable = c.coreExecutable /\ e.coreTarget = c.coreTarget
        /\ e.detachConfirmed = c.detachConfirmed
    BY <1>2, DiedFields DEF e
  <1>7. Len(silent) = 0  BY <1>4
  <1>8. Wired(e)  BY <1>2, <1>6, <1>7 DEF Wired
  <1>9. Tracked(e)
    <2>1. Others(e) = Others(c)  BY <1>6 DEF Others
    <2> QED BY <1>2, <1>6, <2>1 DEF Tracked
  <1>10. InSession(e)
    <2>1. e.stdin = <<>>  BY <1>4, <1>6
    <2> QED BY <1>2, <1>6, <1>7, <2>1 DEF InSession
  <1>11. Sound(e, h)  BY <1>3, <1>6, <1>8, <1>9, <1>10 DEF Sound, SoundFor
  <1> QED BY <1>1, <1>5, <1>11

\* A session starts.
LEMMA SessionsSound ==
  ASSUME Sound(client, gdb), StartDebug \/ AttachProcess \/ OpenCoreDump \/ DebugRestart
  PROVE  Sound(client', gdb')
  <1>1. SoundFor(client, gdb, DOMAIN client.desired)  BY DEF Sound
  <1>2. ~client.detaching /\ gdb' = Fresh(gdb)
    BY DEF StartDebug, AttachProcess, OpenCoreDump, DebugRestart, NewSession, Budget, Fresh
  <1>3. CASE StartDebug
    <2>1. "launch" \in Modes /\ client' = Run(Start(client))  BY <1>3 DEF StartDebug
    <2> QED BY <1>1, <1>2, <2>1, StartSound
  <1>4. CASE AttachProcess
    <2>1. "attach" \in Modes /\ client' = Attach(client)  BY <1>4 DEF AttachProcess
    <2> QED BY <1>1, <1>2, <2>1, AttachSound
  <1>5. CASE OpenCoreDump
    <2>1. "core" \in Modes /\ client' = OpenCore(client)  BY <1>5 DEF OpenCoreDump
    <2> QED BY <1>1, <1>2, <2>1, OpenCoreSound
  <1>6. CASE DebugRestart
    <2>1. client.mode = "launch" /\ client' = Run(Start(Stop(client)))  BY <1>6 DEF DebugRestart
    <2>2. "launch" \in Modes  BY <1>1, <2>1 DEF SoundFor, ClientTyped
    <2> DEFINE e == Stop(client)
    <2>3. Sound(e, Fresh(gdb)) /\ ~e.detaching /\ ~e.running
      <3>1. ~(client.running /\ client.mode = "attach" /\ (client.active \/ client.attach # 0))
        BY <2>1
      <3> QED BY <1>2, <3>1, StopSound
    <2> HIDE DEF e
    <2>4. SoundFor(e, Fresh(gdb), DOMAIN e.desired)  BY <2>3 DEF Sound
    <2>5. Sound(Run(Start(e)), Fresh(Fresh(gdb)))  BY <2>2, <2>3, <2>4, StartSound
    <2>6. Fresh(Fresh(gdb)) = Fresh(gdb)  BY <1>1, FreshTyped DEF SoundFor
    <2> QED BY <1>2, <2>1, <2>5, <2>6 DEF e
  <1> QED BY <1>3, <1>4, <1>5, <1>6

\* A session ends, or an attached program is asked for.
LEMMA DebugStopSound ==
  ASSUME Sound(client, gdb), DebugStop
  PROVE  /\ Sound(client', gdb')
         /\ client.mode = "attach" /\ ~client'.running => gdb.program = "none"
  <1>1. client.running /\ ~client.detaching /\ client' = Stop(client)
        /\ gdb' = IF client'.detaching THEN gdb ELSE Fresh(gdb)
    BY DEF DebugStop, Budget, Fresh
  <1> DEFINE e == Stop(client)
  <1>2. IF client.running /\ client.mode = "attach" /\ (client.active \/ client.attach # 0)
        THEN Sound(e, gdb) /\ e.detaching /\ e.running
        ELSE /\ Sound(e, Fresh(gdb)) /\ ~e.detaching /\ ~e.running
             /\ client.running /\ client.mode = "attach" => gdb.program = "none"
    BY <1>1, StopSound
  <1> HIDE DEF e
  <1>3. client' = e  BY <1>1 DEF e
  <1>4. CASE client.running /\ client.mode = "attach" /\ (client.active \/ client.attach # 0)
    BY <1>1, <1>2, <1>3, <1>4
  <1>5. CASE ~(client.running /\ client.mode = "attach" /\ (client.active \/ client.attach # 0))
    BY <1>1, <1>2, <1>3, <1>5
  <1> QED BY <1>4, <1>5

\* stop() returns: it says what the answer to the detach was.
LEMMA FinishStopSound ==
  ASSUME Sound(client, gdb), FinishStop
  PROVE  Sound(client', gdb') /\ client'.detachConfirmed = client.detachConfirmed
  <1>1. client' = Reset(client) /\ gdb' = Fresh(gdb)  BY DEF FinishStop, Fresh
  <1>2. SoundFor(client, gdb, DOMAIN client.desired)  BY DEF Sound
  <1> DEFINE confirmed == client.detachConfirmed
             c == [client EXCEPT !.detachConfirmed = confirmed]
  <1>3. confirmed \in BOOLEAN /\ client = c  BY <1>2 DEF SoundFor, ClientTyped
  <1>4. Sound(Reset(c), Fresh(gdb)) /\ Reset(c).detachConfirmed = confirmed
    <2> HIDE DEF confirmed
    <2> QED BY <1>2, <1>3, ResetSound
  <1> HIDE DEF c, confirmed
  <1> QED BY <1>1, <1>3, <1>4 DEF confirmed

\* The program is run, resumed, interrupted or looked at.
LEMMA CommandsSound ==
  ASSUME Sound(client, gdb), RunAgain \/ Continue \/ StepOut \/ Pause \/ Signal \/ OpenFrame
  PROVE  Sound(client', gdb')
  <1> DEFINE K == DOMAIN client.desired
  <1>1. SoundFor(client, gdb, K)  BY DEF Sound
  <1>2. gdb' = gdb
    BY DEF RunAgain, Continue, StepOut, Pause, Signal, OpenFrame, Does
  <1> HIDE DEF K
  <1>3. ASSUME NEW e, SoundFor(e, gdb, K), e.desired = client.desired, client' = e
        PROVE  Sound(client', gdb')
    BY <1>2, <1>3 DEF Sound, K
  <1>4. CASE RunAgain
    <2>1. client' = Run(client)  BY <1>4 DEF RunAgain, Does
    <2>2. SoundFor(Run(client), gdb, K) /\ Run(client).desired = client.desired  BY <1>1, RunSound
    <2> QED BY <1>3, <2>1, <2>2
  <1>5. ASSUME NEW op \in {"continue", "finish"}, client' = Resume(client, op)
        PROVE  Sound(client', gdb')
    <2>1. SoundFor(Resume(client, op), gdb, K) /\ Resume(client, op).desired = client.desired
      BY <1>1, ResumeSound
    <2> QED BY <1>3, <1>5, <2>1
  <1>6. CASE Continue  BY <1>5, <1>6 DEF Continue, Does
  <1>7. CASE StepOut  BY <1>5, <1>7 DEF StepOut, Does
  <1>8. CASE Pause
    <2>1. client' = Command(client, "interrupt") /\ client.mode # "core"  BY <1>8 DEF Pause, Does
    <2> DEFINE e == Command(client, "interrupt")
    <2>2. SoundFor(e, gdb, K) /\ Same(client, e)
      <3>1. "interrupt" \in {"stack", "variables", "evaluate", "continue", "finish", "signal", "interrupt",
                             "detach", "executable", "core"}
        OBVIOUS
      <3>2. client.mode = "core" <=> "interrupt" \in {"executable", "core"}  BY <2>1
      <3> HIDE DEF e
      <3> QED BY <1>1, <3>1, <3>2, SoundCommand DEF e
    <2> HIDE DEF e
    <2>3. client' = e  BY <2>1 DEF e
    <2> QED BY <1>3, <2>2, <2>3 DEF Same
  <1>9. CASE Signal
    <2>1. client' = SendSignal(client)  BY <1>9 DEF Signal, Does
    <2>2. SoundFor(SendSignal(client), gdb, K) /\ SendSignal(client).desired = client.desired
      BY <1>1, SendSignalSound
    <2> QED BY <1>3, <2>1, <2>2
  <1>10. CASE OpenFrame
    <2>1. PICK level \in Frames : client' = SelectFrame(client, level)  BY <1>10 DEF OpenFrame, Does
    <2>2. level \in Nat  BY Constants
    <2>3. SoundFor(SelectFrame(client, level), gdb, K) /\ SelectFrame(client, level).desired = client.desired
      BY <1>1, <2>2, SelectFrameSound
    <2> QED BY <1>3, <2>1, <2>3
  <1> QED BY <1>4, <1>6, <1>7, <1>8, <1>9, <1>10

\* The user changes a breakpoint, or removes them all.
LEMMA BreakpointsSound ==
  ASSUME Sound(client, gdb),
         RemoveAll \/ \E k \in Keys : ToggleBreakpoint(k) \/ EditBreakpoint(k)
  PROVE  Sound(client', gdb')
  <1>1. CASE RemoveAll
    <2>1. client' = ClearBreakpoints(client) /\ gdb' = gdb  BY <1>1 DEF RemoveAll, Does
    <2> QED BY <2>1, ClearBreakpointsSound
  <1>2. ASSUME NEW k \in Keys, ToggleBreakpoint(k) PROVE Sound(client', gdb')
    <2>1. /\ client' = IF k \in DOMAIN client.desired THEN RemoveBreakpoint(client, k)
                       ELSE AddBreakpoint(client, k)
          /\ gdb' = gdb
      BY <1>2 DEF ToggleBreakpoint, Does
    <2>2. CASE k \in DOMAIN client.desired  BY <2>1, <2>2, RemoveBreakpointSound
    <2>3. CASE k \notin DOMAIN client.desired  BY <2>1, <2>3, AddBreakpointSound
    <2> QED BY <2>2, <2>3
  <1>3. ASSUME NEW k \in Keys, EditBreakpoint(k) PROVE Sound(client', gdb')
    <2>1. k \in DOMAIN client.desired /\ client' = UpdateBreakpoint(client, k) /\ gdb' = gdb
      BY <1>3 DEF EditBreakpoint, Does
    <2> QED BY <2>1, UpdateBreakpointSound
  <1> QED BY <1>1, <1>2, <1>3

\* poll() handles a record.
LEMMA PollSound ==
  ASSUME Sound(client, gdb), Poll
  PROVE  Sound(client', gdb')
  BY HandleStoppedSound, HandleExitedSound, HandleRunningSound, HandleCoreExecutableSound,
     HandleCoreTargetSound, HandleAttachSound, HandleDetachSound, HandleSignalSound,
     HandleInsertSound, HandleCommandsSound, HandleWatchSound, HandleStackSound,
     HandleVariablesSound, HandleOtherSound DEF Poll

----------------------------------------------------------------------------
(* The inductive invariant, and what follows from it *)

\* The invariant holds when the IDE has started.
LEMMA InitIInv == Init => IInv
  <1> SUFFICES ASSUME Init PROVE IInv  OBVIOUS
  <1> DEFINE c == client
  <1>1. c = IdleClient /\ gdb = IdleGdb /\ owner = [ops |-> 0, sessions |-> 0]  BY DEF Init
  <1>2. 0 \in Nat /\ 1 \in Nat /\ MaxStops \in Nat /\ MaxOps \in Nat /\ MaxSessions \in Nat
        /\ 0 \in 0..MaxStops /\ 0 \in 0..MaxOps /\ 0 \in 0..MaxSessions
    BY Constants
  <1>3. /\ ClientTyped(c, 0)
        /\ ~c.running /\ c.stdin = <<>> /\ c.mode = "none"
        /\ ~c.active /\ ~c.runRequested /\ c.signal = 0
        /\ c.attach = 0 /\ c.detach = 0 /\ c.coreExecutable = 0
        /\ c.coreTarget = 0 /\ c.numbers = <<>> /\ c.breakpoints = {}
        /\ c.commands = {} /\ c.watches = {} /\ c.output = <<>>
        /\ c.token = 1 /\ c.desired = <<>> /\ ~c.detaching
    BY <1>1, <1>2, IdleFields, Zenon
  <1>4. GdbTyped(gdb) /\ gdb.stops = 0
    <2>1. IdleGdb = Fresh(IdleGdb)  BY DEF Fresh, IdleGdb
    <2>2. /\ IdleGdb.program = "none" /\ IdleGdb.stops = 0 /\ IdleGdb.next = 1
          /\ IdleGdb.breakpoints = <<>>
          /\ IdleGdb \in [program : {"none"}, stops : {0}, frame : {0}, breakpoints : {<<>>}, next : {1}]
      BY DEF IdleGdb
    <2>3. MapOf(<<>>, Nat, [key : Keys \union {"none"}, log : BOOLEAN, armed : BOOLEAN])
      BY DEF MapOf
    <2>4. GdbTyped(IdleGdb)  BY <1>2, <2>2, <2>3 DEF GdbTyped
    <2> QED BY <1>1, <2>2, <2>4
  <1> HIDE DEF c
  <1>5. Len(c.stdin) = 0 /\ Len(c.output) = 0 /\ DOMAIN c.numbers = {}  BY <1>3
  <1>6. Wired(c)  BY <1>3, <1>5 DEF Wired
  <1>7. Tracked(c)  BY <1>3 DEF Tracked, Others
  <1>8. InSession(c)  BY <1>3, <1>5 DEF InSession
  <1>9. Sound(c, gdb)  BY <1>3, <1>4, <1>6, <1>7, <1>8 DEF Sound, SoundFor
  <1>10. owner \in [ops : 0..MaxOps, sessions : 0..MaxSessions]  BY <1>1, <1>2
  <1> QED BY <1>9, <1>10 DEF IInv, c

\* The user's commands stay within their bounds.
LEMMA Bounded ==
  ASSUME owner \in [ops : 0..MaxOps, sessions : 0..MaxSessions],
         NewSession \/ (Budget /\ Spend) \/ UNCHANGED owner
  PROVE  owner' \in [ops : 0..MaxOps, sessions : 0..MaxSessions]
  <1>1. MaxOps \in Nat /\ MaxSessions \in Nat  BY Constants
  <1>2. CASE NewSession
    <2>1. owner.ops + 1 \in 0..MaxOps /\ owner.sessions + 1 \in 0..MaxSessions
      BY <1>1, <1>2 DEF NewSession, Budget
    <2> QED BY <1>2, <2>1 DEF NewSession
  <1>3. CASE Budget /\ Spend
    <2>1. owner.ops + 1 \in 0..MaxOps  BY <1>1, <1>3 DEF Budget
    <2> QED BY <1>3, <2>1 DEF Spend
  <1>4. CASE UNCHANGED owner  BY <1>4
  <1> QED BY <1>2, <1>3, <1>4

\* Every step keeps the invariant.
LEMMA NextIInv == IInv /\ [Next]_vars => IInv'
  <1> SUFFICES ASSUME IInv, [Next]_vars PROVE IInv'  OBVIOUS
  <1>1. Sound(client, gdb) /\ owner \in [ops : 0..MaxOps, sessions : 0..MaxSessions]  BY DEF IInv
  <1>2. ASSUME Sound(client', gdb'), NewSession \/ (Budget /\ Spend) \/ UNCHANGED owner PROVE IInv'
    BY <1>1, <1>2, Bounded DEF IInv
  <1>3. CASE UNCHANGED vars  BY <1>1, <1>3 DEF vars, IInv
  <1>4. CASE StartDebug \/ AttachProcess \/ OpenCoreDump \/ DebugRestart
    <2>1. NewSession  BY <1>4 DEF StartDebug, AttachProcess, OpenCoreDump, DebugRestart
    <2> QED BY <1>1, <1>2, <1>4, <2>1, SessionsSound
  <1>5. CASE DebugStop
    <2>1. Budget /\ Spend  BY <1>5 DEF DebugStop
    <2> QED BY <1>1, <1>2, <1>5, <2>1, DebugStopSound
  <1>6. CASE FinishStop
    <2>1. UNCHANGED owner  BY <1>6 DEF FinishStop
    <2> QED BY <1>1, <1>2, <1>6, <2>1, FinishStopSound
  <1>7. CASE RunAgain \/ Continue \/ StepOut \/ Pause \/ Signal \/ OpenFrame
    <2>1. Budget /\ Spend  BY <1>7 DEF RunAgain, Continue, StepOut, Pause, Signal, OpenFrame, Does
    <2> QED BY <1>1, <1>2, <1>7, <2>1, CommandsSound
  <1>8. CASE RemoveAll \/ \E k \in Keys : ToggleBreakpoint(k) \/ EditBreakpoint(k)
    <2>1. Budget /\ Spend  BY <1>8 DEF RemoveAll, ToggleBreakpoint, EditBreakpoint, Does
    <2> QED BY <1>1, <1>2, <1>8, <2>1, BreakpointsSound
  <1>9. CASE Poll
    <2>1. UNCHANGED owner
      BY <1>9 DEF Poll, Handles, HandleStopped, HandleExited, HandleRunning, HandleCoreExecutable,
         HandleCoreTarget, HandleAttach, HandleDetach, HandleSignal, HandleInsert, HandleCommands,
         HandleWatch, HandleStack, HandleVariables, HandleOther
    <2> QED BY <1>1, <1>2, <1>9, <2>1, PollSound
  <1>10. CASE GdbReads
    <2>1. UNCHANGED owner  BY <1>10 DEF GdbReads
    <2> QED BY <1>1, <1>2, <1>10, <2>1, GdbReadsSound
  <1>11. CASE ProgramStops
    <2>1. UNCHANGED owner  BY <1>11 DEF ProgramStops, Prints
    <2> QED BY <1>1, <1>2, <1>11, <2>1, ProgramStopsSound
  <1>12. CASE ProgramExits
    <2>1. UNCHANGED owner  BY <1>12 DEF ProgramExits, Prints
    <2> QED BY <1>1, <1>2, <1>12, <2>1, ProgramExitsSound
  <1>13. CASE GdbDies
    <2>1. UNCHANGED owner  BY <1>13 DEF GdbDies
    <2> QED BY <1>1, <1>2, <1>13, <2>1, GdbDiesSound
  <1>14. CASE Next
    BY <1>4, <1>5, <1>6, <1>7, <1>8, <1>9, <1>10, <1>11, <1>12, <1>13, <1>14 DEF Next
  <1> QED BY <1>3, <1>14

\* Tokens are given out in order and waited for in one way, and what the client
\* keeps of a breakpoint, or has under way for it, is what gdb has or will have.
THEOREM SpecIInv == Spec => []IInv
  BY InitIInv, NextIInv, PTL DEF Spec

\* The types, from the invariant.
LEMMA IInvTypeOK == IInv => TypeOK
  <1> SUFFICES ASSUME IInv PROVE TypeOK  OBVIOUS
  <1> DEFINE c == client
  <1>1. ClientTyped(c, gdb.stops) /\ GdbTyped(gdb) /\ Wired(c) /\ Tracked(c)
    BY DEF IInv, Sound, SoundFor
  <1>2. DOMAIN client = DOMAIN IdleClient  BY <1>1 DEF ClientTyped, IdleClient
  <1>3. DOMAIN gdb = DOMAIN IdleGdb  BY <1>1 DEF GdbTyped, IdleGdb
  <1>4. {c.running, c.active, c.stopped, c.exited, c.runRequested, c.detachConfirmed, c.detaching}
          \subseteq BOOLEAN
    BY <1>1 DEF ClientTyped
  <1>5. /\ c.mode \in {"none"} \union Modes /\ c.token \in Nat
        /\ c.breakpoints \subseteq Waiting /\ c.commands \subseteq Waiting
        /\ c.watches \subseteq Nat /\ c.signal \in Nat /\ c.attach \in Nat /\ c.detach \in Nat
        /\ c.frames \in 0..gdb.stops /\ c.watch \in 0..gdb.stops /\ c.stdin \in Seq(MessageSet)
    BY <1>1 DEF ClientTyped
  <1>6. /\ DOMAIN c.desired \subseteq Keys /\ DOMAIN c.numbers \subseteq DOMAIN c.desired
        /\ \A k \in DOMAIN c.desired : c.desired[k] \in Wishes
    <2>1. MapOf(c.desired, Keys, Wishes) /\ MapOf(c.numbers, DOMAIN c.desired, Nat)
      BY <1>1 DEF ClientTyped
    <2> QED BY <2>1 DEF MapOf
  <1>7. \A t \in Others(c) : t < c.token  BY <1>1 DEF Tracked
  <1>8. c.breakpoints \union c.commands \subseteq [token : Tokens, key : Keys]
    <2>1. ASSUME NEW p \in c.breakpoints \union c.commands PROVE p \in [token : Tokens, key : Keys]
      <3>1. p \in [token : Nat, key : Keys]  BY <1>5 DEF Waiting
      <3>2. p.token < c.token
        <4>1. CASE p \in c.breakpoints  BY <1>1, <4>1 DEF Tracked
        <4>2. CASE p \in c.commands  BY <1>7, <4>2 DEF Others
        <4> QED BY <4>1, <4>2
      <3>3. p.token \in 0..c.token  BY <1>5, <3>1, <3>2
      <3> QED BY <3>1, <3>3 DEF Tokens
    <2> QED BY <2>1
  <1>9. c.watches \union {c.signal, c.attach, c.detach} \subseteq Tokens
    <2>1. ASSUME NEW t \in c.watches \union {c.signal, c.attach, c.detach} PROVE t \in Tokens
      <3>1. t \in Nat /\ t < c.token  BY <1>5, <1>7 DEF Others
      <3> QED BY <1>5, <3>1 DEF Tokens
    <2> QED BY <2>1
  <1>10. \A i \in DOMAIN c.stdin : c.stdin[i].token < c.token
    <2>1. DOMAIN c.stdin = 1..Len(c.stdin)  BY <1>5
    <2> QED BY <1>1, <2>1 DEF Wired
  <1>11. gdb.program \in {"none", "running", "stopped"} /\ gdb.stops \in 0..MaxStops
    BY <1>1 DEF GdbTyped
  <1> QED BY <1>2, <1>3, <1>4, <1>5, <1>6, <1>8, <1>9, <1>10, <1>11 DEF TypeOK

\* The breakpoints, from the invariant: at rest nothing is under way.
LEMMA IInvDesired == IInv => DesiredInserted
  <1> SUFFICES ASSUME IInv PROVE DesiredInserted  OBVIOUS
  <1> DEFINE c == client
             K == DOMAIN c.desired
  <1>1. /\ ClientTyped(c, gdb.stops) /\ GdbTyped(gdb) /\ InSession(c)
        /\ c.running /\ c.mode # "core" => Booked(c, gdb, K)
    BY DEF IInv, Sound, SoundFor
  <1>2. c.stdin \in Seq(MessageSet) /\ DOMAIN c.stdin = 1..Len(c.stdin)
        /\ \A k \in K : c.desired[k] \in Wishes
    <2>1. c.stdin \in Seq(MessageSet)  BY <1>1, WireTypes
    <2>2. \A k \in K : c.desired[k] \in Wishes  BY <1>1, DesiredTypes
    <2> QED BY <2>1, <2>2
  <1>3. TypeOK  BY IInvTypeOK
  <1>4. CoreReadOnly  BY <1>1, <1>2 DEF CoreReadOnly, InSession, ReadOnly
  <1>5. ASSUME Quiet, client.mode \in {"launch", "attach"}, NEW k \in K,
               c.desired[k].status # "rejected"
        PROVE  /\ k \in DOMAIN c.numbers
               /\ c.numbers[k] \in DOMAIN gdb.breakpoints
               /\ gdb.breakpoints[c.numbers[k]] =
                    [key |-> k, log |-> c.desired[k].log, armed |-> c.desired[k].log]
    <2>1. c.running /\ Len(c.stdin) = 0 /\ Len(c.output) = 0  BY <1>5 DEF Quiet
    <2>2. Booked(c, gdb, K)  BY <1>1, <1>5, <2>1
    <2>3. c.breakpoints = {}  BY <2>1, <2>2 DEF Booked, Underway
    <2>4. k \in DOMAIN c.numbers  BY <1>5, <2>2, <2>3 DEF Booked
    <2> DEFINE n == c.numbers[k]
    <2>5. Known(c, gdb, k, n)  BY <2>2, <2>4 DEF Booked
    <2> HIDE DEF n
    <2>6. ~Arming(c.stdin, n)  BY <2>1 DEF Arming
    <2>7. /\ n \in DOMAIN gdb.breakpoints /\ gdb.breakpoints[n].key = k
          /\ c.desired[k].log => gdb.breakpoints[n].armed
          /\ ~c.desired[k].log => ~gdb.breakpoints[n].armed
          /\ gdb.breakpoints[n].log = c.desired[k].log
      BY <1>5, <2>3, <2>5, <2>6 DEF Known
    <2>8. gdb.breakpoints[n] \in [key : Keys \union {"none"}, log : BOOLEAN, armed : BOOLEAN]
      BY <1>1, <2>7 DEF GdbTyped, MapOf
    <2>9. c.desired[k].log \in BOOLEAN  BY <1>2, <1>5 DEF Wishes
    <2>10. gdb.breakpoints[n].armed = c.desired[k].log  BY <2>7, <2>8, <2>9
    <2>11. gdb.breakpoints[n] = [key |-> k, log |-> c.desired[k].log, armed |-> c.desired[k].log]
      BY <2>7, <2>8, <2>10
    <2> QED BY <2>4, <2>7, <2>11 DEF n
  <1> HIDE DEF Quiet
  <1> QED BY <1>3, <1>4, <1>5 DEF DesiredInserted

\* However often breakpoints were toggled, edited or cleared while answers were on
\* their way, at rest every one shown as set is in gdb, under its number and as
\* the user wants it, and a gdb with a core dump is never told to change anything.
THEOREM SpecDesiredInserted == Spec => []DesiredInserted
  BY SpecIInv, IInvDesired, PTL

\* When gdb comes to read "run" no logpoint that is set waits for its commands.
LEMMA RunArmed ==
  ASSUME IInv, client.stdin # <<>>, Head(client.stdin).op = "run", GdbReads,
         NEW k \in DOMAIN client.numbers,
         client.desired[k] = [log |-> TRUE, status |-> "set"]
  PROVE  gdb.breakpoints[client.numbers[k]].armed
  <1> DEFINE c == client
             n == client.numbers[k]
  <1>1. /\ ClientTyped(c, gdb.stops) /\ InSession(c)
        /\ c.running /\ c.mode # "core" => Booked(c, gdb, DOMAIN c.desired)
    BY DEF IInv, Sound, SoundFor
  <1>2. c.running  BY DEF GdbReads
  <1>3. c.stdin \in Seq(MessageSet)  BY <1>1, WireTypes
  <1>4. 1 \in 1..Len(c.stdin) /\ c.stdin[1].op = "run"
    <2>1. Head(c.stdin) = c.stdin[1] /\ 1 \in 1..Len(c.stdin)  BY <1>3, Taken
    <2> QED BY <2>1
  <1>5. c.mode # "core"  BY <1>1, <1>4 DEF InSession, ReadOnly
  <1>6. Known(c, gdb, k, n)  BY <1>1, <1>2, <1>5 DEF Booked
  <1>7. ~Arming(c.stdin, n)
    <2>1. \A i \in 1..Len(c.stdin) : ~(i < 1)  OBVIOUS
    <2> QED BY <1>4, <2>1 DEF Arming
  <1>8. c.desired[k].log
    <2> DEFINE w == c.desired[k]
    <2>1. w = [log |-> TRUE, status |-> "set"]  OBVIOUS
    <2> HIDE DEF w
    <2>2. w.log  BY <2>1
    <2> QED BY <2>2 DEF w
  <1> HIDE DEF n, c
  <1>9. gdb.breakpoints[n].armed  BY <1>6, <1>7, <1>8 DEF Known
  <1> QED BY <1>9 DEF n

\* No program is started while a logpoint that is set would stop it.
THEOREM SpecLogpointsArmed == Spec => LogpointsArmed
  <1>1. IInv /\ [Next]_vars =>
          [client.stdin # <<>> /\ Head(client.stdin).op = "run" /\ GdbReads =>
             \A k \in DOMAIN client.numbers :
               LET n == client.numbers[k] IN
               /\ client.desired[k] = [log |-> TRUE, status |-> "set"]
               /\ n \in DOMAIN gdb.breakpoints /\ gdb.breakpoints[n].log
               => gdb.breakpoints[n].armed]_vars
    BY RunArmed
  <1> QED BY SpecIInv, <1>1, PTL DEF Spec, LogpointsArmed

----------------------------------------------------------------------------
(* What stop() says of an attached program *)

\* The session goes on in the mode it was opened in.
Stays(c, e) == "mode" \in DOMAIN e /\ e.mode = c.mode

\* No method but those that open or end a session changes its mode.
LEMMA ModeStays ==
  ASSUME NEW c, "mode" \in DOMAIN c
  PROVE  /\ \A op, key, number, log : Stays(c, CommandOn(c, op, key, number, log))
         /\ \A op : Stays(c, Command(c, op))
         /\ \A k : Stays(c, InsertBreakpoint(c, k))
         /\ Stays(c, StartRequestedRun(c))
         /\ Stays(c, RefreshWatches(c)) /\ Stays(c, RefreshVariables(c)) /\ Stays(c, RefreshState(c))
         /\ \A op : Stays(c, Resume(c, op))
         /\ Stays(c, SendSignal(c)) /\ \A level : Stays(c, SelectFrame(c, level))
         /\ \A k : Stays(c, Inserting(c, k)) /\ Stays(c, Deleted(c, k))
         /\ Stays(c, Loaded(c)) /\ Stays(c, NotLoaded(c))
         /\ Stays(c, ClearBreakpoints(c))
  <1>1. ASSUME NEW x, "mode" \in DOMAIN x
        PROVE  \A op, key, number, log : Stays(x, CommandOn(x, op, key, number, log))
    BY <1>1 DEF Stays, CommandOn
  <1>2. ASSUME NEW x, "mode" \in DOMAIN x PROVE \A op : Stays(x, Command(x, op))
    BY <1>1, <1>2 DEF Command
  <1>3. ASSUME NEW k PROVE Stays(c, InsertBreakpoint(c, k))
    <2> DEFINE x == [c EXCEPT !.desired[k].status = "pending"]
               y == CommandOn(x, "insert", k, 0, c.desired[k].log)
    <2>1. Stays(c, x)  BY DEF Stays
    <2>2. Stays(x, y)  BY <1>1, <2>1 DEF Stays
    <2>3. InsertBreakpoint(c, k) = [y EXCEPT !.breakpoints = @ \union {[token |-> c.token, key |-> k]}]
      BY DEF InsertBreakpoint
    <2> HIDE DEF x, y
    <2> QED BY <2>1, <2>2, <2>3 DEF Stays
  <1>4. Stays(c, StartRequestedRun(c))
    <2> DEFINE x == [c EXCEPT !.runRequested = FALSE]
    <2>1. Stays(c, x)  BY DEF Stays
    <2>2. Stays(x, Command(x, "run"))  BY <1>2, <2>1 DEF Stays
    <2>3. StartRequestedRun(c) = Command(x, "run") \/ StartRequestedRun(c) = c
      BY DEF StartRequestedRun
    <2> HIDE DEF x
    <2> QED BY <2>1, <2>2, <2>3 DEF Stays
  <1>5. ASSUME NEW x, "mode" \in DOMAIN x PROVE Stays(x, RefreshWatches(x))
    <2> DEFINE y == Command(x, "evaluate")
    <2>1. Stays(x, y)  BY <1>2, <1>5
    <2>2. \/ RefreshWatches(x) = [y EXCEPT !.watches = @ \union {x.token}, !.watch = 0]
          \/ RefreshWatches(x) = x
      BY DEF RefreshWatches
    <2> HIDE DEF y
    <2> QED BY <1>5, <2>1, <2>2 DEF Stays
  <1>6. ASSUME NEW x, "mode" \in DOMAIN x PROVE Stays(x, RefreshVariables(x))
    <2> DEFINE y == [x EXCEPT !.variables = Nothing]
    <2>1. Stays(x, y)  BY <1>6 DEF Stays
    <2>2. RefreshVariables(x) = Command(y, "variables")  BY DEF RefreshVariables
    <2> HIDE DEF y
    <2>3. Stays(y, Command(y, "variables"))  BY <1>2, <2>1 DEF Stays
    <2> QED BY <2>1, <2>2, <2>3 DEF Stays
  <1>7. ASSUME NEW x, "mode" \in DOMAIN x PROVE Stays(x, RefreshState(x))
    <2> DEFINE y == Command(x, "stack")
               z == RefreshVariables(y)
    <2>1. Stays(x, y)  BY <1>2, <1>7
    <2>2. Stays(y, z)  BY <1>6, <2>1 DEF Stays
    <2>3. Stays(z, RefreshWatches(z))  BY <1>5, <2>2 DEF Stays
    <2>4. RefreshState(x) = RefreshWatches(z)  BY DEF RefreshState
    <2> HIDE DEF y, z
    <2> QED BY <2>1, <2>2, <2>3, <2>4 DEF Stays
  <1>8. ASSUME NEW op PROVE Stays(c, Resume(c, op))
    <2> DEFINE x == Resuming(c)
    <2>1. Stays(c, x)  BY DEF Stays, Resuming
    <2>2. Stays(x, Command(x, op))  BY <1>2, <2>1 DEF Stays
    <2>3. Resume(c, op) = Command(x, op) \/ Resume(c, op) = c  BY DEF Resume
    <2> HIDE DEF x
    <2> QED BY <2>1, <2>2, <2>3 DEF Stays
  <1>9. Stays(c, SendSignal(c))
    <2> DEFINE y == Command(c, "signal")
    <2>1. Stays(c, y)  BY <1>2
    <2>2. SendSignal(c) = [y EXCEPT !.signal = c.token, !.stopped = FALSE] \/ SendSignal(c) = c
      BY DEF SendSignal
    <2> HIDE DEF y
    <2> QED BY <2>1, <2>2 DEF Stays
  <1>10. ASSUME NEW level PROVE Stays(c, SelectFrame(c, level))
    <2> DEFINE x == [c EXCEPT !.selected = level]
               y == CommandOn(x, "frame", "none", level, FALSE)
               z == RefreshVariables(y)
    <2>1. Stays(c, x)  BY DEF Stays
    <2> HIDE DEF x
    <2>2. Stays(x, y)  BY <2>1 DEF Stays, CommandOn
    <2> HIDE DEF y
    <2>3. Stays(y, z)  BY <1>6, <2>2 DEF Stays
    <2>4. Stays(z, RefreshWatches(z))  BY <1>5, <2>3 DEF Stays
    <2>5. SelectFrame(c, level) = RefreshWatches(z) \/ SelectFrame(c, level) = c
      BY DEF SelectFrame, x, y
    <2> HIDE DEF z
    <2> QED BY <2>1, <2>2, <2>3, <2>4, <2>5 DEF Stays
  <1>11. ASSUME NEW k PROVE Stays(c, Inserting(c, k))
    BY <1>3 DEF Inserting, Stays
  <1>12. ASSUME NEW k PROVE Stays(c, Deleted(c, k))
    <2> DEFINE y == CommandOn(c, "delete", "none", c.numbers[k], FALSE)
    <2>1. Stays(c, y)  BY <1>1
    <2>2. Deleted(c, k) = [y EXCEPT !.numbers = Without(@, k)] \/ Deleted(c, k) = c  BY DEF Deleted
    <2> HIDE DEF y
    <2> QED BY <2>1, <2>2 DEF Stays
  <1>13. Stays(c, Loaded(c)) /\ Stays(c, NotLoaded(c))
    <2> DEFINE x == [c EXCEPT !.active = TRUE, !.stopped = TRUE, !.exited = FALSE]
    <2>1. Stays(c, x)  BY DEF Stays
    <2>2. Loaded(c) = RefreshState(x)  BY DEF Loaded
    <2>3. Stays(c, NotLoaded(c))  BY DEF Stays, NotLoaded
    <2> HIDE DEF x
    <2>4. Stays(x, RefreshState(x))  BY <1>7, <2>1 DEF Stays
    <2> QED BY <2>1, <2>2, <2>3, <2>4 DEF Stays
  <1>14. Stays(c, ClearBreakpoints(c))
    <2>1. PICK s : s \in {c, Command(c, "deleteAll")} /\
            ClearBreakpoints(c) = [s EXCEPT !.desired = <<>>, !.numbers = <<>>, !.breakpoints = {}]
      BY DEF ClearBreakpoints
    <2>2. Stays(c, s)  BY <1>2, <2>1 DEF Stays
    <2> QED BY <2>1, <2>2 DEF Stays
  <1> QED BY <1>1, <1>2, <1>3, <1>4, <1>5, <1>6, <1>7, <1>8, <1>9, <1>10, <1>11, <1>12, <1>13, <1>14

\* The user's commands go on in the same session.
LEMMA CommandsStay ==
  ASSUME "mode" \in DOMAIN client, client.mode = "attach",
         \/ RunAgain \/ Continue \/ StepOut \/ Pause \/ Signal \/ OpenFrame \/ RemoveAll
         \/ \E k \in Keys : ToggleBreakpoint(k) \/ EditBreakpoint(k)
  PROVE  client'.mode = client.mode
  <1>1. CASE RunAgain  BY <1>1 DEF RunAgain
  <1>2. CASE Continue \/ StepOut \/ Pause \/ Signal \/ OpenFrame \/ RemoveAll
    BY <1>2, ModeStays DEF Continue, StepOut, Pause, Signal, OpenFrame, RemoveAll, Does, Stays
  <1>3. ASSUME NEW k \in Keys, ToggleBreakpoint(k) PROVE client'.mode = client.mode
    <2> DEFINE x == [client EXCEPT !.desired = Without(@, k)]
               y == [client EXCEPT !.desired = With(@, k, [log |-> FALSE, status |-> "unset"])]
    <2>1. client' = Deleted(x, k) \/ client' = Inserting(y, k)
      BY <1>3 DEF ToggleBreakpoint, Does, RemoveBreakpoint, AddBreakpoint
    <2>2. Stays(client, x) /\ Stays(client, y)  BY DEF Stays
    <2> HIDE DEF x, y
    <2>3. Stays(x, Deleted(x, k)) /\ Stays(y, Inserting(y, k))  BY <2>2, ModeStays DEF Stays
    <2> QED BY <2>1, <2>2, <2>3 DEF Stays
  <1>4. ASSUME NEW k \in Keys, EditBreakpoint(k) PROVE client'.mode = client.mode
    <2> DEFINE x == [client EXCEPT !.desired[k] = [log |-> ~@.log, status |-> "unset"]]
               y == Deleted(x, k)
    <2>1. client' = Inserting(y, k)  BY <1>4 DEF EditBreakpoint, Does, UpdateBreakpoint
    <2>2. Stays(client, x)  BY DEF Stays
    <2> HIDE DEF x
    <2>3. Stays(x, y)  BY <2>2, ModeStays DEF Stays
    <2> HIDE DEF y
    <2>4. Stays(y, Inserting(y, k))  BY <2>3, ModeStays DEF Stays
    <2> QED BY <2>1, <2>2, <2>3, <2>4 DEF Stays
  <1> QED BY <1>1, <1>2, <1>3, <1>4

\* No record changes the mode.
LEMMA PollStays ==
  ASSUME "mode" \in DOMAIN client, Poll
  PROVE  client'.mode = client.mode
  <1>1. CASE HandleStopped
    <2> DEFINE x == [Rest EXCEPT !.active = TRUE, !.stopped = TRUE, !.exited = FALSE, !.selected = 0]
    <2>1. client' = RefreshState(x)  BY <1>1 DEF HandleStopped, Handles
    <2>2. Stays(client, x)  BY DEF Stays, Rest
    <2> HIDE DEF x
    <2> QED BY <2>1, <2>2, ModeStays DEF Stays
  <1>2. CASE HandleExited \/ HandleRunning \/ HandleDetach
    BY <1>2 DEF HandleExited, HandleRunning, HandleDetach, Handles, Rest
  <1>3. CASE HandleCoreExecutable
    <2> DEFINE x == [Rest EXCEPT !.coreExecutable = 0]
    <2>1. \/ client' = [Command(x, "core") EXCEPT !.coreTarget = x.token]
          \/ client' = NotLoaded(x)
      BY <1>3 DEF HandleCoreExecutable, Handles
    <2>2. Stays(client, x)  BY DEF Stays, Rest
    <2> HIDE DEF x
    <2>3. Stays(x, Command(x, "core")) /\ Stays(x, NotLoaded(x))  BY <2>2, ModeStays DEF Stays
    <2> QED BY <2>1, <2>2, <2>3 DEF Stays
  <1>4. CASE HandleCoreTarget
    <2> DEFINE x == [Rest EXCEPT !.coreTarget = 0]
               y == [x EXCEPT !.selected = 0]
    <2>1. client' = Loaded(y) \/ client' = NotLoaded(x)
      BY <1>4 DEF HandleCoreTarget, Handles
    <2>2. Stays(client, x) /\ Stays(x, y)  BY DEF Stays, Rest
    <2> HIDE DEF x, y
    <2>3. Stays(y, Loaded(y)) /\ Stays(x, NotLoaded(x))  BY <2>2, ModeStays DEF Stays
    <2> QED BY <2>1, <2>2, <2>3 DEF Stays
  <1>5. CASE HandleAttach
    <2> DEFINE x == [Rest EXCEPT !.attach = 0]
    <2>1. client' = Loaded(x) \/ client' = NotLoaded(x)  BY <1>5 DEF HandleAttach, Handles
    <2>2. Stays(client, x)  BY DEF Stays, Rest
    <2> HIDE DEF x
    <2>3. Stays(x, Loaded(x)) /\ Stays(x, NotLoaded(x))  BY <2>2, ModeStays DEF Stays
    <2> QED BY <2>1, <2>2, <2>3 DEF Stays
  <1>6. CASE HandleSignal
    <2> DEFINE x == [Rest EXCEPT !.signal = 0]
               y == [x EXCEPT !.stopped = TRUE]
    <2>1. client' = x \/ client' = RefreshState(y)  BY <1>6 DEF HandleSignal, Handles
    <2>2. Stays(client, x) /\ Stays(x, y)  BY DEF Stays, Rest
    <2> HIDE DEF x, y
    <2>3. Stays(y, RefreshState(y))  BY <2>2, ModeStays DEF Stays
    <2> QED BY <2>1, <2>2, <2>3 DEF Stays
  <1>7. CASE HandleInsert
    <2>1. PICK p \in client.breakpoints : client' = StartRequestedRun(InsertAnswered(Heard(p), p))
      BY <1>7 DEF HandleInsert, Heard, Handles
    <2> DEFINE x == Heard(p)
               y == InsertAnswered(x, p)
    <2>2. Stays(client, x)  BY DEF Stays, Heard, Rest
    <2> HIDE DEF x
    <2>3. Stays(x, y)
      <3> DEFINE k == p.key
                 set == [x EXCEPT !.numbers = With(@, k, Incoming.number), !.desired[k].status = "set"]
                 told == CommandOn(set, "commands", "none", Incoming.number, FALSE)
      <3>1. \/ y = set
            \/ y = [told EXCEPT !.commands = @ \union {[token |-> x.token, key |-> k]}]
            \/ y = CommandOn(x, "delete", "none", Incoming.number, FALSE)
            \/ y = [x EXCEPT !.desired[k].status = "rejected"]
            \/ y = x
        BY DEF InsertAnswered
      <3>2. Stays(x, set)  BY <2>2 DEF Stays
      <3> HIDE DEF set, k, y
      <3>3. Stays(set, told)  BY <3>2 DEF Stays, CommandOn
      <3>4. Stays(x, CommandOn(x, "delete", "none", Incoming.number, FALSE))
        BY <2>2 DEF Stays, CommandOn
      <3> HIDE DEF told
      <3> QED BY <2>2, <3>1, <3>2, <3>3, <3>4 DEF Stays
    <2> HIDE DEF y
    <2>4. Stays(y, StartRequestedRun(y))  BY <2>2, <2>3, ModeStays DEF Stays
    <2> QED BY <2>1, <2>2, <2>3, <2>4 DEF Stays, x, y
  <1>8. CASE HandleCommands
    <2>1. PICK p \in client.commands :
            LET c == [Rest EXCEPT !.commands = @ \ {p}] IN
            client' = StartRequestedRun(
                        IF ~Accepted /\ p.key \in DOMAIN c.desired
                        THEN [c EXCEPT !.desired[p.key].status = "rejected"] ELSE c)
      BY <1>8 DEF HandleCommands, Handles
    <2> DEFINE x == [Rest EXCEPT !.commands = @ \ {p}]
               y == IF ~Accepted /\ p.key \in DOMAIN x.desired
                    THEN [x EXCEPT !.desired[p.key].status = "rejected"] ELSE x
    <2>2. Stays(client, x)  BY DEF Stays, Rest
    <2>3. client' = StartRequestedRun(y)  BY <2>1
    <2> HIDE DEF x
    <2>4. Stays(x, y)  BY <2>2 DEF Stays
    <2> HIDE DEF y
    <2>5. Stays(y, StartRequestedRun(y))  BY <2>2, <2>4, ModeStays DEF Stays
    <2> QED BY <2>2, <2>3, <2>4, <2>5 DEF Stays
  <1>9. CASE HandleWatch \/ HandleStack \/ HandleVariables \/ HandleOther
    BY <1>9 DEF HandleWatch, HandleStack, HandleVariables, HandleOther, Handles, Rest
  <1> QED BY <1>1, <1>2, <1>3, <1>4, <1>5, <1>6, <1>7, <1>8, <1>9 DEF Poll

\* A session of an attached program that ends as confirmed ends without one.
LEMMA EndsHonestly ==
  ASSUME IInv, Next, client.mode = "attach", client.running, ~client'.running,
         client'.mode = "none", client'.detachConfirmed
  PROVE  gdb.program = "none"
  <1>1. /\ Sound(client, gdb) /\ "mode" \in DOMAIN client
        /\ Attached(client, gdb)
    BY DEF IInv, Sound, SoundFor, ClientTyped
  <1>2. CASE DebugStop  BY <1>1, <1>2, DebugStopSound
  <1>3. CASE FinishStop
    <2>1. client.detaching /\ client.detachConfirmed  BY <1>1, <1>3, FinishStopSound DEF FinishStop
    <2> QED BY <1>1, <2>1 DEF Attached, Over
  <1>4. ~(StartDebug \/ AttachProcess \/ OpenCoreDump \/ DebugRestart)
    BY DEF StartDebug, AttachProcess, OpenCoreDump, DebugRestart
  <1>5. client'.mode # client.mode  OBVIOUS
  <1>6. ~Poll  BY <1>1, <1>5, PollStays
  <1>7. /\ ~(RunAgain \/ Continue \/ StepOut \/ Pause \/ Signal \/ OpenFrame \/ RemoveAll)
        /\ ~(\E k \in Keys : ToggleBreakpoint(k) \/ EditBreakpoint(k))
    BY <1>1, <1>5, CommandsStay
  <1>8. ~(GdbReads \/ ProgramStops \/ ProgramExits \/ GdbDies)
    BY <1>1, <1>5 DEF GdbReads, ProgramStops, ProgramExits, Prints, GdbDies
  <1> QED BY <1>2, <1>3, <1>4, <1>6, <1>7, <1>8 DEF Next

\* stop() never says that an attached program was let go while it is still there.
THEOREM SpecDetachHonest == Spec => DetachHonest
  <1>1. IInv /\ [Next]_vars =>
          [client.mode = "attach" /\ client.running /\ ~client'.running /\ client'.mode = "none"
             /\ client'.detachConfirmed => gdb.program = "none"]_vars
    BY EndsHonestly
  <1> QED BY SpecIInv, <1>1, PTL DEF Spec, DetachHonest
=============================================================================
