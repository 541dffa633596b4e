--------------------------- MODULE OutputStreams ---------------------------
(***************************************************************************)
(* What is read from a child process arrives in pieces that know nothing   *)
(* of the messages in it. Four decoders put them together: JsonRpcFramer   *)
(* the frames of clangd, BuildOutputCollector the lines of a compiler,     *)
(* GitSession the records of git status, TerminalBuffer the text and       *)
(* escape sequences of a console.                                          *)
(*                                                                         *)
(* A byte is a short string. A header line of a frame is one symbol: "L2"  *)
(* is Content-Length: 2, "h" another line. The path of a git record is one *)
(* symbol, "/" and "^" for an absolute one and one above the project.      *)
(***************************************************************************)
EXTENDS Naturals, Sequences, FiniteSets, SequencesExt

CONSTANTS
  Most,        \* messages in a stream
  MaxHeader,   \* 8192 in the code
  Block,       \* 64 KiB in the code
  MaxOutput,   \* 1 MiB in the code
  MaxLines,    \* 2000 in the code
  TabStop      \* 8 in the code

VARIABLES
  kind,        \* whose output is read
  sent,        \* the messages the process writes
  at,          \* bytes of them read so far
  decoder,     \* fields of the decoder
  cleared,     \* at, when the user last cleared what is shown
  over         \* the process has exited and its result has been taken

vars == <<kind, sent, at, decoder, cleared, over>>

----------------------------------------------------------------------------
(* What each program writes: the bytes of a message and what it means. *)

HeaderEnd == <<"r", "n", "r", "n">>
Says(bytes, gives) == [bytes |-> bytes, gives |-> gives]
Flood == Says([i \in 1..(MaxHeader + 1) |-> "h"], <<>>)

Messages == [
  frames |-> {
    Says(<<"L2">> \o HeaderEnd \o <<"p", "q">>, << <<"p", "q">> >>),
    Says(<<"h", "r", "n", "L0">> \o HeaderEnd, << <<>> >>),
    Says(<<"L4">> \o HeaderEnd \o HeaderEnd, <<HeaderEnd>>),
    Says(<<"L2", "r", "n", "L2">> \o HeaderEnd, <<>>),
    Says(<<"Lx">> \o HeaderEnd, <<>>),
    Flood},
  lines |-> {
    Says(<<"d", "1", "n">>, <<"1">>), Says(<<"d", "2", "n">>, <<"2">>),
    Says(<<"1", "n">>, <<>>), Says(<<"n">>, <<>>), Says(<<"d", "d", "2", "n">>, <<>>)},
  git |-> {
    Says(<<"M", " ", " ", "a", "0">>, <<[path |-> "a", code |-> <<"M", " ">>]>>),
    Says(<<"R", " ", " ", "b", "0", "M", "M", " ", "a", "0">>, <<[path |-> "b", code |-> <<"R", " ">>]>>),
    Says(<<"R", " ", " ", "/", "0", "b", "0">>, <<>>),
    Says(<<"?", "?", " ", "^", "0">>, <<>>)},
  terminal |->
    {Says(<<c>>, <<c, 1>>) : c \in {"a", "r", "n", "b", "t"}}
      \cup {Says(<<"u", "v">>, <<"u", 1>>), Says(<<"e", "]", "a", "g">>, <<"", 1>>),
            Says(<<"e", "]", "e", "a", "a", "e", "\\">>, <<"", 1>>), Says(<<"e", "7">>, <<"", 1>>),
            Says(<<"e", "[", "1", ";", "2", "m">>, <<"", 1>>),
            Says(<<"e", "[", "K">>, <<"K", 1>>), Says(<<"e", "[", "2", "K">>, <<"2K", 1>>),
            Says(<<"e", "[", "2", "G">>, <<"G", 2>>), Says(<<"e", "[", "C">>, <<"C", 1>>),
            Says(<<"e", "[", "2", ";", "1", "D">>, <<"D", 2>>),
            Says(<<"e", "[", "2", "J">>, <<"2J", 1>>)}]

Bytes == FlattenSeq([i \in 1..Len(sent) |-> sent[i].bytes])
EndOf(i) == Len(FlattenSeq([j \in 1..i |-> sent[j].bytes]))

----------------------------------------------------------------------------
(* Helpers on sequences of bytes. *)

After(s, n) == SubSeq(s, n + 1, Len(s))
Starts(s, p) == {i \in 1..(Len(s) + 1 - Len(p)) : SubSeq(s, i, i + Len(p) - 1) = p}
Has(s, p) == Starts(s, p) # {}
\* The number of bytes before the first p of s.
Before(s, p) == (CHOOSE i \in Starts(s, p) : \A j \in Starts(s, p) : i <= j) - 1
Least(a, b) == IF a < b THEN a ELSE b
\* A loop that works on d until its step leaves d as it is; n bounds its rounds.
Loop(Op(_), d, n) == FoldLeft(LAMBDA e, i : Op(e), d, [i \in 1..n |-> i])

----------------------------------------------------------------------------
(* JsonRpcFramer *)

LengthOf == [L0 |-> 0, L2 |-> 2, L4 |-> 4]

\* The length that the only Content-Length line of a header gives.
ContentLength(header) ==
  LET found == {i \in 1..Len(header) : header[i] \in {"L0", "L2", "L4", "Lx"}
                                        /\ (i = 1 \/ header[i - 1] = "n")}
  IN {LengthOf[header[i]] : i \in {j \in found : /\ Cardinality(found) = 1
                                                 /\ header[j] # "Lx"}}

\* Mutant: the body of a frame is taken before all of it has arrived.
ExtractOneShort(d) ==
  IF ~Has(d.buffer, HeaderEnd) THEN d
  ELSE LET end == Before(d.buffer, HeaderEnd)
           rest == After(d.buffer, end + 4)
           length == ContentLength(SubSeq(d.buffer, 1, end))
       IN IF length = {} THEN [d EXCEPT !.buffer = rest]
          ELSE LET n == Least(CHOOSE n \in length : TRUE, Len(rest))
               IN [d EXCEPT !.buffer = After(rest, n),
                            !.payloads = Append(@, SubSeq(rest, 1, n))]

\* One round of the loop of extract(); d itself where the code returns.
ExtractOne(d) ==
  IF ~Has(d.buffer, HeaderEnd)
  THEN IF Len(d.buffer) > MaxHeader THEN [d EXCEPT !.buffer = <<>>] ELSE d
  ELSE LET end == Before(d.buffer, HeaderEnd)
           rest == After(d.buffer, end + 4)
           length == ContentLength(SubSeq(d.buffer, 1, end))
       IN IF end > MaxHeader \/ length = {} THEN [d EXCEPT !.buffer = rest]
          ELSE LET n == CHOOSE n \in length : TRUE
               IN IF Len(rest) < n THEN d
                  ELSE [d EXCEPT !.buffer = After(rest, n),
                                 !.payloads = Append(@, SubSeq(rest, 1, n))]

Extract(d) == Loop(ExtractOne, d, Len(d.buffer))

Blocks(bytes) ==
  [i \in 1..((Len(bytes) + Block - 1) \div Block) |->
     SubSeq(bytes, (i - 1) * Block + 1, Least(i * Block, Len(bytes)))]
Feed(d, bytes) ==
  FoldLeft(LAMBDA e, b : Extract([e EXCEPT !.buffer = @ \o b]), d, Blocks(bytes))

----------------------------------------------------------------------------
(* BuildOutputCollector *)

\* A line that a parser of diagnostics knows.
Diagnostics(line) == {x \in {"1", "2"} : line = <<"d", x>>}

AddDiagnostics(d, new) ==
  [d EXCEPT !.diagnostics = @ \o SetToSeq(new \ Range(@))]
ConsumeLine(d, line) == AddDiagnostics(d, Diagnostics(line))

AppendOne(d) ==
  IF ~Has(d.partial, <<"n">>) THEN d
  ELSE LET newline == Before(d.partial, <<"n">>)
       IN ConsumeLine([d EXCEPT !.partial = After(@, newline + 1)],
                      SubSeq(d.partial, 1, newline))
AppendOutput(d, chunk) ==
  Loop(AppendOne, [d EXCEPT !.partial = @ \o chunk], Len(d.partial) + Len(chunk))

FinishOutput(d) == [ConsumeLine(d, d.partial) EXCEPT !.partial = <<>>]

----------------------------------------------------------------------------
(* GitSession *)

\* Bytes beyond the limit are dropped.
Capped(d, chunk) ==
  [d EXCEPT !.output = SubSeq(@ \o chunk, 1, Least(MaxOutput, Len(@) + Len(chunk)))]

Inside(path) == path \notin {"/", "^"}

\* One record of parseGitStatus(); an unfinished one ends the loop.
ParseOne(p) ==
  IF ~Has(p.data, <<"0">>) THEN [p EXCEPT !.data = <<>>]
  ELSE LET end == Before(p.data, <<"0">>)
           record == SubSeq(p.data, 1, end)
           rest == After(p.data, end + 1)
           renamed == record[1] \in {"R", "C"} \/ record[2] \in {"R", "C"}
           next == IF ~renamed THEN rest
                   ELSE IF Has(rest, <<"0">>) THEN After(rest, Before(rest, <<"0">>) + 1)
                   ELSE <<>>
       IN IF Len(record) < 4 \/ record[3] # " " THEN [p EXCEPT !.data = rest]
          ELSE IF (renamed /\ ~Has(rest, <<"0">>)) \/ ~Inside(record[4])
          THEN [p EXCEPT !.data = next]
          ELSE [data |-> next,
                files |-> Append(p.files, [path |-> record[4], code |-> SubSeq(record, 1, 2)])]
ParseGitStatus(data) == Loop(ParseOne, [data |-> data, files |-> <<>>], Len(data)).files

----------------------------------------------------------------------------
(* TerminalBuffer *)

FreshTerminal ==
  [lines |-> <<>>, line |-> <<>>, cursor |-> 0, state |-> "Text", parameters |-> <<>>]

\* A byte at the cursor.
Put(d, c) ==
  [d EXCEPT !.line = IF d.cursor < Len(@) THEN [@ EXCEPT ![d.cursor + 1] = c] ELSE Append(@, c),
            !.cursor = @ + 1]
Tab(d) == FoldLeft(LAMBDA e, i : Put(e, " "), d, [i \in 1..(TabStop - (d.cursor % TabStop)) |-> i])
\* The cursor goes over the continuation bytes of a character.
Backspace(d) ==
  LET Over(i) == IF i > 0 /\ d.line[i + 1] = "v" THEN i - 1 ELSE i
  IN IF d.cursor = 0 THEN d
     ELSE [d EXCEPT !.cursor = Loop(Over, d.cursor - 1, d.cursor)]
FinishLine(d) ==
  LET all == Append(d.lines, d.line)
  IN [d EXCEPT !.lines = After(all, IF Len(all) > MaxLines THEN Len(all) - MaxLines ELSE 0),
               !.line = <<>>, !.cursor = 0]

\* The first parameter; 1 where there is none.
Amount(parameters) ==
  CASE parameters = <<>> -> 1
    [] parameters # <<>> -> IF parameters[1] = "2" THEN 2 ELSE 1

EraseLine(d, all) ==
  IF all THEN [d EXCEPT !.line = <<>>, !.cursor = 0]
  ELSE [d EXCEPT !.line = SubSeq(@, 1, d.cursor)]
GoTo(d, column) == [d EXCEPT !.cursor = Least(column, Len(d.line))]

FinishCsi(d, command) ==
  LET n == Amount(d.parameters)
  IN CASE command = "K" -> EraseLine(d, d.parameters = <<"2">>)
       [] command = "G" -> GoTo(d, n - 1)
       [] command = "C" -> GoTo(d, d.cursor + n)
       [] command = "D" -> GoTo(d, IF n > d.cursor THEN 0 ELSE d.cursor - n)
       [] command = "J" /\ d.parameters = <<"2">> -> FreshTerminal
       [] OTHER -> d

Text(d, c) ==
  CASE c = "e" -> [d EXCEPT !.state = "Escape"]
    [] c = "r" -> [d EXCEPT !.cursor = 0]
    [] c = "n" -> FinishLine(d)
    [] c = "b" -> Backspace(d)
    [] c = "t" -> Tab(d)
    [] c = "g" -> d
    [] OTHER -> Put(d, c)
Escape(d, c) ==
  CASE c = "[" -> [d EXCEPT !.state = "Csi", !.parameters = <<>>]
    [] c = "]" -> [d EXCEPT !.state = "Osc"]
    [] OTHER -> [d EXCEPT !.state = "Text"]
Csi(d, c) ==
  IF c \in {"K", "G", "C", "D", "J", "m"} THEN [FinishCsi(d, c) EXCEPT !.state = "Text"]
  ELSE [d EXCEPT !.parameters = Append(@, c)]
Osc(d, c) ==
  CASE c = "g" -> [d EXCEPT !.state = "Text"]
    [] c = "e" -> [d EXCEPT !.state = "OscEscape"]
    [] OTHER -> d
OscEscape(d, c) == [d EXCEPT !.state = IF c = "\\" THEN "Text" ELSE "Osc"]

AppendByte(d, c) ==
  CASE d.state = "Osc" -> Osc(d, c)
    [] d.state = "OscEscape" -> OscEscape(d, c)
    [] d.state = "Escape" -> Escape(d, c)
    [] d.state = "Csi" -> Csi(d, c)
    [] d.state = "Text" -> Text(d, c)
AppendBytes(d, bytes) == FoldLeft(AppendByte, d, bytes)

----------------------------------------------------------------------------
(* The owners of the decoders. *)

Fresh(k) ==
  CASE k = "frames" -> [buffer |-> <<>>, payloads |-> <<>>]
    [] k = "lines" -> [partial |-> <<>>, diagnostics |-> <<>>]
    [] k = "git" -> [output |-> <<>>, files |-> <<>>, exit |-> FALSE]
    [] k = "terminal" -> FreshTerminal

\* A flood is the last thing a stream brings: see the README.
Streams(k) == {s \in UNION {[1..n -> Messages[k]] : n \in 0..Most} :
                 \A i \in 1..Len(s) : s[i] = Flood => i = Len(s)}

Init ==
  /\ kind \in DOMAIN Messages /\ sent \in Streams(kind)
  /\ at = 0 /\ decoder = Fresh(kind) /\ cleared = 0 /\ over = FALSE

\* poll() takes the next n bytes, as one chunk, to the decoder.
Read(n) ==
  LET chunk == SubSeq(Bytes, at + 1, at + n)
  IN /\ ~over /\ at + n <= Len(Bytes)
     /\ decoder' = CASE kind = "frames" -> Feed(decoder, chunk)
                     [] kind = "lines" -> AppendOutput(decoder, chunk)
                     [] kind = "git" -> Capped(decoder, chunk)
                     [] kind = "terminal" -> AppendBytes(decoder, chunk)
     /\ at' = at + n
     /\ UNCHANGED <<kind, sent, cleared, over>>

\* The compiler exits, perhaps in the middle of a line.
FinishBuild ==
  /\ kind = "lines" /\ ~over
  /\ decoder' = FinishOutput(decoder) /\ over' = TRUE
  /\ UNCHANGED <<kind, sent, at, cleared>>

\* git exits: status of a failed one is not parsed. Nothing is left to read.
FinishGit(ok) ==
  /\ kind = "git" /\ ~over /\ at = Len(Bytes)
  /\ decoder' = [output |-> <<>>, exit |-> ok,
                 files |-> IF ok THEN ParseGitStatus(decoder.output) ELSE <<>>]
  /\ over' = TRUE
  /\ UNCHANGED <<kind, sent, at, cleared>>

\* The user clears the diagnostics of the build, or the console.
ClearShown ==
  /\ kind \in {"lines", "terminal"} /\ ~over /\ cleared # at
  /\ decoder' = IF kind = "lines" THEN [decoder EXCEPT !.diagnostics = <<>>] ELSE FreshTerminal
  /\ cleared' = at
  /\ UNCHANGED <<kind, sent, at, over>>

\* The process is stopped wherever it is, and started again.
Restart ==
  /\ decoder' = CASE kind = "frames" -> [decoder EXCEPT !.buffer = <<>>, !.payloads = <<>>]
                  [] kind = "lines" -> [partial |-> <<>>, diagnostics |-> <<>>]
                  [] kind = "git" -> [decoder EXCEPT !.output = <<>>, !.files = <<>>, !.exit = FALSE]
                  [] kind = "terminal" -> FreshTerminal
  /\ at' = 0 /\ cleared' = 0 /\ over' = FALSE
  /\ UNCHANGED <<kind, sent>>

Next ==
  \/ \E n \in 1..Len(Bytes) : Read(n)
  \/ FinishBuild \/ \E ok \in BOOLEAN : FinishGit(ok)
  \/ ClearShown \/ Restart

----------------------------------------------------------------------------
(* Properties *)

\* The messages all of whose bytes are among the first n.
Whole(n) == {i \in 1..Len(sent) : EndOf(i) <= n}
Meant(from, n) ==
  FlattenSeq([i \in 1..Cardinality(Whole(n)) |-> IF EndOf(i) <= from THEN <<>> ELSE sent[i].gives])

\* Without the repeated ones, in the order of the first.
Once(s) == FoldLeft(LAMBDA r, x : IF x \in Range(r) THEN r ELSE Append(r, x), <<>>, s)

Greatest(S) == CHOOSE x \in S : \A y \in S : y <= x

\* What a terminal does with an operation of the program that writes to it.
Performed(d, op) ==
  CASE op[1] = "" -> d
    [] op[1] = "b" -> GoTo(d, Greatest({0} \cup {i \in 0..(d.cursor - 1) : d.line[i + 1] # "v"}))
    [] op[1] = "u" -> Put(Put(d, "u"), "v")
    [] op[1] = "K" -> EraseLine(d, FALSE)
    [] op[1] = "2K" -> EraseLine(d, TRUE)
    [] op[1] = "G" -> GoTo(d, op[2] - 1)
    [] op[1] = "C" -> GoTo(d, d.cursor + op[2])
    [] op[1] = "D" -> GoTo(d, IF op[2] > d.cursor THEN 0 ELSE d.cursor - op[2])
    [] op[1] = "2J" -> FreshTerminal
    [] OTHER -> Text(d, op[1])
Shows(from, n) ==
  FoldLeft(LAMBDA d, i : IF EndOf(i) <= from THEN d ELSE Performed(d, sent[i].gives),
           FreshTerminal, [i \in 1..Cardinality(Whole(n)) |-> i])
Boundaries == {EndOf(i) : i \in 0..Len(sent)}

(* However the output of a process is cut into chunks, each decoder gives  *)
(* what the messages read so far mean, and nothing of a message that has   *)
(* not arrived, of an earlier process or of before Clear: the framer the   *)
(* bodies of the valid frames, skipping broken ones, holding no more than  *)
(* a header of an unfinished one; the collector each diagnostic of a whole *)
(* line once, at the end also of the unterminated last one; git the status *)
(* of the whole records within the limit; the console the lines that the   *)
(* escape sequences leave (json_rpc_framer.cpp:34, git_session.cpp:70,     *)
(* build_output_collector.cpp:9, terminal_buffer.cpp:11).                  *)
DecodedWhole ==
  CASE kind = "frames" ->
         /\ decoder.payloads = Meant(0, at)
         /\ Has(decoder.buffer, HeaderEnd) \/ Len(decoder.buffer) <= MaxHeader
    [] kind = "lines" ->
         LET last == {i \in 1..Len(sent) : over /\ at = EndOf(i) - 1 /\ EndOf(i) > cleared}
         IN decoder.diagnostics =
              Once(Meant(cleared, at) \o FlattenSeq(SetToSeq({sent[i].gives : i \in last})))
    [] kind = "git" ->
         decoder.files = IF over /\ decoder.exit THEN Meant(0, Least(at, MaxOutput)) ELSE <<>>
    [] kind = "terminal" ->
         {cleared, at} \subseteq Boundaries =>
           LET shown == Shows(cleared, at)
           IN /\ decoder.lines = shown.lines /\ decoder.line = shown.line
              /\ decoder.cursor = shown.cursor /\ decoder.state = "Text"
=============================================================================
