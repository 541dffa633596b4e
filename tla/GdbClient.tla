----------------------------- MODULE GdbClient -----------------------------
(* GdbClient (src/src/gdb_client.cpp) between the debug commands of IdeWindow *)
(* and a gdb process that reads numbered commands and writes MI records.      *)
(*                                                                            *)
(* client  the private fields of GdbClient and of its AsyncProcess; a method  *)
(*         is an operator from the old value of the record to the new one.    *)
(* gdb     the debugger, an external program: the program under it and the    *)
(*         breakpoints it really has.                                         *)
(* owner   the budget of debug commands, and the sessions started.            *)
(*                                                                            *)
(* What the panels show is identified by where it comes from: the number of   *)
(* the stop (counted over all sessions) and the level of the stack frame.     *)
(* Commands whose answer no field waits for and no panel shows (settings,     *)
(* var-create, registers, thread-info) are left out.                          *)
EXTENDS Naturals, SequencesExt, FiniteSets

CONSTANTS
  Keys,         \* "file:line" of a breakpoint
  Modes,        \* which of "launch", "attach", "core" the user may start
  Frames,       \* levels of the stack the user may select
  MaxOps,       \* bound on the user's commands
  MaxSessions,  \* bound on the gdb processes started
  MaxStops,     \* bound on the stops of the program
  MayRefuse,    \* gdb may refuse to run or resume the program
  MayClear,     \* the user may remove all breakpoints at once
  MayDie        \* gdb may exit by itself

ASSUME Constants ==
  /\ Modes \subseteq {"launch", "attach", "core"} /\ IsFiniteSet(Keys)
  /\ Frames \subseteq Nat
  /\ {MaxOps, MaxSessions, MaxStops} \subseteq Nat
  /\ {MayRefuse, MayClear, MayDie} \subseteq BOOLEAN

VARIABLES client, gdb, owner
vars == <<client, gdb, owner>>

Nothing == <<0, 0>>    \* a panel with no variables: of no stop

Message(token, op, key, number, log) ==
  [token |-> token, op |-> op, key |-> key, number |-> number, log |-> log]
Record(kind, token, number, stop, frame) ==
  [kind |-> kind, token |-> token, number |-> number, stop |-> stop, frame |-> frame]
Async(kind) == Record(kind, 0, 0, 0, 0)

With(f, x, v) == [y \in DOMAIN f \union {x} |-> IF y = x THEN v ELSE f[y]]
Without(f, x) == [y \in DOMAIN f \ {x} |-> f[y]]

IdleClient ==
  [running |-> FALSE, stdin |-> <<>>, output |-> <<>>, token |-> 1, mode |-> "none",
   active |-> FALSE, stopped |-> FALSE, exited |-> FALSE, runRequested |-> FALSE,
   desired |-> <<>>, numbers |-> <<>>, breakpoints |-> {}, commands |-> {},
   signal |-> 0, attach |-> 0, detach |-> 0, coreExecutable |-> 0, coreTarget |-> 0,
   detachConfirmed |-> FALSE, detaching |-> FALSE, selected |-> 0,
   frames |-> 0, variables |-> Nothing, watch |-> 0, watches |-> {}]

IdleGdb == [program |-> "none", stops |-> 0, frame |-> 0, breakpoints |-> <<>>, next |-> 1]

-----------------------------------------------------------------------------
(* Private methods *)

CommandOn(c, op, key, number, log) ==
  [c EXCEPT !.token = @ + 1,
            !.stdin = IF c.running THEN Append(@, Message(c.token, op, key, number, log)) ELSE @]
Command(c, op) == CommandOn(c, op, "none", 0, FALSE)

InsertBreakpoint(c, k) ==
  [CommandOn([c EXCEPT !.desired[k].status = "pending"], "insert", k, 0, c.desired[k].log) EXCEPT
     !.breakpoints = @ \union {[token |-> c.token, key |-> k]}]

StartAtOnce(c) ==    \* a mistaken variant: waits for no answer
  IF c.runRequested
  THEN Command([c EXCEPT !.runRequested = FALSE], "run") ELSE c

StartRequestedRun(c) ==
  IF c.runRequested /\ c.breakpoints = {} /\ c.commands = {}
  THEN Command([c EXCEPT !.runRequested = FALSE], "run") ELSE c

RefreshWatches(c) ==
  IF c.stopped
  THEN [Command(c, "evaluate") EXCEPT !.watches = @ \union {c.token}, !.watch = 0] ELSE c

RefreshVariables(c) == Command([c EXCEPT !.variables = Nothing], "variables")

RefreshState(c) == RefreshWatches(RefreshVariables(Command(c, "stack")))

(* What run() and the commands that resume the program have in common.        *)
Resuming(c) ==
  [c EXCEPT !.active = TRUE, !.stopped = FALSE, !.selected = 0, !.frames = 0,
            !.variables = Nothing, !.watches = {}, !.watch = 0]

(* What start(), attach() and openCore() have in common.                      *)
Opened(c, mode) ==
  [c EXCEPT !.running = TRUE, !.stdin = <<>>, !.mode = mode,
            !.active = FALSE, !.stopped = FALSE, !.exited = FALSE, !.runRequested = FALSE,
            !.signal = 0, !.attach = 0, !.detach = 0, !.coreExecutable = 0, !.coreTarget = 0,
            !.selected = 0, !.numbers = <<>>, !.breakpoints = {}, !.commands = {}]

InsertEach(c, keys) ==
  LET after[n \in 0..Len(keys)] == IF n = 0 THEN c ELSE InsertBreakpoint(after[n - 1], keys[n])
  IN  after[Len(keys)]
InsertAll(c) == InsertEach(c, SetToSeq(DOMAIN c.desired))

-----------------------------------------------------------------------------
(* Public methods *)

StartNumbersAgain(c) ==    \* a mistaken variant: every gdb gets tokens from 1
  InsertAll([Opened(c, "launch") EXCEPT !.token = 1])

Start(c) == InsertAll(Opened(c, "launch"))

Run(c) ==
  IF c.running /\ c.mode = "launch"
  THEN StartRequestedRun([Resuming(c) EXCEPT !.exited = FALSE, !.runRequested = TRUE]) ELSE c

Attach(c) ==
  LET b == InsertAll(Opened(c, "attach")) IN [Command(b, "attach") EXCEPT !.attach = b.token]

OpenCore(c) ==
  LET b == Opened(c, "core") IN [Command(b, "executable") EXCEPT !.coreExecutable = b.token]

(* The end of stop(), the process being dead.                                 *)
Reset(c) ==
  [IdleClient EXCEPT
     !.output = c.output, !.token = c.token, !.detachConfirmed = c.detachConfirmed,
     !.desired = [k \in DOMAIN c.desired |-> [c.desired[k] EXCEPT !.status = "unset"]]]

StopForgetsAttach(c) ==    \* a mistaken variant: an attach in progress is not detached
  IF c.running /\ c.mode = "attach" /\ c.active
  THEN [Command(c, "detach") EXCEPT
          !.detach = c.token, !.detachConfirmed = FALSE, !.detaching = TRUE]
  ELSE Reset([c EXCEPT !.detachConfirmed = TRUE])

(* An attached program is detached first: stop() polls until the answer comes *)
(* or a second has passed.                                                    *)
Stop(c) ==
  IF c.running /\ c.mode = "attach" /\ (c.active \/ c.attach # 0)
  THEN [Command(c, "detach") EXCEPT
          !.detach = c.token, !.detachConfirmed = FALSE, !.detaching = TRUE]
  ELSE Reset([c EXCEPT !.detachConfirmed = TRUE])

Resume(c, op) == IF c.mode = "core" THEN c ELSE Command(Resuming(c), op)

SendSignal(c) ==
  IF c.running /\ c.mode # "core" /\ c.active /\ c.stopped /\ c.signal = 0
  THEN [Command(c, "signal") EXCEPT !.signal = c.token, !.stopped = FALSE] ELSE c

SelectFrame(c, level) ==
  IF c.stopped
  THEN RefreshWatches(RefreshVariables(
         CommandOn([c EXCEPT !.selected = level], "frame", "none", level, FALSE)))
  ELSE c

Inserting(c, k) == IF c.running /\ c.mode # "core" THEN InsertBreakpoint(c, k) ELSE c
Deleted(c, k) ==
  IF k \in DOMAIN c.numbers
  THEN [CommandOn(c, "delete", "none", c.numbers[k], FALSE) EXCEPT
          !.numbers = Without(@, k)]
  ELSE c

AddBreakpoint(c, k) ==
  Inserting([c EXCEPT !.desired = With(@, k, [log |-> FALSE, status |-> "unset"])], k)

UpdateBreakpoint(c, k) ==
  Inserting(Deleted([c EXCEPT !.desired[k] = [log |-> ~@.log, status |-> "unset"]], k), k)

RemoveBreakpoint(c, k) ==
  Deleted([c EXCEPT !.desired = Without(@, k)], k)

ClearBreakpoints(c) ==
  LET s == IF c.running /\ c.mode # "core" /\ DOMAIN c.numbers # {} THEN Command(c, "deleteAll") ELSE c
  IN [s EXCEPT !.desired = <<>>, !.numbers = <<>>, !.breakpoints = {}]

-----------------------------------------------------------------------------
Init ==
  /\ client = IdleClient
  /\ gdb = IdleGdb
  /\ owner = [ops |-> 0, sessions |-> 0]

(* The user's commands. stop() of an attached session does not return before  *)
(* FinishStop, so no other command runs meanwhile.                            *)
Budget == owner.ops < MaxOps /\ ~client.detaching
Spend == owner' = [owner EXCEPT !.ops = @ + 1]
NewSession ==
  /\ Budget /\ owner.sessions < MaxSessions
  /\ owner' = [ops |-> owner.ops + 1, sessions |-> owner.sessions + 1]
  /\ gdb' = [IdleGdb EXCEPT !.stops = gdb.stops]
AtStop == client.running /\ client.active /\ client.stopped
Does(c) == Budget /\ client' = c /\ Spend /\ UNCHANGED gdb

StartDebug == "launch" \in Modes /\ ~client.running /\ NewSession /\ client' = Run(Start(client))
AttachProcess == "attach" \in Modes /\ ~client.running /\ NewSession /\ client' = Attach(client)
OpenCoreDump == "core" \in Modes /\ ~client.running /\ NewSession /\ client' = OpenCore(client)

DebugStop ==
  /\ client.running /\ Budget /\ Spend
  /\ client' = Stop(client)
  /\ gdb' = IF client'.detaching THEN gdb ELSE [IdleGdb EXCEPT !.stops = gdb.stops]

FinishStop ==
  /\ client.detaching
  /\ client' = Reset(client)
  /\ gdb' = [IdleGdb EXCEPT !.stops = gdb.stops]
  /\ UNCHANGED owner

DebugRestart ==
  /\ client.running /\ client.mode = "launch" /\ NewSession
  /\ client' = Run(Start(Stop(client)))

(* F5 in a session that is open.                                              *)
RunAgain == client.running /\ client.mode = "launch" /\ ~client.active /\ Does(Run(client))
Continue == AtStop /\ client.mode # "core" /\ Does(Resume(client, "continue"))
StepOut == AtStop /\ client.mode # "core" /\ Does(Resume(client, "finish"))
Pause == client.running /\ client.active /\ ~client.stopped /\ client.mode # "core"
           /\ Does(Command(client, "interrupt"))
Signal == AtStop /\ client.signal = 0 /\ client.mode # "core" /\ Does(SendSignal(client))
OpenFrame == client.stopped /\ \E level \in Frames : Does(SelectFrame(client, level))

ToggleBreakpoint(k) ==
  Does(IF k \in DOMAIN client.desired THEN RemoveBreakpoint(client, k) ELSE AddBreakpoint(client, k))
EditBreakpoint(k) == k \in DOMAIN client.desired /\ Does(UpdateBreakpoint(client, k))
RemoveAll == MayClear /\ client.desired # <<>> /\ Does(ClearBreakpoints(client))

-----------------------------------------------------------------------------
(* poll(): each step handles one record.                                      *)

Incoming == Head(client.output)
Rest == [client EXCEPT !.output = Tail(@)]
Handles(c) == client' = c /\ UNCHANGED <<gdb, owner>>
Has(kinds) == client.output # <<>> /\ Incoming.kind \in kinds
Answers(token) == Has({"done", "error"}) /\ token # 0 /\ Incoming.token = token
Accepted == Incoming.kind = "done"

HandleStopped ==
  /\ Has({"stopped"})
  /\ Handles(RefreshState([Rest EXCEPT !.active = TRUE, !.stopped = TRUE, !.exited = FALSE,
                                       !.selected = 0]))

HandleExited ==
  /\ Has({"exited"})
  /\ Handles([Rest EXCEPT !.active = FALSE, !.stopped = FALSE, !.exited = TRUE, !.selected = 0,
                          !.frames = 0, !.variables = Nothing, !.watches = {}, !.watch = 0])

HandleRunning ==
  /\ Has({"running"})
  /\ Handles([Rest EXCEPT !.active = TRUE, !.stopped = FALSE, !.exited = FALSE])

Loaded(c) == RefreshState([c EXCEPT !.active = TRUE, !.stopped = TRUE, !.exited = FALSE])
NotLoaded(c) == [c EXCEPT !.active = FALSE, !.stopped = FALSE, !.exited = TRUE]

HandleCoreExecutable ==
  /\ Answers(client.coreExecutable)
  /\ LET c == [Rest EXCEPT !.coreExecutable = 0] IN
     Handles(IF Accepted THEN [Command(c, "core") EXCEPT !.coreTarget = c.token] ELSE NotLoaded(c))

HandleCoreTarget ==
  /\ Answers(client.coreTarget)
  /\ LET c == [Rest EXCEPT !.coreTarget = 0] IN
     Handles(IF Accepted THEN Loaded([c EXCEPT !.selected = 0]) ELSE NotLoaded(c))

HandleAttach ==
  /\ Answers(client.attach)
  /\ LET c == [Rest EXCEPT !.attach = 0] IN Handles(IF Accepted THEN Loaded(c) ELSE NotLoaded(c))

HandleDetach ==
  /\ Answers(client.detach)
  /\ LET c == [Rest EXCEPT !.detach = 0] IN
     Handles(IF Accepted
             THEN [c EXCEPT !.detachConfirmed = TRUE, !.active = FALSE, !.stopped = FALSE,
                            !.exited = FALSE]
             ELSE c)

SignalRefusedSilently ==    \* a mistaken variant: stepping stays blocked
  /\ Answers(client.signal)
  /\ Handles([Rest EXCEPT !.signal = 0])

HandleSignal ==
  /\ Answers(client.signal)
  /\ LET c == [Rest EXCEPT !.signal = 0] IN
     Handles(IF Accepted THEN c ELSE RefreshState([c EXCEPT !.stopped = TRUE]))

InsertAnswered(c, p) ==
  LET k == p.key
      wanted == k \in DOMAIN c.desired
      set == [c EXCEPT !.numbers = With(@, k, Incoming.number), !.desired[k].status = "set"]
      armed == [CommandOn(set, "commands", "none", Incoming.number, FALSE) EXCEPT
                  !.commands = @ \union {[token |-> c.token, key |-> k]}]
  IN CASE Accepted /\ wanted -> IF c.desired[k].log THEN armed ELSE set
       [] Accepted /\ ~wanted -> CommandOn(c, "delete", "none", Incoming.number, FALSE)
       [] ~Accepted /\ wanted -> [c EXCEPT !.desired[k].status = "rejected"]
       [] OTHER -> c

HandleInsertOnly ==    \* a mistaken variant: nobody starts the run that waits
  \E p \in client.breakpoints :
    Answers(p.token) /\ Handles(InsertAnswered([Rest EXCEPT !.breakpoints = @ \ {p}], p))

HandleInsert ==
  \E p \in client.breakpoints :
    /\ Answers(p.token)
    /\ Handles(StartRequestedRun(InsertAnswered([Rest EXCEPT !.breakpoints = @ \ {p}], p)))

HandleCommands ==
  \E p \in client.commands :
    /\ Answers(p.token)
    /\ LET c == [Rest EXCEPT !.commands = @ \ {p}] IN
       Handles(StartRequestedRun(
         IF ~Accepted /\ p.key \in DOMAIN c.desired
         THEN [c EXCEPT !.desired[p.key].status = "rejected"] ELSE c))

HandleWatch ==
  \E token \in client.watches :
    /\ Answers(token)
    /\ Handles([Rest EXCEPT !.watches = @ \ {token}, !.watch = Incoming.stop])

(* These two are told apart by what they carry, not by a token.               *)
HandleStack == Has({"stack"}) /\ Handles([Rest EXCEPT !.frames = Incoming.stop])
HandleVariables ==
  Has({"variables"}) /\ Handles([Rest EXCEPT !.variables = <<Incoming.stop, Incoming.frame>>])

Awaited ==
  ({client.coreExecutable, client.coreTarget, client.attach, client.detach, client.signal} \ {0})
  \union {p.token : p \in client.breakpoints \union client.commands} \union client.watches
HandleOther == Has({"done", "error"}) /\ Incoming.token \notin Awaited /\ Handles(Rest)

Poll ==
  \/ HandleStopped \/ HandleExited \/ HandleRunning
  \/ HandleCoreExecutable \/ HandleCoreTarget \/ HandleAttach \/ HandleDetach \/ HandleSignal
  \/ HandleInsert \/ HandleCommands \/ HandleWatch \/ HandleStack \/ HandleVariables \/ HandleOther

-----------------------------------------------------------------------------
(* gdb (external): it takes its commands in order; an outcome is its new      *)
(* state and what it prints.                                                  *)

Outcome(g, records) == [gdb |-> g, records |-> records]
Done(m) == Record("done", m.token, 0, 0, 0)
Error(m) == Record("error", m.token, 0, 0, 0)
Refuse(m) == {Outcome(gdb, <<Error(m)>>)}
Stopping(g) == [g EXCEPT !.program = "stopped", !.frame = 0, !.stops = @ + 1]
Going(g) == [g EXCEPT !.program = "running"]
MayStop == gdb.stops < MaxStops

Execute(m) ==
  CASE m.op = "insert" ->
         Refuse(m) \union
         {Outcome([gdb EXCEPT
                     !.breakpoints = With(@, gdb.next, [key |-> m.key, log |-> m.log, armed |-> FALSE]),
                     !.next = @ + 1],
                  <<Record("done", m.token, gdb.next, 0, 0)>>)}
    [] m.op = "commands" ->
         IF m.number \in DOMAIN gdb.breakpoints
         THEN {Outcome([gdb EXCEPT !.breakpoints[m.number].armed = TRUE], <<Done(m)>>)} ELSE Refuse(m)
    [] m.op = "delete" ->
         {Outcome([gdb EXCEPT !.breakpoints = Without(@, m.number)], <<Done(m)>>)}
    [] m.op = "deleteAll" -> {Outcome([gdb EXCEPT !.breakpoints = <<>>], <<Done(m)>>)}
    [] m.op = "run" ->
         (IF MayRefuse THEN Refuse(m) ELSE {})
         \union {Outcome(Going(gdb), <<Done(m), Async("running")>>)}
    [] m.op \in {"continue", "finish", "signal"} ->
         (IF gdb.program = "stopped" THEN {Outcome(Going(gdb), <<Done(m), Async("running")>>)} ELSE {})
         \union (IF gdb.program # "stopped" \/ m.op = "signal" \/ (m.op = "finish" /\ MayRefuse)
                 THEN Refuse(m) ELSE {})
    [] m.op = "interrupt" ->
         IF gdb.program = "running" /\ MayStop
         THEN {Outcome(Stopping(gdb), <<Done(m), Async("stopped")>>)} ELSE Refuse(m)
    [] m.op = "attach" ->
         Refuse(m) \union
         (IF MayStop THEN {Outcome(Stopping(gdb), <<Async("stopped"), Done(m)>>),
                           Outcome(Stopping(gdb), <<Done(m), Async("stopped")>>)} ELSE {})
    [] m.op = "detach" ->
         (IF gdb.program # "none" THEN {Outcome([gdb EXCEPT !.program = "none"], <<Done(m)>>)} ELSE {})
         \union (IF gdb.program # "stopped" THEN Refuse(m) ELSE {})
    [] m.op = "executable" -> Refuse(m) \union {Outcome(gdb, <<Done(m)>>)}
    [] m.op = "core" ->
         Refuse(m) \union (IF MayStop THEN {Outcome(Stopping(gdb), <<Done(m)>>)} ELSE {})
    [] m.op = "frame" ->
         IF gdb.program = "stopped" THEN {Outcome([gdb EXCEPT !.frame = m.number], <<Done(m)>>)}
         ELSE Refuse(m)
    [] m.op = "evaluate" ->
         IF gdb.program = "stopped" THEN {Outcome(gdb, <<Record("done", m.token, 0, gdb.stops, 0)>>)}
         ELSE Refuse(m)
    [] m.op \in {"stack", "variables"} ->
         IF gdb.program = "stopped"
         THEN {Outcome(gdb, <<Record(m.op, m.token, 0, gdb.stops, gdb.frame)>>)} ELSE Refuse(m)

GdbReads ==
  /\ client.running /\ client.stdin # <<>>
  /\ \E o \in Execute(Head(client.stdin)) :
       /\ gdb' = o.gdb
       /\ client' = [client EXCEPT !.stdin = Tail(@), !.output = @ \o o.records]
  /\ UNCHANGED owner

Prints(g, record) ==
  /\ client.running
  /\ gdb' = g
  /\ client' = [client EXCEPT !.output = Append(@, record)]
  /\ UNCHANGED owner

ProgramStops == gdb.program = "running" /\ MayStop /\ Prints(Stopping(gdb), Async("stopped"))
ProgramExits ==
  gdb.program = "running" /\ Prints([gdb EXCEPT !.program = "none"], Async("exited"))

GdbDies ==
  /\ MayDie /\ client.running
  /\ client' = [client EXCEPT !.running = FALSE, !.stdin = <<>>]
  /\ gdb' = [IdleGdb EXCEPT !.stops = gdb.stops]
  /\ UNCHANGED owner

-----------------------------------------------------------------------------
Next ==
  \/ StartDebug \/ AttachProcess \/ OpenCoreDump
  \/ DebugStop \/ FinishStop \/ DebugRestart
  \/ RunAgain \/ Continue \/ StepOut \/ Pause \/ Signal \/ OpenFrame
  \/ \E k \in Keys : ToggleBreakpoint(k) \/ EditBreakpoint(k)
  \/ RemoveAll
  \/ Poll
  \/ GdbReads \/ ProgramStops \/ ProgramExits \/ GdbDies

Spec == Init /\ [][Next]_vars

(* The timer polls every 100 ms, and gdb takes its commands while no program  *)
(* is running under it.                                                       *)
Fairness == WF_vars(Poll) /\ WF_vars(gdb.program # "running" /\ GdbReads)
FairSpec == Spec /\ Fairness

-----------------------------------------------------------------------------
(* Properties *)

Tokens == 0..client.token
Statuses == {"unset", "pending", "set", "rejected"}
Wishes == [log : BOOLEAN, status : Statuses]

(* Types of the records; the waiting fields name commands that were sent.     *)
TypeOK ==
  /\ DOMAIN client = DOMAIN IdleClient /\ DOMAIN gdb = DOMAIN IdleGdb
  /\ {client.running, client.active, client.stopped, client.exited, client.runRequested,
      client.detachConfirmed, client.detaching} \subseteq BOOLEAN
  /\ client.mode \in {"none"} \union Modes
  /\ DOMAIN client.desired \subseteq Keys /\ DOMAIN client.numbers \subseteq DOMAIN client.desired
  /\ \A k \in DOMAIN client.desired : client.desired[k] \in Wishes
  /\ client.breakpoints \union client.commands \subseteq [token : Tokens, key : Keys]
  /\ client.watches \union {client.signal, client.attach, client.detach} \subseteq Tokens
  /\ \A i \in DOMAIN client.stdin : client.stdin[i].token < client.token
  /\ gdb.program \in {"none", "running", "stopped"}
  /\ gdb.stops \in 0..MaxStops /\ client.frames \in 0..gdb.stops /\ client.watch \in 0..gdb.stops

Quiet == client.running /\ client.stdin = <<>> /\ client.output = <<>>

(* A core dump is read-only: no command that changes breakpoints or resumes   *)
(* reaches the gdb that has it.                                               *)
CoreReadOnly ==
  client.mode = "core" =>
    \A i \in DOMAIN client.stdin :
      client.stdin[i].op \in {"executable", "core", "stack", "variables", "evaluate", "frame"}

(* A breakpoint the user sees as set exists in gdb under the number the client *)
(* would delete it by, with the properties the user gave it last, however      *)
(* often it was toggled, edited or cleared while answers were on their way and *)
(* whatever an earlier gdb still had to say.                                  *)
DesiredInserted ==
  /\ TypeOK /\ CoreReadOnly
  /\ Quiet /\ client.mode \in {"launch", "attach"} =>
       \A k \in DOMAIN client.desired :
         \/ client.desired[k].status = "rejected"
         \/ /\ k \in DOMAIN client.numbers
            /\ client.numbers[k] \in DOMAIN gdb.breakpoints
            /\ gdb.breakpoints[client.numbers[k]] =
                 [key |-> k, log |-> client.desired[k].log, armed |-> client.desired[k].log]

(* The program is started only when every logpoint that is set goes on by     *)
(* itself: otherwise the first one reached would stop the program.            *)
LogpointsArmed ==
  [][client.stdin # <<>> /\ Head(client.stdin).op = "run" /\ GdbReads =>
       \A k \in DOMAIN client.numbers :
         LET n == client.numbers[k] IN
         /\ client.desired[k] = [log |-> TRUE, status |-> "set"]
         /\ n \in DOMAIN gdb.breakpoints /\ gdb.breakpoints[n].log
         => gdb.breakpoints[n].armed]_vars

(* When everything said has been heard, the client's idea of the program is   *)
(* gdb's: the commands the user is offered are those that can work.           *)
StopStateAgrees ==
  Quiet /\ ~client.runRequested =>
    /\ client.stopped <=> gdb.program = "stopped"
    /\ client.active <=> gdb.program # "none"

(* ... and what the panels show is the stop the program is at, in the frame   *)
(* the user selected.                                                         *)
ShownAgrees ==
  Quiet /\ client.stopped =>
    /\ client.frames = gdb.stops
    /\ client.variables = <<gdb.stops, client.selected>>
    /\ client.watch = gdb.stops

(* A watch gets a value only next to the stack of the same stop: an answer    *)
(* that comes after the program was resumed is not shown.                     *)
WatchCurrent ==
  [][client'.watch # client.watch /\ client'.watch # 0
       => client'.frames = client'.watch]_vars

(* The panels follow the program: at rest, and while answers come in late.    *)
PanelsFollow == [](StopStateAgrees /\ ShownAgrees) /\ WatchCurrent

(* stop() says that the attached program was let go only if it was.           *)
DetachHonest ==
  [][client.mode = "attach" /\ client.running /\ ~client'.running /\ client'.mode = "none"
     /\ client'.detachConfirmed => gdb.program = "none"]_vars

(* A requested run starts, once gdb has answered about the breakpoints.       *)
RunStarts == client.runRequested ~> ~client.runRequested

-----------------------------------------------------------------------------
(* The inductive invariant, of a client c and a debugger g.                   *)

ReadOnly == {"executable", "core", "stack", "variables", "evaluate", "frame"}
Ops == ReadOnly \union {"insert", "commands", "delete", "deleteAll", "run", "continue", "finish",
                        "signal", "interrupt", "attach", "detach"}
MessageSet == [token : Nat, op : Ops, key : Keys \union {"none"}, number : Nat, log : BOOLEAN]
RecordSet(stops) ==
  [kind : {"done", "error", "stack", "variables", "stopped", "exited", "running"},
   token : Nat, number : Nat, stop : 0..stops, frame : Nat]
MapOf(f, D, V) == DOMAIN f \subseteq D /\ f \in [DOMAIN f -> V]
Waiting == [token : Nat, key : Keys]

ClientTyped(c, stops) ==
  /\ c \in [running : BOOLEAN, stdin : Seq(MessageSet), output : Seq(RecordSet(stops)),
            token : Nat, mode : {"none"} \union Modes, active : BOOLEAN, stopped : BOOLEAN,
            exited : BOOLEAN, runRequested : BOOLEAN, desired : {c.desired}, numbers : {c.numbers},
            breakpoints : SUBSET Waiting, commands : SUBSET Waiting, signal : Nat, attach : Nat,
            detach : Nat, coreExecutable : Nat, coreTarget : Nat, detachConfirmed : BOOLEAN,
            detaching : BOOLEAN, selected : Nat, frames : 0..stops, variables : {c.variables},
            watch : 0..stops, watches : SUBSET Nat]
  /\ MapOf(c.desired, Keys, Wishes)
  /\ MapOf(c.numbers, DOMAIN c.desired, Nat)
GdbTyped(g) ==
  /\ g \in [program : {"none", "running", "stopped"}, stops : 0..MaxStops, frame : Nat,
            breakpoints : {g.breakpoints}, next : Nat]
  /\ MapOf(g.breakpoints, Nat, [key : Keys \union {"none"}, log : BOOLEAN, armed : BOOLEAN])
  /\ \A n \in DOMAIN g.breakpoints : n < g.next

(* Tokens grow on their way, and answers keep the order of the commands.      *)
Wired(c) ==
  /\ 0 < c.token
  /\ \A i \in 1..Len(c.stdin) : 0 < c.stdin[i].token /\ c.stdin[i].token < c.token
  /\ \A i, j \in 1..Len(c.stdin) : i < j => c.stdin[i].token < c.stdin[j].token
  /\ \A i \in 1..Len(c.output) : c.output[i].token < c.token
  /\ \A i \in 1..Len(c.output), j \in 1..Len(c.stdin) : c.output[i].token < c.stdin[j].token
  /\ \A i, j \in 1..Len(c.output) :
       i < j => c.output[j].token = 0 \/ c.output[i].token < c.output[j].token

(* No token is waited for in two ways.                                        *)
Others(c) ==
  {p.token : p \in c.commands} \union c.watches \union {c.signal, c.attach, c.detach}
Tracked(c) ==
  /\ \A p \in c.breakpoints : 0 < p.token /\ p.token < c.token /\ p.token \notin Others(c)
  /\ \A p, q \in c.breakpoints : p.token = q.token => p = q
  /\ \A t \in Others(c) : t < c.token

(* What a session may send.                                                   *)
InSession(c) ==
  /\ c.running => c.mode # "none"
  /\ ~c.running => c.stdin = <<>>
  /\ c.detaching => c.mode = "attach"
  /\ c.mode # "launch" =>
       ~c.runRequested /\ \A i \in 1..Len(c.stdin) : c.stdin[i].op # "run"
  /\ c.mode = "core" =>
       /\ DOMAIN c.numbers = {} /\ c.breakpoints = {} /\ c.commands = {} /\ c.signal = 0
       /\ \A i \in 1..Len(c.stdin) : c.stdin[i].op \in ReadOnly
  /\ c.mode # "core" =>
       /\ c.coreExecutable = 0 /\ c.coreTarget = 0
       /\ \A i \in 1..Len(c.stdin) : c.stdin[i].op \notin {"executable", "core"}

(* A breakpoint whose insertion has not been answered will be what the user   *)
(* wants, if no later one is under way for its key. K: the keys that count.   *)
Sends(messages, op, n) ==
  \E i \in 1..Len(messages) : messages[i].op = op /\ messages[i].number = n
Latest(c, p) == \A q \in c.breakpoints : q.key = p.key => q.token <= p.token
AsDesired(c, K, p, log) == Latest(c, p) /\ p.key \in K => log = c.desired[p.key].log
Answer(r, p) == r.token = p.token /\ r.kind \in {"done", "error"}
Makes(r, p) == r.token = p.token /\ r.kind = "done"
MadeFor(c, g, K, p, n) ==
  /\ n \in DOMAIN g.breakpoints /\ g.breakpoints[n].key = p.key /\ ~g.breakpoints[n].armed
  /\ AsDesired(c, K, p, g.breakpoints[n].log)
  /\ ~Sends(c.stdin, "delete", n) /\ ~Sends(c.stdin, "commands", n)
  /\ \A k \in DOMAIN c.numbers : c.numbers[k] # n
Underway(c, g, K, p) ==
  /\ \/ \E i \in 1..Len(c.stdin) : c.stdin[i].token = p.token
     \/ \E i \in 1..Len(c.output) : Answer(c.output[i], p)
  /\ \A i \in 1..Len(c.stdin) :
       c.stdin[i].token = p.token =>
         /\ c.stdin[i].op = "insert" /\ c.stdin[i].key = p.key
         /\ AsDesired(c, K, p, c.stdin[i].log)
  /\ \A i \in 1..Len(c.output) : Makes(c.output[i], p) => MadeFor(c, g, K, p, c.output[i].number)
Apart(c) ==
  \A p, q \in c.breakpoints, i, j \in 1..Len(c.output) :
    /\ Makes(c.output[i], p) /\ Makes(c.output[j], q)
    /\ p # q
    => c.output[i].number # c.output[j].number

(* A number the client knows is that of a breakpoint in gdb, with what the    *)
(* user wants of it unless there is news about it.                            *)
Arming(messages, n) ==
  \E i \in 1..Len(messages) :
    /\ messages[i].op = "commands" /\ messages[i].number = n
    /\ \A j \in 1..Len(messages) : messages[j].op = "run" => i < j
Known(c, g, k, n) ==
  /\ n \in DOMAIN g.breakpoints /\ g.breakpoints[n].key = k /\ ~Sends(c.stdin, "delete", n)
  /\ c.desired[k].log => g.breakpoints[n].armed \/ Arming(c.stdin, n)
  /\ ~c.desired[k].log => ~g.breakpoints[n].armed /\ ~Sends(c.stdin, "commands", n)
  /\ \/ \E p \in c.breakpoints : p.key = k
     \/ c.desired[k].status = "rejected"
     \/ g.breakpoints[n].log = c.desired[k].log

Orders(c, g) ==
  \A i \in 1..Len(c.stdin) :
    /\ c.stdin[i].op \in {"delete", "commands"} => c.stdin[i].number < g.next
    /\ c.stdin[i].op \in {"deleteAll", "run"} => \A p \in c.breakpoints : c.stdin[i].token < p.token
    /\ c.stdin[i].op = "deleteAll" => DOMAIN c.numbers = {}
Booked(c, g, K) ==
  /\ DOMAIN c.numbers \subseteq K /\ K \subseteq DOMAIN c.desired
  /\ \A p \in c.breakpoints : Underway(c, g, K, p)
  /\ Apart(c)
  /\ \A k \in DOMAIN c.numbers : Known(c, g, k, c.numbers[k])
  /\ \A k \in K :
       \/ \E p \in c.breakpoints : p.key = k
       \/ c.desired[k].status = "rejected"
       \/ k \in DOMAIN c.numbers
  /\ Orders(c, g)

(* A program that was attached is known to be there, until it is gone.        *)
Over(c, g) == g.program = "none" /\ \A i \in 1..Len(c.stdin) : c.stdin[i].op # "attach"
Attached(c, g) ==
  /\ \A i \in 1..Len(c.stdin) :
       /\ c.stdin[i].op = "attach" <=> c.stdin[i].token = c.attach
       /\ c.stdin[i].op = "attach" => g.program = "none"
       /\ c.stdin[i].token = c.detach => c.stdin[i].op = "detach"
  /\ c.detach # 0 => c.attach < c.detach
  /\ c.detaching /\ c.detachConfirmed => Over(c, g)
  /\ c.attach = 0 /\ ~c.active => Over(c, g)
  /\ \A i \in 1..Len(c.output) :
       /\ c.attach = 0 /\ c.output[i].kind = "exited" => Over(c, g)
       /\ c.detach # 0 /\ c.output[i].token = c.detach /\ c.output[i].kind = "done" => Over(c, g)
       /\ c.attach # 0 /\ c.output[i].token = c.attach /\ c.output[i].kind = "error" => Over(c, g)
  /\ \A i, j \in 1..Len(c.output) :
       /\ c.attach # 0 /\ c.output[i].token = c.attach /\ c.output[i].kind = "done"
       /\ i < j /\ c.output[j].kind = "exited"
       => Over(c, g)

SoundFor(c, g, K) ==
  /\ ClientTyped(c, g.stops) /\ GdbTyped(g) /\ Wired(c) /\ Tracked(c) /\ InSession(c)
  /\ c.running /\ c.mode # "core" => Booked(c, g, K)
  /\ c.running /\ c.mode = "attach" => Attached(c, g)
Sound(c, g) == SoundFor(c, g, DOMAIN c.desired)

IInv == Sound(client, gdb) /\ owner \in [ops : 0..MaxOps, sessions : 0..MaxSessions]
=============================================================================
