------------------------------ MODULE LldbDap ------------------------------
(* LldbDapClient (src/src/lldb_dap_client.cpp) as IdeWindow drives it through *)
(* DebugClient with the lldb-dap backend.                                     *)
(*                                                                            *)
(* client   the fields of LldbDapClient and the two ends of the pipes of its  *)
(*          AsyncProcess: `wire` holds the requests the adapter has not read, *)
(*          `output` what the adapter has written and poll() has not drained. *)
(* adapter  lldb-dap, an external program, with the program it debugs.        *)
(* ui       what IdeWindow keeps: the debug command in progress, and the      *)
(*          number of commands given.                                         *)
(*                                                                            *)
(* A frame id is <<stop, thread, level>>: frames and variable references are  *)
(* only valid at the stop the adapter made them for. A value is identified by *)
(* the frame it was read in and the number of assignments made before.        *)
EXTENDS Integers, SequencesExt, FiniteSets

CONSTANTS
  Keys,         \* breakpoint positions <<file, line>>, lines are numbers
  Resolvable,   \* the positions at which the adapter can set a breakpoint
  Saved,        \* the breakpoints the project is opened with
  Watches,      \* watch expressions
  Threads,      \* thread ids
  Depth,        \* number of stack frames of a stopped thread
  Failing,      \* start-up requests the adapter may refuse
  MayDie,       \* the adapter may exit by itself
  MaxOps,       \* bound on the user's commands
  MaxSessions,  \* bound on the adapter processes started
  MaxLeft,      \* bound on what an adapter leaves unread to the next session
  MaxStops      \* bound on the stops of the program in a session

\* What the constants must satisfy.
LldbDapAssumption ==
  /\ IsFiniteSet(Keys) /\ \A key \in Keys : key = <<key[1], key[2]>> /\ key[2] \in Nat
  /\ Resolvable \subseteq Keys /\ Saved \subseteq Keys /\ Failing \subseteq {"initialize", "launch"}
  /\ IsFiniteSet(Watches)
  /\ {MaxOps, MaxSessions, MaxLeft, MaxStops, Depth} \subseteq Nat
  /\ Threads \subseteq Nat \ {0} /\ MayDie \in BOOLEAN

VARIABLES client, adapter, ui
vars == <<client, adapter, ui>>

NoFrame == <<>>
Roots == <<<<"a">>, <<"b">>>>          \* the locals, each a structure of one field
FieldOf(name) == Append(name, "field")

FileOf(key) == key[1]
Files == {FileOf(key) : key \in Keys}
LineOf(key) == key[2]

IdleClient ==
  [up |-> FALSE, wire |-> <<>>, output |-> <<>>, pending |-> <<>>, seq |-> 1,
   initialized |-> FALSE, launchSent |-> FALSE, configured |-> FALSE,
   active |-> FALSE, stopped |-> FALSE, exited |-> FALSE,
   thread |-> 0, frame |-> NoFrame, level |-> 0, threads |-> {}, frames |-> <<>>,
   variables |-> <<>>, watches |-> <<>>, registersOn |-> FALSE, registers |-> NoFrame,
   bps |-> <<>>]

IdleAdapter ==
  [ready |-> FALSE, told |-> FALSE, launched |-> FALSE, announced |-> FALSE, bps |-> [f \in Files |-> {}],
   target |-> "none", stop |-> 0, writes |-> 0]

-----------------------------------------------------------------------------
(* Private methods *)

(* The requests [cmd, arg, context] one after the other. A write to an adapter *)
(* that has gone fails: the number is used up and no answer is awaited.       *)
RequestEach(c, asked) ==
  LET numbered == [c EXCEPT !.seq = @ + Len(asked)]
      news == c.seq..(c.seq + Len(asked) - 1)
  IN IF c.up
     THEN [numbered EXCEPT
             !.wire = @ \o [i \in 1..Len(asked) |->
                              [seq |-> c.seq + i - 1, cmd |-> asked[i].cmd, arg |-> asked[i].arg]],
             !.pending = [n \in DOMAIN @ \cup news |->
                            IF n \in news
                            THEN [cmd |-> asked[n - c.seq + 1].cmd, context |-> asked[n - c.seq + 1].context]
                            ELSE @[n]]]
     ELSE numbered

Asked(cmd, arg, context) == [cmd |-> cmd, arg |-> arg, context |-> context]
Request(c, cmd, arg, context) == RequestEach(c, <<Asked(cmd, arg, context)>>)

SendLaunch(c) ==
  IF c.initialized /\ ~c.launchSent
  THEN [Request(c, "launch", <<>>, <<>>) EXCEPT !.launchSent = c.up]
  ELSE c

RefreshState(c) == IF c.stopped THEN Request(c, "threads", <<>>, <<>>) ELSE c

RequestFrames(c) ==
  IF c.thread # 0 THEN Request(c, "stackTrace", c.thread, <<>>) ELSE c

RequestScopes(c) ==
  IF c.frame # NoFrame THEN Request(c, "scopes", c.frame, <<>>) ELSE c

(* A watch is [expression, value, ok]: ok when it shows a value.              *)
MarkWatchesUnavailable(c) ==
  [c EXCEPT !.watches = [i \in DOMAIN @ |-> [@[i] EXCEPT !.value = NoFrame, !.ok = FALSE]]]

RefreshWatches(c) ==
  IF c.stopped /\ c.frame # NoFrame
  THEN RequestEach(MarkWatchesUnavailable(c),
         [i \in 1..Len(c.watches) |-> Asked("evaluate", c.frame, <<"watch", c.watches[i].expression>>)])
  ELSE c

EnabledIn(c, file) == {key \in DOMAIN c.bps : FileOf(key) = file /\ c.bps[key].enabled}

(* One request per file that has a breakpoint, with its enabled ones. Nothing *)
(* depends on the order of the files.                                         *)
ConfigureBreakpoints(c) ==
  LET files == SetToSeq({FileOf(key) : key \in DOMAIN c.bps})
  IN RequestEach([c EXCEPT !.bps = [key \in DOMAIN @ |->
                    IF @[key].enabled THEN [@[key] EXCEPT !.verified = FALSE] ELSE @[key]]],
       [i \in 1..Len(files) |->
          Asked("setBreakpoints", [file |-> files[i], keys |-> EnabledIn(c, files[i])],
                <<"breakpoints", files[i]>>)])

Reconfigured(c) == IF c.configured THEN ConfigureBreakpoints(c) ELSE c

-----------------------------------------------------------------------------
(* Handlers of poll() *)

(* An event: [type, event, thread].                                           *)
HandleEvent(c, m) ==
  CASE m.event = "initialized" ->
         Request([ConfigureBreakpoints(c) EXCEPT !.configured = TRUE],
                 "configurationDone", <<>>, <<>>)
    [] m.event = "stopped" ->
         RefreshState([c EXCEPT !.active = TRUE, !.stopped = TRUE, !.exited = FALSE,
                                !.thread = m.thread])
    [] m.event = "continued" -> [c EXCEPT !.active = TRUE, !.stopped = FALSE]
    [] m.event \in {"terminated", "exited"} ->
         [c EXCEPT !.active = FALSE, !.stopped = FALSE, !.exited = TRUE]

Refused(c, p) ==
  LET watched == IF p.context # <<>> /\ p.context[1] = "watch"
                 THEN [c EXCEPT !.watches = [i \in DOMAIN @ |->
                         IF @[i].expression = p.context[2]
                         THEN [@[i] EXCEPT !.value = NoFrame, !.ok = FALSE] ELSE @[i]]]
                 ELSE c
  IN IF p.cmd \in {"initialize", "launch"}
     THEN [watched EXCEPT !.active = FALSE, !.stopped = FALSE, !.exited = TRUE]
     ELSE watched

(* The place of a breakpoint among some of its file, in the order of lines.   *)
Place(key, keys) == Cardinality({k \in keys : LineOf(k) <= LineOf(key)})

(* The answers are matched by position with the breakpoints of the file that  *)
(* are enabled now, in the order of their lines; a breakpoint beyond the end  *)
(* of the list counts as verified.                                            *)
Verified(c, file, answer) ==
  LET matching == EnabledIn(c, file) IN
  [c EXCEPT !.bps = [key \in DOMAIN @ |->
     IF key \in matching
     THEN [@[key] EXCEPT !.verified =
             Place(key, matching) > Len(answer) \/ answer[Place(key, matching)]]
     ELSE @[key]]]

ShowThreads(c, ids) ==
  RequestFrames([c EXCEPT !.threads = ids,
                          !.thread = IF @ # 0 \/ ids = {} THEN @ ELSE CHOOSE t \in ids : \A u \in ids : t <= u])

ShowFrames(c, frames) ==
  RefreshWatches(RequestScopes(
    [c EXCEPT !.frames = frames, !.level = 0,
              !.frame = IF frames = <<>> THEN NoFrame ELSE frames[1]]))

ShowScopes(c, frame) ==
  LET r == IF c.registersOn THEN Request(c, "variables", <<frame, <<"registers">>>>, <<"registers">>) ELSE c
  IN Request(r, "variables", <<frame, <<"locals">>>>, <<"locals">>)

(* Each variable is [name, at, depth, expanded]; the children of row i go     *)
(* under whatever row i is when they come.                                    *)
ShowVariables(c, context, list) ==
  CASE context = <<"registers">> -> [c EXCEPT !.registers = list[1].at]
    [] context = <<"locals">> -> [c EXCEPT !.variables = list]
    [] context[1] = "children" ->
         LET i == context[2] IN
         IF i > Len(c.variables) THEN c
         ELSE [c EXCEPT !.variables =
                 SubSeq(@, 1, i)
                 \o [k \in DOMAIN list |-> [list[k] EXCEPT !.depth = c.variables[i].depth + 1]]
                 \o SubSeq(@, i + 1, Len(@))]

(* A late answer of another command than the body was made for finds none of  *)
(* the members it looks for: the body is taken for an empty list.             *)
Granted(c, p, m) ==
  LET body == IF m.cmd = p.cmd THEN m.body ELSE <<>> IN
  CASE p.cmd = "initialize" -> SendLaunch([c EXCEPT !.initialized = TRUE])
    [] p.cmd = "launch" -> [c EXCEPT !.active = TRUE, !.stopped = FALSE, !.exited = FALSE]
    [] p.cmd = "setBreakpoints" -> Verified(c, p.context[2], body)
    [] p.cmd = "threads" -> ShowThreads(c, IF m.cmd = p.cmd THEN m.body ELSE {})
    [] p.cmd = "stackTrace" -> ShowFrames(c, body)
    [] p.cmd = "scopes" -> IF body = <<>> THEN c ELSE ShowScopes(c, body)
    [] p.cmd = "variables" -> IF body = <<>> THEN c ELSE ShowVariables(c, p.context, body)
    [] p.cmd = "evaluate" ->
         [c EXCEPT !.watches = [i \in DOMAIN @ |->
            IF @[i].expression = p.context[2]
            THEN [@[i] EXCEPT !.value = body, !.ok = TRUE] ELSE @[i]]]
    [] p.cmd = "setExpression" -> RefreshState(c)
    [] OTHER -> c           \* continue, next, pause, disconnect, configurationDone

HandleResponse(c, m) ==
  IF m.seq \notin DOMAIN c.pending THEN c
  ELSE LET p == c.pending[m.seq]
           d == [c EXCEPT !.pending = [s \in DOMAIN @ \ {m.seq} |-> @[s]]]
       IN IF m.ok THEN Granted(d, p, m) ELSE Refused(d, p)

HandleMessage(c, m) ==
  IF m.type = "response" THEN HandleResponse(c, m) ELSE HandleEvent(c, m)

(* The client after n of its messages. *)
Handled(c) ==
  LET after[n \in 0..Len(c.output)] ==
        IF n = 0 THEN c ELSE HandleMessage(after[n - 1], c.output[n])
  IN [after[Len(c.output)] EXCEPT !.output = <<>>]

Poll(c) ==
  LET handled == Handled(c) IN
  IF ~handled.up /\ (handled.active \/ handled.launchSent)
  THEN [handled EXCEPT !.active = FALSE, !.stopped = FALSE, !.exited = TRUE]
  ELSE handled

-----------------------------------------------------------------------------
(* Public methods *)

(* What is left in `output` stays: it is part of AsyncProcess.                *)
Start(c) ==
  Request([IdleClient EXCEPT !.up = TRUE, !.output = c.output, !.watches = c.watches,
             !.registersOn = c.registersOn, !.bps = c.bps], "initialize", <<>>, <<>>)

(* stop() up to the return of its poll() ...                                  *)
StopRequested(c) == IF c.up THEN Poll(Request(c, "disconnect", c.active, <<>>)) ELSE c

(* ... and from the return of AsyncProcess::stop().                           *)
StopDone(c) ==
  [c EXCEPT !.up = FALSE, !.wire = <<>>, !.pending = <<>>,
            !.active = FALSE, !.stopped = FALSE, !.exited = FALSE,
            !.initialized = FALSE, !.launchSent = FALSE, !.configured = FALSE]

ContinueStaysStopped(c) ==    \* a mistaken variant
  IF c.active /\ c.stopped
  THEN MarkWatchesUnavailable(Request(c, "continue", c.thread, <<>>))
  ELSE c

ContinueExecution(c) ==
  IF c.active /\ c.stopped
  THEN MarkWatchesUnavailable(
         [Request(c, "continue", c.thread, <<>>) EXCEPT
            !.stopped = FALSE, !.frames = <<>>, !.variables = <<>>, !.registers = NoFrame])
  ELSE c

(* next(), step() and finish() differ in the request only.                    *)
Resume(c) ==
  IF c.active /\ c.stopped
  THEN [Request(c, "next", c.thread, <<>>) EXCEPT !.stopped = FALSE]
  ELSE c

Interrupt(c) ==
  IF c.active /\ ~c.stopped THEN Request(c, "pause", c.thread, <<>>) ELSE c

SelectThread(c, t) ==
  IF c.stopped THEN RequestFrames([c EXCEPT !.thread = t, !.level = 0, !.frame = NoFrame]) ELSE c

SelectFrameOnly(c, l) ==    \* a mistaken variant: the watches are left
  IF c.stopped /\ l < Len(c.frames)
  THEN RequestScopes([c EXCEPT !.level = l, !.frame = c.frames[l + 1],
                               !.variables = <<>>, !.registers = NoFrame])
  ELSE c

SelectFrame(c, l) ==     \* l counts from 0
  IF c.stopped /\ l < Len(c.frames)
  THEN RefreshWatches(RequestScopes(
         [c EXCEPT !.level = l, !.frame = c.frames[l + 1], !.variables = <<>>, !.registers = NoFrame]))
  ELSE c

(* The rows below row i that belong to it: up to the next one not deeper.     *)
Subtree(c, i) ==
  {j \in (i + 1)..Len(c.variables) : \A k \in (i + 1)..j : c.variables[k].depth > c.variables[i].depth}

ToggleVariable(c, i) ==
  IF ~c.stopped \/ i > Len(c.variables) \/ c.variables[i].depth > 0 THEN c
  ELSE IF c.variables[i].expanded
       THEN [c EXCEPT !.variables =
               SubSeq([@ EXCEPT ![i].expanded = FALSE], 1, i)
               \o SubSeq(@, i + 1 + Cardinality(Subtree(c, i)), Len(@))]
       ELSE Request([c EXCEPT !.variables[i].expanded = TRUE], "variables",
                    <<c.variables[i].at[1], c.variables[i].name>>, <<"children", i>>)

Assign(c) == IF c.stopped THEN Request(c, "setExpression", c.frame, <<>>) ELSE c

AddWatch(c, e) ==
  IF \E i \in DOMAIN c.watches : c.watches[i].expression = e THEN c
  ELSE LET d == [c EXCEPT !.watches = Append(@, [expression |-> e, value |-> NoFrame, ok |-> FALSE])]
       IN IF c.stopped THEN RefreshWatches(d) ELSE d

RemoveWatch(c, i) == [c EXCEPT !.watches = RemoveAt(@, i)]

SetRegistersEnabled(c, on) ==
  LET d == [c EXCEPT !.registersOn = on] IN
  IF ~on THEN [d EXCEPT !.registers = NoFrame]
  ELSE IF c.stopped THEN RequestScopes(d) ELSE d

ToggleBreakpoint(c, key) ==
  Reconfigured([c EXCEPT !.bps = IF key \in DOMAIN @
                                 THEN [k \in DOMAIN @ \ {key} |-> @[k]]
                                 ELSE [k \in DOMAIN @ \cup {key} |->
                                         IF k = key THEN [enabled |-> TRUE, verified |-> FALSE] ELSE @[k]]])

(* updateBreakpoint() with a copy taken from the panel, as the panel does to  *)
(* enable, disable or edit one.                                               *)
UpdateWithoutSending(c, key) ==    \* a mistaken variant: the adapter is not told
  [c EXCEPT !.bps[key].enabled = ~@]

UpdateBreakpoint(c, key) ==
  Reconfigured([c EXCEPT !.bps[key].enabled = ~@])

ClearBreakpoints(c) == Reconfigured([c EXCEPT !.bps = <<>>])

-----------------------------------------------------------------------------
(* The adapter, an external program: it reads its requests in order.          *)

Response(m, ok, body) ==
  [type |-> "response", seq |-> m.seq, cmd |-> m.cmd, ok |-> ok, body |-> body]
Event(name, thread) == [type |-> "event", event |-> name, thread |-> thread]

Valid(frame) == adapter.target = "stopped" /\ frame # NoFrame /\ frame[1] = adapter.stop
Now(frame) == <<frame, adapter.writes>>
Variable(name, at) == [name |-> name, at |-> at, depth |-> 0, expanded |-> FALSE]

(* What it says to a question about the stopped program, if it can.           *)
Answers(m) ==
  CASE m.cmd = "threads" /\ adapter.target \in {"running", "stopped"} -> {Threads}
    [] m.cmd = "stackTrace" /\ adapter.target = "stopped" ->
         {[l \in 1..Depth |-> <<adapter.stop, m.arg, l>>]}
    [] m.cmd = "scopes" /\ Valid(m.arg) -> {m.arg}
    [] m.cmd = "variables" /\ Valid(m.arg[1]) ->
         {LET at == Now(m.arg[1]) IN
          CASE m.arg[2] = <<"registers">> -> <<Variable(<<>>, at)>>
            [] m.arg[2] = <<"locals">> -> [i \in DOMAIN Roots |-> Variable(Roots[i], at)]
            [] OTHER -> <<Variable(FieldOf(m.arg[2]), at)>>}
    [] m.cmd = "evaluate" /\ Valid(m.arg) -> {Now(m.arg)}
    [] OTHER -> {}

Questions == {"threads", "stackTrace", "scopes", "variables", "evaluate"}

(* It takes m off the wire, writes `messages` and becomes a.                  *)
Read(m, a, messages) ==
  /\ adapter' = a
  /\ client' = [client EXCEPT !.wire = Tail(@), !.output = @ \o messages]
  /\ UNCHANGED ui

AdapterAnswers ==
  /\ client.up /\ client.wire # <<>> /\ Head(client.wire).cmd \in Questions
  /\ LET m == Head(client.wire) IN
     IF Answers(m) = {} THEN Read(m, adapter, <<Response(m, FALSE, <<>>)>>)
     ELSE \E body \in Answers(m) : Read(m, adapter, <<Response(m, TRUE, body)>>)

AdapterStartsUp ==
  /\ client.up /\ client.wire # <<>> /\ Head(client.wire).cmd \in {"initialize", "launch"}
  /\ LET m == Head(client.wire) IN
     \/ /\ m.cmd = "initialize"
        /\ Read(m, [adapter EXCEPT !.ready = TRUE], <<Response(m, TRUE, <<>>)>>)
     \/ /\ m.cmd = "launch"
        /\ Read(m, [adapter EXCEPT !.launched = TRUE, !.target = IF adapter.told THEN "running" ELSE "none"],
                <<Response(m, TRUE, <<>>)>>)
     \/ /\ m.cmd \in Failing
        /\ Read(m, adapter, <<Response(m, FALSE, <<>>)>>)

(* The `initialized` event, at any time after the answer to `initialize`.     *)
AdapterAnnounces ==
  /\ client.up /\ adapter.ready /\ ~adapter.announced
  /\ adapter' = [adapter EXCEPT !.announced = TRUE]
  /\ client' = [client EXCEPT !.output = Append(@, Event("initialized", 0))]
  /\ UNCHANGED ui

(* Which of the breakpoints it could set, in the order of their lines.        *)
Resolved(keys) ==
  [i \in 1..Cardinality(keys) |-> \E key \in keys \cap Resolvable : Place(key, keys) = i]

AdapterConfigured ==
  /\ client.up /\ client.wire # <<>>
  /\ LET m == Head(client.wire) IN
     \/ /\ m.cmd = "setBreakpoints" /\ m.arg.file \in Files
        /\ Read(m, [adapter EXCEPT !.bps[m.arg.file] = m.arg.keys],
                <<Response(m, TRUE, Resolved(m.arg.keys))>>)
     \/ /\ m.cmd = "configurationDone"
        /\ Read(m, [adapter EXCEPT !.told = TRUE,
                      !.target = IF adapter.launched /\ @ = "none" THEN "running" ELSE @],
                <<Response(m, TRUE, <<>>)>>)

AdapterControls ==
  /\ client.up /\ client.wire # <<>>
  /\ LET m == Head(client.wire) IN
     \/ /\ m.cmd \in {"continue", "next"} /\ adapter.target = "stopped"
        /\ \E told \in {<<>>, <<Event("continued", 0)>>} :
             Read(m, [adapter EXCEPT !.target = "running"], <<Response(m, TRUE, <<>>)>> \o told)
     \/ /\ m.cmd = "setExpression" /\ Valid(m.arg)
        /\ Read(m, [adapter EXCEPT !.writes = @ + 1], <<Response(m, TRUE, <<>>)>>)
     \/ /\ \/ m.cmd \in {"continue", "next"} /\ adapter.target # "stopped"
           \/ m.cmd = "setExpression" /\ ~Valid(m.arg)
        /\ Read(m, adapter, <<Response(m, FALSE, <<>>)>>)
     \/ /\ m.cmd = "pause" /\ adapter.target = "running"
        /\ \E t \in Threads :
             Read(m, [adapter EXCEPT !.target = "stopped", !.stop = @ + 1],
                  <<Response(m, TRUE, <<>>), Event("stopped", t)>>)
     \/ /\ m.cmd = "pause" /\ adapter.target # "running"
        /\ Read(m, adapter, <<Response(m, TRUE, <<>>)>>)

(* The adapter exits: asked to, or by itself.                                 *)
AdapterExits ==
  /\ client.up
  /\ \/ client.wire # <<>> /\ Head(client.wire).cmd = "disconnect"
     \/ MayDie
  /\ \E last \in {<<>>, <<Event("terminated", 0)>>} :
       client' = [client EXCEPT !.up = FALSE, !.wire = <<>>, !.output = @ \o last]
  /\ adapter' = [adapter EXCEPT !.target = "over"]
  /\ UNCHANGED ui

TargetStops ==
  /\ client.up /\ adapter.target = "running" /\ adapter.stop < MaxStops
  /\ \E t \in Threads :
       client' = [client EXCEPT !.output = Append(@, Event("stopped", t))]
  /\ adapter' = [adapter EXCEPT !.target = "stopped", !.stop = @ + 1]
  /\ UNCHANGED ui

TargetEnds ==
  /\ client.up /\ adapter.target = "running"
  /\ adapter' = [adapter EXCEPT !.target = "over"]
  /\ client' = [client EXCEPT !.output = @ \o <<Event("exited", 0), Event("terminated", 0)>>]
  /\ UNCHANGED ui

Environment ==
  \/ AdapterAnswers \/ AdapterStartsUp \/ AdapterAnnounces \/ AdapterConfigured
  \/ AdapterControls \/ AdapterExits \/ TargetStops \/ TargetEnds

-----------------------------------------------------------------------------
(* IdeWindow *)

Idle == ~ui.stopping
Command(c) ==
  /\ Idle /\ ui.ops < MaxOps
  /\ client' = c
  /\ ui' = [ui EXCEPT !.ops = @ + 1]
  /\ UNCHANGED adapter

OnTimer ==
  /\ Idle
  /\ client' = Poll(client)
  /\ UNCHANGED <<adapter, ui>>

(* Only a restart is taken to leave messages behind: before any other start   *)
(* the timer has polled.                                                      *)
StartSession ==
  /\ client.output = <<>>
  /\ client' = Start(client)
  /\ adapter' = IdleAdapter
  /\ ui' = [ui EXCEPT !.stopping = FALSE, !.restart = FALSE, !.sessions = @ + 1,
                      !.leftover = client.output # <<>>, !.raced = FALSE]

(* The debugger's stop() blocks the window while the adapter goes on.         *)
StopSession(restart) ==
  /\ Idle /\ client.up /\ ui.ops < MaxOps
  /\ client' = StopRequested(client)
  /\ ui' = [ui EXCEPT !.stopping = TRUE, !.restart = restart, !.ops = @ + 1]
  /\ UNCHANGED adapter

StopReturns ==
  /\ ui.stopping /\ ~ui.restart
  /\ client' = StopDone(client)
  /\ ui' = [ui EXCEPT !.stopping = FALSE]
  /\ adapter' = IdleAdapter

(* debugRestart(), and debugRun() with an adapter that has no program: the    *)
(* new session, unless the launch command or the terminal cannot be had.      *)
RestartReturns ==
  /\ ui.stopping /\ ui.restart /\ Len(client.output) <= MaxLeft
  /\ client' = Start(StopDone(client))
  /\ adapter' = IdleAdapter
  /\ ui' = [ui EXCEPT !.stopping = FALSE, !.restart = FALSE, !.sessions = @ + 1,
                      !.leftover = client.output # <<>>, !.raced = FALSE]

(* F5 *)
DebugRun ==
  \/ Idle /\ ~client.up /\ ui.sessions < MaxSessions /\ StartSession
  \/ client.up /\ ~client.active /\ ui.sessions < MaxSessions /\ StopSession(TRUE)
  \/ client.up /\ client.active /\ client.stopped /\ Command(ContinueExecution(client))

DebugStop == StopSession(FALSE)
DebugRestart == ui.sessions < MaxSessions /\ StopSession(TRUE)

DebugPause == client.up /\ client.active /\ ~client.stopped /\ Command(Interrupt(client))
DebugStep == client.up /\ client.active /\ client.stopped /\ Command(Resume(client))

Inspect ==
  /\ client.stopped
  /\ \/ \E t \in client.threads : Command(SelectThread(client, t))
     \/ \E l \in 0..(Len(client.frames) - 1) : Command(SelectFrame(client, l))
     \/ Command(Assign(client))

(* `raced` remembers that a row was opened or closed while an answer that     *)
(* changes the rows was still to come.                                        *)
Expand ==
  /\ Idle /\ ui.ops < MaxOps /\ client.stopped
  /\ \E i \in DOMAIN client.variables : client' = ToggleVariable(client, i)
  /\ ui' = [ui EXCEPT !.ops = @ + 1, !.raced = @ \/ \E n \in DOMAIN client.pending :
                client.pending[n].cmd \in Questions \ {"evaluate"}]
  /\ UNCHANGED adapter

EditWatches ==
  \/ \E e \in Watches : Command(AddWatch(client, e))
  \/ \E i \in DOMAIN client.watches : Command(RemoveWatch(client, i))
  \/ Command(SetRegistersEnabled(client, ~client.registersOn))

EditBreakpoints ==
  \/ \E key \in Keys : Command(ToggleBreakpoint(client, key))
  \/ \E key \in DOMAIN client.bps : Command(UpdateBreakpoint(client, key))
  \/ client.bps # <<>> /\ Command(ClearBreakpoints(client))

Window ==
  \/ OnTimer \/ DebugRun \/ DebugStop \/ DebugRestart \/ StopReturns \/ RestartReturns
  \/ DebugPause \/ DebugStep \/ Inspect \/ Expand \/ EditWatches \/ EditBreakpoints

(* The breakpoints and watches that were saved with the project are there.    *)
Init ==
  /\ client = [IdleClient EXCEPT
       !.bps = [key \in Saved |-> [enabled |-> TRUE, verified |-> FALSE]],
       !.watches = [i \in 1..Cardinality(Watches) |->
                      [expression |-> SetToSeq(Watches)[i], value |-> NoFrame, ok |-> FALSE]]]
  /\ adapter = IdleAdapter
  /\ ui = [stopping |-> FALSE, restart |-> FALSE, leftover |-> FALSE, raced |-> FALSE, ops |-> 0, sessions |-> 0]

Next == Environment \/ Window
Spec == Init /\ [][Next]_vars

-----------------------------------------------------------------------------
(* Properties *)

TypeOK ==
  /\ client.active \in BOOLEAN /\ client.stopped \in BOOLEAN /\ client.exited \in BOOLEAN
  /\ client.seq \in Nat \ {0} /\ DOMAIN client.pending \subseteq 1..(client.seq - 1)
  /\ client.thread \in Threads \union {0}
  /\ DOMAIN client.bps \subseteq Keys
  /\ ~client.up => client.wire = <<>>
  /\ adapter.target \in {"none", "running", "stopped", "over"}
  /\ ui.ops \in 0..MaxOps /\ ui.sessions \in 0..MaxSessions

(* Nothing is under way between the client and its adapter, and no message of *)
(* an earlier adapter was left to it.                                         *)
Quiet == client.up /\ Idle /\ client.wire = <<>> /\ client.output = <<>> /\ ~ui.leftover

(* The last set of breakpoints the adapter has, or will have, for a file.     *)
Sent(file) ==
  LET asks == {i \in DOMAIN client.wire :
                 client.wire[i].cmd = "setBreakpoints" /\ client.wire[i].arg.file = file}
  IN IF asks = {} THEN adapter.bps[file] ELSE client.wire[Max(asks)].arg.keys

(* Once the adapter has been configured, every file that has a breakpoint is  *)
(* known to it, or on its way, with exactly the enabled breakpoints; and when *)
(* nothing is under way the panel shows as verified those it could set.       *)
BreakpointsAgree ==
  client.configured /\ client.up =>
    /\ \A key \in DOMAIN client.bps : Sent(FileOf(key)) = EnabledIn(client, FileOf(key))
    /\ Quiet => \A key \in DOMAIN client.bps :
                  client.bps[key].enabled => (client.bps[key].verified <=> key \in Resolvable)

(* When nothing is under way, the window's view of the program is right. Like *)
(* what follows, this is about sessions that began with nothing left unread   *)
(* by an earlier adapter (Quiet): such an answer can match a new request.     *)
SessionAgrees ==
  /\ TypeOK
  /\ Quiet /\ adapter.target # "none" =>
       /\ client.stopped <=> adapter.target = "stopped"
       /\ client.active <=> adapter.target \in {"running", "stopped"}
       /\ client.exited <=> adapter.target = "over"

(* When nothing is under way and the program is stopped, all that is shown    *)
(* was read at this stop, in the selected frame, after the last assignment;   *)
(* the fields of a structure are below it, unless a row was opened or closed  *)
(* while an answer that changes the rows was awaited.                         *)
ShownIsCurrent ==
  Quiet /\ client.stopped =>
    /\ client.frames = [l \in 1..Depth |-> <<adapter.stop, client.thread, l>>]
    /\ client.frame = client.frames[client.level + 1]
    /\ \A i \in DOMAIN client.watches :
         client.watches[i].ok /\ client.watches[i].value = Now(client.frame)
    /\ LET rows == client.variables
           roots == SelectSeq(rows, LAMBDA row : row.depth = 0)
       IN /\ \A row \in ToSet(roots) : row.at = Now(client.frame)
          /\ [i \in DOMAIN roots |-> roots[i].name] = Roots
          /\ ~ui.raced => \A i \in DOMAIN rows :
               /\ rows[i].at = Now(client.frame)
               /\ rows[i].expanded => i < Len(rows) /\ rows[i + 1].name = FieldOf(rows[i].name)
               /\ rows[i].depth > 0 => rows[i - 1].expanded
    /\ client.registersOn => client.registers = Now(client.frame)

-----------------------------------------------------------------------------
(* The inductive invariant, of a client c, the messages `out` it has not      *)
(* handled, and an adapter a.                                                 *)

IsSequence(s) == Len(s) \in Nat /\ s = [i \in 1..Len(s) |-> s[i]]

Commands ==
  Questions \cup {"initialize", "launch", "setBreakpoints", "configurationDone", "continue", "next",
                  "pause", "setExpression", "disconnect"}
AsRequest(m) ==
  /\ m = [seq |-> m.seq, cmd |-> m.cmd, arg |-> m.arg] /\ m.cmd \in Commands
  /\ m.cmd = "setBreakpoints" =>
       m.arg = [file |-> m.arg.file, keys |-> m.arg.keys] /\ m.arg.keys \subseteq Keys
AsMessage(m) ==
  \/ /\ m.type = "response" /\ m.ok \in BOOLEAN
     /\ m.ok /\ m.cmd = "threads" => m.body \subseteq Threads
     /\ m.ok /\ m.cmd = "setBreakpoints" => IsSequence(m.body) /\ \A i \in 1..Len(m.body) : m.body[i] \in BOOLEAN
  \/ /\ m.type = "event" /\ m.event \in {"initialized", "stopped", "continued", "terminated", "exited"}
     /\ m.event = "stopped" => m.thread \in Threads

Fields ==
  {"up", "wire", "output", "pending", "seq", "initialized", "launchSent", "configured", "active", "stopped",
   "exited", "thread", "frame", "level", "threads", "frames", "variables", "watches", "registersOn", "registers",
   "bps"}
AsRows(context) == context \in {<<"registers">>, <<"locals">>} \/ context[1] = "children"
AsContext(p) ==
  /\ p.cmd = "variables" => AsRows(p.context)
  /\ p.cmd = "setBreakpoints" => p.context = <<"breakpoints", p.context[2]>>
BpsSet == UNION {[B -> [enabled : BOOLEAN, verified : BOOLEAN]] : B \in SUBSET Keys}
Typed(c) ==
  /\ DOMAIN c = Fields
  /\ {c.up, c.initialized, c.launchSent, c.configured, c.active, c.stopped, c.exited} \subseteq BOOLEAN
  /\ c.seq \in Nat \ {0} /\ DOMAIN c.pending \subseteq 1..(c.seq - 1)
  /\ \A n \in DOMAIN c.pending : AsContext(c.pending[n])
  /\ c.thread \in Threads \cup {0} /\ c.threads \subseteq Threads
  /\ IsSequence(c.watches) /\ c.bps \in BpsSet
  /\ IsSequence(c.wire) /\ \A i \in 1..Len(c.wire) : AsRequest(c.wire[i]) /\ c.wire[i].seq \in 1..(c.seq - 1)
  /\ ~c.up => c.wire = <<>>
Messages(out) == IsSequence(out) /\ \A i \in 1..Len(out) : AsMessage(out[i])
AdapterSet ==
  [ready : BOOLEAN, told : BOOLEAN, launched : BOOLEAN, announced : BOOLEAN, bps : [Files -> SUBSET Keys],
   target : {"none", "running", "stopped", "over"}, stop : Nat, writes : Nat]
UiSet ==
  [stopping : BOOLEAN, restart : BOOLEAN, leftover : BOOLEAN, raced : BOOLEAN,
   ops : 0..MaxOps, sessions : 0..MaxSessions]

\* Requests are numbered as they were sent, and every answer is awaited as what it is.
IsAnswer(m) == m.type = "response"
Matched(c, out) ==
  /\ \A i \in 1..Len(c.wire) : LET m == c.wire[i] IN
       /\ m.seq \in DOMAIN c.pending /\ c.pending[m.seq].cmd = m.cmd
       /\ m.cmd = "setBreakpoints" => c.pending[m.seq].context = <<"breakpoints", m.arg.file>>
  /\ \A i, j \in 1..Len(c.wire) : i < j => c.wire[i].seq < c.wire[j].seq
  /\ \A i \in 1..Len(out) : IsAnswer(out[i]) =>
       /\ out[i].seq \in DOMAIN c.pending /\ c.pending[out[i].seq].cmd = out[i].cmd
       /\ \A j \in 1..Len(c.wire) : c.wire[j].seq # out[i].seq
       /\ \A j \in 1..Len(out) : IsAnswer(out[j]) /\ out[j].seq = out[i].seq => j = i

\* The program is launched once, by an adapter that has answered `initialize`.
Started(c, out, a) ==
  /\ ~c.initialized => ~c.launchSent
  /\ ~c.launchSent => ~a.launched /\ \A i \in 1..Len(c.wire) : c.wire[i].cmd # "launch"
  /\ ~a.launched => a.target = "none"
  /\ \A i \in 1..Len(c.wire) : c.wire[i].cmd = "launch" =>
       ~a.launched /\ \A j \in 1..Len(c.wire) : c.wire[j].cmd = "launch" => j = i
  /\ \A i \in 1..Len(c.wire) : c.wire[i].cmd = "initialize" => c.wire[i].seq = 1 /\ ~c.initialized
  /\ \A i \in 1..Len(out) : IsAnswer(out[i]) /\ out[i].cmd = "initialize" => out[i].seq = 1 /\ ~c.initialized

\* The messages that change what the window says of the program, and to what.
Turn(m) ==
  \/ m.type = "event" /\ m.event \in {"stopped", "terminated", "exited"}
  \/ IsAnswer(m) /\ (IF m.ok THEN m.cmd = "launch" ELSE m.cmd \in {"initialize", "launch"})
Gives(m) ==
  IF IsAnswer(m) THEN IF m.ok THEN "running" ELSE "over"
  ELSE IF m.event = "stopped" THEN "stopped" ELSE "over"
Shows(c, state) ==
  /\ c.active = (state \in {"running", "stopped"})
  /\ c.stopped = (state = "stopped")
  /\ c.exited = (state = "over")
Settled(out) == \A i \in 1..Len(out) : ~Turn(out[i])
WillShow(c, out, state) ==
  \/ \E i \in 1..Len(out) : /\ Turn(out[i]) /\ Gives(out[i]) = state
                            /\ \A j \in 1..Len(out) : j > i => ~Turn(out[j])
  \/ Settled(out) /\ Shows(c, state)

\* When all is handled the window shows what the program does, but for one request to
\* go on that the adapter has not read.
Resumes(m) == m.cmd \in {"continue", "next"}
NoResume(c) == \A i \in 1..Len(c.wire) : ~Resumes(c.wire[i])
Follows(c, out, a) ==
  /\ a.target \in {"running", "over"} => WillShow(c, out, a.target)
  /\ a.target = "none" /\ a.launched => WillShow(c, out, "running")
  /\ a.target = "stopped" =>
       \/ WillShow(c, out, "stopped") /\ NoResume(c)
       \/ /\ Settled(out) /\ Shows(c, "running")
          /\ \A i, j \in 1..Len(c.wire) : Resumes(c.wire[i]) /\ Resumes(c.wire[j]) => i = j
          /\ ~NoResume(c)
  /\ a.target # "stopped" => NoResume(c)
  /\ c.stopped => Shows(c, "stopped") /\ a.target = "stopped" /\ Settled(out) /\ NoResume(c)
  /\ \A i \in 1..Len(out) : out[i].type = "event" /\ out[i].event = "stopped" =>
       a.target = "stopped" /\ NoResume(c) /\ \A j \in 1..Len(out) : j > i => ~Turn(out[j])
  /\ \A i \in 1..Len(out) : out[i].type = "event" /\ out[i].event = "continued" =>
       Shows(c, "running") /\ \A j \in 1..Len(out) : j < i => ~Turn(out[j])

\* The adapter has, or will have, the enabled breakpoints of every file that has some.
Asks(m, file) == m.cmd = "setBreakpoints" /\ m.arg.file = file
NoAsk(c, file) == \A i \in 1..Len(c.wire) : ~Asks(c.wire[i], file)
Told(c, a) ==
  \A key \in DOMAIN c.bps : LET file == FileOf(key) IN
    \/ NoAsk(c, file) /\ a.bps[file] = EnabledIn(c, file)
    \/ \E i \in 1..Len(c.wire) :
         /\ Asks(c.wire[i], file) /\ c.wire[i].arg.keys = EnabledIn(c, file)
         /\ \A j \in 1..Len(c.wire) : j > i => ~Asks(c.wire[j], file)

\* What is verified is right, or the answer that will make it so is awaited or there.
Tells(c, m, file) ==
  /\ IsAnswer(m) /\ m.seq \in DOMAIN c.pending /\ c.pending[m.seq].cmd = "setBreakpoints"
  /\ c.pending[m.seq].context = <<"breakpoints", file>>
Learns(c, out) ==
  \A key \in DOMAIN c.bps : LET file == FileOf(key) IN
    \/ ~NoAsk(c, file)
    \/ \E i \in 1..Len(out) :
         /\ Tells(c, out[i], file) /\ out[i].ok /\ out[i].body = Resolved(EnabledIn(c, file))
         /\ \A j \in 1..Len(out) : j > i => ~Tells(c, out[j], file)
    \/ /\ \A i \in 1..Len(out) : ~Tells(c, out[i], file)
       /\ c.bps[key].enabled => (c.bps[key].verified <=> key \in Resolvable)

Steady(c, out, a) == Matched(c, out) /\ Started(c, out, a) /\ Follows(c, out, a)
Fresh(c, out, a) == Steady(c, out, a) /\ (c.configured => Learns(c, out))
Sound(c, out, a, leftover) ==
  /\ Typed(c) /\ Messages(out)
  /\ c.up /\ c.configured => Told(c, a)
  /\ c.up /\ ~leftover => Fresh(c, out, a)

IInv ==
  /\ adapter \in AdapterSet /\ ui \in UiSet /\ (ui.stopping /\ ui.restart => ui.sessions < MaxSessions)
  /\ Sound(client, client.output, adapter, ui.leftover)
=============================================================================
