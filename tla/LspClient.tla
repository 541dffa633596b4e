----------------------------- MODULE LspClient -----------------------------
(* LspClient (src/src/lsp_client.cpp) between the editor of IdeWindow, which  *)
(* calls it on the UI thread, and a clangd process at the two ends of a pair  *)
(* of pipes.                                                                  *)
(*                                                                            *)
(* client  the private fields of LspClient and of its AsyncProcess; every     *)
(*         method is an operator from the old value of the record to the new  *)
(*         one, so that a handler that calls several of them is one step.     *)
(* clangd  the server, an external program: what it has been told and what it *)
(*         still has to answer.                                               *)
(* editor  the open C++ documents, the one the user is in, and the budget.    *)
(*                                                                            *)
(* A text is identified by <<load, version>>: the number of the load that     *)
(* produced the Document object and its revision. The code never sees the     *)
(* load number; every fresh load starts again from FirstVersion.              *)
EXTENDS Naturals, SequencesExt, FiniteSets

CONSTANTS
  Paths,        \* paths of C/C++ files
  Kinds,        \* kinds of document request: hover, completion, rename, ...
  NoPath,       \* "no document"
  MaxOps,       \* bound on the owner's calls
  MaxSessions,  \* bound on the clangd processes started
  MayFail,      \* clangd may answer with an error
  MayDie,       \* clangd may exit by itself
  MayRename,    \* the user may move a file that is open
  MaySaveAs     \* the user may save a document under another name

ASSUME Constants ==
  /\ NoPath \notin Paths /\ IsFiniteSet(Paths)
  /\ MaxOps \in Nat /\ MaxSessions \in Nat \ {0}
  /\ {MayFail, MayDie, MayRename, MaySaveAs} \subseteq BOOLEAN

VARIABLES client, clangd, editor
vars == <<client, clangd, editor>>

(* A map with v at x, and one with nothing there.                             *)
With(f, x, v) == [y \in DOMAIN f \union {x} |-> IF y = x THEN v ELSE f[y]]
Without(f, x) == [y \in DOMAIN f \ {x} |-> f[y]]

NoText == <<0, 0>>
FirstVersion == 2     \* version_{1}, then setText() of load()

TextOf(d) == <<d.load, d.version>>
VersionOf(text) == text[2]

(* To clangd: a request (id # 0) or a notification. From clangd: a response,  *)
(* with the text it was computed from, or diagnostics.                        *)
Msg(type, id, path, text) == [type |-> type, id |-> id, path |-> path, text |-> text]
Response(id, text, error) == [type |-> "response", id |-> id, text |-> text, error |-> error]
Diagnostics(path, text) == [type |-> "diagnostics", path |-> path, text |-> text]

IdleClient ==
  [running |-> FALSE, stdin |-> <<>>, output |-> <<>>, started |-> FALSE,
   exitReported |-> FALSE, initialized |-> FALSE, initId |-> 0,
   open |-> <<>>, dirty |-> {}, semantic |-> {}, document |-> {},
   pending |-> {}, nextId |-> 1, active |-> NoPath, typesKnown |-> FALSE,
   slot |-> [k \in Kinds |-> 0], result |-> [k \in Kinds |-> NoText],
   tokens |-> [p \in Paths |-> NoText], diags |-> [p \in Paths |-> NoText]]

IdleServer == [docs |-> <<>>, jobs |-> {}, fault |-> FALSE]

-----------------------------------------------------------------------------
(* Private methods of LspClient *)

(* A write to a process that has gone is lost (AsyncProcess::write).          *)
Send(c, m) == IF c.running THEN [c EXCEPT !.stdin = Append(@, m)] ELSE c

Request(c, type, path) ==
  [Send(c, Msg(type, c.nextId, path, NoText)) EXCEPT
     !.nextId = @ + 1, !.pending = @ \union {c.nextId}]

(* The $/cancelRequest notification is advice clangd may ignore: it is not    *)
(* put on the wire.                                                           *)
CancelRequests(c, ids) ==
  LET live == ids \intersect c.pending IN
  [c EXCEPT !.pending = @ \ live, !.document = {r \in @ : r.id \notin live}]

QueueSemanticTokens(c, p) ==
  IF /\ c.initialized /\ p \in DOMAIN c.open /\ p \in c.dirty /\ c.typesKnown
     /\ c.open[p].announced /\ ~c.open[p].changePending
     /\ \A r \in c.semantic : r.path # p
  THEN [Request(c, "semantic", p) EXCEPT
          !.dirty = @ \ {p},
          !.semantic = @ \union {[id |-> c.nextId, path |-> p, version |-> c.open[p].version,
                                  load |-> c.open[p].load]}]
  ELSE c

Announce(c, p) ==
  [Send(c, Msg("didOpen", 0, p, TextOf(c.open[p]))) EXCEPT !.open[p].announced = TRUE]

AnnounceAll(c, s) ==
  LET after[n \in 0..Len(s)] == IF n = 0 THEN c ELSE Announce(after[n - 1], s[n])
  IN  after[Len(s)]

QueueAll(c, s) ==
  LET after[n \in 0..Len(s)] == IF n = 0 THEN c ELSE QueueSemanticTokens(after[n - 1], s[n])
  IN  after[Len(s)]

FlushWithoutSending(c, p) ==    \* a mistaken variant: the change is not sent
  IF c.initialized /\ p \in DOMAIN c.open /\ c.open[p].announced /\ c.open[p].changePending
  THEN QueueSemanticTokens([c EXCEPT !.open[p].changePending = FALSE], p)
  ELSE c

FlushChange(c, p) ==
  IF c.initialized /\ p \in DOMAIN c.open /\ c.open[p].announced /\ c.open[p].changePending
  THEN QueueSemanticTokens(
         [Send(c, Msg("didChange", 0, p, TextOf(c.open[p]))) EXCEPT !.open[p].changePending = FALSE], p)
  ELSE c

-----------------------------------------------------------------------------
(* Public methods of LspClient *)

Start(c) ==
  LET r == Request([c EXCEPT !.running = TRUE, !.started = TRUE, !.exitReported = FALSE],
                   "initialize", NoPath)
  IN [r EXCEPT !.initId = c.nextId]

(* The process is dead when stop() returns, so what is written to it last is  *)
(* lost; the shutdown request takes an id. Output that the reader thread has  *)
(* collected stays in AsyncProcess.                                           *)
Stop(c) ==
  [IdleClient EXCEPT !.output = c.output, !.slot = c.slot,
     !.nextId = IF c.running THEN c.nextId + 1 ELSE c.nextId]

OpenDocument(c, p, d) ==
  LET s == [c EXCEPT
              !.open = With(@, p, [version |-> d.version, load |-> d.load,
                                   announced |-> FALSE, changePending |-> FALSE])]
      a == IF c.initialized THEN Announce(s, p) ELSE s
  IN QueueSemanticTokens([a EXCEPT !.dirty = @ \union {p}], p)

(* The documents of s, one after the other.                                   *)
OpenAll(c, docs, s) ==
  LET after[n \in 0..Len(s)] ==
        IF n = 0 THEN c ELSE OpenDocument(after[n - 1], s[n], docs[s[n]])
  IN  after[Len(s)]

ChangeDocument(c, p, d) ==
  LET old == IF p \in DOMAIN c.open THEN c.open[p]
             ELSE [announced |-> FALSE, changePending |-> FALSE]
      s == CancelRequests(
             [c EXCEPT !.open = With(@, p, [version |-> d.version, load |-> d.load,
                                            announced |-> old.announced,
                                            changePending |-> old.changePending])],
             {r.id : r \in {q \in c.document : q.path = p /\ q.version # d.version}})
      a == CASE c.initialized /\ ~old.announced -> Announce(s, p)
             [] c.initialized /\ old.announced -> [s EXCEPT !.open[p].changePending = TRUE]
             [] OTHER -> s
  IN [a EXCEPT !.dirty = @ \union {p}]

ForgetSilently(c, p) ==    \* a mistaken variant: no didClose
  [c EXCEPT !.open = Without(@, p), !.dirty = @ \ {p},
            !.tokens[p] = NoText, !.diags[p] = NoText]

(* The rest of close(): didClose, and everything kept for the path except     *)
(* semantic_requests_.                                                        *)
Forget(c, p) ==
  LET s == IF p \in DOMAIN c.open /\ c.open[p].announced
           THEN Send(c, Msg("didClose", 0, p, NoText)) ELSE c
  IN [s EXCEPT !.open = Without(@, p), !.dirty = @ \ {p},
               !.tokens[p] = NoText, !.diags[p] = NoText]

CloseWithoutCancel(c, p) == Forget(c, p)    \* a mistaken variant

CloseDocument(c, p) ==
  Forget(CancelRequests(c, {r.id : r \in {q \in c.document : q.path = p}}), p)

SetActiveDocument(c, p) ==
  CancelRequests([c EXCEPT !.active = p],
    {r.id : r \in {q \in c.document : p # NoPath /\ q.path # p}})

(* What the request*() methods about a document have in common.               *)
AskDocument(c, k, p, d) ==
  LET f == FlushChange(c, p)
      r == Request([CancelRequests(f, {f.slot[k]}) EXCEPT !.result[k] = NoText], "request", p)
  IN [r EXCEPT !.slot[k] = f.nextId,
        !.document = @ \union {[id |-> f.nextId, path |-> p, version |-> d.version]}]

(* A project has just been opened: restartLanguageServer() with no documents. *)
Init ==
  /\ client = Start(IdleClient)
  /\ clangd = IdleServer
  /\ editor = [docs |-> <<>>, current |-> NoPath, loads |-> 0,
               ops |-> 0, sessions |-> 1]

-----------------------------------------------------------------------------
(* The owner: IdeWindow on the UI thread *)

Budget == editor.ops < MaxOps
Spend(e) == [e EXCEPT !.ops = @ + 1]
OpenPaths == DOMAIN editor.docs

RestartLanguageServer ==
  /\ Budget /\ editor.sessions < MaxSessions
  /\ client' = SetActiveDocument(OpenAll(Start(Stop(client)), editor.docs, SetToSeq(OpenPaths)),
                                 editor.current)
  /\ clangd' = IdleServer
  /\ editor' = [Spend(editor) EXCEPT !.sessions = @ + 1]

UnloadProject ==
  /\ Budget /\ (client.running \/ OpenPaths # {})
  /\ client' = Stop(client)
  /\ clangd' = IdleServer
  /\ editor' = [Spend(editor) EXCEPT !.docs = <<>>, !.current = NoPath]

OpenFile(p) ==
  /\ Budget /\ p \notin OpenPaths
  /\ LET d == [version |-> FirstVersion, load |-> editor.loads + 1] IN
     /\ client' = SetActiveDocument(OpenDocument(client, p, d), p)
     /\ editor' = [Spend(editor) EXCEPT !.docs = With(@, p, d), !.current = p,
                                        !.loads = @ + 1]
  /\ UNCHANGED clangd

(* The tab that takes the place of the closed one is any of the others.       *)
CloseActiveDocument ==
  /\ Budget /\ editor.current # NoPath
  /\ LET rest == OpenPaths \ {editor.current} IN
     \E next \in IF rest = {} THEN {NoPath} ELSE rest :
       /\ client' = SetActiveDocument(CloseDocument(client, editor.current), next)
       /\ editor' = [Spend(editor) EXCEPT !.docs = Without(@, editor.current), !.current = next]
  /\ UNCHANGED clangd

ActivateDocument(p) ==
  /\ Budget /\ p \in OpenPaths /\ p # editor.current
  /\ client' = SetActiveDocument(client, p)
  /\ editor' = [Spend(editor) EXCEPT !.current = p]
  /\ UNCHANGED clangd

(* Typing, undo, a replacement, or a workspace edit in any open document.     *)
EditDocument(p) ==
  /\ Budget /\ p \in OpenPaths
  /\ editor' = [Spend(editor) EXCEPT !.docs[p].version = @ + 1]
  /\ client' = ChangeDocument(client, p, editor'.docs[p])
  /\ UNCHANGED clangd

(* Saving reports a change at an unchanged version.                           *)
SaveDocument ==
  /\ Budget /\ editor.current # NoPath
  /\ client' = ChangeDocument(client, editor.current, editor.docs[editor.current])
  /\ editor' = Spend(editor)
  /\ UNCHANGED clangd

(* The new name may be the old one. There is no lsp_.close() of the old path. *)
SaveAs(q) ==
  /\ MaySaveAs /\ Budget /\ editor.current # NoPath
  /\ q \notin OpenPaths \ {editor.current}
  /\ LET d == editor.docs[editor.current] IN
     /\ client' = SetActiveDocument(OpenDocument(client, q, d), q)
     /\ editor' = [Spend(editor) EXCEPT !.docs = With(Without(@, editor.current), q, d),
                                        !.current = q]
  /\ UNCHANGED clangd

RenameWithoutClosing(p, q) ==    \* a mistaken variant: clangd keeps the old name
  /\ MayRename /\ Budget /\ p \in OpenPaths /\ q \notin OpenPaths
  /\ LET d == [editor.docs[p] EXCEPT !.version = @ + 1] IN
     /\ client' = OpenDocument(client, q, d)
     /\ editor' = [Spend(editor) EXCEPT !.docs = With(Without(@, p), q, d),
                                        !.current = IF @ = p THEN q ELSE @]
  /\ UNCHANGED clangd

(* Rename / Move of a project entry: close, relocate, open. The client is not *)
(* told that the active document has another path now.                        *)
RenameEntry(p, q) ==
  /\ MayRename /\ Budget /\ p \in OpenPaths /\ q \notin OpenPaths
  /\ LET d == [editor.docs[p] EXCEPT !.version = @ + 1] IN
     /\ client' = OpenDocument(CloseDocument(client, p), q, d)
     /\ editor' = [Spend(editor) EXCEPT !.docs = With(Without(@, p), q, d),
                                        !.current = IF @ = p THEN q ELSE @]
  /\ UNCHANGED clangd

(* The move fails: the document, closed before it, is opened again as it is.  *)
RenameFails(p) ==
  /\ MayRename /\ Budget /\ p \in OpenPaths
  /\ client' = OpenDocument(CloseDocument(client, p), p, editor.docs[p])
  /\ editor' = Spend(editor)
  /\ UNCHANGED clangd

(* The commands that ask clangd something are refused until ready().          *)
RequestDocument(k) ==
  /\ Budget /\ editor.current # NoPath /\ client.initialized
  /\ client' = AskDocument(client, k, editor.current, editor.docs[editor.current])
  /\ editor' = Spend(editor)
  /\ UNCHANGED clangd

-----------------------------------------------------------------------------
(* poll(), once per timer tick: each step is a poll that found this much to   *)
(* do. The 150 ms of quiet before a change is sent pass at any moment.        *)

FlushDue(p) ==
  /\ p \in DOMAIN client.open /\ client.open[p].changePending
  /\ client' = FlushChange(client, p)
  /\ client' # client
  /\ UNCHANGED <<clangd, editor>>

Incoming(type) == client.output # <<>> /\ Head(client.output).type = type
Rest == [client EXCEPT !.output = Tail(@)]
Settled(id) == [Rest EXCEPT !.pending = @ \ {id}]

HandleUnknown ==
  /\ Incoming("response") /\ Head(client.output).id \notin client.pending
  /\ client' = Rest
  /\ UNCHANGED <<clangd, editor>>

HandleInitialized ==
  LET m == Head(client.output) IN
  /\ Incoming("response") /\ m.id \in client.pending /\ m.id = client.initId /\ ~m.error
  /\ LET c == Send([Settled(m.id) EXCEPT !.initId = 0, !.initialized = TRUE, !.typesKnown = TRUE],
                   Msg("initialized", 0, NoPath, NoText))
     IN client' = QueueAll(AnnounceAll(c, SetToSeq(DOMAIN client.open)), SetToSeq(client.dirty))
  /\ UNCHANGED <<clangd, editor>>

HandleInitializeError ==
  LET m == Head(client.output) IN
  /\ Incoming("response") /\ m.id \in client.pending /\ m.id = client.initId /\ m.error
  /\ client' = [Settled(m.id) EXCEPT !.initId = 0, !.started = FALSE, !.running = FALSE,
                                     !.stdin = <<>>]
  /\ clangd' = IdleServer
  /\ UNCHANGED editor

(* An answer about a document other than the active one, or about another     *)
(* version of it, is dropped.                                                 *)
InContext(r) ==
  /\ r.path \in DOMAIN client.open /\ client.open[r.path].version = r.version
  /\ client.active \in {NoPath, r.path}

HandleDocument ==
  LET m == Head(client.output) IN
  /\ Incoming("response") /\ m.id \in client.pending
  /\ \E r \in client.document :
       /\ r.id = m.id
       /\ LET c == [Settled(m.id) EXCEPT !.document = @ \ {r}] IN
          client' = IF m.error \/ ~InContext(r) THEN c
                    ELSE [c EXCEPT !.result =
                            [k \in Kinds |-> IF c.slot[k] = m.id THEN m.text ELSE @[k]]]
  /\ UNCHANGED <<clangd, editor>>

(* What becomes of an answer m to the request r for semantic tokens: of       *)
(* another version, or an error, it leaves the path dirty. After an error     *)
(* nothing is asked until the next change or open of the document.            *)
AcceptTokensNoRetry(c, r, m) ==    \* a mistaken variant: a stale answer is not followed by a request
  IF ~m.error /\ r.path \in DOMAIN c.open /\ c.open[r.path].version = r.version
  THEN [c EXCEPT !.tokens[r.path] = m.text] ELSE [c EXCEPT !.dirty = @ \union {r.path}]

AcceptTokens(c, r, m) ==
  IF m.error THEN [c EXCEPT !.dirty = @ \union {r.path}]
  ELSE QueueSemanticTokens(
         IF r.path \in DOMAIN c.open /\ c.open[r.path].version = r.version
         THEN [c EXCEPT !.tokens[r.path] = m.text]
         ELSE [c EXCEPT !.dirty = @ \union {r.path}],
         r.path)

HandleSemantic ==
  LET m == Head(client.output) IN
  /\ Incoming("response") /\ m.id \in client.pending
  /\ \E r \in client.semantic :
       /\ r.id = m.id
       /\ client' = AcceptTokens([Settled(m.id) EXCEPT !.semantic = @ \ {r}], r, m)
  /\ UNCHANGED <<clangd, editor>>

(* Diagnostics of a path that is not open are kept whatever their version, and *)
(* the empty list clangd sends on didClose has no version to compare.          *)
HandleDiagnostics ==
  LET m == Head(client.output) IN
  /\ Incoming("diagnostics")
  /\ client' = IF /\ m.path \in DOMAIN client.open /\ m.text # NoText
                    /\ VersionOf(m.text) # client.open[m.path].version
               THEN Rest ELSE [Rest EXCEPT !.diags[m.path] = m.text]
  /\ UNCHANGED <<clangd, editor>>

ReportExit ==
  /\ client.started /\ ~client.running /\ ~client.exitReported
  /\ client' = [client EXCEPT !.exitReported = TRUE, !.initialized = FALSE]
  /\ UNCHANGED <<clangd, editor>>

HandleMessage ==
  \/ HandleUnknown \/ HandleInitialized \/ HandleInitializeError
  \/ HandleDocument \/ HandleSemantic \/ HandleDiagnostics

-----------------------------------------------------------------------------
(* clangd (external): it reads its input in order, answers requests in any    *)
(* order, each from the text it had when it read the request, and publishes   *)
(* diagnostics for the latest text of a document.                             *)

DocsAfter(docs, m) ==
  IF m.type \in {"didOpen", "didChange"} THEN With(docs, m.path, m.text)
  ELSE IF m.type = "didClose" THEN Without(docs, m.path) ELSE docs

(* What the protocol forbids.                                                 *)
Wrong(docs, m) ==
  \/ m.type = "didOpen" /\ m.path \in DOMAIN docs
  \/ m.type \in {"didChange", "didClose"} /\ m.path \notin DOMAIN docs
  \/ m.type = "didChange" /\ m.path \in DOMAIN docs /\ VersionOf(m.text) < VersionOf(docs[m.path])

JobsAfter(s, m) ==
  LET others == {j \in s.jobs : j.type = "response" \/ j.path # m.path}
  IN CASE m.type = "initialize" -> s.jobs \union {Response(m.id, NoText, FALSE)}
       [] m.type = "initialized" -> s.jobs
       [] m.type \in {"didOpen", "didChange"} -> others \union {Diagnostics(m.path, m.text)}
       [] m.type = "didClose" -> others \union {Diagnostics(m.path, NoText)}
       [] m.type \in {"request", "semantic"} ->
            s.jobs \union {IF m.path \in DOMAIN s.docs THEN Response(m.id, s.docs[m.path], FALSE)
                           ELSE Response(m.id, NoText, TRUE)}

Receive(s, m) ==
  [docs |-> DocsAfter(s.docs, m), jobs |-> JobsAfter(s, m), fault |-> s.fault \/ Wrong(s.docs, m)]

ServerReads ==
  /\ client.running /\ client.stdin # <<>>
  /\ clangd' = Receive(clangd, Head(client.stdin))
  /\ client' = [client EXCEPT !.stdin = Tail(@)]
  /\ UNCHANGED editor

Write(j, m) ==
  /\ clangd' = [clangd EXCEPT !.jobs = @ \ {j}]
  /\ client' = [client EXCEPT !.output = Append(@, m)]
  /\ UNCHANGED editor

ServerWrites == \E j \in clangd.jobs : Write(j, j)

ServerFails ==
  /\ MayFail
  /\ \E j \in clangd.jobs : j.type = "response" /\ Write(j, Response(j.id, NoText, TRUE))

ServerDies ==
  /\ MayDie /\ client.running
  /\ client' = [client EXCEPT !.running = FALSE, !.stdin = <<>>]
  /\ clangd' = IdleServer
  /\ UNCHANGED editor

-----------------------------------------------------------------------------
Next ==
  \/ RestartLanguageServer \/ UnloadProject
  \/ \E p \in Paths : OpenFile(p) \/ ActivateDocument(p) \/ EditDocument(p) \/ SaveAs(p)
  \/ CloseActiveDocument \/ SaveDocument
  \/ \E p, q \in Paths : RenameEntry(p, q)
  \/ \E p \in Paths : RenameFails(p)
  \/ \E k \in Kinds : RequestDocument(k)
  \/ \E p \in Paths : FlushDue(p)
  \/ HandleMessage \/ ReportExit
  \/ ServerReads \/ ServerWrites \/ ServerFails \/ ServerDies

Spec == Init /\ [][Next]_vars

(* The timer polls every 100 ms whatever the user does, so what poll() finds  *)
(* is dealt with; clangd reads its input and answers.                         *)
Fairness ==
  /\ \A p \in Paths : WF_vars(FlushDue(p))
  /\ WF_vars(HandleMessage) /\ WF_vars(ReportExit)
  /\ WF_vars(ServerReads) /\ WF_vars(ServerWrites)

FairSpec == Spec /\ Fairness

-----------------------------------------------------------------------------
(* Properties *)

Text == {NoText} \union ((1..editor.loads) \X (FirstVersion..(FirstVersion + editor.ops)))
Ids == 0..client.nextId
OpenState == [version : Nat, load : Nat, announced : BOOLEAN, changePending : BOOLEAN]
Outgoing == [type : {"initialize", "initialized", "didOpen", "didChange", "didClose", "request",
                     "semantic"},
             id : Ids, path : Paths \union {NoPath}, text : Text]
IncomingSet == [type : {"response"}, id : Ids, text : Text, error : BOOLEAN]
                 \union [type : {"diagnostics"}, path : Paths, text : Text]

(* Types of the three records; every text anywhere is one the editor made.    *)
TypeOK ==
  /\ DOMAIN client = DOMAIN IdleClient
  /\ {client.running, client.started, client.exitReported, client.initialized,
      client.typesKnown, clangd.fault} \subseteq BOOLEAN
  /\ \A i \in DOMAIN client.stdin : client.stdin[i] \in Outgoing
  /\ \A i \in DOMAIN client.output : client.output[i] \in IncomingSet
  /\ DOMAIN client.open \subseteq Paths
  /\ \A p \in DOMAIN client.open : client.open[p] \in OpenState
  /\ client.dirty \subseteq Paths /\ client.active \in Paths \union {NoPath}
  /\ client.nextId \in Nat \ {0} /\ client.pending \union {client.initId} \subseteq Ids
  /\ client.document \subseteq [id : Ids, path : Paths, version : Nat]
  /\ client.semantic \subseteq [id : Ids, path : Paths, version : Nat, load : Nat]
  /\ client.slot \in [Kinds -> Ids]
  /\ client.result \in [Kinds -> Text]
  /\ client.tokens \in [Paths -> Text] /\ client.diags \in [Paths -> Text]
  /\ DOMAIN clangd.docs \subseteq Paths /\ \A p \in DOMAIN clangd.docs : clangd.docs[p] \in Text
  /\ clangd.jobs \subseteq IncomingSet
  /\ OpenPaths \subseteq Paths /\ editor.current \in OpenPaths \union {NoPath}
  /\ editor.sessions \in 0..MaxSessions /\ editor.ops \in 0..MaxOps

(* Every id the client still waits for is waited for by exactly one party:    *)
(* initialize, one document request or one semantic-token request, and no     *)
(* document has two semantic-token requests in flight. A record that outlives *)
(* its id would keep queueSemanticTokens() from ever asking again.            *)
RequestsTracked ==
  /\ client.pending = {r.id : r \in client.document} \union {r.id : r \in client.semantic}
                         \union ({client.initId} \ {0})
  /\ \A r \in client.document, s \in client.semantic : r.id # s.id
  /\ \A r, s \in client.semantic : r.path = s.path => r = s
  /\ \A r \in client.document : \E k \in Kinds : client.slot[k] = r.id

(* What clangd holds when it has read the first n messages.                   *)
Told(docs, messages) ==
  LET after[n \in 0..Len(messages)] ==
        IF n = 0 THEN docs ELSE DocsAfter(after[n - 1], messages[n])
  IN  after

(* What clangd will hold once it has read everything sent to it is exactly    *)
(* the set of documents the client believes announced, each with the client's *)
(* text unless a didChange is being held back; and the client's copy is the   *)
(* editor's.                                                                  *)
ServerInSync ==
  client.running /\ client.initialized =>
    LET told == Told(clangd.docs, client.stdin)[Len(client.stdin)] IN
    /\ DOMAIN told = DOMAIN client.open
    /\ \A p \in DOMAIN told :
         /\ client.open[p].announced
         /\ ~client.open[p].changePending => told[p] = TextOf(client.open[p])
    /\ \A p \in OpenPaths :
         p \in DOMAIN client.open /\ TextOf(client.open[p]) = TextOf(editor.docs[p])

(* The text a document request is answered from is the one on the screen: the *)
(* active document as it is now, whatever was typed, closed, reopened or      *)
(* switched to since the request was made.                                    *)
FreshResults ==
  [][\A k \in Kinds : client'.result[k] \notin {NoText, client.result[k]} =>
       /\ editor.current # NoPath
       /\ client'.result[k] = TextOf(editor.docs[editor.current])]_vars

(* A document that is neither dirty nor asked about is painted from the text  *)
(* it has: no interleaving of edits, errors, stale answers, closing and       *)
(* reopening leaves old highlighting on new text with nothing left to fix it. *)
TokensCatchUp ==
  client.initialized =>
    \A p \in DOMAIN client.open :
      \/ p \in client.dirty \/ \E r \in client.semantic : r.path = p
      \/ client.tokens[p] = TextOf(client.open[p])

(* Tokens are kept only for documents the client knows, and tokens of one     *)
(* load of a document never replace the text of a later version of that load. *)
TokensInLoad ==
  [][\A p \in Paths : client'.tokens[p] \notin {NoText, client.tokens[p]} =>
       /\ p \in DOMAIN client.open
       /\ client'.tokens[p][1] = client.open[p].load
            => client'.tokens[p] = TextOf(client.open[p])]_vars

(* Both sides keep their books: clangd never gets a second didOpen of an open *)
(* document, a didChange or didClose of one that is not open, or a change to  *)
(* an older version ("each sending is matched by close()", lsp_client.hpp:215)*)
(* and the client loses no request, and no document that has to be asked for. *)
ProtocolKept == TypeOK /\ RequestsTracked /\ TokensCatchUp /\ ~clangd.fault

(* An answer is shown only for the text it is about.                          *)
AnswersMatch == FreshResults /\ TokensInLoad

(* Switching, renaming and Save As leave the mirror and the answers right.    *)
PathsKept == []ServerInSync /\ FreshResults

(* Once the user stops and clangd has answered, every open document is        *)
(* painted from its text and no closed one has diagnostics left.              *)
Settles ==
  <>[](client.running =>
         /\ client.initialized
         /\ \A p \in DOMAIN client.open : client.tokens[p] = TextOf(client.open[p])
                                          /\ client.diags[p] = TextOf(client.open[p])
         /\ \A p \in Paths \ DOMAIN client.open : client.diags[p] = NoText)
-----------------------------------------------------------------------------
(* The inductive invariant *)

MessageSet(T) ==
  [type : {"initialize", "initialized"}, id : Nat, path : {NoPath}, text : T]
    \union [type : {"didOpen", "didChange", "didClose", "request", "semantic"},
            id : Nat, path : Paths, text : T]
AnswerSet(T) == [type : {"response"}, id : Nat, text : T, error : BOOLEAN]
                  \union [type : {"diagnostics"}, path : Paths, text : T]
OpenSet(T) == {o \in OpenState : TextOf(o) \in T}
DocumentSet == [id : Nat, path : Paths, version : Nat]
SemanticSet == [id : Nat, path : Paths, version : Nat, load : Nat]
MapOf(f, D, V) == DOMAIN f \subseteq D /\ f \in [DOMAIN f -> V]

(* A client, a server and an editor with texts of T.                          *)
ClientTyped(c, T) ==
  /\ c \in [running : BOOLEAN, stdin : Seq(MessageSet(T)), output : Seq(AnswerSet(T)),
            started : BOOLEAN, exitReported : BOOLEAN, initialized : BOOLEAN, initId : Nat,
            open : {c.open}, dirty : SUBSET Paths, semantic : SUBSET SemanticSet,
            document : SUBSET DocumentSet, pending : SUBSET Nat, nextId : Nat \ {0},
            active : Paths \union {NoPath}, typesKnown : BOOLEAN, slot : [Kinds -> Nat],
            result : [Kinds -> T], tokens : [Paths -> T], diags : [Paths -> T]]
  /\ MapOf(c.open, Paths, OpenSet(T))
ServerTyped(s, T) ==
  s \in [docs : {s.docs}, jobs : SUBSET AnswerSet(T), fault : BOOLEAN] /\ MapOf(s.docs, Paths, T)
EditorInv ==
  /\ editor \in [docs : {editor.docs}, current : {NoPath} \union OpenPaths, loads : Nat,
                 ops : 0..MaxOps, sessions : 1..MaxSessions]
  /\ MapOf(editor.docs, Paths, [version : FirstVersion..(FirstVersion + editor.ops), load : 1..editor.loads])

(* No id is used twice, and whoever waits for one is known.                   *)
WaitingIds(c) == {r.id : r \in c.document} \union {r.id : r \in c.semantic} \union ({c.initId} \ {0})
Tracked(c) ==
  /\ c.pending = WaitingIds(c)
  /\ \A i \in WaitingIds(c) : 0 < i /\ i < c.nextId
  /\ c.initId < c.nextId /\ \A k \in Kinds : c.slot[k] < c.nextId
  /\ \A i \in 1..Len(c.stdin) : c.stdin[i].id < c.nextId
  /\ \A i \in 1..Len(c.output) : c.output[i].type = "response" => c.output[i].id < c.nextId
  /\ \A r, q \in c.document : r.id = q.id => r = q
  /\ \A r, q \in c.semantic : r.id = q.id \/ r.path = q.path => r = q
  /\ \A r \in c.document, q \in c.semantic : r.id # q.id
  /\ \A r \in c.document : r.id # c.initId
  /\ \A q \in c.semantic : q.id # c.initId /\ \A k \in Kinds : c.slot[k] # q.id
  /\ \A r \in c.document : \E k \in Kinds : c.slot[k] = r.id
  /\ c.initId # 0 => \A k \in Kinds : c.slot[k] # c.initId
  /\ c.initialized => c.initId = 0
JobsTracked(c, s) == \A j \in s.jobs : j.type = "response" => j.id < c.nextId

(* What clangd has been told: the announced documents, and nothing it may not be. *)
Mirrored(c, docs) ==
  LET told == Told(docs, c.stdin)[Len(c.stdin)]
  IN /\ DOMAIN told = {p \in DOMAIN c.open : c.open[p].announced}
     /\ \A p \in DOMAIN told :
          /\ VersionOf(told[p]) <= c.open[p].version
          /\ ~c.open[p].changePending => told[p] = TextOf(c.open[p])
Faultless(docs, messages) ==
  \A n \in 1..Len(messages) : ~Wrong(Told(docs, messages)[n - 1], messages[n])
Linked(c, s) ==
  /\ IF c.running THEN Mirrored(c, s.docs) ELSE c.stdin = <<>> /\ s = IdleServer
  /\ ~MaySaveAs => ~s.fault /\ Faultless(s.docs, c.stdin)

(* Every request is answered from the text it was made for.                   *)
Asked(c) ==
  {[id |-> r.id, path |-> r.path, text |-> <<r.load, r.version>>] : r \in c.semantic}
    \union {[id |-> r.id, path |-> r.path, text |-> TextOf(c.open[r.path])] : r \in c.document}
Answers(m, a) == m.type = "response" /\ m.id = a.id => m.error \/ m.text = a.text
Due(a, stdin, output, s) ==
  /\ \A n \in 1..Len(stdin) :
       stdin[n].id = a.id =>
         /\ stdin[n].type \in {"request", "semantic"} /\ stdin[n].path = a.path
         /\ a.path \in DOMAIN Told(s.docs, stdin)[n - 1]
         /\ Told(s.docs, stdin)[n - 1][a.path] = a.text
  /\ \A j \in s.jobs : Answers(j, a)
  /\ \A i \in 1..Len(output) : Answers(output[i], a)
Answered(c, s) == \A a \in Asked(c) : Due(a, c.stdin, c.output, s)

(* A path that is not dirty has been asked about, or painted, as it is.       *)
Painted(c) ==
  /\ \A p \in DOMAIN c.open :
       p \in c.dirty \/ (\E r \in c.semantic : r.path = p) \/ c.tokens[p] = TextOf(c.open[p])
  /\ \A r \in c.semantic :
       r.path \in DOMAIN c.open /\ r.path \notin c.dirty => <<r.load, r.version>> = TextOf(c.open[r.path])
  /\ \A r \in c.document : r.path \in DOMAIN c.open /\ r.version = c.open[r.path].version

Sound(c, s, T) ==
  /\ ClientTyped(c, T) /\ ServerTyped(s, T)
  /\ Tracked(c) /\ JobsTracked(c, s) /\ Linked(c, s) /\ Answered(c, s) /\ Painted(c)

(* The documents are announced when the handshake is done.                    *)
AllOrNone(c) ==
  /\ c.initialized => \A p \in DOMAIN c.open : c.open[p].announced
  /\ c.running /\ ~c.initialized => \A p \in DOMAIN c.open : ~c.open[p].announced

(* The client's copy is the editor's.                                         *)
CopyInv ==
  /\ \A p \in OpenPaths : p \in DOMAIN client.open /\ TextOf(client.open[p]) = TextOf(editor.docs[p])
  /\ ~MaySaveAs => DOMAIN client.open = OpenPaths
  /\ \A r \in client.document : r.path = editor.current

IInv == Sound(client, clangd, Text) /\ EditorInv /\ AllOrNone(client) /\ CopyInv
=============================================================================
