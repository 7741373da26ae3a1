------------------------------- MODULE Session ------------------------------
(***************************************************************************)
(* One session of a munin master with the node: the client thread          *)
(* (MuninNodeClient::Entry, RecvLine and SendLine), the plugin manager's   *)
(* list it answers from, and the connection in between, which cuts what    *)
(* is sent into pieces as it likes.                                        *)
(*                                                                         *)
(* A request is one line, an answer one or more.  On the way they are      *)
(* sequences of parts; the last part of a line carries its newline, the    *)
(* last part of an answer what the master ends its reading at.             *)
(* The master waits for an answer before it asks again.                    *)
(* An external plugin's call runs a command, of which nothing is known but *)
(* that it says where its answer ends at most once: it may take for ever,  *)
(* and its answer may come without its end (see ExternalPlugin).           *)
(***************************************************************************)
EXTENDS Naturals, Sequences, SequencesExt, FiniteSets

CONSTANTS
  BuiltIn,     \* the names of the node's own plugins, in the constructor's order
  External,    \* those of the external plugins, in the configuration's order
  Counters,    \* those of the performance counter plugins
  Strange,     \* a name no plugin has
  BufferSize   \* how many parts the buffer of a session holds

ASSUME NamesAssumption ==
  /\ BuiltIn \in Seq(STRING) /\ External \in Seq(STRING) /\ Counters \in Seq(STRING)
  /\ Strange \notin Range(BuiltIn) \cup Range(External) \cup Range(Counters)
ASSUME BufferAssumption == BufferSize \in Nat /\ BufferSize >= 2

VARIABLES
  pc,        \* the client thread: "greet", "send", "recv", "dispatch", "calling", "leave",
             \* "gone"
  plugins,   \* m_Plugins, each with its name and whether it runs a command
  timeout,   \* is there an ExternalTimeout?
  buffer,    \* what RecvLine has received
  out,       \* what SendLine has still to send
  toNode,    \* sent by the master, not yet received
  toMaster,  \* sent by the node, not yet received
  left,      \* has the master closed its side?
  state,     \* the master: "greeting", "idle", "sending", "waiting" or "over"
  request,   \* what it asks
  sent,      \* how many parts of that it has sent
  got,       \* what it has read of the answer
  known      \* the names it was ever listed

nodeVars   == <<pc, buffer, out>>
wireVars   == <<toNode, toMaster>>
masterVars == <<left, state, request, sent, got, known>>
setup      == <<plugins, timeout>>
vars       == <<nodeVars, setup, wireVars, masterVars>>

AnyName == Range(BuiltIn) \cup Range(External) \cup Range(Counters) \cup {Strange}
Plugin  == [name : AnyName \ {Strange}, external : BOOLEAN]

Command == {"list", "nodes", "version", "quit", "unknown", "overlong"}
Request == [command : Command, name : {Strange}] \cup
           [command : {"config", "fetch"}, name : AnyName]

Ask(command) == [command |-> command, name |-> Strange]

(* A request's line; one that does not fit into the buffer is "overlong".  *)
Parts(r) == IF r.command = "overlong" THEN BufferSize + 1 ELSE 2
Part(r, i) == [request |-> r, newline |-> i = Parts(r)]

(* What an answer says: its kind and the names it is about.                *)
Kind == {"greeting", "names", "host", "version", "plugin", "error", "noservice",
         "nocommand"}
Piece == [kind : Kind, names : SUBSET AnyName, end : BOOLEAN]

Answer(kind, names) ==
  <<[kind |-> kind, names |-> names, end |-> FALSE],
    [kind |-> kind, names |-> names, end |-> TRUE]>>

(* What is left of an answer to r that ends before its end.                *)
CutShort(r) == <<[kind |-> "plugin", names |-> {r.name}, end |-> FALSE]>>

(* The names of the node's plugins.                                        *)
Names == {p.name : p \in Range(plugins)}

TypeOK ==
  /\ pc \in {"greet", "send", "recv", "dispatch", "calling", "leave", "gone"}
  /\ plugins \in Seq(Plugin) /\ timeout \in BOOLEAN
  /\ buffer \in Seq([request : Request, newline : BOOLEAN]) /\ Len(buffer) <= BufferSize
  /\ toNode \in Seq([request : Request, newline : BOOLEAN])
  /\ out \in Seq(Piece) /\ toMaster \in Seq(Piece) /\ got \in Seq(Piece)
  /\ left \in BOOLEAN
  /\ state \in {"greeting", "idle", "sending", "waiting", "over"}
  /\ request \in Request /\ sent \in 0 .. BufferSize + 1
  /\ known \subseteq Names

Made(names, external) ==
  [i \in DOMAIN names |-> [name |-> names[i], external |-> external]]

(* MuninPluginManager's constructor: the node's own plugins as far as the  *)
(* configuration has them, then the others as far as they load.            *)
Constructed ==
  {SelectSeq(Made(BuiltIn, FALSE) \o Made(External, TRUE) \o Made(Counters, FALSE),
             LAMBDA p : p \in on) : on \in SUBSET Plugin}

Init ==
  /\ pc = "greet" /\ plugins \in Constructed /\ timeout \in BOOLEAN
  /\ buffer = <<>> /\ out = <<>> /\ toNode = <<>> /\ toMaster = <<>>
  /\ left = FALSE /\ state = "greeting" /\ request = Ask("list") /\ sent = 0
  /\ got = <<>> /\ known = {}

-----------------------------------------------------------------------------
(* MuninNodeClient.                                                        *)

Greet ==
  /\ pc = "greet"
  /\ out' = Answer("greeting", {}) /\ pc' = "send"
  /\ UNCHANGED <<setup, buffer, wireVars, masterVars>>

SendOnce ==   \* mutant: what send did not take is not sent again
  /\ pc = "send" /\ out # <<>>
  /\ \E n \in 1 .. Len(out) :
       /\ toMaster' = IF left THEN toMaster ELSE toMaster \o SubSeq(out, 1, n)
       /\ out' = <<>>
  /\ UNCHANGED <<pc, setup, buffer, toNode, masterVars>>

(* SendLine: send takes as much as it likes.                               *)
Send ==
  /\ pc = "send" /\ out # <<>>
  /\ \E n \in 1 .. Len(out) :
       /\ toMaster' = IF left THEN toMaster ELSE toMaster \o SubSeq(out, 1, n)
       /\ out' = SubSeq(out, n + 1, Len(out))
  /\ UNCHANGED <<pc, setup, buffer, toNode, masterVars>>

SentKeepsBuffer ==   \* mutant: RecvLine does not reset the buffer
  /\ pc = "send"
  /\ out = <<>> \/ left
  /\ out' = <<>> /\ pc' = "recv"
  /\ UNCHANGED <<setup, buffer, wireVars, masterVars>>

(* All is sent, or it failed, which Entry does not look at.  RecvLine      *)
(* resets the buffer.                                                      *)
Sent ==
  /\ pc = "send"
  /\ out = <<>> \/ left
  /\ out' = <<>> /\ buffer' = <<>> /\ pc' = "recv"
  /\ UNCHANGED <<setup, wireVars, masterVars>>

HasLine == \E i \in DOMAIN buffer : buffer[i].newline

(* recv gives what there is, or a part of it, as far as there is room.     *)
Receive ==
  /\ pc = "recv" /\ ~HasLine
  /\ \E n \in 1 .. Len(toNode) :
       /\ Len(buffer) + n <= BufferSize
       /\ buffer' = buffer \o SubSeq(toNode, 1, n)
       /\ toNode' = SubSeq(toNode, n + 1, Len(toNode))
  /\ UNCHANGED <<pc, setup, out, toMaster, masterVars>>

ReceiveErrorOnly ==   \* mutant: 0, the end of the stream, is not an error
  /\ pc = "recv" /\ ~HasLine
  /\ Len(buffer) = BufferSize
  /\ pc' = "leave"
  /\ UNCHANGED <<setup, buffer, out, wireVars, masterVars>>

(* The master is gone, or there is no room: recv of no bytes returns 0.    *)
ReceiveFails ==
  /\ pc = "recv" /\ ~HasLine
  /\ left \/ Len(buffer) = BufferSize
  /\ pc' = "leave"
  /\ UNCHANGED <<setup, buffer, out, wireVars, masterVars>>

ReceivedLine ==
  /\ pc = "recv" /\ HasLine
  /\ pc' = "dispatch"
  /\ UNCHANGED <<setup, buffer, out, wireVars, masterVars>>

(* The first line in the buffer is what counts; what follows is lost.  A   *)
(* line put together from parts of two requests means nothing.             *)
Line == SubSeq(buffer, 1, SelectInSeq(buffer, LAMBDA p : p.newline))

Understood ==
  LET r == Line[1].request
  IN  IF Line = [i \in 1 .. Parts(r) |-> Part(r, i)] THEN r ELSE Ask("unknown")

LookupSkipsFirst(name) ==   \* mutant: the loop starts at 1
  \E i \in DOMAIN plugins : i > 1 /\ plugins[i].name = name

(* LookupPlugin finds a plugin of that name.                               *)
LookupPlugin(name) == name \in Names

(* The first of that name is asked: does that run a command?               *)
Runs(r) ==
  /\ r.command \in {"config", "fetch"}
  /\ \E i \in DOMAIN plugins :
       /\ plugins[i].name = r.name /\ plugins[i].external
       /\ \A j \in 1 .. i - 1 : plugins[j].name # r.name

(* What may be answered to r.  FillPluginList asks each plugin whether it  *)
(* is loaded; a plugin's call may fail, and what a command wrote may end   *)
(* early.                                                                  *)
AnswersTo(r) ==
  CASE r.command = "list"    -> {Answer("names", s) : s \in SUBSET Names}
    [] r.command = "nodes"   -> {Answer("host", {})}
    [] r.command = "version" -> {Answer("version", {})}
    [] r.command \in {"config", "fetch"} ->
         IF LookupPlugin(r.name)
         THEN {Answer("plugin", {r.name}), Answer("error", {})} \cup
              (IF Runs(r) THEN {CutShort(r)} ELSE {})
         ELSE {Answer("noservice", {})}
    [] OTHER -> {Answer("nocommand", {})}

Dispatch ==
  /\ pc = "dispatch"
  /\ Understood.command # "quit" /\ ~Runs(Understood)
  /\ out' \in AnswersTo(Understood)
  /\ pc' = "send"
  /\ UNCHANGED <<setup, buffer, wireVars, masterVars>>

(* GetConfig or GetValues of an external plugin calls Run, which returns   *)
(* as the command and the timeout have it, unless a pure virtual call ends *)
(* the process and with it the connection.                                 *)
Call ==
  /\ pc = "dispatch"
  /\ Runs(Understood)
  /\ pc' = "calling"
  /\ UNCHANGED <<setup, buffer, out, wireVars, masterVars>>

Return ==
  /\ pc = "calling"
  /\ out' \in AnswersTo(Understood)
  /\ pc' = "send"
  /\ UNCHANGED <<setup, buffer, wireVars, masterVars>>

Abort ==
  /\ pc = "calling"
  /\ pc' = "gone"
  /\ UNCHANGED <<setup, buffer, out, wireVars, masterVars>>

Quit ==
  /\ pc = "dispatch"
  /\ Understood.command = "quit"
  /\ pc' = "leave"
  /\ UNCHANGED <<setup, buffer, out, wireVars, masterVars>>

(* The destructor closes the socket.                                       *)
Leave ==
  /\ pc = "leave"
  /\ pc' = "gone"
  /\ UNCHANGED <<setup, buffer, out, wireVars, masterVars>>

-----------------------------------------------------------------------------
(* The master.                                                             *)

MasterAsks ==
  /\ state = "idle"
  /\ request' \in Request
  /\ state' = "sending" /\ sent' = 0
  /\ UNCHANGED <<nodeVars, setup, wireVars, left, got, known>>

MasterSends ==
  /\ state = "sending"
  /\ sent' = sent + 1
  /\ toNode' = Append(toNode, Part(request, sent'))
  /\ state' = IF sent' = Parts(request) THEN "waiting" ELSE "sending"
  /\ UNCHANGED <<nodeVars, setup, toMaster, left, request, got, known>>

MasterReads ==
  /\ state # "over" /\ toMaster # <<>>
  /\ LET piece == Head(toMaster)
     IN  IF piece.end
         THEN /\ state' = "idle" /\ got' = <<>>
              /\ known' = known \cup (IF piece.kind = "names" THEN piece.names ELSE {})
         ELSE got' = Append(got, piece) /\ UNCHANGED <<state, known>>
  /\ toMaster' = Tail(toMaster)
  /\ UNCHANGED <<nodeVars, setup, toNode, left, request, sent>>

(* It sees the end of the connection, or leaves on its own account.        *)
MasterSeesEnd ==
  /\ state # "over" /\ toMaster = <<>> /\ pc = "gone"
  /\ left' = TRUE /\ state' = "over"
  /\ UNCHANGED <<nodeVars, setup, wireVars, request, sent, got, known>>

MasterLeaves ==
  /\ state # "over"
  /\ left' = TRUE /\ state' = "over"
  /\ UNCHANGED <<nodeVars, setup, wireVars, request, sent, got, known>>

-----------------------------------------------------------------------------
Node ==
  \/ Greet \/ Send \/ Sent \/ Receive \/ ReceiveFails \/ ReceivedLine
  \/ Dispatch \/ Call \/ Quit \/ Leave

(* An external plugin's call, once it has begun.                           *)
Run == Return \/ Abort

Master == MasterAsks \/ MasterSends \/ MasterReads \/ MasterSeesEnd \/ MasterLeaves

Next == Node \/ Run \/ Master

Spec == Init /\ [][Next]_vars

(* The thread goes on, a plugin of the node's own returns, and so does an  *)
(* external one if there is a timeout; of a command nothing is assumed.    *)
(* The master reads; it need not ask, nor finish the line it has begun.    *)
FairSpec ==
  /\ Spec
  /\ WF_vars(Node) /\ WF_vars(timeout /\ Run)
  /\ WF_vars(MasterReads) /\ WF_vars(MasterSeesEnd)

-----------------------------------------------------------------------------
(* What the master reads after a request is an answer to that request,     *)
(* however both were cut into pieces, and nothing is left over for the     *)
(* next one.                                                               *)
AnswersInStep ==
  /\ state = "waiting" =>
       \E a \in AnswersTo(request) : IsPrefix(got \o toMaster \o out, a)
  /\ state = "idle" => toMaster = <<>> /\ out = <<>>

(* A plugin that was listed is known when it is asked for.                 *)
ListedIsKnown ==
  request.command \in {"config", "fetch"} /\ request.name \in known /\ state = "waiting" =>
    \A piece \in Range(got \o toMaster) : piece.kind # "noservice"

(* The thread is in a command that nothing bounds.                         *)
InCommand == pc = "calling" /\ ~timeout

(* The master has read all a command had to say, and that had no end.      *)
WithoutEnd ==
  /\ state = "waiting" /\ pc = "recv" /\ toMaster = <<>>
  /\ Runs(request) /\ got = CutShort(request)

(* A request that was sent to its end is answered, or the connection ends; *)
(* but for an external plugin whose command never ends, without a timeout, *)
(* or whose answer lacked its end, for which the master waits in vain.     *)
RequestAnswered ==
  state = "waiting" ~> state \in {"idle", "over"} \/ []InCommand \/ []WithoutEnd

(* A master that leaves, at whatever point, lets the client thread end,    *)
(* unless that is in a command that never ends and has no timeout.         *)
SessionEnds == left ~> pc = "gone" \/ []InCommand
=============================================================================
