------------------------------ MODULE SpeedFan ------------------------------
(***************************************************************************)
(* The SpeedFan plugin: a listener thread receives SpeedFan's broadcasts   *)
(* and keeps the blocks of the last one; client threads answer from them.  *)
(*                                                                         *)
(* The process "plugin" is whichever thread constructs and destroys the    *)
(* plugin, "listener" the thread of its ListenerThread; Readers are the    *)
(* client threads inside GetConfig or GetValues, which go through the      *)
(* blocks in the same way.  Parsing is XapMessage's subject.               *)
(*                                                                         *)
(* JCSocket keeps the number of a closed socket: Handles are the numbers   *)
(* the system gives out, again and again, to whoever opens a socket.       *)
(* A label pc[p] names the next step of p.                                 *)
(***************************************************************************)
EXTENDS XapMessage

CONSTANTS
  Readers,     \* client threads
  Handles,     \* the numbers of sockets
  Broadcasts,  \* well-formed messages that may come in
  Malformed,   \* packets that are no such message
  Temperatures \* the names that begin with "temp"

Plugin   == "plugin"
Listener == "listener"
NoOne    == "no one"
NoHandle == 0   \* NULL or INVALID_SOCKET: closing it does nothing

ASSUME ReadersAssumption == {Plugin, Listener, NoOne} \cap Readers = {}
ASSUME HandlesAssumption == NoHandle \notin Handles
ASSUME BroadcastsAssumption == Broadcasts \subseteq Message
ASSUME MalformedAssumption ==
  Malformed \subseteq Packet /\ \A p \in Malformed : p.message = <<>>

(* What may come in: of a well-formed message, which one it is.            *)
Messages == {[lines |-> Lines(m), ended |-> e, message |-> <<m>>] :
               m \in Broadcasts, e \in BOOLEAN}
Packets  == Messages \cup Malformed

VARIABLES
  pc,        \* next step of each process
  life,      \* the ListenerThread: "live" or "deleted"
  refCount,  \* its m_RefCount
  stopped,   \* its m_State is Stopped
  started,   \* its m_bStarted
  handle,    \* m_Socket.m_hSocket
  closing,   \* the handle Stop is about to close
  holder,    \* of each handle: "free", "listener" or "other"
  parsed,    \* the blocks the listener has found in what it has received
  blocks,    \* m_Blocks
  last,      \* history: the last message of the configured SpeedFan, if any
  strays,    \* history: the packets since then that were no message
  owner,     \* who holds m_BlocksCritSec
  index,     \* of each reader: the block it is at
  reply      \* of each reader: the blocks it has put into its answer

threadVars == <<life, refCount, stopped, started>>
socketVars == <<handle, closing, holder>>
heardVars  == <<last, strays>>
tableVars  == <<parsed, blocks, heardVars>>
readerVars == <<owner, index, reply>>
vars       == <<pc, threadVars, socketVars, tableVars, readerVars>>

Process == {Plugin, Listener} \cup Readers

PluginLabel ==
  {"run", "wait", "release", "up", "stop", "load", "close", "unref", "delete", "done"}

ListenerLabel ==
  {"unborn", "ref", "mark", "reset", "create", "bind", "test", "receive", "lock",
   "retest", "end", "unref", "delete", "dead"}

ReaderLabel == {"idle", "lock", "loop", "unlock"}

TypeOK ==
  /\ pc \in [Process -> PluginLabel \cup ListenerLabel \cup ReaderLabel]
  /\ pc[Plugin] \in PluginLabel /\ pc[Listener] \in ListenerLabel
  /\ \A r \in Readers : pc[r] \in ReaderLabel
  /\ life \in {"live", "deleted"} /\ refCount \in 0 .. 3
  /\ stopped \in BOOLEAN /\ started \in BOOLEAN
  /\ handle \in Handles \cup {NoHandle} /\ closing \in Handles \cup {NoHandle}
  /\ holder \in [Handles -> {"free", "listener", "other"}]
  /\ last \in Seq(Message) /\ strays \subseteq Malformed
  /\ blocks \in Seq(Block) /\ parsed \in Seq(Block)
  /\ owner \in Readers \cup {NoOne}
  /\ index \in [Readers -> Nat] /\ \A r \in Readers : reply[r] \in Seq(Block)

(* The constructor has made the ListenerThread and referenced it.          *)
Init ==
  /\ pc = [p \in Process |-> IF p = Plugin THEN "run"
                             ELSE IF p = Listener THEN "unborn" ELSE "idle"]
  /\ life = "live" /\ refCount = 1 /\ stopped = FALSE /\ started = FALSE
  /\ handle = NoHandle /\ closing = NoHandle
  /\ holder \in [Handles -> {"free", "other"}]
  /\ parsed = <<>> /\ blocks = <<>> /\ last = <<>> /\ strays = {}
  /\ owner = NoOne
  /\ index = [r \in Readers |-> 2] /\ reply = [r \in Readers |-> <<>>]

-----------------------------------------------------------------------------
Goto(p, label) == pc' = [pc EXCEPT ![p] = label]

(* JCThread_RemoveRef, up to the destructor.                               *)
RemoveRef(p, next) ==
  /\ refCount' = refCount - 1
  /\ Goto(p, IF refCount = 1 THEN "delete" ELSE next)

(* closesocket: what the number stands for now, whoever opened it.         *)
CloseHandle(h) ==
  holder' = [i \in Handles |-> IF i = h THEN "free" ELSE holder[i]]

-----------------------------------------------------------------------------
(* The constructor: JCThread::Run, and its wait for the thread to start.   *)
Run ==
  /\ pc[Plugin] = "run" /\ pc[Listener] = "unborn"
  /\ refCount' = refCount + 1
  /\ pc' = [pc EXCEPT ![Plugin] = "wait", ![Listener] = "ref"]
  /\ UNCHANGED <<life, stopped, started, socketVars, tableVars, readerVars>>

RunPolls ==
  /\ pc[Plugin] = "wait"
  /\ stopped \/ started
  /\ Goto(Plugin, "release")
  /\ UNCHANGED <<threadVars, socketVars, tableVars, readerVars>>

RunReleases ==
  /\ pc[Plugin] = "release"
  /\ RemoveRef(Plugin, "up")
  /\ UNCHANGED <<life, stopped, started, socketVars, tableVars, readerVars>>

(* The destructor.  The plugin goes with the server object, when the last  *)
(* client has closed its socket and let the server go (NodeServer).        *)
Destroy ==
  /\ pc[Plugin] = "up"
  /\ \A r \in Readers : pc[r] = "idle"
  /\ \A h \in Handles : holder[h] # "other"
  /\ Goto(Plugin, "stop")
  /\ UNCHANGED <<threadVars, socketVars, tableVars, readerVars>>

(* ListenerThread::Stop: the state, then the socket.                       *)
Stop ==
  /\ pc[Plugin] = "stop"
  /\ stopped' = TRUE
  /\ Goto(Plugin, "load")
  /\ UNCHANGED <<life, refCount, started, socketVars, tableVars, readerVars>>

StopLoads ==
  /\ pc[Plugin] = "load"
  /\ closing' = handle
  /\ Goto(Plugin, "close")
  /\ UNCHANGED <<threadVars, handle, holder, tableVars, readerVars>>

StopCloses ==
  /\ pc[Plugin] = "close"
  /\ CloseHandle(closing)
  /\ closing' = NoHandle
  /\ Goto(Plugin, "unref")
  /\ UNCHANGED <<threadVars, handle, tableVars, readerVars>>

Unref ==
  /\ pc[Plugin] = "unref"
  /\ RemoveRef(Plugin, "done")
  /\ UNCHANGED <<life, stopped, started, socketVars, tableVars, readerVars>>

DeleteLeavesSocket(p) ==   \* mutant: only Stop closes the socket
  /\ pc[p] = "delete"
  /\ life' = "deleted"
  /\ Goto(p, IF p = Plugin THEN "done" ELSE "dead")
  /\ UNCHANGED <<refCount, stopped, started, socketVars, tableVars, readerVars>>

(* ~ListenerThread, with the ~JCSocket of its member.                      *)
Delete(p) ==
  /\ pc[p] = "delete"
  /\ life' = "deleted"
  /\ CloseHandle(handle)
  /\ Goto(p, IF p = Plugin THEN "done" ELSE "dead")
  /\ UNCHANGED <<refCount, stopped, started, handle, closing, tableVars, readerVars>>

-----------------------------------------------------------------------------
(* The listener's thread: JCThreadFunction around Entry.                   *)
ThreadAddRef ==
  /\ pc[Listener] = "ref"
  /\ refCount' = refCount + 1
  /\ Goto(Listener, "mark")
  /\ UNCHANGED <<life, stopped, started, socketVars, tableVars, readerVars>>

ThreadMark ==
  /\ pc[Listener] = "mark"
  /\ started' = TRUE
  /\ Goto(Listener, "reset")
  /\ UNCHANGED <<life, refCount, stopped, socketVars, tableVars, readerVars>>

(* OpenSocket: Close, Create, Bind.                                        *)
OpenCloses ==
  /\ pc[Listener] = "reset"
  /\ CloseHandle(handle)
  /\ Goto(Listener, "create")
  /\ UNCHANGED <<threadVars, handle, closing, tableVars, readerVars>>

OpenCreates ==
  /\ pc[Listener] = "create"
  /\ \E h \in Handles :
       /\ holder[h] = "free"
       /\ holder' = [holder EXCEPT ![h] = "listener"]
       /\ handle' = h
  /\ Goto(Listener, "bind")
  /\ UNCHANGED <<threadVars, closing, tableVars, readerVars>>

OpenCreateFails ==
  /\ pc[Listener] = "create"
  /\ handle' = NoHandle
  /\ Goto(Listener, "end")
  /\ UNCHANGED <<threadVars, closing, holder, tableVars, readerVars>>

OpenBinds ==
  /\ pc[Listener] = "bind"
  /\ \E label \in {"test", "end"} : Goto(Listener, label)
  /\ UNCHANGED <<threadVars, socketVars, tableVars, readerVars>>

LoopForever ==   \* mutant: only a failed receive looks at the state
  /\ pc[Listener] = "test"
  /\ Goto(Listener, "receive")
  /\ UNCHANGED <<threadVars, socketVars, tableVars, readerVars>>

(* while (!TestDestroy())                                                  *)
LoopTests ==
  /\ pc[Listener] = "test"
  /\ Goto(Listener, IF stopped THEN "end" ELSE "receive")
  /\ UNCHANGED <<threadVars, socketVars, tableVars, readerVars>>

SocketOpen == handle # NoHandle /\ holder[handle] = "listener"

(* The history, which looks at what was sent and not at how it is parsed.  *)
FromOurs(m) == m.uid = Uid /\ m.class = Status

Hears(p) ==
  IF p.message = <<>> THEN strays' = strays \cup {p} /\ UNCHANGED last
  ELSE IF FromOurs(p.message[1]) THEN last' = p.message /\ strays' = {}
  ELSE UNCHANGED heardVars

(* recvfrom returns a packet, which ProcessBuffer takes apart, ...         *)
Receive ==
  /\ pc[Listener] = "receive" /\ SocketOpen
  /\ \E p \in Packets :
       /\ Hears(p)
       /\ IF IsWanted(Parse(p))
          THEN parsed' = Parse(p) /\ Goto(Listener, "lock")
          ELSE UNCHANGED parsed /\ Goto(Listener, "test")
  /\ UNCHANGED <<threadVars, socketVars, blocks, readerVars>>

ReceiveFailsCloses ==   \* mutant: a failed receive closes the socket at once
  /\ pc[Listener] = "receive" /\ SocketOpen
  /\ CloseHandle(handle)
  /\ Goto(Listener, "retest")
  /\ UNCHANGED <<threadVars, handle, closing, tableVars, readerVars>>

(* ... an error or an empty packet, ...                                    *)
ReceiveFails ==
  /\ pc[Listener] = "receive" /\ SocketOpen
  /\ Goto(Listener, "retest")
  /\ UNCHANGED <<threadVars, socketVars, tableVars, readerVars>>

(* ... or an error because the socket is closed.                           *)
ReceiveAborted ==
  /\ pc[Listener] = "receive" /\ ~SocketOpen
  /\ Goto(Listener, "retest")
  /\ UNCHANGED <<threadVars, socketVars, tableVars, readerVars>>

Retest ==
  /\ pc[Listener] = "retest"
  /\ Goto(Listener, IF stopped THEN "end" ELSE "reset")
  /\ UNCHANGED <<threadVars, socketVars, tableVars, readerVars>>

ReplaceUnlocked ==   \* mutant: the blocks are replaced without the lock
  /\ pc[Listener] = "lock"
  /\ blocks' = parsed /\ parsed' = <<>>
  /\ Goto(Listener, "test")
  /\ UNCHANGED <<threadVars, socketVars, heardVars, readerVars>>

(* The end of ProcessBuffer: the blocks replace those of the packet before. *)
Replace ==
  /\ pc[Listener] = "lock" /\ owner = NoOne
  /\ blocks' = parsed /\ parsed' = <<>>
  /\ Goto(Listener, "test")
  /\ UNCHANGED <<threadVars, socketVars, heardVars, readerVars>>

(* Entry has returned.                                                     *)
ThreadStops ==
  /\ pc[Listener] = "end"
  /\ stopped' = TRUE
  /\ Goto(Listener, "unref")
  /\ UNCHANGED <<life, refCount, started, socketVars, tableVars, readerVars>>

ThreadRemoveRef ==
  /\ pc[Listener] = "unref"
  /\ RemoveRef(Listener, "dead")
  /\ UNCHANGED <<life, stopped, started, socketVars, tableVars, readerVars>>

-----------------------------------------------------------------------------
(* GetConfig and GetValues.                                                *)
Ask(r) ==
  /\ pc[Plugin] = "up" /\ pc[r] = "idle"
  /\ Goto(r, "lock")
  /\ UNCHANGED <<threadVars, socketVars, tableVars, readerVars>>

Enter(r) ==
  /\ pc[r] = "lock" /\ owner = NoOne
  /\ owner' = r
  /\ Goto(r, IF Len(blocks) > 1 THEN "loop" ELSE "unlock")
  /\ UNCHANGED <<threadVars, socketVars, tableVars, index, reply>>

(* dynamic_cast<xAPBlockData *>, and only temperatures.                    *)
Reported(block) == ~block.header /\ block.name.key \in Temperatures

(* One block; the header has been skipped.                                 *)
Loop(r) ==
  /\ pc[r] = "loop"
  /\ index[r] \in DOMAIN blocks
  /\ index' = [index EXCEPT ![r] = @ + 1]
  /\ reply' = [reply EXCEPT ![r] =
       IF Reported(blocks[index[r]]) THEN Append(@, blocks[index[r]]) ELSE @]
  /\ UNCHANGED <<pc, threadVars, socketVars, tableVars, owner>>

LoopEnds(r) ==
  /\ pc[r] = "loop"
  /\ index[r] \notin DOMAIN blocks
  /\ Goto(r, "unlock")
  /\ UNCHANGED <<threadVars, socketVars, tableVars, readerVars>>

Leave(r) ==
  /\ pc[r] = "unlock"
  /\ owner' = NoOne
  /\ index' = [index EXCEPT ![r] = 2] /\ reply' = [reply EXCEPT ![r] = <<>>]
  /\ Goto(r, "idle")
  /\ UNCHANGED <<threadVars, socketVars, tableVars>>

-----------------------------------------------------------------------------
(* The node's other sockets: clients come and go while the plugin is up.   *)
Others ==
  /\ pc[Plugin] \in {"run", "wait", "release", "up"}
  /\ \E h \in Handles :
       /\ holder[h] # "listener"
       /\ holder' = [holder EXCEPT ![h] = IF @ = "free" THEN "other" ELSE "free"]
  /\ UNCHANGED <<pc, threadVars, handle, closing, tableVars, readerVars>>

Construct == Run \/ RunPolls \/ RunReleases

Destruct == Stop \/ StopLoads \/ StopCloses \/ Unref \/ Delete(Plugin)

OpenSocket == OpenCloses \/ OpenCreates \/ OpenCreateFails \/ OpenBinds

ListenerStep ==
  \/ ThreadAddRef \/ ThreadMark \/ OpenSocket \/ LoopTests \/ ReceiveAborted
  \/ Retest \/ Replace \/ ThreadStops \/ ThreadRemoveRef \/ Delete(Listener)

ReaderStep(r) == Enter(r) \/ Loop(r) \/ LoopEnds(r) \/ Leave(r)

Next ==
  \/ Construct \/ Destroy \/ Destruct
  \/ ListenerStep \/ Receive \/ ReceiveFails
  \/ \E r \in Readers : Ask(r) \/ ReaderStep(r)
  \/ Others

Spec == Init /\ [][Next]_vars

(* Threads go on; nobody has to send, to ask or to end the plugin.         *)
FairSpec ==
  /\ Spec
  /\ WF_vars(Construct) /\ WF_vars(Destruct) /\ WF_vars(ListenerStep)
  /\ \A r \in Readers : WF_vars(ReaderStep(r))

-----------------------------------------------------------------------------
(* Whenever the listener is not about to replace it, the table is what the *)
(* last message of the configured SpeedFan said that it received: header   *)
(* first, then its blocks in order, whatever other devices sent since then *)
(* and whether or not its last line was ended.  Only a packet since then   *)
(* that is no message (cut short, a second header, a header that is not    *)
(* first) may have taken its place; then every block of the table is one   *)
(* that packet says, with no data of another block or packet, and the      *)
(* first is a header of the configured SpeedFan.                           *)
Intact == IF last = <<>> THEN blocks = <<>> ELSE blocks = Blocks(last[1])

SaidByStray(p) ==
  /\ blocks # <<>> /\ blocks[1].header
  /\ blocks[1].data["uid"] = Uid /\ blocks[1].data["class"] = Status
  /\ \A i \in DOMAIN blocks : Says(p, blocks[i])

TableIsMessage ==
  pc[Listener] # "lock" => Intact \/ \E p \in strays : SaidByStray(p)

(* The parts of an answer are those of the blocks up to the n-th one that  *)
(* it has to report: each of them, once, in their order, and no other.     *)
Reports(answer, n) ==
  \E at \in [DOMAIN answer -> 2 .. n] :
    /\ \A k, l \in DOMAIN answer : k < l => at[k] < at[l]
    /\ \A k \in DOMAIN answer : Reported(blocks[at[k]]) /\ answer[k] = blocks[at[k]]
    /\ \A i \in 2 .. n : Reported(blocks[i]) => \E k \in DOMAIN answer : at[k] = i

(* An answer reports the temperatures of one packet, all of them, although *)
(* the listener replaces and deletes the blocks at any time.               *)
AnswerIsTable ==
  \A r \in Readers : pc[r] = "unlock" => Reports(reply[r], Len(blocks))

(* A socket's number outlives the socket.  Stop, OpenSocket and the        *)
(* destructor never close one that has become somebody else's.             *)
ClosesOwnSocket ==
  [][\A h \in Handles : holder[h] = "other" /\ holder'[h] = "free" => Others]_vars

(* In the end, whoever was last, the thread object is deleted and the      *)
(* socket closed, also one that was opened after Stop had closed the last. *)
NothingLeft ==
  pc[Plugin] = "done" /\ pc[Listener] = "dead" =>
    life = "deleted" /\ \A h \in Handles : holder[h] # "listener"

(* Stop ends the listener wherever it is: "Close the socket to abort the   *)
(* recvfrom call" is not enough when the listener is about to open it.     *)
StopEndsListener == pc[Plugin] = "stop" ~> pc[Listener] = "dead"
=============================================================================
