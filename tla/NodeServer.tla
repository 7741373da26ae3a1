----------------------------- MODULE NodeServer -----------------------------
(***************************************************************************)
(* The thread objects of munin-node and who keeps them alive.              *)
(*                                                                         *)
(* CService::Run (the process "main") creates the MuninNodeServer, starts  *)
(* its thread (the process "server") and, when the service must stop,      *)
(* stops it.  The server thread accepts connections and starts one         *)
(* MuninNodeClient per connection (the processes of Clients).  Server and  *)
(* clients derive from JCThread: a reference count guarded by a critical   *)
(* section, a state, a "started" flag, and `delete this` when the count    *)
(* falls to zero.  Every client uses the plugin manager that lives inside  *)
(* the server object, so it holds a reference on the server.               *)
(*                                                                         *)
(* A label pc[p] names the NEXT step of p.  A step is one critical section *)
(* of the code, or code that touches only what no other thread can see.    *)
(***************************************************************************)
EXTENDS Integers, FiniteSets

CONSTANTS
  Clients,             \* the connections a munin master may open
  BeginThreadMayFail   \* may _beginthread fail (it is not checked)?

Main   == "main"
Server == "server"

ASSUME ClientsAssumption ==
  /\ IsFiniteSet(Clients)
  /\ {"main", "server", "creator", "run", "thread"} \cap Clients = {}

ASSUME BeginThreadAssumption == BeginThreadMayFail \in BOOLEAN

Object  == {Server} \cup Clients
Process == {Main, Server} \cup Clients

VARIABLES
  pc,        \* next step of each process
  life,      \* of each object: "unborn", "live" or "deleted"
  refCount,  \* JCThread::m_RefCount
  state,     \* JCThread::m_State
  started,   \* JCThread::m_bStarted
  sock,      \* m_ServerSocket: "none", "created", "bound", "listening" or "closed"
  cur        \* the client object the accept loop is busy with

vars == <<pc, life, refCount, state, started, sock, cur>>

(* The labels, in the order the processes go through them. *)
MainLabel ==
  {"new", "run", "wait", "release", "serve", "stop", "close", "unref",
   "destroyServer", "done"}

ServerLabel ==
  {"unborn", "begin", "mark", "create", "bind", "listen", "test", "accept",
   "construct", "run", "wait", "release", "destroyClient", "stopSelf",
   "unref", "destroyServer", "dead"}

ClientLabel ==
  {"unborn", "begin", "mark", "session", "command", "stopSelf", "unref",
   "destroyClient", "destroyServer", "dead"}

TypeOK ==
  /\ pc \in [Process -> MainLabel \cup ServerLabel \cup ClientLabel]
  /\ pc[Main] \in MainLabel
  /\ pc[Server] \in ServerLabel
  /\ \A c \in Clients : pc[c] \in ClientLabel
  /\ life \in [Object -> {"unborn", "live", "deleted"}]
  /\ refCount \in [Object -> Nat]
  /\ state \in [Object -> {"Waiting", "Stopped", "Running"}]
  /\ started \in [Object -> BOOLEAN]
  /\ sock \in {"none", "created", "bound", "listening", "closed"}
  /\ cur \in Object

Init ==
  /\ pc = [p \in Process |-> IF p = Main THEN "new" ELSE "unborn"]
  /\ life = [o \in Object |-> "unborn"]
  /\ refCount = [o \in Object |-> 0]
  /\ state = [o \in Object |-> "Waiting"]
  /\ started = [o \in Object |-> FALSE]
  /\ sock = "none"
  /\ cur = Server

-----------------------------------------------------------------------------
(* Helpers.                                                                *)

Goto(p, label) == pc' = [pc EXCEPT ![p] = label]

AddRef(o) == refCount' = [refCount EXCEPT ![o] = @ + 1]

RemoveRefOffByOne(p, o, next, destroy) ==   \* mutant: deletes one owner early
  /\ refCount' = [refCount EXCEPT ![o] = @ - 1]
  /\ Goto(p, IF refCount[o] <= 2 THEN destroy ELSE next)

(* JCThread_RemoveRef: decrement and test under the lock; the process that *)
(* takes the count to zero goes on to destroy the object, outside it.      *)
RemoveRef(p, o, next, destroy) ==
  /\ refCount' = [refCount EXCEPT ![o] = @ - 1]
  /\ Goto(p, IF refCount[o] = 1 THEN destroy ELSE next)

TestDestroy(o) == state[o] = "Stopped"

(* The object whose Run() process p executes: main starts the server, the  *)
(* accept loop starts the client it has just constructed.                  *)
Target(p) == IF p = Main THEN Server ELSE cur

Starter == {Main, Server}

Destroyer(o) == IF o = Server THEN "destroyServer" ELSE "destroyClient"

-----------------------------------------------------------------------------
(* JCThread::Run, executed by p for Target(p).                             *)

RunBeginWithoutRef(p) ==   \* mutant: Run keeps no reference
  /\ pc[p] = "run"
  /\ state' = [state EXCEPT ![Target(p)] = "Running"]
  /\ \/ pc' = [pc EXCEPT ![p] = "wait", ![Target(p)] = "begin"]
     \/ BeginThreadMayFail /\ Goto(p, "wait")
  /\ UNCHANGED <<life, refCount, started, sock, cur>>

(* AddRef, m_State = Running and _beginthread: the object is private to p  *)
(* until _beginthread publishes it.  A failed _beginthread goes unnoticed. *)
RunBegin(p) ==
  /\ pc[p] = "run"
  /\ AddRef(Target(p))
  /\ state' = [state EXCEPT ![Target(p)] = "Running"]
  /\ \/ pc' = [pc EXCEPT ![p] = "wait", ![Target(p)] = "begin"]
     \/ BeginThreadMayFail /\ Goto(p, "wait")
  /\ UNCHANGED <<life, started, sock, cur>>

(* The polling loop: it ends when the object is stopped or started.        *)
RunPoll(p) ==
  /\ pc[p] = "wait"
  /\ TestDestroy(Target(p)) \/ started[Target(p)]
  /\ Goto(p, "release")
  /\ UNCHANGED <<life, refCount, state, started, sock, cur>>

(* JCThread_RemoveRef at the end of Run.                                   *)
RunRelease(p) ==
  /\ pc[p] = "release"
  /\ RemoveRef(p, Target(p), IF p = Main THEN "serve" ELSE "test",
               Destroyer(Target(p)))
  /\ UNCHANGED <<life, state, started, sock, cur>>

-----------------------------------------------------------------------------
(* JCThreadFunction, executed by the thread of object o.                   *)

ThreadWithoutRef(o) ==   \* mutant: the thread keeps no reference on itself
  /\ pc[o] = "begin"
  /\ Goto(o, "mark")
  /\ UNCHANGED <<life, refCount, state, started, sock, cur>>

ThreadAddRef(o) ==
  /\ pc[o] = "begin"
  /\ AddRef(o)
  /\ Goto(o, "mark")
  /\ UNCHANGED <<life, state, started, sock, cur>>

ThreadForgetsMark(o) ==   \* mutant: m_bStarted is not set before Entry()
  /\ pc[o] = "mark"
  /\ Goto(o, IF o = Server THEN "create" ELSE "session")
  /\ UNCHANGED <<life, refCount, state, started, sock, cur>>

(* m_bStarted = true, then into Entry().                                   *)
ThreadMark(o) ==
  /\ pc[o] = "mark"
  /\ started' = [started EXCEPT ![o] = TRUE]
  /\ Goto(o, IF o = Server THEN "create" ELSE "session")
  /\ UNCHANGED <<life, refCount, state, sock, cur>>

(* Entry() has returned: JCThread::Stop, which is not virtual, so that the *)
(* server's own Stop (and its Close) is not what runs here.                *)
ThreadStopSelf(o) ==
  /\ pc[o] = "stopSelf"
  /\ state' = [state EXCEPT ![o] = "Stopped"]
  /\ Goto(o, "unref")
  /\ UNCHANGED <<life, refCount, started, sock, cur>>

ThreadRemoveRef(o) ==
  /\ pc[o] = "unref"
  /\ RemoveRef(o, o, "dead", Destroyer(o))
  /\ UNCHANGED <<life, state, started, sock, cur>>

-----------------------------------------------------------------------------
(* Destructors.                                                            *)

(* The client object that process p destroys.                              *)
Doomed(p) == IF p = Server THEN cur ELSE p

DestroyClientKeepsRef(p) ==   \* mutant: the server's reference is not returned
  /\ pc[p] = "destroyClient"
  /\ life' = [life EXCEPT ![Doomed(p)] = "deleted"]
  /\ Goto(p, IF p = Server THEN "test" ELSE "dead")
  /\ UNCHANGED <<refCount, state, started, sock, cur>>

(* ~MuninNodeClient: close the connection, give the server's reference     *)
(* back; the last one to do so destroys the server from here.              *)
DestroyClient(p) ==
  /\ pc[p] = "destroyClient"
  /\ life' = [life EXCEPT ![Doomed(p)] = "deleted"]
  /\ RemoveRef(p, Server, IF p = Server THEN "test" ELSE "dead",
               "destroyServer")
  /\ UNCHANGED <<state, started, sock, cur>>

(* ~MuninNodeServer: the socket is closed (once more) and the plugin       *)
(* manager deletes the plugins.                                            *)
DestroyServer(p) ==
  /\ pc[p] = "destroyServer"
  /\ life' = [life EXCEPT ![Server] = "deleted"]
  /\ sock' = IF sock = "none" THEN "none" ELSE "closed"
  /\ Goto(p, IF p = Main THEN "done" ELSE "dead")
  /\ UNCHANGED <<refCount, state, started, cur>>

-----------------------------------------------------------------------------
(* CService::Run, in the process main.                                     *)

(* new MuninNodeServer and the reference the service keeps.                *)
NewServer ==
  /\ pc[Main] = "new"
  /\ life' = [life EXCEPT ![Server] = "live"]
  /\ AddRef(Server)
  /\ Goto(Main, "run")
  /\ UNCHANGED <<state, started, sock, cur>>

(* WM_QUIT is received, GetMessage fails, or test mode's 100 s are over.   *)
ServiceQuit ==
  /\ pc[Main] = "serve"
  /\ Goto(Main, "stop")
  /\ UNCHANGED <<life, refCount, state, started, sock, cur>>

StopServerClosesOnly ==   \* mutant: Stop relies on the closed socket alone
  /\ pc[Main] = "stop"
  /\ Goto(Main, "close")
  /\ UNCHANGED <<life, refCount, state, started, sock, cur>>

(* MuninNodeServer::Stop, first half: JCThread::Stop.                      *)
StopServer ==
  /\ pc[Main] = "stop"
  /\ state' = [state EXCEPT ![Server] = "Stopped"]
  /\ Goto(Main, "close")
  /\ UNCHANGED <<life, refCount, started, sock, cur>>

CloseServerMissing ==   \* mutant: Stop relies on the state alone
  /\ pc[Main] = "close"
  /\ Goto(Main, "unref")
  /\ UNCHANGED <<life, refCount, state, started, sock, cur>>

(* Second half: m_ServerSocket.Close.  Nothing is closed when the server   *)
(* thread has not created its socket yet.                                  *)
CloseServer ==
  /\ pc[Main] = "close"
  /\ sock' = IF sock = "none" THEN "none" ELSE "closed"
  /\ Goto(Main, "unref")
  /\ UNCHANGED <<life, refCount, state, started, cur>>

ReleaseServer ==
  /\ pc[Main] = "unref"
  /\ RemoveRef(Main, Server, "done", "destroyServer")
  /\ UNCHANGED <<life, state, started, sock, cur>>

-----------------------------------------------------------------------------
(* MuninNodeServer::Entry, in the process server.                          *)

(* Create, Bind and Listen: each fails on a closed socket and may fail for *)
(* reasons of its own (the port is taken); any failure ends Entry.         *)
SocketStep(label, before, after, next) ==
  /\ pc[Server] = label
  /\ \/ sock = before /\ sock' = after /\ Goto(Server, next)
     \/ UNCHANGED sock /\ Goto(Server, "stopSelf")
  /\ UNCHANGED <<life, refCount, state, started, cur>>

ServerCreate == SocketStep("create", "none", "created", "bind")
ServerBind   == SocketStep("bind", "created", "bound", "listen")
ServerListen == SocketStep("listen", "bound", "listening", "test")

(* The accept loop's condition.                                            *)
ServerTest ==
  /\ pc[Server] = "test"
  /\ Goto(Server, IF TestDestroy(Server) THEN "stopSelf" ELSE "accept")
  /\ UNCHANGED <<life, refCount, state, started, sock, cur>>

(* accept returns a connection from the master.                            *)
ServerAccept(c) ==
  /\ pc[Server] = "accept"
  /\ sock = "listening"
  /\ life[c] = "unborn"
  /\ cur' = c
  /\ Goto(Server, "construct")
  /\ UNCHANGED <<life, refCount, state, started, sock>>

(* accept returns a connection from an address other than MasterAddress.   *)
ServerReject ==
  /\ pc[Server] = "accept"
  /\ sock = "listening"
  /\ Goto(Server, "test")
  /\ UNCHANGED <<life, refCount, state, started, sock, cur>>

(* accept fails, because Stop has closed the socket or for a reason of its *)
(* own: either way the loop ends.                                          *)
ServerAcceptFails ==
  /\ pc[Server] = "accept"
  /\ Goto(Server, "stopSelf")
  /\ UNCHANGED <<life, refCount, state, started, sock, cur>>

NewClientWithoutRef ==   \* mutant: the client does not keep the server alive
  /\ pc[Server] = "construct"
  /\ life' = [life EXCEPT ![cur] = "live"]
  /\ Goto(Server, "run")
  /\ UNCHANGED <<refCount, state, started, sock, cur>>

(* new MuninNodeClient: its constructor takes a reference on the server.   *)
NewClient ==
  /\ pc[Server] = "construct"
  /\ life' = [life EXCEPT ![cur] = "live"]
  /\ AddRef(Server)
  /\ Goto(Server, "run")
  /\ UNCHANGED <<state, started, sock, cur>>

-----------------------------------------------------------------------------
(* MuninNodeClient::Entry, in the process of client c.                     *)

(* A command arrives and is handed to the server's plugin manager.         *)
ClientReceive(c) ==
  /\ pc[c] = "session"
  /\ ~TestDestroy(c)
  /\ Goto(c, "command")
  /\ UNCHANGED <<life, refCount, state, started, sock, cur>>

(* The plugin has answered and the answer has been sent, or not.           *)
ClientReply(c) ==
  /\ pc[c] = "command"
  /\ Goto(c, "session")
  /\ UNCHANGED <<life, refCount, state, started, sock, cur>>

(* quit, a closed or broken connection, or a stopped thread.               *)
ClientLeave(c) ==
  /\ pc[c] = "session"
  /\ Goto(c, "stopSelf")
  /\ UNCHANGED <<life, refCount, state, started, sock, cur>>

-----------------------------------------------------------------------------
RunStep(p) == RunBegin(p) \/ RunPoll(p) \/ RunRelease(p)

ThreadStep(o) ==
  ThreadAddRef(o) \/ ThreadMark(o) \/ ThreadStopSelf(o) \/ ThreadRemoveRef(o)

Destroy(p) == DestroyClient(p) \/ DestroyServer(p)

MainStop == StopServer \/ CloseServer \/ ReleaseServer

ServerOpen == ServerCreate \/ ServerBind \/ ServerListen

Next ==
  \/ NewServer
  \/ ServiceQuit
  \/ MainStop
  \/ \E p \in Starter : RunStep(p)
  \/ \E o \in Object : ThreadStep(o)
  \/ \E p \in Process : Destroy(p)
  \/ ServerOpen
  \/ ServerTest
  \/ \E c \in Clients : ServerAccept(c)
  \/ ServerReject
  \/ ServerAcceptFails
  \/ NewClient
  \/ \E c \in Clients : ClientReceive(c) \/ ClientReply(c) \/ ClientLeave(c)

Spec == Init /\ [][Next]_vars

(* The scheduler runs every thread that can run.  Nothing forces the       *)
(* service to be stopped, a master to connect, send or leave, a plugin to  *)
(* answer, or accept to fail while the socket is open.                     *)
Fairness ==
  /\ WF_vars(NewServer)
  /\ WF_vars(MainStop)
  /\ \A p \in Starter : WF_vars(RunStep(p))
  /\ \A o \in Object : WF_vars(ThreadStep(o))
  /\ \A p \in Process : WF_vars(Destroy(p))
  /\ WF_vars(ServerOpen)
  /\ WF_vars(ServerTest)
  /\ WF_vars(NewClient)
  /\ WF_vars(sock = "closed" /\ ServerAcceptFails)

FairSpec == Spec /\ Fairness

-----------------------------------------------------------------------------
(* Who owns what.  The count of an object stands for these owners: whoever *)
(* created it, the Run() that starts its thread, its own thread and, for   *)
(* the server, every client object that is alive.                          *)

CreatorOwns == pc[Main] \in
  {"run", "wait", "release", "serve", "stop", "close", "unref"}

RunOwns(o) == \E p \in Starter :
  pc[p] \in {"wait", "release"} /\ Target(p) = o

ThreadOwns(o) ==
  \/ pc[o] \notin {"unborn", "begin", "destroyClient", "destroyServer", "dead"}
  \/ o = Server /\ pc[o] = "destroyClient"

Owner == {"creator", "run", "thread"} \cup Clients

Owns(x, o) ==
  \/ x = "creator" /\ o = Server /\ CreatorOwns
  \/ x = "run" /\ RunOwns(o)
  \/ x = "thread" /\ ThreadOwns(o)
  \/ x \in Clients /\ o = Server /\ life[x] = "live"

Owners(o) == {x \in Owner : Owns(x, o)}

(* The objects that the next step of process p reads, writes or destroys.  *)
MainUses == IF pc[Main] \in {"new", "done"} THEN {} ELSE {Server}

ServerUses ==
  IF pc[Server] \in {"unborn", "dead"} THEN {}
  ELSE IF pc[Server] \in {"run", "wait", "release", "destroyClient"}
       THEN {Server, cur} ELSE {Server}

ClientUses(c) ==
  CASE pc[c] \in {"unborn", "dead"} -> {}
    [] pc[c] = "destroyServer"      -> {Server}
    [] OTHER                        -> {c, Server}

Uses(p) ==
  IF p = Main THEN MainUses ELSE IF p = Server THEN ServerUses ELSE ClientUses(p)

-----------------------------------------------------------------------------
(* No thread ever touches an object that has been deleted, or not been     *)
(* made: whatever the order in which the service stops, the accept loop    *)
(* ends, clients leave and Run() returns, the reference counts keep the    *)
(* server and its plugin manager, and each client, alive long enough.      *)
NoUseAfterDelete == \A p \in Process : \A o \in Uses(p) : life[o] = "live"

(* `delete this` is reached by one thread at most for each object.         *)
Destroying(p) ==
  CASE pc[p] = "destroyServer" -> {Server}
    [] pc[p] = "destroyClient" -> {Doomed(p)}
    [] OTHER                   -> {}

DeletedOnce ==
  \A p, q \in Process : Destroying(p) \cap Destroying(q) # {} => p = q

(* Nothing leaks: once every thread has ended and the service has let the  *)
(* server go, the server and every client that was accepted are deleted.   *)
AllEnded ==
  /\ pc[Main] = "done"
  /\ \A o \in Object : pc[o] \in {"unborn", "dead"}

NoLeak == AllEnded => \A o \in Object : life[o] # "live"

(* Once MuninNodeServer::Stop has returned no connection is accepted, even *)
(* if Stop overtook the server thread before it had made its socket.       *)
NoAcceptAfterStop ==
  [][ pc[Main] \in {"unref", "done"} => pc'[Server] # "construct" \/
                                        pc[Server] = "construct" ]_vars

(* The server object implements the promise of a shared object.            *)
Shared == INSTANCE Ownership WITH owners <- Owners(Server), life <- life[Server]

ServerIsShared == Shared!Spec

(* A thread that _beginthread has not made is waited for without an end.   *)
StartFailed(p) == pc[p] = "wait" /\ pc[Target(p)] = "unborn"

(* Stopping the service ends the server thread, wherever it was, unless it *)
(* hangs on a client that could not be started.                            *)
StopEndsServer == pc[Main] = "stop" ~> pc[Server] = "dead" \/ StartFailed(Server)

(* Starting a client holds the accept loop up for a moment only, however   *)
(* long the client stays, unless its thread could not be made.             *)
AcceptLoopResumes == pc[Server] = "run" ~> pc[Server] = "test" \/ StartFailed(Server)
=============================================================================
