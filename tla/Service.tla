------------------------------ MODULE Service -------------------------------
(***************************************************************************)
(* munin-node as a Windows service: the service thread (ServiceMain and    *)
(* Run), the control handler, which the dispatcher thread executes, the    *)
(* programs that install and uninstall the service, and the service        *)
(* control manager (SCM) they all talk to.                                 *)
(*                                                                         *)
(* Handler and service thread share m_status, m_dwThreadID and a message   *)
(* queue.  What Run does with the server is module NodeServer's subject:   *)
(* here it is one step at its beginning and one at its end.                *)
(*                                                                         *)
(* A label pc[p] names the next step of p.                                 *)
(***************************************************************************)
EXTENDS Naturals, FiniteSets

CONSTANTS
  Installers,    \* runs of munin-node -install
  Uninstallers,  \* runs of munin-node -uninstall
  MaxStarts      \* bound: how often the service is started

Thread  == "thread"    \* the service thread
Handler == "handler"   \* the dispatcher thread, as far as it executes Handler

Tools == Installers \cup Uninstallers

ASSUME ToolsAssumption ==
  /\ IsFiniteSet(Tools)
  /\ Installers \cap Uninstallers = {}
  /\ {"thread", "handler"} \cap Tools = {}

ASSUME StartsAssumption == MaxStarts \in Nat

VARIABLES
  pc,         \* next step of the service thread, the handler and the tools
  db,         \* the SCM's entry: "none", "installed" or "marked" for deletion
  scm,        \* the state the SCM knows
  status,     \* m_status.dwCurrentState
  threadId,   \* m_dwThreadID: 0, or 1 for the service thread's
  queue,      \* the service thread's message queue: "none", "empty" or "quit"
  starts,     \* how often the SCM has started the service
  began,      \* of each tool: starts when it opened the service
  accepted,   \* the tools whose stop request the service has taken
  late,       \* the tools for which dwTimeout has gone by
  result      \* of each tool: "none", "TRUE" or "FALSE"

processVars == <<status, threadId, queue>>
toolVars    == <<began, accepted, late, result>>
vars        == <<pc, db, scm, starts, processVars, toolVars>>

State == {"STOPPED", "START_PENDING", "RUNNING", "STOP_PENDING"}

ThreadLabel ==
  {"none", "register", "reportStart", "run", "reportRunning", "serve", "wait",
   "get", "stop", "reportStopped", "exit"}

HandlerLabel == {"idle", "log", "write", "report", "post"}

ToolLabel ==
  {"check", "open", "control", "asking", "poll", "delete", "create", "start",
   "done"}

Process == {Thread, Handler} \cup Tools

Label(p) ==
  IF p = Thread THEN ThreadLabel ELSE IF p = Handler THEN HandlerLabel ELSE ToolLabel

LabelsOK ==
  /\ pc \in [Process -> ThreadLabel \cup HandlerLabel \cup ToolLabel]
  /\ \A p \in Process : pc[p] \in Label(p)

TypeOK ==
  /\ LabelsOK
  /\ db \in {"none", "installed", "marked"}
  /\ scm \in State /\ status \in State
  /\ threadId \in {0, 1} /\ queue \in {"none", "empty", "quit"}
  /\ starts \in 0 .. MaxStarts
  /\ began \in [Tools -> 0 .. MaxStarts]
  /\ accepted \subseteq Tools /\ late \subseteq Tools
  /\ result \in [Tools -> {"none", "TRUE", "FALSE"}]
  /\ \A t \in Tools : pc[t] = "done" <=> result[t] # "none"

(* A machine without the service, or one where it is installed.            *)
Init ==
  /\ pc = [p \in Process |->
             IF p = Thread THEN "none" ELSE IF p = Handler THEN "idle" ELSE "check"]
  /\ db \in {"none", "installed"}
  /\ scm = "STOPPED" /\ status = "STOPPED"
  /\ threadId = 0 /\ queue = "none"
  /\ starts = 0
  /\ began = [t \in Tools |-> 0]
  /\ accepted = {} /\ late = {}
  /\ result = [t \in Tools |-> "none"]

-----------------------------------------------------------------------------
Goto(p, label) == pc' = [pc EXCEPT ![p] = label]

Return(t, value) == Goto(t, "done") /\ result' = [result EXCEPT ![t] = value]

(* The first half of CService::SetServiceStatus, the assignment.           *)
Assign(p, label, state, next) ==
  /\ pc[p] = label
  /\ status' = state
  /\ Goto(p, next)

(* Its second half: the SCM is told what m_status holds by now.            *)
Report(p, label, next) ==
  /\ pc[p] = label
  /\ scm' = status
  /\ Goto(p, next)
  /\ UNCHANGED <<db, starts, processVars, toolVars>>

-----------------------------------------------------------------------------
(* The service control manager.                                            *)

CanStart ==
  /\ db = "installed" /\ scm = "STOPPED" /\ pc[Thread] = "none"
  /\ starts < MaxStarts

(* A new process: main() initialises m_status and calls the dispatcher,    *)
(* which creates the service thread.                                       *)
StartProcess ==
  /\ CanStart
  /\ starts' = starts + 1
  /\ scm' = "START_PENDING" /\ status' = "STOPPED"
  /\ threadId' = 0 /\ queue' = "none"

(* At boot, or because an administrator says so.                           *)
SystemStarts ==
  /\ StartProcess
  /\ Goto(Thread, "register")
  /\ UNCHANGED <<db, toolVars>>

(* A stop request goes to the handler of a service that runs; in every     *)
(* other state it is refused.                                              *)
CanStop == scm = "RUNNING" /\ pc[Handler] = "idle"

SystemStops ==
  /\ CanStop
  /\ Goto(Handler, "log")
  /\ UNCHANGED <<db, scm, starts, processVars, toolVars>>

HandleOpen(t) == pc[t] \in {"control", "asking", "poll", "delete", "start"}

(* An entry marked for deletion goes when nothing needs it any more.       *)
RemoveEntry ==
  /\ db = "marked" /\ scm = "STOPPED"
  /\ \A t \in Tools : ~HandleOpen(t)
  /\ db' = "none"
  /\ UNCHANGED <<pc, scm, starts, processVars, toolVars>>

-----------------------------------------------------------------------------
(* ServiceMain and Run, in the service thread.                             *)

(* RegisterServiceCtrlHandler may fail: ServiceMain returns.               *)
ServiceRegister ==
  /\ \E next \in {"reportStart", "exit"} :
       Assign(Thread, "register", "START_PENDING", next)
  /\ UNCHANGED <<db, scm, starts, threadId, queue, toolVars>>

ReportStart == Report(Thread, "reportStart", "run")

RunBeginForgetsId ==   \* mutant: m_dwThreadID is not set
  /\ Assign(Thread, "run", "RUNNING", "reportRunning")
  /\ UNCHANGED <<db, scm, starts, threadId, queue, toolVars>>

RunBegin ==
  /\ Assign(Thread, "run", "RUNNING", "reportRunning")
  /\ threadId' = 1
  /\ UNCHANGED <<db, scm, starts, queue, toolVars>>

ReportRunning == Report(Thread, "reportRunning", "serve")

(* The server and its plugins are made and its thread started; a plugin's  *)
(* library may, or may not, give the service thread its message queue.     *)
Serve ==
  /\ pc[Thread] = "serve"
  /\ queue' \in {"none", "empty"}
  /\ Goto(Thread, "wait")
  /\ UNCHANGED <<db, scm, starts, status, threadId, toolVars>>

(* GetMessage makes the queue if there is none.                            *)
WaitForMessage ==
  /\ pc[Thread] = "wait"
  /\ queue' = IF queue = "none" THEN "empty" ELSE queue
  /\ Goto(Thread, "get")
  /\ UNCHANGED <<db, scm, starts, status, threadId, toolVars>>

(* WM_QUIT: the loop ends, the server is stopped and Run returns.  (The    *)
(* loop's other way out, -1, is for an invalid window or message.)         *)
GetQuit ==
  /\ pc[Thread] = "get" /\ queue = "quit"
  /\ queue' = "empty"
  /\ Goto(Thread, "stop")
  /\ UNCHANGED <<db, scm, starts, status, threadId, toolVars>>

ServiceStopped ==
  /\ Assign(Thread, "stop", "STOPPED", "reportStopped")
  /\ UNCHANGED <<db, scm, starts, threadId, queue, toolVars>>

ReportStopped == Report(Thread, "reportStopped", "exit")

(* The dispatcher returns when the handler has, and main() after it.       *)
ProcessExits ==
  /\ pc[Thread] = "exit" /\ pc[Handler] = "idle"
  /\ scm' = "STOPPED"
  /\ Goto(Thread, "none")
  /\ UNCHANGED <<db, starts, processVars, toolVars>>

-----------------------------------------------------------------------------
(* Handler, SERVICE_CONTROL_STOP, in the dispatcher thread.                *)

(* PostThreadMessage, whose result is not looked at: for no thread, or one *)
(* without a queue, it fails and the message is lost.                      *)
Posted == IF threadId = 1 /\ queue # "none" THEN "quit" ELSE queue

HandlerQuitsFirst ==   \* mutant: WM_QUIT is posted before the state is set
  /\ pc[Handler] = "log"
  /\ queue' = Posted
  /\ Goto(Handler, "write")
  /\ UNCHANGED <<db, scm, starts, status, threadId, toolVars>>

HandlerLog ==
  /\ pc[Handler] = "log"
  /\ Goto(Handler, "write")
  /\ UNCHANGED <<db, scm, starts, processVars, toolVars>>

HandlerAssign ==
  /\ Assign(Handler, "write", "STOP_PENDING", "report")
  /\ UNCHANGED <<db, scm, starts, threadId, queue, toolVars>>

HandlerReport == Report(Handler, "report", "post")

HandlerPost ==
  /\ pc[Handler] = "post"
  /\ queue' = Posted
  /\ Goto(Handler, "idle")
  /\ UNCHANGED <<db, scm, starts, status, threadId, toolVars>>

-----------------------------------------------------------------------------
(* CService::Uninstall.  Every call of the service control manager may     *)
(* fail.                                                                   *)

(* IsInstalled, which opens the entry and closes it again, takes a failure *)
(* for a service that is not installed.                                    *)
UninstallCheck(t) ==
  /\ t \in Uninstallers /\ pc[t] = "check"
  /\ \/ Return(t, "TRUE")
     \/ db # "none" /\ Goto(t, "open") /\ UNCHANGED result
  /\ UNCHANGED <<db, scm, starts, processVars, began, accepted, late>>

(* OpenSCManager and OpenService.                                          *)
UninstallOpen(t) ==
  /\ pc[t] = "open"
  /\ \/ Return(t, "FALSE")
     \/ db # "none" /\ Goto(t, "control") /\ UNCHANGED result
  /\ began' = [began EXCEPT ![t] = starts]
  /\ UNCHANGED <<db, scm, starts, processVars, accepted, late>>

(* ControlService: the handler gets the request and the caller waits for   *)
(* it to return.                                                           *)
UninstallControl(t) ==
  /\ pc[t] = "control"
  /\ CanStop
  /\ pc' = [pc EXCEPT ![t] = "asking", ![Handler] = "log"]
  /\ accepted' = accepted \cup {t}
  /\ UNCHANGED <<db, scm, starts, processVars, began, late, result>>

(* The request is refused, as that to a service that does not run is:      *)
(* Uninstall goes on without waiting.                                      *)
UninstallRefused(t) ==
  /\ pc[t] = "control"
  /\ Goto(t, "delete")
  /\ UNCHANGED <<db, scm, starts, processVars, toolVars>>

UninstallAnsweredDeletes(t) ==   \* mutant: an accepted request is enough
  /\ pc[t] = "asking" /\ pc[Handler] = "idle"
  /\ Goto(t, "delete")
  /\ UNCHANGED <<db, scm, starts, processVars, toolVars>>

UninstallAnswered(t) ==
  /\ pc[t] = "asking" /\ pc[Handler] = "idle"
  /\ Goto(t, IF scm = "STOPPED" THEN "delete" ELSE "poll")
  /\ UNCHANGED <<db, scm, starts, processVars, toolVars>>

(* GetTickCount() - dwStartTime > dwTimeout, from some moment on.          *)
TimePasses(t) ==
  /\ pc[t] = "poll" /\ t \notin late
  /\ late' = late \cup {t}
  /\ UNCHANGED <<pc, db, scm, starts, processVars, began, accepted, result>>

UninstallPollForever(t) ==   \* mutant: no timeout
  /\ pc[t] = "poll"
  /\ scm = "STOPPED"
  /\ Goto(t, "delete")
  /\ UNCHANGED <<db, scm, starts, processVars, toolVars>>

(* QueryServiceStatus; while the service stops, one poll is like another.  *)
(* Both handles stay open on a timeout, until the program ends.            *)
UninstallPoll(t) ==
  /\ pc[t] = "poll"
  /\ \/ scm = "STOPPED" /\ Goto(t, "delete") /\ UNCHANGED result
     \/ scm # "STOPPED" /\ t \in late /\ Return(t, "FALSE")
  /\ UNCHANGED <<db, scm, starts, processVars, began, accepted, late>>

(* QueryServiceStatus fails, with both handles open.                       *)
UninstallPollFails(t) ==
  /\ pc[t] = "poll"
  /\ Return(t, "FALSE")
  /\ UNCHANGED <<db, scm, starts, processVars, began, accepted, late>>

(* DeleteService marks the entry, once.                                    *)
UninstallDelete(t) ==
  /\ pc[t] = "delete"
  /\ \/ db = "installed" /\ db' = "marked" /\ Return(t, "TRUE")
     \/ UNCHANGED db /\ Return(t, "FALSE")
  /\ UNCHANGED <<scm, starts, processVars, began, accepted, late>>

-----------------------------------------------------------------------------
(* CService::Install.                                                      *)

InstallCheck(t) ==
  /\ t \in Installers /\ pc[t] = "check"
  /\ \/ db # "none" /\ Return(t, "TRUE")
     \/ Goto(t, "create") /\ UNCHANGED result
  /\ UNCHANGED <<db, scm, starts, processVars, began, accepted, late>>

(* OpenSCManager and CreateService.                                        *)
InstallCreate(t) ==
  /\ pc[t] = "create"
  /\ \/ db = "none" /\ db' = "installed" /\ Goto(t, "start") /\ UNCHANGED result
     \/ UNCHANGED db /\ Return(t, "FALSE")
  /\ UNCHANGED <<scm, starts, processVars, began, accepted, late>>

(* StartService, whose result is not looked at either.                     *)
InstallStart(t) ==
  /\ pc[t] = "start"
  /\ StartProcess
  /\ pc' = [pc EXCEPT ![t] = "done", ![Thread] = "register"]
  /\ result' = [result EXCEPT ![t] = "TRUE"]
  /\ UNCHANGED <<db, began, accepted, late>>

InstallStartFails(t) ==
  /\ pc[t] = "start"
  /\ Return(t, "TRUE")
  /\ UNCHANGED <<db, scm, starts, processVars, began, accepted, late>>

-----------------------------------------------------------------------------
ThreadStep ==
  \/ ServiceRegister \/ ReportStart \/ RunBegin \/ ReportRunning \/ Serve
  \/ WaitForMessage \/ GetQuit \/ ServiceStopped \/ ReportStopped \/ ProcessExits

HandlerStep == HandlerLog \/ HandlerAssign \/ HandlerReport \/ HandlerPost

UninstallGoesOn(t) ==
  \/ UninstallCheck(t) \/ UninstallOpen(t) \/ UninstallControl(t)
  \/ UninstallRefused(t) \/ UninstallAnswered(t) \/ UninstallPoll(t)
  \/ UninstallDelete(t)

Uninstall(t) == UninstallGoesOn(t) \/ UninstallPollFails(t)

Install(t) ==
  InstallCheck(t) \/ InstallCreate(t) \/ InstallStart(t) \/ InstallStartFails(t)

Manager == SystemStarts \/ SystemStops \/ RemoveEntry

Next ==
  \/ Manager \/ ThreadStep \/ HandlerStep
  \/ \E t \in Tools : Uninstall(t) \/ Install(t) \/ TimePasses(t)

Spec == Init /\ [][Next]_vars

(* Every thread runs when it can, and time goes by; nobody has to start or *)
(* to stop the service, and a query need not fail for Uninstall to return. *)
FairSpec ==
  /\ Spec
  /\ WF_vars(ThreadStep) /\ WF_vars(HandlerStep)
  /\ \A t \in Tools :
       WF_vars(UninstallGoesOn(t)) /\ WF_vars(Install(t)) /\ WF_vars(TimePasses(t))

-----------------------------------------------------------------------------
(* What the SCM is told goes forward only, although two threads tell it,   *)
(* through one variable they share without a lock: a stop that is pending  *)
(* never becomes running again, and stopped never pending.                 *)
Forward ==
  {<<"STOPPED", "START_PENDING">>, <<"START_PENDING", "RUNNING">>,
   <<"START_PENDING", "STOPPED">>, <<"RUNNING", "STOP_PENDING">>,
   <<"STOP_PENDING", "STOPPED">>}

StatusForward == [][scm' # scm => <<scm, scm'>> \in Forward]_scm

(* A stop request that reaches a service with a message queue stops it.    *)
StopIsHeard == pc[Handler] = "log" /\ queue # "none" ~> scm = "STOPPED"

(* Uninstall comes to an end, even if the service never stops.             *)
UninstallReturns ==
  \A t \in Uninstallers : pc[t] = "open" ~> pc[t] = "done"

(* Uninstall deletes no service that has accepted to stop and has not      *)
(* stopped yet, unless somebody has started it again.                      *)
DeletesStopped ==
  \A t \in Uninstallers :
    pc[t] = "delete" /\ t \in accepted /\ began[t] = starts => scm = "STOPPED"
=============================================================================
