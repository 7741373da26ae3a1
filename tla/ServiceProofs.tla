--------------------------- MODULE ServiceProofs ----------------------------
(***************************************************************************)
(* Proofs about the service and its control, for any number of programs    *)
(* that install and uninstall it and any number of starts.                 *)
(***************************************************************************)
EXTENDS Service, TLAPS

(* Where the service thread is says what the SCM knows, what m_status      *)
(* holds and whether the handler may be at work.                           *)
StartingInv ==
  /\ pc[Thread] = "none" => pc[Handler] = "idle" /\ scm = "STOPPED"
  /\ pc[Thread] = "register" => pc[Handler] = "idle" /\ scm = "START_PENDING"
  /\ pc[Thread] \in {"reportStart", "run"} =>
       pc[Handler] = "idle" /\ scm = "START_PENDING" /\ status = "START_PENDING"
  /\ pc[Thread] = "reportRunning" =>
       pc[Handler] = "idle" /\ scm = "START_PENDING" /\ status = "RUNNING"
  /\ pc[Thread] \in {"register", "reportStart", "run", "reportRunning"} =>
       queue # "quit"

(* Until the handler has posted its message only the handler changes what  *)
(* the SCM knows, and afterwards only the service thread.                  *)
RunningInv ==
  pc[Thread] \in {"serve", "wait", "get"} =>
    /\ pc[Handler] = "idle" =>
         \/ scm = "RUNNING" /\ status = "RUNNING" /\ queue # "quit"
         \/ scm = "STOP_PENDING" /\ status = "STOP_PENDING"
    /\ pc[Handler] \in {"log", "write"} => scm = "RUNNING" /\ queue # "quit"
    /\ pc[Handler] = "report" =>
         scm = "RUNNING" /\ status = "STOP_PENDING" /\ queue # "quit"
    /\ pc[Handler] = "post" =>
         scm = "STOP_PENDING" /\ status = "STOP_PENDING" /\ queue # "quit"

StoppingInv ==
  /\ pc[Thread] = "stop" => pc[Handler] = "idle" /\ scm = "STOP_PENDING"
  /\ pc[Thread] = "reportStopped" =>
       pc[Handler] = "idle" /\ scm = "STOP_PENDING" /\ status = "STOPPED"
  /\ pc[Thread] = "exit" => pc[Handler] = "idle" /\ scm \in {"STOPPED", "START_PENDING"}

PhaseInv == StartingInv /\ RunningInv /\ StoppingInv

(* Why an accepted stop is waited for.                                     *)
WaitInv ==
  \A t \in Uninstallers :
    /\ began[t] <= starts
    /\ pc[t] \in {"check", "open", "control"} => t \notin accepted
    /\ pc[t] = "delete" /\ t \in accepted /\ began[t] = starts => scm = "STOPPED"

Inv == TypeOK /\ PhaseInv /\ WaitInv

-----------------------------------------------------------------------------
(* The three processes' labels do not get mixed up.                        *)
LEMMA Processes ==
  /\ Thread # Handler
  /\ \A t \in Tools : t # Thread /\ t # Handler
  /\ Uninstallers \subseteq Tools /\ Installers \subseteq Tools
BY ToolsAssumption DEF Thread, Handler, Tools

(* A process that goes on to a label of its own leaves the labels typed.   *)
LEMMA GotoTyped ==
  ASSUME LabelsOK, NEW p \in Process, NEW l \in Label(p),
         pc' = [pc EXCEPT ![p] = l]
  PROVE  LabelsOK'
<1>1. Label(p) \subseteq ThreadLabel \cup HandlerLabel \cup ToolLabel
  BY DEF Label
<1>2. pc' \in [Process -> ThreadLabel \cup HandlerLabel \cup ToolLabel]
  BY <1>1 DEF LabelsOK
<1>3. \A q \in Process : pc'[q] \in Label(q)
  BY DEF LabelsOK
<1>4. QED
  BY <1>2, <1>3 DEF LabelsOK

(* The invariant at first.                                                 *)
LEMMA InitInv == Init => Inv
<1> SUFFICES ASSUME Init PROVE Inv
  OBVIOUS
<1> USE Processes, StartsAssumption DEF Init
<1>1. TypeOK
  <2>1. LabelsOK
    BY DEF LabelsOK, Label, Process, ThreadLabel, HandlerLabel, ToolLabel
  <2>2. QED
    BY <2>1 DEF TypeOK, State, Process
<1>2. PhaseInv
  BY DEF PhaseInv, StartingInv, RunningInv, StoppingInv, Process
<1>3. WaitInv
  BY DEF WaitInv, Process
<1>4. QED
  BY <1>1, <1>2, <1>3 DEF Inv

(* TypeOK is inductive by itself.  First the labels, then the rest.        *)
LEMMA LabelStep == TypeOK /\ Next => LabelsOK'
<1> SUFFICES ASSUME TypeOK, Next PROVE LabelsOK'
  OBVIOUS
<1> USE Processes DEF TypeOK, Goto, Return, Assign, Report, Process
<1>1. \A l \in ThreadLabel : Goto(Thread, l) => LabelsOK'
  BY GotoTyped DEF Label
<1>2. \A l \in HandlerLabel : Goto(Handler, l) => LabelsOK'
  BY GotoTyped DEF Label
<1>3. \A t \in Tools : \A l \in ToolLabel : Goto(t, l) => LabelsOK'
  BY GotoTyped DEF Label
<1>4. CASE Manager
  BY <1>1, <1>2, <1>4
  DEF Manager, SystemStarts, SystemStops, RemoveEntry, LabelsOK, ThreadLabel,
      HandlerLabel
<1>5. CASE ThreadStep
  <2>1. \E l \in ThreadLabel : Goto(Thread, l)
    BY <1>5 DEF ThreadStep, ThreadLabel, ServiceRegister, ReportStart, RunBegin,
         ReportRunning, Serve, WaitForMessage, GetQuit, ServiceStopped,
         ReportStopped, ProcessExits
  <2>2. QED
    BY <1>1, <2>1
<1>6. CASE HandlerStep
  <2>1. \E l \in HandlerLabel : Goto(Handler, l)
    BY <1>6 DEF HandlerStep, HandlerLabel, HandlerLog, HandlerAssign,
         HandlerReport, HandlerPost
  <2>2. QED
    BY <1>2, <2>1
<1>7. ASSUME NEW t \in Tools, Uninstall(t)
      PROVE  LabelsOK'
  <2>1. CASE UninstallControl(t)
    <3>1. pc' = [[pc EXCEPT ![t] = "asking"] EXCEPT ![Handler] = "log"]
      BY <2>1 DEF UninstallControl
    <3>2. "asking" \in Label(t) /\ "log" \in Label(Handler)
      BY DEF Label, ToolLabel, HandlerLabel
    <3>3. pc' \in [Process -> ThreadLabel \cup HandlerLabel \cup ToolLabel]
      BY <3>1 DEF LabelsOK, HandlerLabel, ToolLabel
    <3>4. \A p \in Process : pc'[p] \in Label(p)
      BY <3>1, <3>2 DEF LabelsOK
    <3>5. QED
      BY <3>3, <3>4 DEF LabelsOK
  <2>2. CASE ~UninstallControl(t)
    <3>1. \E l \in ToolLabel : Goto(t, l)
      BY <1>7, <2>2 DEF Uninstall, UninstallGoesOn, UninstallPollFails, ToolLabel,
           UninstallCheck, UninstallOpen,
           UninstallRefused, UninstallAnswered, UninstallPoll, UninstallDelete
    <3>2. QED
      BY <1>3, <3>1
  <2>3. QED
    BY <2>1, <2>2
<1>8. ASSUME NEW t \in Tools, Install(t)
      PROVE  LabelsOK'
  <2>1. CASE InstallStart(t)
    <3>1. pc' = [[pc EXCEPT ![t] = "done"] EXCEPT ![Thread] = "register"]
      BY <2>1 DEF InstallStart
    <3>2. "done" \in Label(t) /\ "register" \in Label(Thread)
      BY DEF Label, ToolLabel, ThreadLabel
    <3>3. pc' \in [Process -> ThreadLabel \cup HandlerLabel \cup ToolLabel]
      BY <3>1 DEF LabelsOK, ThreadLabel, ToolLabel
    <3>4. \A p \in Process : pc'[p] \in Label(p)
      BY <3>1, <3>2 DEF LabelsOK
    <3>5. QED
      BY <3>3, <3>4 DEF LabelsOK
  <2>2. CASE ~InstallStart(t)
    <3>1. \E l \in ToolLabel : Goto(t, l)
      BY <1>8, <2>2 DEF Install, ToolLabel, InstallCheck, InstallCreate,
           InstallStartFails
    <3>2. QED
      BY <1>3, <3>1
  <2>3. QED
    BY <2>1, <2>2
<1>9. ASSUME NEW t \in Tools, TimePasses(t)
      PROVE  LabelsOK'
  BY <1>9 DEF TimePasses, LabelsOK
<1>10. QED
  BY <1>4, <1>5, <1>6, <1>7, <1>8, <1>9 DEF Next

(* Every step keeps the types.                                             *)
LEMMA TypeStep == TypeOK /\ [Next]_vars => TypeOK'
<1> SUFFICES ASSUME TypeOK, [Next]_vars PROVE TypeOK'
  OBVIOUS
<1> USE Processes, StartsAssumption
    DEF TypeOK, State, Process, LabelsOK, Label, ToolLabel,
        Goto, Return, Assign, Report, processVars, toolVars
<1>1. CASE UNCHANGED vars
  BY <1>1 DEF vars, LabelsOK
<1>2. Next => LabelsOK'
  BY LabelStep
<1>3. CASE Manager
  BY <1>2, <1>3 DEF Next, Manager, SystemStarts, SystemStops, RemoveEntry,
       StartProcess, CanStart
<1>4. CASE ThreadStep
  BY <1>2, <1>4 DEF Next, ThreadStep, ServiceRegister, ReportStart, RunBegin,
       ReportRunning, Serve, WaitForMessage, GetQuit, ServiceStopped,
       ReportStopped, ProcessExits
<1>5. CASE HandlerStep
  BY <1>2, <1>5 DEF Next, HandlerStep, HandlerLog, HandlerAssign, HandlerReport,
       HandlerPost, Posted
<1>6. ASSUME NEW t \in Tools, Uninstall(t)
      PROVE  TypeOK'
  <2>1. CASE UninstallCheck(t)
    BY <1>2, <1>6, <2>1 DEF Next, UninstallCheck
  <2>2. CASE UninstallOpen(t)
    BY <1>2, <1>6, <2>2 DEF Next, UninstallOpen
  <2>3. CASE UninstallControl(t)
    BY <1>2, <1>6, <2>3 DEF Next, UninstallControl
  <2>4. CASE UninstallRefused(t)
    BY <1>2, <1>6, <2>4 DEF Next, UninstallRefused
  <2>5. CASE UninstallAnswered(t)
    BY <1>2, <1>6, <2>5 DEF Next, UninstallAnswered
  <2>6. CASE UninstallPoll(t)
    BY <1>2, <1>6, <2>6 DEF Next, UninstallPoll
  <2>7. CASE UninstallDelete(t)
    BY <1>2, <1>6, <2>7 DEF Next, UninstallDelete
  <2>8. CASE UninstallPollFails(t)
    BY <1>2, <1>6, <2>8 DEF Next, UninstallPollFails
  <2>9. QED
    BY <1>6, <2>1, <2>2, <2>3, <2>4, <2>5, <2>6, <2>7, <2>8 DEF Uninstall, UninstallGoesOn
<1>7. ASSUME NEW t \in Tools, Install(t)
      PROVE  TypeOK'
  <2>1. CASE InstallCheck(t)
    BY <1>2, <1>7, <2>1 DEF Next, InstallCheck
  <2>2. CASE InstallCreate(t)
    BY <1>2, <1>7, <2>2 DEF Next, InstallCreate
  <2>3. CASE InstallStart(t)
    BY <1>2, <1>7, <2>3 DEF Next, InstallStart, StartProcess, CanStart
  <2>4. CASE InstallStartFails(t)
    BY <1>2, <1>7, <2>4 DEF Next, InstallStartFails
  <2>5. QED
    BY <1>7, <2>1, <2>2, <2>3, <2>4 DEF Install
<1>8. ASSUME NEW t \in Tools, TimePasses(t)
      PROVE  TypeOK'
  BY <1>2, <1>8 DEF Next, TimePasses
<1>9. QED
  BY <1>1, <1>3, <1>4, <1>5, <1>6, <1>7, <1>8 DEF Next

(* The phases: the handler is at work only while the service thread serves *)
(* or waits for messages, and posts WM_QUIT when it has nothing left to    *)
(* tell the SCM.                                                           *)
LEMMA PhaseStep == TypeOK /\ PhaseInv /\ [Next]_vars => PhaseInv'
<1> SUFFICES ASSUME TypeOK, PhaseInv, [Next]_vars PROVE PhaseInv'
  OBVIOUS
<1> USE Processes
    DEF TypeOK, LabelsOK, Process, Label, ThreadLabel, HandlerLabel,
        PhaseInv, StartingInv, RunningInv, StoppingInv,
        Goto, Return, Assign, Report, processVars, toolVars
<1>1. CASE Manager
  BY <1>1 DEF Manager, SystemStarts, SystemStops, RemoveEntry, StartProcess,
              CanStart, CanStop
<1>2. CASE ThreadStep
  <2>1. CASE ServiceRegister
    BY <2>1 DEF ServiceRegister
  <2>2. CASE ReportStart
    BY <2>2 DEF ReportStart
  <2>3. CASE RunBegin
    BY <2>3 DEF RunBegin
  <2>4. CASE ReportRunning
    BY <2>4 DEF ReportRunning
  <2>5. CASE Serve
    BY <2>5 DEF Serve
  <2>6. CASE WaitForMessage
    BY <2>6 DEF WaitForMessage
  <2>7. CASE GetQuit
    BY <2>7 DEF GetQuit
  <2>8. CASE ServiceStopped
    BY <2>8 DEF ServiceStopped
  <2>9. CASE ReportStopped
    BY <2>9 DEF ReportStopped
  <2>10. CASE ProcessExits
    BY <2>10 DEF ProcessExits
  <2>11. QED
    BY <1>2, <2>1, <2>2, <2>3, <2>4, <2>5, <2>6, <2>7, <2>8, <2>9, <2>10 DEF ThreadStep
<1>3. CASE HandlerStep
  BY <1>3 DEF HandlerStep, HandlerLog, HandlerAssign, HandlerReport, HandlerPost
<1>4. ASSUME NEW t \in Tools, Uninstall(t)
      PROVE  PhaseInv'
  <2>1. CASE UninstallControl(t)
    BY <2>1 DEF UninstallControl, CanStop
  <2>2. CASE ~UninstallControl(t)
    <3>1. UNCHANGED <<scm, status, queue>>
      BY <1>4, <2>2 DEF Uninstall, UninstallGoesOn, UninstallPollFails, UninstallCheck, UninstallOpen,
           UninstallRefused, UninstallAnswered, UninstallPoll, UninstallDelete
    <3>2. pc'[Thread] = pc[Thread] /\ pc'[Handler] = pc[Handler]
      BY <1>4, <2>2 DEF Uninstall, UninstallGoesOn, UninstallPollFails, UninstallCheck, UninstallOpen,
           UninstallRefused, UninstallAnswered, UninstallPoll, UninstallDelete
    <3>3. QED
      BY <3>1, <3>2
  <2>3. QED
    BY <2>1, <2>2
<1>5. ASSUME NEW t \in Tools, Install(t)
      PROVE  PhaseInv'
  BY <1>5 DEF Install, InstallCheck, InstallCreate, InstallStart,
              InstallStartFails, StartProcess, CanStart
<1>6. ASSUME NEW t \in Tools, TimePasses(t)
      PROVE  PhaseInv'
  BY <1>6 DEF TimePasses
<1>7. CASE UNCHANGED vars
  BY <1>7 DEF vars
<1>8. QED
  BY <1>1, <1>2, <1>3, <1>4, <1>5, <1>6, <1>7 DEF Next

(* Only a start makes a stopped service anything else, and it is counted.  *)
LEMMA StoppedStep ==
  ASSUME TypeOK, PhaseInv, Next
  PROVE  \/ starts' = starts /\ (scm = "STOPPED" => scm' = "STOPPED")
         \/ starts' = starts + 1
<1> USE Processes
    DEF TypeOK, LabelsOK, Process, Label, ThreadLabel, HandlerLabel,
        PhaseInv, StartingInv, RunningInv, StoppingInv,
        Goto, Return, Assign, Report, processVars, toolVars
<1>1. CASE Manager
  BY <1>1 DEF Manager, SystemStarts, SystemStops, RemoveEntry, StartProcess
<1>2. CASE ThreadStep
  BY <1>2 DEF ThreadStep, ServiceRegister, ReportStart, RunBegin, ReportRunning,
       Serve, WaitForMessage, GetQuit, ServiceStopped, ReportStopped, ProcessExits
<1>3. CASE HandlerStep
  BY <1>3 DEF HandlerStep, HandlerLog, HandlerAssign, HandlerReport, HandlerPost
<1>4. ASSUME NEW t \in Tools, Uninstall(t)
      PROVE  starts' = starts /\ scm' = scm
  BY <1>4 DEF Uninstall, UninstallGoesOn, UninstallPollFails,
           UninstallCheck, UninstallOpen, UninstallControl,
       UninstallRefused, UninstallAnswered, UninstallPoll, UninstallDelete
<1>5. ASSUME NEW t \in Tools, Install(t)
      PROVE  (starts' = starts /\ scm' = scm) \/ starts' = starts + 1
  BY <1>5 DEF Install, InstallCheck, InstallCreate, InstallStart,
              InstallStartFails, StartProcess
<1>6. ASSUME NEW t \in Tools, TimePasses(t)
      PROVE  starts' = starts /\ scm' = scm
  BY <1>6 DEF TimePasses
<1>7. QED
  BY <1>1, <1>2, <1>3, <1>4, <1>5, <1>6 DEF Next

(* The wait: a program that has been promised a stop reaches DeleteService *)
(* through a poll that has seen STOPPED.                                   *)
LEMMA WaitStep == Inv /\ [Next]_vars => WaitInv'
<1> SUFFICES ASSUME Inv, [Next]_vars PROVE WaitInv'
  OBVIOUS
<1> USE Processes DEF Inv
<1>1. CASE UNCHANGED vars
  BY <1>1 DEF vars, WaitInv, toolVars
<1>2. CASE Next
  <2>1. /\ starts \in Nat
        /\ \A t \in Uninstallers : began[t] \in Nat
        /\ began \in [Tools -> 0 .. MaxStarts]
        /\ pc \in [Process -> ThreadLabel \cup HandlerLabel \cup ToolLabel]
    BY StartsAssumption DEF TypeOK, LabelsOK
  <2>2. \/ starts' = starts /\ (scm = "STOPPED" => scm' = "STOPPED")
        \/ starts' = starts + 1
    BY <1>2, StoppedStep
  <2>3. ASSUME NEW t \in Uninstallers,
               pc'[t] = pc[t], began'[t] = began[t],
               t \in accepted' <=> t \in accepted
        PROVE  /\ began'[t] <= starts'
               /\ pc'[t] \in {"check", "open", "control"} => t \notin accepted'
               /\ pc'[t] = "delete" /\ t \in accepted' /\ began'[t] = starts' =>
                    scm' = "STOPPED"
    BY <2>1, <2>2, <2>3 DEF WaitInv
  <2>4. CASE Manager \/ ThreadStep \/ HandlerStep
    <3>1. \A t \in Tools : pc'[t] = pc[t]
      BY <2>1, <2>4 DEF Process, Goto, Assign, Report, Manager, SystemStarts,
           SystemStops, RemoveEntry, ThreadStep, ServiceRegister, ReportStart,
           RunBegin, ReportRunning, Serve, WaitForMessage, GetQuit,
           ServiceStopped, ReportStopped, ProcessExits, HandlerStep, HandlerLog,
           HandlerAssign, HandlerReport, HandlerPost
    <3>2. UNCHANGED <<began, accepted>>
      BY <2>4 DEF toolVars, Report, Manager, SystemStarts,
           SystemStops, RemoveEntry, ThreadStep, ServiceRegister, ReportStart,
           RunBegin, ReportRunning, Serve, WaitForMessage, GetQuit,
           ServiceStopped, ReportStopped, ProcessExits, HandlerStep, HandlerLog,
           HandlerAssign, HandlerReport, HandlerPost
    <3>3. QED
      BY <2>3, <3>1, <3>2 DEF WaitInv
  <2>5. ASSUME NEW u \in Tools, Install(u) \/ TimePasses(u)
        PROVE  WaitInv'
    <3>1. \A t \in Uninstallers : pc'[t] = pc[t] \/ (t = u /\ pc'[t] \notin
            {"check", "open", "control", "delete"})
      BY <2>1, <2>5, ToolsAssumption
      DEF Process, Goto, Return, Install, InstallCheck, InstallCreate,
          InstallStart, InstallStartFails, TimePasses
    <3>2. UNCHANGED <<began, accepted>>
      BY <2>5 DEF Install, InstallCheck, InstallCreate, InstallStart,
           InstallStartFails, TimePasses
    <3>3. QED
      BY <2>1, <2>2, <2>3, <3>1, <3>2 DEF WaitInv
  <2>6. ASSUME NEW u \in Tools, Uninstall(u)
        PROVE  WaitInv'
    <3>1. starts' = starts /\ scm' = scm
      BY <2>6 DEF Uninstall, UninstallGoesOn, UninstallPollFails,
           UninstallCheck, UninstallOpen, UninstallControl,
           UninstallRefused, UninstallAnswered, UninstallPoll, UninstallDelete
    <3>2. ASSUME NEW t \in Uninstallers, t # u
          PROVE  /\ pc'[t] = pc[t] /\ began'[t] = began[t]
                 /\ t \in accepted' <=> t \in accepted
      <4>1. pc'[t] = pc[t]
        BY <2>1, <2>6, <3>2 DEF Process, Goto, Return, Uninstall, UninstallGoesOn,
           UninstallPollFails, UninstallCheck, UninstallOpen, UninstallControl, UninstallRefused,
           UninstallAnswered, UninstallPoll, UninstallDelete
      <4>2. began'[t] = began[t]
        BY <2>1, <2>6, <3>2 DEF toolVars, Uninstall, UninstallGoesOn,
           UninstallPollFails, UninstallCheck, UninstallOpen, UninstallControl, UninstallRefused,
           UninstallAnswered, UninstallPoll, UninstallDelete
      <4>3. t \in accepted' <=> t \in accepted
        BY <2>6, <3>2 DEF toolVars, Uninstall, UninstallGoesOn,
           UninstallPollFails, UninstallCheck, UninstallOpen, UninstallControl, UninstallRefused,
           UninstallAnswered, UninstallPoll, UninstallDelete
      <4>4. QED
        BY <4>1, <4>2, <4>3
    <3>3. ASSUME u \in Uninstallers
          PROVE  /\ began'[u] <= starts'
                 /\ pc'[u] \in {"check", "open", "control"} => u \notin accepted'
                 /\ pc'[u] = "delete" /\ u \in accepted' => scm' = "STOPPED"
      <4>1. CASE UninstallCheck(u) \/ UninstallOpen(u) \/ UninstallControl(u)
        BY <2>1, <3>1, <3>3, <4>1 DEF WaitInv, Process, Goto, Return,
             UninstallCheck, UninstallOpen, UninstallControl
      <4>2. CASE UninstallRefused(u) \/ UninstallAnswered(u)
        BY <2>1, <3>1, <3>3, <4>2 DEF WaitInv, Process, Goto, Return, toolVars,
             UninstallRefused, UninstallAnswered
      <4>3. CASE UninstallPoll(u) \/ UninstallPollFails(u) \/ UninstallDelete(u)
        BY <2>1, <3>1, <3>3, <4>3 DEF WaitInv, Process, Goto, Return,
             UninstallPoll, UninstallPollFails, UninstallDelete
      <4>4. QED
        BY <2>6, <4>1, <4>2, <4>3 DEF Uninstall, UninstallGoesOn
    <3>4. QED
      BY <2>3, <3>2, <3>3 DEF WaitInv
  <2>7. QED
    BY <1>2, <2>4, <2>5, <2>6 DEF Next
<1>3. QED
  BY <1>1, <1>2

(* Every step keeps the invariant.                                         *)
LEMMA InvStep == Inv /\ [Next]_vars => Inv'
BY TypeStep, PhaseStep, WaitStep DEF Inv

-----------------------------------------------------------------------------
(* The inductive invariant holds in every reachable state.                 *)
THEOREM ServiceInvariance == Spec => []Inv
<1>1. QED
  BY InitInv, InvStep, PTL DEF Spec

(* Type correctness of the service, its handler and the programs that      *)
(* install and uninstall it.                                               *)
THEOREM ServiceTyped == Spec => []TypeOK
<1>1. Inv => TypeOK
  BY DEF Inv
<1>2. QED
  BY <1>1, ServiceInvariance, PTL

(* CService::Uninstall deletes no service that accepted to stop and has    *)
(* not stopped, unless it has been started again.                          *)
THEOREM DeletesStoppedHolds == Spec => []DeletesStopped
<1>1. Inv => DeletesStopped
  BY DEF Inv, WaitInv, DeletesStopped
<1>2. QED
  BY <1>1, ServiceInvariance, PTL

(* One step, taken anywhere in the service, its handler or a program.      *)
LEMMA ForwardStep ==
  ASSUME Inv, [Next]_vars
  PROVE  [scm' # scm => <<scm, scm'>> \in Forward]_scm
<1> SUFFICES ASSUME Next, scm' # scm PROVE <<scm, scm'>> \in Forward
  BY DEF vars
<1> USE Processes
    DEF Inv, TypeOK, LabelsOK, Process, Label, HandlerLabel, ThreadLabel,
        PhaseInv, StartingInv, RunningInv, StoppingInv, Forward,
        Goto, Assign, Report, processVars, toolVars
<1>1. CASE Manager
  BY <1>1 DEF Manager, SystemStarts, SystemStops, RemoveEntry, StartProcess,
              CanStart
<1>2. CASE ThreadStep
  BY <1>2 DEF ThreadStep, ServiceRegister, ReportStart, RunBegin, ReportRunning,
       Serve, WaitForMessage, GetQuit, ServiceStopped, ReportStopped, ProcessExits
<1>3. CASE HandlerStep
  BY <1>3 DEF HandlerStep, HandlerLog, HandlerAssign, HandlerReport, HandlerPost
<1>4. ASSUME NEW t \in Tools, Uninstall(t)
      PROVE  <<scm, scm'>> \in Forward
  BY <1>4 DEF Uninstall, UninstallGoesOn, UninstallPollFails,
           UninstallCheck, UninstallOpen, UninstallControl,
       UninstallRefused, UninstallAnswered, UninstallPoll, UninstallDelete
<1>5. ASSUME NEW t \in Tools, Install(t)
      PROVE  <<scm, scm'>> \in Forward
  BY <1>5 DEF Install, InstallCheck, InstallCreate, InstallStart,
              InstallStartFails, StartProcess, CanStart
<1>6. ASSUME NEW t \in Tools, TimePasses(t)
      PROVE  <<scm, scm'>> \in Forward
  BY <1>6 DEF TimePasses
<1>7. QED
  BY <1>1, <1>2, <1>3, <1>4, <1>5, <1>6 DEF Next

(* Two threads report the state through one unguarded variable, yet the    *)
(* SCM only ever sees it go forward.                                       *)
THEOREM StatusForwardHolds == Spec => StatusForward
<1>1. Inv /\ [Next]_vars => [scm' # scm => <<scm, scm'>> \in Forward]_scm
  BY ForwardStep
<1>2. QED
  BY <1>1, ServiceInvariance, PTL DEF Spec, StatusForward
=============================================================================
