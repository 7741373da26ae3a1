--------------------------- MODULE ExternalPlugin ---------------------------
(***************************************************************************)
(* One call of ExternalMuninNodePlugin::Run: a PluginPipe (a CConsolePipe  *)
(* with a buffer) on the stack of the calling thread, the command it       *)
(* launches, and the listener thread that reads the command's output.      *)
(*                                                                         *)
(* The "runner" is the thread that called Run.  The "listener" executes    *)
(* CConsolePipe::ListenerThreadProc on the runner's object.  cmd.exe is    *)
(* the process whose handle the pipe keeps; the script it runs is another  *)
(* process, which inherited the write end of the pipe too.                 *)
(*                                                                         *)
(* Outputs are numbered chunks: chunk n is the n-th the script writes.     *)
(* A label pc[p] names the next step of p.                                 *)
(***************************************************************************)
EXTENDS Integers, Sequences, SequencesExt

CONSTANTS
  Timeouts,     \* the values m_TimeoutSec * 10 may have; 0 waits for ever
  MaxChunks,    \* how many chunks a script writes at most
  PipeCapacity  \* how many unread chunks the pipe holds

ASSUME TimeoutsAssumption == Timeouts \subseteq Nat
ASSUME ChunksAssumption   == MaxChunks \in Nat /\ PipeCapacity \in Nat \ {0}

Runner   == "runner"
Listener == "listener"

(* m_hListenerThread, m_hChildProcess, m_hInputWrite and m_hOutputRead, in *)
(* the order in which Cleanup goes through them.                           *)
Handles == <<"thread", "child", "input", "output">>
Handle  == Range(Handles)

VARIABLES
  pc,       \* next step of the runner and of the listener
  at,       \* how far each of them is in Cleanup: step 1 to 8, 9 when it is through
  loops,    \* polls left; meaningful when timeout > 0
  timeout,  \* m_TimeoutSec * 10
  life,     \* the pipe object: "whole", "base" once ~PluginPipe is through, "gone"
  field,    \* of each handle: does the member hold it?
  closes,   \* of each handle: -1 before it is opened, then the calls of CloseHandle
  cmd,      \* cmd.exe: "none", "running", "ending" once it is being terminated, "exited",
            \* or "exited259" (STILL_ACTIVE)
  script,   \* the script: "none", "running" or "exited"
  written,  \* chunks written so far
  due,      \* chunks written when cmd.exe ended
  pipe,     \* chunks in the pipe
  chunk,    \* what the listener has read and not delivered
  buffer,   \* m_Buffer
  result,   \* what Run returns
  timedOut, \* has Run given the command up?
  refused   \* has TerminateProcess failed?

vars == <<pc, at, loops, timeout, life, field, closes, cmd, script, written,
          due, pipe, chunk, buffer, result, timedOut, refused>>

RunnerLabel ==
  {"open", "launch", "listen", "keep", "poll", "check", "break", "output",
   "destroy", "cleanup", "done", "aborted"}

ListenerLabel ==
  {"none", "start", "read", "append", "close", "null", "notify", "cleanup",
   "ended", "killed", "aborted"}

Chunks == 1 .. MaxChunks

TypeOK ==
  /\ pc[Runner] \in RunnerLabel /\ pc[Listener] \in ListenerLabel
  /\ at \in [{Runner, Listener} -> 1 .. 9]
  /\ timeout \in Timeouts /\ loops \in 0 .. timeout
  /\ life \in {"whole", "base", "gone"}
  /\ field \in [Handle -> BOOLEAN]
  /\ closes \in [Handle -> -1 .. 3]
  /\ cmd \in {"none", "running", "ending", "exited", "exited259"}
  /\ script \in {"none", "running", "exited"}
  /\ written \in 0 .. MaxChunks /\ due \in 0 .. written
  /\ pipe \in Seq(Chunks) /\ Len(pipe) <= PipeCapacity
  /\ chunk \in Chunks \cup {0}
  /\ IsPrefix(buffer, [i \in 1 .. written |-> i])
  /\ IsPrefix(result, buffer)
  /\ timedOut \in BOOLEAN /\ refused \in BOOLEAN

Init ==
  /\ pc = [p \in {Runner, Listener} |-> IF p = Runner THEN "open" ELSE "none"]
  /\ at = [p \in {Runner, Listener} |-> 1]
  /\ timeout \in Timeouts /\ loops = timeout
  /\ life = "whole"
  /\ field = [h \in Handle |-> FALSE]
  /\ closes = [h \in Handle |-> -1]
  /\ cmd = "none" /\ script = "none"
  /\ written = 0 /\ due = 0
  /\ pipe = <<>> /\ chunk = 0 /\ buffer = <<>> /\ result = <<>>
  /\ timedOut = FALSE /\ refused = FALSE

-----------------------------------------------------------------------------
(* Helpers.                                                                *)

childVars == <<cmd, script, written, due, refused>>
dataVars  == <<pipe, chunk, buffer>>
waitVars  == <<loops, timeout, timedOut>>

Goto(p, label) == pc' = [pc EXCEPT ![p] = label]

Valid(h) == closes[h] = 0

(* The members of hs now hold freshly opened handles.                      *)
Open(hs) ==
  /\ field' = [h \in Handle |-> field[h] \/ h \in hs]
  /\ closes' = [h \in Handle |-> IF h \in hs THEN 0 ELSE closes[h]]

ListenerAlive == pc[Listener] \notin {"none", "ended", "killed", "aborted"}

CmdLives == cmd \in {"running", "ending"}

(* IsChildRunning: GetExitCodeProcess gives STILL_ACTIVE also for a        *)
(* process that has ended with that very exit code.                        *)
IsChildRunning ==
  field["child"] /\ Valid("child") /\ (CmdLives \/ cmd = "exited259")

Writers == (IF CmdLives THEN {"cmd"} ELSE {}) \cup
           (IF script = "running" THEN {"script"} ELSE {})

-----------------------------------------------------------------------------
(* Execute, in the runner.                                                 *)

(* The two pipes and the duplicates the parent keeps.                      *)
OpenPipes ==
  /\ pc[Runner] = "open"
  /\ Open({"input", "output"})
  /\ Goto(Runner, "launch")
  /\ UNCHANGED <<at, life, childVars, dataVars, waitVars, result>>

(* One of the five calls fails: the output end may be kept already.        *)
OpenPipesFails ==
  /\ pc[Runner] = "open"
  /\ \E hs \in {{}, {"output"}} : Open(hs)
  /\ Goto(Runner, "cleanup")
  /\ UNCHANGED <<at, life, childVars, dataVars, waitVars, result>>

(* LaunchRedirected: cmd.exe runs the script, both hold the write end.     *)
Launch ==
  /\ pc[Runner] = "launch"
  /\ Open({"child"})
  /\ cmd' = "running" /\ script' = "running"
  /\ Goto(Runner, "listen")
  /\ UNCHANGED <<at, life, written, due, refused, dataVars, waitVars, result>>

LaunchFails ==
  /\ pc[Runner] = "launch"
  /\ Goto(Runner, "cleanup")
  /\ UNCHANGED <<at, life, field, closes, childVars, dataVars, waitVars, result>>

(* CreateThread: the listener runs before its handle has been assigned.    *)
StartListener ==
  /\ pc[Runner] = "listen"
  /\ closes' = [closes EXCEPT !["thread"] = 0]
  /\ pc' = [pc EXCEPT ![Runner] = "keep", ![Listener] = "start"]
  /\ UNCHANGED <<at, life, field, childVars, dataVars, waitVars, result>>

StartListenerFails ==
  /\ pc[Runner] = "listen"
  /\ Goto(Runner, "cleanup")
  /\ UNCHANGED <<at, life, field, closes, childVars, dataVars, waitVars, result>>

(* m_hListenerThread = the handle CreateThread has returned.               *)
KeepHandle ==
  /\ pc[Runner] = "keep"
  /\ field' = [field EXCEPT !["thread"] = TRUE]
  /\ Goto(Runner, "poll")
  /\ UNCHANGED <<at, life, closes, childVars, dataVars, waitVars, result>>

-----------------------------------------------------------------------------
(* The polling loops of Run.                                               *)

PollForever ==   \* mutant: the polls are not counted
  /\ pc[Runner] = "poll"
  /\ IsChildRunning
  /\ timeout = 0 \/ loops > 0
  /\ UNCHANGED vars

(* Sleep(100) and, with a timeout, one poll less.                          *)
PollAgain ==
  /\ pc[Runner] = "poll"
  /\ IsChildRunning
  /\ \/ timeout = 0 /\ UNCHANGED loops
     \/ loops > 0 /\ loops' = loops - 1
  /\ UNCHANGED <<pc, at, life, field, closes, childVars, dataVars, timeout,
                 timedOut, result>>

(* The loop ends; with a timeout the child is looked at once more.         *)
PollEnds ==
  /\ pc[Runner] = "poll"
  /\ IsChildRunning => timeout > 0 /\ loops = 0
  /\ Goto(Runner, IF timeout = 0 THEN "output" ELSE "check")
  /\ UNCHANGED <<at, life, field, closes, childVars, dataVars, waitVars, result>>

CheckLoopsOnly ==   \* mutant: the child is not looked at after the loop
  /\ pc[Runner] = "check"
  /\ Goto(Runner, "output")
  /\ UNCHANGED <<at, life, field, closes, childVars, dataVars, waitVars, result>>

CheckChild ==
  /\ pc[Runner] = "check"
  /\ timedOut' = IsChildRunning
  /\ Goto(Runner, IF IsChildRunning THEN "break" ELSE "output")
  /\ UNCHANGED <<at, life, field, closes, childVars, dataVars, loops, timeout,
                 result>>

BreakOnly ==   \* mutant: Break cleans up without ending the child
  /\ pc[Runner] = "break"
  /\ Goto(Runner, "cleanup")
  /\ UNCHANGED <<at, life, field, closes, childVars, dataVars, waitVars, result>>

(* Break: TerminateProcess, on cmd.exe and not on the script that runs,    *)
(* begins to end it, or fails, which nobody looks at; then Cleanup.        *)
Break ==
  /\ pc[Runner] = "break"
  /\ IF IsChildRunning /\ cmd = "running"
     THEN \/ cmd' = "ending" /\ UNCHANGED refused
          \/ refused' = TRUE /\ UNCHANGED cmd
     ELSE UNCHANGED <<cmd, refused>>
  /\ Goto(Runner, "cleanup")
  /\ UNCHANGED <<at, life, field, closes, script, written, due, dataVars, waitVars,
                 result>>

GetOutput ==
  /\ pc[Runner] = "output"
  /\ result' = buffer
  /\ Goto(Runner, "destroy")
  /\ UNCHANGED <<at, life, field, closes, childVars, dataVars, waitVars>>

DestroyWithoutCleanup ==   \* mutant: the destructor relies on the listener
  /\ pc[Runner] = "destroy"
  /\ life' = "gone"
  /\ Goto(Runner, "done")
  /\ UNCHANGED <<at, field, closes, childVars, dataVars, waitVars, result>>

(* ~PluginPipe destroys the buffer and its lock before ~CConsolePipe calls *)
(* Cleanup.                                                                *)
Destroy ==
  /\ pc[Runner] = "destroy"
  /\ life' = "base"
  /\ Goto(Runner, "cleanup")
  /\ UNCHANGED <<at, field, closes, childVars, dataVars, waitVars, result>>

-----------------------------------------------------------------------------
(* Cleanup, executed by the runner (after a failure, in Break and in the   *)
(* destructor) and by the listener when it ends.                           *)

CleanupHandle(p) == Handles[(at[p] + 1) \div 2]

CleanupWithoutKill(p) ==   \* mutant: the listener thread is never terminated
  /\ pc[p] = "cleanup"
  /\ at[p] \in {1, 3, 5, 7}
  /\ at' = [at EXCEPT ![p] = @ + (IF field[CleanupHandle(p)] THEN 1 ELSE 2)]
  /\ closes' = [closes EXCEPT ![CleanupHandle(p)] =
                  IF field[CleanupHandle(p)] THEN @ + 1 ELSE @]
  /\ UNCHANGED <<pc, life, field, childVars, dataVars, waitVars, result>>

(* if(m_hX), then TerminateThread for a listener that is alive and whose   *)
(* handle is valid, then CloseHandle.  A listener that meets its own       *)
(* handle terminates itself.                                               *)
CleanupClose(p) ==
  /\ pc[p] = "cleanup"
  /\ at[p] \in {1, 3, 5, 7}
  /\ LET h     == CleanupHandle(p)
         kills == h = "thread" /\ Valid(h) /\ ListenerAlive
     IN  CASE ~field[h] ->
                at' = [at EXCEPT ![p] = @ + 2] /\ UNCHANGED <<pc, closes>>
           [] field[h] /\ kills /\ p = Listener ->
                Goto(Listener, "killed") /\ UNCHANGED <<at, closes>>
           [] field[h] /\ ~(kills /\ p = Listener) ->
                /\ at' = [at EXCEPT ![p] = @ + 1]
                /\ closes' = [closes EXCEPT ![h] = @ + 1]
                /\ IF kills THEN Goto(Listener, "killed") ELSE UNCHANGED pc
  /\ UNCHANGED <<life, field, childVars, dataVars, waitVars, result>>

(* m_hX = NULL or INVALID_HANDLE_VALUE.                                    *)
CleanupNull(p) ==
  /\ pc[p] = "cleanup"
  /\ at[p] \in {2, 4, 6, 8}
  /\ field' = [field EXCEPT ![CleanupHandle(p)] = FALSE]
  /\ at' = [at EXCEPT ![p] = @ + 1]
  /\ UNCHANGED <<pc, life, closes, childVars, dataVars, waitVars, result>>

(* Cleanup returns: to Run, which goes on to the destructor, or from the   *)
(* destructor, or to the end of the listener thread.                       *)
CleanupEnds(p) ==
  /\ pc[p] = "cleanup"
  /\ at[p] = 9
  /\ at' = [at EXCEPT ![p] = 1]
  /\ IF p = Runner /\ life = "base"
     THEN life' = "gone" /\ Goto(p, "done")
     ELSE UNCHANGED life /\ Goto(p, IF p = Runner THEN "destroy" ELSE "ended")
  /\ UNCHANGED <<field, closes, childVars, dataVars, waitVars, result>>

-----------------------------------------------------------------------------
(* ListenerThreadProc.                                                     *)

ListenerStart ==
  /\ pc[Listener] = "start"
  /\ Goto(Listener, "read")
  /\ UNCHANGED <<at, life, field, closes, childVars, dataVars, waitVars, result>>

ListenerRead ==
  /\ pc[Listener] = "read"
  /\ pipe # <<>>
  /\ chunk' = Head(pipe) /\ pipe' = Tail(pipe)
  /\ Goto(Listener, "append")
  /\ UNCHANGED <<at, life, field, closes, childVars, buffer, waitVars, result>>

(* ReadFile fails: nobody holds the write end and nothing is left.         *)
ListenerBreaks ==
  /\ pc[Listener] = "read"
  /\ pipe = <<>> /\ Writers = {}
  /\ Goto(Listener, "close")
  /\ UNCHANGED <<at, life, field, closes, childVars, dataVars, waitVars, result>>

(* m_Buffer += the text, under m_BufferCritSec.                            *)
ListenerAppend ==
  /\ pc[Listener] = "append"
  /\ life # "base"
  /\ buffer' = IF life = "whole" THEN Append(buffer, chunk) ELSE buffer
  /\ chunk' = 0
  /\ Goto(Listener, "read")
  /\ UNCHANGED <<at, life, field, closes, childVars, pipe, waitVars, result>>

(* CloseHandle(m_hListenerThread): nothing happens while that is NULL.     *)
ListenerCloseHandle ==
  /\ pc[Listener] = "close"
  /\ closes' = [closes EXCEPT !["thread"] = IF field["thread"] THEN @ + 1 ELSE @]
  /\ Goto(Listener, "null")
  /\ UNCHANGED <<at, life, field, childVars, dataVars, waitVars, result>>

ListenerNullHandle ==
  /\ pc[Listener] = "null"
  /\ field' = [field EXCEPT !["thread"] = FALSE]
  /\ Goto(Listener, "notify")
  /\ UNCHANGED <<at, life, closes, childVars, dataVars, waitVars, result>>

(* OnReceivedOutput(NULL), which does nothing but is virtual.              *)
ListenerNotify ==
  /\ pc[Listener] = "notify"
  /\ life # "base"
  /\ Goto(Listener, "cleanup")
  /\ UNCHANGED <<at, life, field, closes, childVars, dataVars, waitVars, result>>

(* OnReceivedOutput is virtual: it is a pure virtual call, which aborts the *)
(* process, once ~PluginPipe is through, and anything once the object and  *)
(* its stack frame are gone.                                               *)
PureVirtualCall ==
  /\ pc[Listener] \in {"append", "notify"}
  /\ life # "whole"
  /\ pc' = [p \in {Runner, Listener} |-> "aborted"]
  /\ UNCHANGED <<at, life, field, closes, childVars, dataVars, waitVars, result>>

-----------------------------------------------------------------------------
(* The command.                                                            *)

ScriptWrites ==
  /\ script = "running"
  /\ written < MaxChunks
  /\ Len(pipe) < PipeCapacity
  /\ Valid("output")
  /\ written' = written + 1
  /\ pipe' = Append(pipe, written + 1)
  /\ UNCHANGED <<pc, at, life, field, closes, cmd, script, due, refused, chunk, buffer,
                 waitVars, result>>

ScriptExits ==
  /\ script = "running"
  /\ script' = "exited"
  /\ UNCHANGED <<pc, at, life, field, closes, cmd, written, due, refused, dataVars,
                 waitVars, result>>

(* cmd.exe usually outlives the script, but does not wait for a windows    *)
(* program; its exit code is the script's.  One that is being terminated   *)
(* is through some time later.                                             *)
CmdExits ==
  /\ CmdLives
  /\ cmd' \in IF cmd = "running" THEN {"exited", "exited259"} ELSE {"exited"}
  /\ due' = written
  /\ UNCHANGED <<pc, at, life, field, closes, script, written, refused, dataVars,
                 waitVars, result>>

-----------------------------------------------------------------------------
Execute ==
  \/ OpenPipes \/ OpenPipesFails \/ Launch \/ LaunchFails
  \/ StartListener \/ StartListenerFails \/ KeepHandle

Wait == PollAgain \/ PollEnds \/ CheckChild

Finish == Break \/ GetOutput \/ Destroy

Cleanup(p) == CleanupClose(p) \/ CleanupNull(p) \/ CleanupEnds(p)

RunnerStep == Execute \/ Wait \/ Finish \/ Cleanup(Runner)

ListenerStep ==
  \/ ListenerStart \/ ListenerRead \/ ListenerBreaks \/ ListenerAppend
  \/ ListenerCloseHandle \/ ListenerNullHandle \/ ListenerNotify
  \/ Cleanup(Listener) \/ PureVirtualCall

CommandStep == ScriptWrites \/ ScriptExits \/ CmdExits

Next == RunnerStep \/ ListenerStep \/ CommandStep

Spec == Init /\ [][Next]_vars

(* Both threads run when they can; the command owes nothing to anybody.    *)
FairSpec == Spec /\ WF_vars(RunnerStep) /\ WF_vars(ListenerStep)

-----------------------------------------------------------------------------
(* GetConfig and GetValues give an error for an empty output.              *)
Answered == pc[Runner] = "done" /\ result # <<>>

(* Run never answers for a command that still runs.  The child's handle is *)
(* closed, and IsChildRunning false, once the listener has cleaned up: it  *)
(* must not do so before the command has ended.                            *)
CommandHasCompleted == Answered => ~CmdLives

(* A command given up after its timeout does not stay behind: when Run     *)
(* returns, cmd.exe has ended or is being terminated, unless the system    *)
(* has refused that.                                                       *)
TimedOutIsTerminated ==
  timedOut /\ pc[Runner] = "done" => cmd # "running" \/ refused

(* When Run has returned and the listener has ended, however they came to  *)
(* clean up and whatever failed in Execute, neither the child's handle nor *)
(* a pipe end is left open.  Both threads may have closed the same one.    *)
AllOver == pc[Runner] = "done" /\ ~ListenerAlive

PipeHandlesClosed ==
  AllOver => \A h \in {"child", "input", "output"} : closes[h] # 0

(* The assertion at the head of ListenerThreadProc: however late the       *)
(* thread starts, the object is there and still has its child.             *)
ListenerFindsChild ==
  pc[Listener] = "start" => life # "gone" /\ field["child"]

(* With a timeout Run returns, even if the command never ends and never    *)
(* closes its output; or a pure virtual call has ended the process.        *)
RunReturns ==
  pc[Runner] = "open" /\ timeout > 0 ~> pc[Runner] \in {"done", "aborted"}

(* "Wait for the command to complete": what the command had written when   *)
(* it ended is what Run returns.                                           *)
OutputIsComplete ==
  pc[Runner] = "destroy" /\ closes["thread"] >= 0 /\ ~timedOut => Len(result) >= due

(* "listener thread isn't touched; either normal termination or forced @   *)
(* destruction": no listener survives its pipe.                            *)
ListenerEndsFirst == life = "gone" => ~ListenerAlive
=============================================================================
