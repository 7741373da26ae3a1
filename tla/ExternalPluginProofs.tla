------------------------ MODULE ExternalPluginProofs ------------------------
(***************************************************************************)
(* Theorems about ExternalPlugin: whatever the command does and wherever   *)
(* the runner and the listener are, Run does not answer for a command that *)
(* still runs, leaves none behind that it gave up and the system let it    *)
(* end, leaves neither the child's handle nor a pipe end open, and its     *)
(* listener never starts on an object that has gone.                       *)
(***************************************************************************)
EXTENDS ExternalPlugin, TLAPS

USE DEF Runner, Listener

Thread == {Runner, Listener}

(* The part of TypeOK that is about control.                               *)
ControlOK ==
  /\ pc \in [Thread -> RunnerLabel \cup ListenerLabel]
  /\ pc[Runner] \in RunnerLabel /\ pc[Listener] \in ListenerLabel
  /\ at \in [Thread -> 1 .. 9]
  /\ field \in [Handle -> BOOLEAN] /\ closes \in [Handle -> Int]
  /\ life \in {"whole", "base", "gone"}
  /\ cmd \in {"none", "running", "ending", "exited", "exited259"}
  /\ timedOut \in BOOLEAN /\ refused \in BOOLEAN

(* Up to StartListener there is nobody but the runner.                     *)
Alone ==
  pc[Runner] \in {"open", "launch", "listen"} =>
    /\ pc[Listener] = "none" /\ life = "whole" /\ result = <<>> /\ ~timedOut
    /\ pc[Runner] = "listen" => field["child"]

(* Who is not in Cleanup would begin it at its first handle, unless it     *)
(* never runs again.                                                       *)
CleanupBegins ==
  /\ pc[Runner] \notin {"cleanup", "aborted"} => at[Runner] = 1
  /\ pc[Listener] \notin {"cleanup", "killed", "aborted"} => at[Listener] = 1

(* The members of the child and of the pipe ends hold handles that were    *)
(* opened and lose them only after these were closed, and Cleanup leaves   *)
(* none behind that is open.                                               *)
MembersHold ==
  \A h \in {"child", "input", "output"} :
    (closes[h] = 0 => field[h]) /\ (field[h] => closes[h] >= 0)

ClosedInTurn ==
  \A p \in Thread : pc[p] = "cleanup" =>
    /\ at[p] >= 4 => closes["child"] # 0
    /\ at[p] >= 6 => closes["input"] # 0
    /\ at[p] >= 8 => closes["output"] # 0

AllClosed ==
  pc[Runner] = "done" => \A h \in {"child", "input", "output"} : closes[h] # 0

(* The listener reaches its own Cleanup only when nobody can write to the  *)
(* pipe any more, so that as long as the command runs the runner sees it.  *)
ListenerOutlivesCommand ==
  pc[Listener] \in {"close", "null", "notify", "cleanup"} => ~CmdLives

ChildSeen ==
  pc[Runner] \in {"listen", "keep", "poll", "check", "break"} =>
    ~CmdLives \/ (field["child"] /\ closes["child"] = 0)

OutputAfterCommand == pc[Runner] = "output" \/ result # <<>> => ~CmdLives

GivenUp == timedOut => pc[Runner] \in {"break", "aborted"} \/ cmd # "running" \/ refused

(* A listener that has not begun is terminated before the runner's Cleanup *)
(* takes anything from it.                                                 *)
StartIsSafe ==
  pc[Listener] = "start" =>
    /\ pc[Runner] \in {"keep", "poll", "check", "break", "output", "destroy", "cleanup"}
    /\ at[Runner] = 1
    /\ pc[Runner] # "keep" => field["thread"]
    /\ closes["thread"] = 0 /\ field["child"] /\ life # "gone"

IInv ==
  /\ ControlOK /\ Alone /\ CleanupBegins
  /\ MembersHold /\ ClosedInTurn /\ AllClosed
  /\ ListenerOutlivesCommand /\ ChildSeen /\ OutputAfterCommand /\ GivenUp
  /\ StartIsSafe

-----------------------------------------------------------------------------
(* The four handles, for the provers to cite.                              *)
LEMMA HandleIs == Handle = {"thread", "child", "input", "output"}
BY DEF Handle, Handles, Range

(* Cleanup's steps 2k - 1 and 2k are about the k-th handle.                *)
LEMMA CleanupHandleIs ==
  ASSUME NEW p \in Thread, at \in [Thread -> 1 .. 9]
  PROVE  /\ at[p] \in {1, 2} => CleanupHandle(p) = "thread"
         /\ at[p] \in {3, 4} => CleanupHandle(p) = "child"
         /\ at[p] \in {5, 6} => CleanupHandle(p) = "input"
         /\ at[p] \in {7, 8} => CleanupHandle(p) = "output"
BY DEF CleanupHandle, Handles

(* The invariant at first.                                                 *)
LEMMA InitIInv == Init => IInv
<1> SUFFICES ASSUME Init PROVE IInv
  OBVIOUS
<1>1. ControlOK
  <2>1. pc \in [Thread -> RunnerLabel \cup ListenerLabel]
    BY DEF Init, Thread, RunnerLabel, ListenerLabel
  <2>2. pc[Runner] \in RunnerLabel /\ pc[Listener] \in ListenerLabel
    BY DEF Init, RunnerLabel, ListenerLabel
  <2>3. at \in [Thread -> 1 .. 9] /\ field \in [Handle -> BOOLEAN] /\ closes \in [Handle -> Int]
    BY DEF Init, Thread
  <2>4. QED
    BY <2>1, <2>2, <2>3 DEF Init, ControlOK
<1>2. /\ pc[Runner] = "open" /\ pc[Listener] = "none"
      /\ \A p \in Thread : at[p] = 1
      /\ \A h \in Handle : closes[h] = -1 /\ ~field[h]
      /\ life = "whole" /\ cmd = "none" /\ result = <<>> /\ ~timedOut
  BY HandleIs DEF Init, Thread
<1>3. QED
  BY <1>1, <1>2, HandleIs
  DEF IInv, Alone, CleanupBegins, MembersHold, ClosedInTurn, AllClosed, Thread,
      ListenerOutlivesCommand, ChildSeen, OutputAfterCommand, GivenUp, StartIsSafe, CmdLives

-----------------------------------------------------------------------------
(* Handles that are created are held and not closed; the others are left   *)
(* alone.                                                                  *)
LEMMA OpenDoes ==
  ASSUME ControlOK, NEW hs \in SUBSET Handle, Open(hs)
  PROVE  /\ field' \in [Handle -> BOOLEAN] /\ closes' \in [Handle -> Int]
         /\ \A h \in hs : field'[h] /\ closes'[h] = 0
         /\ \A h \in Handle \ hs : field'[h] = field[h] /\ closes'[h] = closes[h]
<1>1. closes' \in [Handle -> Int] /\ \A h \in Handle : closes'[h] = IF h \in hs THEN 0 ELSE closes[h]
  BY DEF Open, ControlOK
<1>2. field' \in [Handle -> BOOLEAN] /\ \A h \in Handle : field'[h] = (field[h] \/ h \in hs)
  BY Zenon DEF Open
<1>3. QED
  BY <1>1, <1>2 DEF ControlOK

(* The runner creates pipes, child and listener.                           *)
LEMMA ExecuteKeeps == IInv /\ Execute => IInv'
<1> SUFFICES ASSUME IInv, Execute PROVE IInv'
  OBVIOUS
<1> USE HandleIs DEF IInv, ControlOK, Alone, CleanupBegins, MembersHold, ClosedInTurn, AllClosed,
    ListenerOutlivesCommand, ChildSeen, OutputAfterCommand, GivenUp, StartIsSafe, CmdLives,
    Thread, RunnerLabel, ListenerLabel
<1>1. CASE OpenPipes \/ OpenPipesFails
  <2>1. PICK hs \in {{}, {"output"}, {"input", "output"}} : Open(hs)
    BY <1>1 DEF OpenPipes, OpenPipesFails
  <2>2. /\ field' \in [Handle -> BOOLEAN] /\ closes' \in [Handle -> Int]
        /\ \A h \in hs : field'[h] /\ closes'[h] = 0
        /\ \A h \in Handle \ hs : field'[h] = field[h] /\ closes'[h] = closes[h]
    BY <2>1, OpenDoes
  <2>3. /\ pc[Runner] = "open" /\ pc'[Runner] \in {"launch", "cleanup"}
        /\ pc'[Listener] = pc[Listener] /\ pc' \in [Thread -> RunnerLabel \cup ListenerLabel]
        /\ UNCHANGED <<at, life, cmd, result, timedOut, refused>>
    BY <1>1 DEF OpenPipes, OpenPipesFails, Goto, childVars, dataVars, waitVars
  <2>4. ControlOK'
    BY <2>2, <2>3
  <2>5. (Alone /\ CleanupBegins /\ MembersHold /\ ClosedInTurn /\ AllClosed)'
    BY <2>2, <2>3
  <2>6. (ListenerOutlivesCommand /\ ChildSeen /\ OutputAfterCommand /\ GivenUp /\ StartIsSafe)'
    BY <2>2, <2>3
  <2>7. QED
    BY <2>4, <2>5, <2>6
<1>2. CASE Launch
  <2>1. /\ field' \in [Handle -> BOOLEAN] /\ closes' \in [Handle -> Int]
        /\ field'["child"] /\ closes'["child"] = 0
        /\ \A h \in Handle \ {"child"} : field'[h] = field[h] /\ closes'[h] = closes[h]
    BY <1>2, OpenDoes, {"child"} \in SUBSET Handle DEF Launch
  <2>2. /\ pc[Runner] = "launch" /\ pc'[Runner] = "listen" /\ cmd' = "running"
        /\ pc'[Listener] = pc[Listener] /\ pc' \in [Thread -> RunnerLabel \cup ListenerLabel]
        /\ UNCHANGED <<at, life, result, timedOut, refused>>
    BY <1>2 DEF Launch, Goto, childVars, dataVars, waitVars
  <2>3. ControlOK'
    BY <2>1, <2>2
  <2>4. (Alone /\ CleanupBegins /\ MembersHold /\ ClosedInTurn /\ AllClosed)'
    BY <2>1, <2>2
  <2>5. (ListenerOutlivesCommand /\ ChildSeen /\ OutputAfterCommand /\ GivenUp /\ StartIsSafe)'
    BY <2>1, <2>2
  <2>6. QED
    BY <2>3, <2>4, <2>5
<1>3. CASE LaunchFails
  BY <1>3 DEF LaunchFails, Goto, childVars, dataVars, waitVars
<1>4. CASE StartListener
  <2>1. /\ closes' \in [Handle -> Int] /\ closes'["thread"] = 0
        /\ \A h \in Handle \ {"thread"} : closes'[h] = closes[h]
    BY <1>4 DEF StartListener, ControlOK
  <2>2. /\ pc[Runner] = "listen" /\ pc'[Runner] = "keep"
        /\ pc[Listener] = "none" /\ pc'[Listener] = "start"
        /\ pc' \in [Thread -> RunnerLabel \cup ListenerLabel]
        /\ UNCHANGED <<at, life, field, cmd, result, timedOut, refused>>
    BY <1>4 DEF StartListener, childVars, dataVars, waitVars
  <2>3. ControlOK'
    BY <2>1, <2>2
  <2>4. (Alone /\ CleanupBegins /\ MembersHold /\ ClosedInTurn /\ AllClosed)'
    BY <2>1, <2>2
  <2>5. (ListenerOutlivesCommand /\ ChildSeen /\ OutputAfterCommand /\ GivenUp /\ StartIsSafe)'
    BY <2>1, <2>2
  <2>6. QED
    BY <2>3, <2>4, <2>5
<1>5. CASE StartListenerFails
  BY <1>5 DEF StartListenerFails, Goto, childVars, dataVars, waitVars
<1>6. CASE KeepHandle
  BY <1>6 DEF KeepHandle, Goto, childVars, dataVars, waitVars
<1>7. QED
  BY <1>1, <1>2, <1>3, <1>4, <1>5, <1>6 DEF Execute

(* The runner polls the child, ends it or takes the output, and destroys.  *)
LEMMA WaitKeeps == IInv /\ (Wait \/ Finish) => IInv'
<1> SUFFICES ASSUME IInv, Wait \/ Finish PROVE IInv'
  OBVIOUS
<1> USE HandleIs DEF IInv, ControlOK, Alone, CleanupBegins, MembersHold, ClosedInTurn, AllClosed,
    ListenerOutlivesCommand, ChildSeen, OutputAfterCommand, GivenUp, StartIsSafe, CmdLives,
    Thread, RunnerLabel, ListenerLabel, Goto, childVars, dataVars, waitVars,
    IsChildRunning, Valid
<1>1. CASE PollAgain
  BY <1>1 DEF PollAgain
<1>2. CASE PollEnds
  BY <1>2 DEF PollEnds
<1>3. CASE CheckChild
  BY <1>3 DEF CheckChild
<1>4. CASE Break
  <2>1. /\ pc[Runner] = "break" /\ pc' = [pc EXCEPT ![Runner] = "cleanup"]
        /\ cmd' \in {cmd, "ending"} /\ refused' \in BOOLEAN
        /\ (cmd' = "running" => refused') /\ (cmd' = "ending" => CmdLives)
        /\ UNCHANGED <<at, life, field, closes, result, timedOut>>
    BY <1>4 DEF Break
  <2>2. ControlOK'
    BY <2>1
  <2>3. (Alone /\ CleanupBegins /\ MembersHold /\ ClosedInTurn /\ AllClosed)'
    BY <2>1
  <2>4. (ListenerOutlivesCommand /\ ChildSeen /\ OutputAfterCommand /\ GivenUp /\ StartIsSafe)'
    BY <2>1
  <2>5. QED
    BY <2>2, <2>3, <2>4
<1>5. CASE GetOutput
  BY <1>5 DEF GetOutput
<1>6. CASE Destroy
  BY <1>6 DEF Destroy
<1>7. QED
  BY <1>1, <1>2, <1>3, <1>4, <1>5, <1>6 DEF Wait, Finish
(* Cleanup, by either thread.                                              *)
LEMMA CleanupCloseKeeps ==
  ASSUME IInv, NEW p \in Thread, CleanupClose(p)
  PROVE  IInv'
<1> USE HandleIs DEF IInv, Thread, CleanupBegins, ClosedInTurn, MembersHold, CmdLives
<1> DEFINE h == CleanupHandle(p)
<1>0. /\ pc[p] = "cleanup" /\ at[p] \in {1, 3, 5, 7} /\ p \in {Runner, Listener}
      /\ UNCHANGED <<life, field, cmd, result, timedOut, refused>>
  BY DEF CleanupClose, childVars, dataVars, waitVars
<1>1. /\ \/ at[p] = 1 /\ h = "thread"
         \/ at[p] = 3 /\ h = "child"
         \/ at[p] = 5 /\ h = "input"
         \/ at[p] = 7 /\ h = "output"
      /\ h \in Handle
  BY <1>0, CleanupHandleIs DEF ControlOK
<1>2. CASE ~field[h]
  <2>1. at' = [at EXCEPT ![p] = @ + 2] /\ UNCHANGED <<pc, closes>>
    BY <1>2 DEF CleanupClose
  <2>2. at' \in [Thread -> 1 .. 9] /\ at'[p] = at[p] + 2
        /\ \A q \in Thread : q # p => at'[q] = at[q]
    BY <1>0, <2>1 DEF ControlOK
  <2>3. ControlOK'
    BY <1>0, <2>1, <2>2 DEF ControlOK
  <2>4. ClosedInTurn'
    BY <1>0, <1>1, <1>2, <2>1, <2>2
  <2>5. StartIsSafe'
    BY <1>0, <1>1, <1>2, <2>1, <2>2 DEF StartIsSafe
  <2>6. QED
    BY <1>0, <2>1, <2>2, <2>3, <2>4, <2>5
    DEF Alone, AllClosed, ListenerOutlivesCommand, ChildSeen, OutputAfterCommand, GivenUp
<1>3. CASE pc' = [pc EXCEPT ![Listener] = "killed"] /\ UNCHANGED <<at, closes>>
  <2>1. ControlOK'
    BY <1>0, <1>3 DEF ControlOK, ListenerLabel
  <2>2. QED
    BY <1>0, <1>3, <2>1
    DEF ControlOK, Alone, AllClosed, ListenerOutlivesCommand, ChildSeen, OutputAfterCommand,
        GivenUp, StartIsSafe
<1>4. CASE /\ field[h]
           /\ at' = [at EXCEPT ![p] = @ + 1]
           /\ closes' = [closes EXCEPT ![h] = @ + 1]
           /\ \/ pc' = pc
              \/ pc' = [pc EXCEPT ![Listener] = "killed"] /\ pc[Listener] # "none"
           /\ (h = "thread" /\ closes[h] = 0 /\ pc[Listener] = "start") => pc'[Listener] = "killed"
  <2>1. /\ at' \in [Thread -> 1 .. 9] /\ at'[p] = at[p] + 1
        /\ \A q \in Thread : q # p => at'[q] = at[q]
        /\ closes' \in [Handle -> Int] /\ closes'[h] = closes[h] + 1
        /\ \A k \in Handle : k # h => closes'[k] = closes[k]
    BY <1>0, <1>1, <1>4 DEF ControlOK
  <2>2. /\ pc' \in [Thread -> RunnerLabel \cup ListenerLabel]
        /\ pc'[Runner] = pc[Runner]
        /\ \/ pc'[Listener] = pc[Listener]
           \/ pc'[Listener] = "killed" /\ pc[Listener] # "none"
    BY <1>4 DEF ControlOK, ListenerLabel
  <2>3. ControlOK'
    BY <1>0, <2>1, <2>2 DEF ControlOK, ListenerLabel
  <2>4. h # "thread" => closes[h] >= 0 /\ closes'[h] # 0
    BY <1>1, <1>4, <2>1 DEF ControlOK
  <2>5. MembersHold' /\ ClosedInTurn' /\ AllClosed'
    BY <1>0, <1>1, <1>4, <2>1, <2>2, <2>4 DEF ControlOK, AllClosed
  <2>6. StartIsSafe'
    BY <1>0, <1>1, <1>4, <2>1, <2>2 DEF StartIsSafe
  <2>7. ChildSeen'
    BY <1>0, <1>1, <2>1, <2>2, <2>4 DEF ChildSeen, ListenerOutlivesCommand
  <2>8. QED
    BY <1>0, <2>1, <2>2, <2>3, <2>5, <2>6, <2>7
    DEF Alone, ListenerOutlivesCommand, OutputAfterCommand, GivenUp
<1>5. CASE field[h]
  <2> DEFINE kills == h = "thread" /\ Valid(h) /\ ListenerAlive
  <2>1. CASE kills /\ p = Listener
    <3>1. pc' = [pc EXCEPT ![Listener] = "killed"] /\ UNCHANGED <<at, closes>>
      BY <1>5, <2>1 DEF CleanupClose, Goto
    <3>2. QED
      BY <1>3, <3>1
  <2>2. CASE ~(kills /\ p = Listener)
    <3>1. /\ at' = [at EXCEPT ![p] = @ + 1]
          /\ closes' = [closes EXCEPT ![h] = @ + 1]
          /\ IF kills THEN pc' = [pc EXCEPT ![Listener] = "killed"] ELSE pc' = pc
      BY <1>5, <2>2 DEF CleanupClose, Goto
    <3>2. /\ kills => pc[Listener] # "none"
          /\ h = "thread" /\ closes[h] = 0 /\ pc[Listener] = "start" => kills
      BY DEF ListenerAlive, Valid
    <3>3. kills => pc'[Listener] = "killed"
      BY <3>1 DEF ControlOK
    <3>4. QED
      BY <1>4, <1>5, <3>1, <3>2, <3>3
  <2>3. QED
    BY <2>1, <2>2
<1>6. QED
  BY <1>2, <1>5

(* Cleanup clears a member it has closed.                                  *)
LEMMA CleanupNullKeeps ==
  ASSUME IInv, NEW p \in Thread, CleanupNull(p)
  PROVE  IInv'
<1> USE HandleIs DEF IInv, Thread, CleanupBegins, ClosedInTurn, MembersHold, CmdLives
<1> DEFINE h == CleanupHandle(p)
<1>1. /\ pc[p] = "cleanup" /\ at[p] \in {2, 4, 6, 8} /\ p \in {Runner, Listener}
      /\ UNCHANGED <<pc, life, closes, cmd, result, timedOut, refused>>
      /\ field' = [field EXCEPT ![h] = FALSE] /\ at' = [at EXCEPT ![p] = @ + 1]
  BY DEF CleanupNull, childVars, dataVars, waitVars
<1>2. /\ \/ at[p] = 2 /\ h = "thread"
         \/ at[p] = 4 /\ h = "child"
         \/ at[p] = 6 /\ h = "input"
         \/ at[p] = 8 /\ h = "output"
      /\ h \in Handle
  BY <1>1, CleanupHandleIs DEF ControlOK
<1>3. /\ at' \in [Thread -> 1 .. 9] /\ at'[p] = at[p] + 1
      /\ \A q \in Thread : q # p => at'[q] = at[q]
      /\ field' \in [Handle -> BOOLEAN] /\ ~field'[h]
      /\ \A k \in Handle : k # h => field'[k] = field[k]
  <2>1. at' \in [Thread -> 1 .. 9] /\ at'[p] = at[p] + 1
        /\ \A q \in Thread : q # p => at'[q] = at[q]
    BY <1>1, <1>2 DEF ControlOK
  <2>2. field' \in [Handle -> BOOLEAN]
    BY ONLY <1>1, <1>2, ControlOK DEF ControlOK
  <2>3. ~field'[h] /\ \A k \in Handle : k # h => field'[k] = field[k]
    <3> HIDE DEF h
    <3>1. QED
      BY <1>1, <1>2 DEF ControlOK
  <2>4. QED
    BY <2>1, <2>2, <2>3
<1>4. ControlOK'
  BY <1>1, <1>3 DEF ControlOK
<1>5. MembersHold' /\ ClosedInTurn'
  BY <1>1, <1>2, <1>3 DEF ControlOK
<1>6. StartIsSafe'
  BY <1>1, <1>2, <1>3 DEF StartIsSafe
<1>7. ChildSeen'
  BY <1>1, <1>2, <1>3 DEF ChildSeen, ListenerOutlivesCommand
<1>8. QED
  BY <1>1, <1>3, <1>4, <1>5, <1>6, <1>7
  DEF Alone, AllClosed, ListenerOutlivesCommand, OutputAfterCommand, GivenUp

(* Cleanup is through, in either thread.                                   *)
LEMMA CleanupEndsKeeps ==
  ASSUME IInv, NEW p \in Thread, CleanupEnds(p)
  PROVE  IInv'
<1> USE DEF IInv, Thread, CmdLives
<1>1. /\ pc[p] = "cleanup" /\ at[p] = 9 /\ p \in {Runner, Listener}
      /\ at' = [at EXCEPT ![p] = 1]
      /\ UNCHANGED <<field, closes, cmd, result, timedOut, refused>>
  BY DEF CleanupEnds, childVars, dataVars, waitVars
<1>2. /\ \A q \in Thread : q # p => pc'[q] = pc[q]
      /\ pc'[p] \in IF p = Runner THEN {"destroy", "done"} ELSE {"ended"}
      /\ life' \in {life, "gone"} /\ (p = Listener => life' = life)
      /\ pc' \in [Thread -> RunnerLabel \cup ListenerLabel]
  BY <1>1 DEF CleanupEnds, Goto, ControlOK, RunnerLabel, ListenerLabel
<1>3. ControlOK'
  BY <1>1, <1>2 DEF ControlOK, RunnerLabel, ListenerLabel
<1>4. CleanupBegins' /\ ClosedInTurn' /\ AllClosed' /\ MembersHold'
  BY <1>1, <1>2 DEF ControlOK, CleanupBegins, ClosedInTurn, AllClosed, MembersHold
<1>5. StartIsSafe'
  BY <1>1, <1>2 DEF StartIsSafe
<1>6. QED
  BY <1>1, <1>2, <1>3, <1>4, <1>5
  DEF Alone, ListenerOutlivesCommand, ChildSeen, OutputAfterCommand, GivenUp

-----------------------------------------------------------------------------
(* The listener, up to its own Cleanup and from its end.                   *)
LEMMA ListenerKeeps ==
  ASSUME IInv,
         \/ ListenerStart \/ ListenerRead \/ ListenerBreaks \/ ListenerAppend
         \/ ListenerCloseHandle \/ ListenerNullHandle \/ ListenerNotify
         \/ PureVirtualCall
  PROVE  IInv'
<1> USE HandleIs DEF IInv, ControlOK, Alone, CleanupBegins, MembersHold, ClosedInTurn, AllClosed,
    ListenerOutlivesCommand, ChildSeen, OutputAfterCommand, GivenUp, StartIsSafe, CmdLives,
    Thread, RunnerLabel, ListenerLabel, Goto, childVars, dataVars, waitVars
<1>1. CASE ListenerStart
  BY <1>1 DEF ListenerStart
<1>2. CASE ListenerRead
  BY <1>2 DEF ListenerRead
<1>3. CASE ListenerBreaks
  <2>1. ~CmdLives
    BY <1>3 DEF ListenerBreaks, Writers
  <2>2. QED
    BY <1>3, <2>1 DEF ListenerBreaks
<1>4. CASE ListenerAppend
  BY <1>4 DEF ListenerAppend
<1>5. CASE ListenerCloseHandle
  BY <1>5 DEF ListenerCloseHandle
<1>6. CASE ListenerNullHandle
  BY <1>6 DEF ListenerNullHandle
<1>7. CASE ListenerNotify
  BY <1>7 DEF ListenerNotify
<1>8. CASE PureVirtualCall
  <2>1. /\ pc' \in [Thread -> RunnerLabel \cup ListenerLabel]
        /\ pc'[Runner] = "aborted" /\ pc'[Listener] = "aborted"
        /\ UNCHANGED <<at, life, field, closes, cmd, result, timedOut, refused>>
    BY <1>8 DEF PureVirtualCall
  <2>2. QED
    BY <2>1
<1>9. QED
  BY <1>1, <1>2, <1>3, <1>4, <1>5, <1>6, <1>7, <1>8

(* The command interpreter and the script.                                 *)
LEMMA CommandKeeps == IInv /\ CommandStep => IInv'
BY HandleIs
DEF IInv, ControlOK, Alone, CleanupBegins, MembersHold, ClosedInTurn, AllClosed,
    ListenerOutlivesCommand, ChildSeen, OutputAfterCommand, GivenUp, StartIsSafe, CmdLives,
    Thread, waitVars, dataVars, CommandStep, ScriptWrites, ScriptExits, CmdExits

-----------------------------------------------------------------------------
(* The inductive invariant: wherever the runner, the listener and the      *)
(* command are, and whatever failed.                                       *)
THEOREM ExternalPluginInvariance == Spec => []IInv
<1>1. IInv /\ [Next]_vars => IInv'
  <2> SUFFICES ASSUME IInv, [Next]_vars PROVE IInv'
    OBVIOUS
  <2>1. CASE RunnerStep
    BY <2>1, ExecuteKeeps, WaitKeeps, CleanupCloseKeeps, CleanupNullKeeps, CleanupEndsKeeps
    DEF RunnerStep, Cleanup, Thread
  <2>2. CASE ListenerStep
    BY <2>2, ListenerKeeps, CleanupCloseKeeps, CleanupNullKeeps, CleanupEndsKeeps
    DEF ListenerStep, Cleanup, Thread
  <2>3. CASE CommandStep
    BY <2>3, CommandKeeps
  <2>4. CASE UNCHANGED vars
    BY <2>4
    DEF vars, IInv, ControlOK, Alone, CleanupBegins, MembersHold, ClosedInTurn, AllClosed,
        ListenerOutlivesCommand, ChildSeen, OutputAfterCommand, GivenUp, StartIsSafe, CmdLives
  <2>5. QED
    BY <2>1, <2>2, <2>3, <2>4 DEF Next
<1>2. QED
  BY InitIInv, <1>1, PTL DEF Spec

(* Run never answers for a command that still runs, although the listener  *)
(* may have closed the child's handle, by which Run knows it, long before. *)
THEOREM CommandHasCompletedHolds == Spec => []CommandHasCompleted
<1>1. IInv => CommandHasCompleted
  BY DEF IInv, OutputAfterCommand, CommandHasCompleted, Answered
<1>2. QED
  BY ExternalPluginInvariance, <1>1, PTL

(* A command given up after any timeout has ended when Run returns, or is  *)
(* being terminated, or could not be.                                      *)
THEOREM TimedOutIsTerminatedHolds == Spec => []TimedOutIsTerminated
<1>1. IInv => TimedOutIsTerminated
  BY DEF IInv, GivenUp, TimedOutIsTerminated
<1>2. QED
  BY ExternalPluginInvariance, <1>1, PTL

(* Whatever failed in Execute and whoever came first to Cleanup, of the    *)
(* child's handle and both pipe ends none is left open in the end.  That   *)
(* none was closed twice is not said, nor anything of the thread's handle. *)
THEOREM PipeHandlesClosedHolds == Spec => []PipeHandlesClosed
<1>1. IInv => PipeHandlesClosed
  BY DEF IInv, AllClosed, PipeHandlesClosed, AllOver
<1>2. QED
  BY ExternalPluginInvariance, <1>1, PTL

(* However late the listener starts, its object is there and has a child.  *)
THEOREM ListenerFindsChildHolds == Spec => []ListenerFindsChild
<1>1. IInv => ListenerFindsChild
  BY DEF IInv, StartIsSafe, ListenerFindsChild
<1>2. QED
  BY ExternalPluginInvariance, <1>1, PTL
=============================================================================
