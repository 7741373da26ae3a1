--------------------------- MODULE SpeedFanProofs ---------------------------
(***************************************************************************)
(* Theorems about the SpeedFan listener.  Its life: its thread object and  *)
(* its socket are gone when both threads are through, and the node's other *)
(* sockets are never closed in its place, for any numbers the system gives *)
(* sockets.  Its table: every well-formed message is parsed as what it     *)
(* says, and of any other packet nothing that it does not say; the table   *)
(* is one of them, the last message if nothing malformed came since, and   *)
(* an answer is one table's, for any messages and packets.                 *)
(*                                                                         *)
(* Parsing folds ParseLine over the lines of a packet.  What a fold does   *)
(* is shown by induction over sequences, and that from the library's fact  *)
(* that strict inclusion is well founded on the finite sets of a set.      *)
(***************************************************************************)
EXTENDS Integers, SpeedFan, SequenceTheorems, FiniteSetTheorems, WellFoundedInduction, TLAPS

USE DEF Plugin, Listener

Up == {"run", "wait", "release", "up"}

LifeOK ==
  /\ pc \in [Process -> PluginLabel \cup ListenerLabel \cup ReaderLabel]
  /\ pc[Plugin] \in PluginLabel /\ pc[Listener] \in ListenerLabel
  /\ life \in {"live", "deleted"} /\ refCount \in Int
  /\ stopped \in BOOLEAN /\ started \in BOOLEAN
  /\ handle \in Handles \cup {NoHandle} /\ closing \in Handles \cup {NoHandle}
  /\ holder \in [Handles -> {"free", "listener", "other"}]

(* The references of the plugin, of JCThread::Run and of the thread.       *)
PluginRef == IF pc[Plugin] \in {"delete", "done"} THEN 0 ELSE 1
RunRef    == IF pc[Plugin] \in {"wait", "release"} THEN 1 ELSE 0
ThreadRef == IF pc[Listener] \in {"unborn", "ref", "delete", "dead"} THEN 0 ELSE 1

Counted == refCount = PluginRef + RunRef + ThreadRef

(* Run waits until the thread has a reference of its own.                  *)
Waits ==
  /\ pc[Plugin] = "run" <=> pc[Listener] = "unborn"
  /\ pc[Listener] \in {"unborn", "ref", "mark"} =>
       pc[Plugin] \in {"run", "wait"} /\ ~stopped /\ ~started

(* The last to let go deletes, and nobody else.                            *)
LastDeletes ==
  /\ pc[Plugin] = "delete" => pc[Listener] = "dead"
  /\ pc[Listener] = "delete" => pc[Plugin] = "done"
  /\ life = "deleted" <=> pc[Plugin] = "done" /\ pc[Listener] = "dead"

(* The listener has one socket at most, and the member has its number;     *)
(* while other sockets come and go that number is not out of date, except  *)
(* between closing and opening.                                            *)
Sockets ==
  /\ \A h \in Handles : holder[h] = "listener" => handle = h /\ pc[Listener] # "create"
  /\ pc[Plugin] \in Up /\ handle # NoHandle /\ pc[Listener] # "create" =>
       holder[handle] = "listener"
  /\ pc[Plugin] \notin Up => \A h \in Handles : holder[h] # "other"
  /\ life = "deleted" => \A h \in Handles : holder[h] # "listener"

IInv == LifeOK /\ Counted /\ Waits /\ LastDeletes /\ Sockets

-----------------------------------------------------------------------------
(* The invariant at first.                                                 *)
LEMMA InitIInv == Init => IInv
<1> SUFFICES ASSUME Init PROVE IInv
  OBVIOUS
<1>1. /\ pc[Plugin] = "run" /\ pc[Listener] = "unborn"
      /\ pc \in [Process -> PluginLabel \cup ListenerLabel \cup ReaderLabel]
  BY ReadersAssumption DEF Init, Process, PluginLabel, ListenerLabel, ReaderLabel
<1>2. holder \in [Handles -> {"free", "listener", "other"}]
      /\ \A h \in Handles : holder[h] # "listener"
  BY DEF Init
<1>3. LifeOK
  <2>1. refCount \in Int /\ handle \in {NoHandle} /\ closing \in {NoHandle}
    BY DEF Init
  <2>2. QED
    BY <1>1, <1>2, <2>1 DEF Init, LifeOK, PluginLabel, ListenerLabel
<1>4. QED
  BY <1>1, <1>2, <1>3
  DEF Init, IInv, Counted, PluginRef, RunRef, ThreadRef, Waits, LastDeletes, Sockets, Up

(* What CloseHandle does, to a handle or to none.                          *)
LEMMA CloseDoes ==
  ASSUME LifeOK, NEW h, CloseHandle(h)
  PROVE  /\ holder' \in [Handles -> {"free", "listener", "other"}]
         /\ \A i \in Handles : holder'[i] = IF i = h THEN "free" ELSE holder[i]
BY DEF CloseHandle, LifeOK

(* Where a step takes its thread.                                          *)
LEMMA GotoDoes ==
  ASSUME LifeOK, NEW p \in {Plugin, Listener},
         NEW label \in PluginLabel \cup ListenerLabel, Goto(p, label)
  PROVE  /\ pc' \in [Process -> PluginLabel \cup ListenerLabel \cup ReaderLabel]
         /\ pc'[p] = label
         /\ \A q \in {Plugin, Listener} : q # p => pc'[q] = pc[q]
BY DEF Goto, LifeOK, Process

(* The references as numbers.                                              *)
LEMMA Refs ==
  /\ PluginRef \in 0 .. 1 /\ (PluginRef = 0 <=> pc[Plugin] \in {"delete", "done"})
  /\ RunRef \in 0 .. 1 /\ (RunRef = 1 <=> pc[Plugin] \in {"wait", "release"})
  /\ ThreadRef \in 0 .. 1
  /\ ThreadRef = 0 <=> pc[Listener] \in {"unborn", "ref", "delete", "dead"}
BY DEF PluginRef, RunRef, ThreadRef

(* A step of the plugin that leaves the sockets alone.                     *)
LEMMA PluginKeeps ==
  ASSUME IInv, \/ Run \/ RunPolls \/ RunReleases \/ Destroy \/ Stop \/ StopLoads \/ Unref
  PROVE  IInv'
<1> USE ReadersAssumption DEF IInv, LifeOK, Up, PluginLabel, ListenerLabel, Process
<1>1. CASE Run
  <2>1. /\ pc[Plugin] = "run" /\ pc'[Plugin] = "wait"
        /\ pc[Listener] = "unborn" /\ pc'[Listener] = "ref"
        /\ pc' \in [Process -> PluginLabel \cup ListenerLabel \cup ReaderLabel]
        /\ refCount' = refCount + 1
        /\ UNCHANGED <<life, stopped, started, handle, closing, holder>>
    BY <1>1 DEF Run, socketVars
  <2>2. LifeOK'
    BY <2>1
  <2>3. Counted'
    <3>1. PluginRef' = PluginRef /\ RunRef' = RunRef + 1 /\ ThreadRef' = ThreadRef
      BY <2>1 DEF PluginRef, RunRef, ThreadRef
    <3>2. QED
      BY <2>1, <3>1, Refs DEF Counted
  <2>4. Waits'
    BY <2>1 DEF Waits
  <2>5. LastDeletes'
    BY <2>1, Refs DEF LastDeletes, Waits, Counted
  <2>6. Sockets'
    BY <2>1 DEF Sockets
  <2>7. QED
    BY <2>2, <2>3, <2>4, <2>5, <2>6
<1>2. CASE RunPolls
  BY <1>2
  DEF RunPolls, Counted, PluginRef, RunRef, ThreadRef, Waits, LastDeletes, Sockets, Goto,
    threadVars, socketVars
<1>3. CASE RunReleases
  <2>1. /\ pc[Plugin] = "release" /\ pc'[Plugin] = "up" /\ pc'[Listener] = pc[Listener]
        /\ pc' \in [Process -> PluginLabel \cup ListenerLabel \cup ReaderLabel]
        /\ refCount' = refCount - 1
        /\ UNCHANGED <<life, stopped, started, handle, closing, holder>>
    BY <1>3, GotoDoes, Refs DEF Counted, RunReleases, RemoveRef, threadVars, socketVars
  <2>2. LifeOK'
    BY <2>1
  <2>3. Counted'
    <3>1. PluginRef' = PluginRef /\ RunRef' = RunRef - 1 /\ ThreadRef' = ThreadRef
      BY <2>1 DEF PluginRef, RunRef, ThreadRef
    <3>2. QED
      BY <2>1, <3>1, Refs DEF Counted
  <2>4. Waits'
    BY <2>1 DEF Waits
  <2>5. LastDeletes'
    BY <2>1, Refs DEF LastDeletes, Waits, Counted
  <2>6. Sockets'
    BY <2>1 DEF Sockets
  <2>7. QED
    BY <2>2, <2>3, <2>4, <2>5, <2>6
<1>4. CASE Destroy
  BY <1>4
  DEF Destroy, Counted, PluginRef, RunRef, ThreadRef, Waits, LastDeletes, Sockets, Goto,
    threadVars, socketVars
<1>5. CASE Stop
  BY <1>5
  DEF Stop, Counted, PluginRef, RunRef, ThreadRef, Waits, LastDeletes, Sockets, Goto,
    threadVars, socketVars
<1>6. CASE StopLoads
  BY <1>6
  DEF StopLoads, Counted, PluginRef, RunRef, ThreadRef, Waits, LastDeletes, Sockets, Goto,
    threadVars, socketVars
<1>7. CASE Unref
  <2>1. /\ pc[Plugin] = "unref" /\ pc'[Plugin] \in {"done", "delete"} /\ pc'[Listener] = pc[Listener]
        /\ pc' \in [Process -> PluginLabel \cup ListenerLabel \cup ReaderLabel]
        /\ refCount' = refCount - 1
        /\ pc'[Plugin] = "delete" <=> refCount = 1
        /\ UNCHANGED <<life, stopped, started, handle, closing, holder>>
    BY <1>7, GotoDoes DEF Unref, RemoveRef, threadVars, socketVars
  <2>2. LifeOK'
    BY <2>1
  <2>3. Counted'
    <3>1. PluginRef' = PluginRef - 1 /\ RunRef' = RunRef /\ ThreadRef' = ThreadRef
      BY <2>1 DEF PluginRef, RunRef, ThreadRef
    <3>2. QED
      BY <2>1, <3>1, Refs DEF Counted
  <2>4. Waits'
    BY <2>1 DEF Waits
  <2>5. LastDeletes'
    BY <2>1, Refs DEF LastDeletes, Waits, Counted
  <2>6. Sockets'
    BY <2>1 DEF Sockets
  <2>7. QED
    BY <2>2, <2>3, <2>4, <2>5, <2>6
<1>8. QED
  BY <1>1, <1>2, <1>3, <1>4, <1>5, <1>6, <1>7

(* The steps that close a socket.                                          *)
LEMMA CloseKeeps ==
  ASSUME IInv, StopCloses \/ OpenCloses \/ Delete(Plugin) \/ Delete(Listener)
  PROVE  IInv'
<1> USE ReadersAssumption DEF IInv, LifeOK, Counted, PluginRef, RunRef, ThreadRef, Waits, LastDeletes,
    Sockets, Up, PluginLabel, ListenerLabel, Process, Goto, threadVars, socketVars
<1>1. CASE StopCloses
  BY <1>1, CloseDoes DEF StopCloses
<1>2. CASE OpenCloses
  BY <1>2, CloseDoes DEF OpenCloses
<1>3. CASE Delete(Plugin)
  BY <1>3, CloseDoes DEF Delete
<1>4. CASE Delete(Listener)
  BY <1>4, CloseDoes DEF Delete
<1>5. QED
  BY <1>1, <1>2, <1>3, <1>4

(* OpenSocket gets a number, or none.                                      *)
LEMMA OpenKeeps ==
  ASSUME IInv, OpenCreates \/ OpenCreateFails
  PROVE  IInv'
<1> USE ReadersAssumption, HandlesAssumption
    DEF IInv, LifeOK, Counted, PluginRef, RunRef, ThreadRef, Waits, LastDeletes,
    Sockets, Up, PluginLabel, ListenerLabel, Process, Goto, threadVars, socketVars
<1>1. CASE OpenCreates
  BY <1>1 DEF OpenCreates
<1>2. CASE OpenCreateFails
  BY <1>2 DEF OpenCreateFails
<1>3. QED
  BY <1>1, <1>2

(* The listener thread's other steps.                                      *)
LEMMA ListenerKeeps ==
  ASSUME IInv,
         \/ ThreadAddRef \/ ThreadMark \/ OpenBinds \/ LoopTests \/ ReceiveAborted
         \/ Retest \/ Replace \/ ThreadStops \/ ThreadRemoveRef \/ Receive \/ ReceiveFails
  PROVE  IInv'
<1> USE ReadersAssumption DEF IInv, LifeOK, Up, PluginLabel, ListenerLabel, Process
<1>1. CASE ThreadAddRef
  <2>1. /\ pc[Listener] = "ref" /\ pc'[Listener] = "mark" /\ pc'[Plugin] = pc[Plugin]
        /\ pc' \in [Process -> PluginLabel \cup ListenerLabel \cup ReaderLabel]
        /\ refCount' = refCount + 1
        /\ UNCHANGED <<life, stopped, started, handle, closing, holder>>
    BY <1>1, GotoDoes DEF ThreadAddRef, RemoveRef, threadVars, socketVars
  <2>2. LifeOK'
    BY <2>1
  <2>3. Counted'
    <3>1. PluginRef' = PluginRef /\ RunRef' = RunRef /\ ThreadRef' = ThreadRef + 1
      BY <2>1 DEF PluginRef, RunRef, ThreadRef
    <3>2. QED
      BY <2>1, <3>1, Refs DEF Counted
  <2>4. Waits'
    BY <2>1 DEF Waits
  <2>5. LastDeletes'
    BY <2>1, Refs DEF LastDeletes, Waits, Counted
  <2>6. Sockets'
    BY <2>1 DEF Sockets
  <2>7. QED
    BY <2>2, <2>3, <2>4, <2>5, <2>6
<1>2. CASE ThreadMark
  BY <1>2
  DEF ThreadMark, Counted, PluginRef, RunRef, ThreadRef, Waits, LastDeletes, Sockets, Goto,
    threadVars, socketVars
<1>3. CASE OpenBinds
  <2>1. /\ pc[Listener] = "bind" /\ pc'[Listener] \in {"test", "end"} /\ pc'[Plugin] = pc[Plugin]
        /\ pc' \in [Process -> PluginLabel \cup ListenerLabel \cup ReaderLabel]
        /\ refCount' = refCount
        /\ UNCHANGED <<life, stopped, started, handle, closing, holder>>
    BY <1>3, GotoDoes DEF OpenBinds, RemoveRef, threadVars, socketVars
  <2>2. LifeOK'
    BY <2>1
  <2>3. Counted'
    <3>1. PluginRef' = PluginRef /\ RunRef' = RunRef /\ ThreadRef' = ThreadRef
      BY <2>1 DEF PluginRef, RunRef, ThreadRef
    <3>2. QED
      BY <2>1, <3>1, Refs DEF Counted
  <2>4. Waits'
    BY <2>1 DEF Waits
  <2>5. LastDeletes'
    BY <2>1, Refs DEF LastDeletes, Waits, Counted
  <2>6. Sockets'
    BY <2>1 DEF Sockets
  <2>7. QED
    BY <2>2, <2>3, <2>4, <2>5, <2>6
<1>4. CASE LoopTests
  BY <1>4
  DEF LoopTests, Counted, PluginRef, RunRef, ThreadRef, Waits, LastDeletes, Sockets, Goto,
    threadVars, socketVars
<1>5. CASE ReceiveAborted
  BY <1>5
  DEF ReceiveAborted, Counted, PluginRef, RunRef, ThreadRef, Waits, LastDeletes, Sockets, Goto,
    threadVars, socketVars
<1>6. CASE Retest
  BY <1>6
  DEF Retest, Counted, PluginRef, RunRef, ThreadRef, Waits, LastDeletes, Sockets, Goto,
    threadVars, socketVars
<1>7. CASE Replace
  BY <1>7
  DEF Replace, Counted, PluginRef, RunRef, ThreadRef, Waits, LastDeletes, Sockets, Goto,
    threadVars, socketVars
<1>8. CASE ThreadStops
  BY <1>8
  DEF ThreadStops, Counted, PluginRef, RunRef, ThreadRef, Waits, LastDeletes, Sockets, Goto,
    threadVars, socketVars
<1>9. CASE ThreadRemoveRef
  <2>1. /\ pc[Listener] = "unref" /\ pc'[Listener] \in {"dead", "delete"} /\ pc'[Plugin] = pc[Plugin]
        /\ pc' \in [Process -> PluginLabel \cup ListenerLabel \cup ReaderLabel]
        /\ refCount' = refCount - 1
        /\ pc'[Listener] = "delete" <=> refCount = 1
        /\ UNCHANGED <<life, stopped, started, handle, closing, holder>>
    BY <1>9, GotoDoes DEF ThreadRemoveRef, RemoveRef, threadVars, socketVars
  <2>2. LifeOK'
    BY <2>1
  <2>3. Counted'
    <3>1. PluginRef' = PluginRef /\ RunRef' = RunRef /\ ThreadRef' = ThreadRef - 1
      BY <2>1 DEF PluginRef, RunRef, ThreadRef
    <3>2. QED
      BY <2>1, <3>1, Refs DEF Counted
  <2>4. Waits'
    BY <2>1 DEF Waits
  <2>5. LastDeletes'
    BY <2>1, Refs DEF LastDeletes, Waits, Counted
  <2>6. Sockets'
    BY <2>1 DEF Sockets
  <2>7. QED
    BY <2>2, <2>3, <2>4, <2>5, <2>6
<1>10. CASE Receive
  <2>1. /\ pc[Listener] = "receive" /\ pc'[Listener] \in {"lock", "test"} /\ pc'[Plugin] = pc[Plugin]
        /\ pc' \in [Process -> PluginLabel \cup ListenerLabel \cup ReaderLabel]
        /\ refCount' = refCount
        /\ UNCHANGED <<life, stopped, started, handle, closing, holder>>
    BY <1>10, GotoDoes DEF Receive, RemoveRef, threadVars, socketVars
  <2>2. LifeOK'
    BY <2>1
  <2>3. Counted'
    <3>1. PluginRef' = PluginRef /\ RunRef' = RunRef /\ ThreadRef' = ThreadRef
      BY <2>1 DEF PluginRef, RunRef, ThreadRef
    <3>2. QED
      BY <2>1, <3>1, Refs DEF Counted
  <2>4. Waits'
    BY <2>1 DEF Waits
  <2>5. LastDeletes'
    BY <2>1, Refs DEF LastDeletes, Waits, Counted
  <2>6. Sockets'
    BY <2>1 DEF Sockets
  <2>7. QED
    BY <2>2, <2>3, <2>4, <2>5, <2>6
<1>11. CASE ReceiveFails
  BY <1>11
  DEF ReceiveFails, Counted, PluginRef, RunRef, ThreadRef, Waits, LastDeletes, Sockets, Goto,
    threadVars, socketVars
<1>12. QED
  BY <1>1, <1>2, <1>3, <1>4, <1>5, <1>6, <1>7, <1>8, <1>9, <1>10, <1>11

(* The node's other sockets and the readers.                               *)
LEMMA OthersKeep ==
  ASSUME IInv, Others \/ \E r \in Readers : Ask(r) \/ ReaderStep(r)
  PROVE  IInv'
<1> USE ReadersAssumption DEF IInv, LifeOK, Counted, PluginRef, RunRef, ThreadRef, Waits, LastDeletes,
    Sockets, Up, PluginLabel, ListenerLabel, ReaderLabel, Process, Goto, threadVars, socketVars
<1>1. CASE Others
  BY <1>1 DEF Others
<1>2. CASE \E r \in Readers : Ask(r) \/ ReaderStep(r)
  <2>1. PICK r \in Readers : Ask(r) \/ ReaderStep(r)
    BY <1>2
  <2>2. /\ UNCHANGED <<threadVars, socketVars>>
        /\ \/ pc' = pc
           \/ \E label \in ReaderLabel : pc' = [pc EXCEPT ![r] = label]
    BY <2>1 DEF Ask, ReaderStep, Enter, Loop, LoopEnds, Leave
  <2>3. /\ pc' \in [Process -> PluginLabel \cup ListenerLabel \cup ReaderLabel]
        /\ pc'[Plugin] = pc[Plugin] /\ pc'[Listener] = pc[Listener]
    BY <2>2
  <2>4. QED
    BY <2>2, <2>3
<1>3. QED
  BY <1>1, <1>2

-----------------------------------------------------------------------------
(* The inductive invariant: the count of references, who deletes, and      *)
(* which sockets the listener's numbers stand for.                         *)
THEOREM SpeedFanInvariance == Spec => []IInv
<1>1. IInv /\ [Next]_vars => IInv'
  <2> SUFFICES ASSUME IInv, [Next]_vars PROVE IInv'
    OBVIOUS
  <2>1. CASE Next
    BY <2>1, PluginKeeps, CloseKeeps, OpenKeeps, ListenerKeeps, OthersKeep
    DEF Next, Construct, Destruct, OpenSocket, ListenerStep
  <2>2. CASE UNCHANGED vars
    BY <2>2 DEF vars, threadVars, socketVars, IInv, LifeOK, Counted, PluginRef, RunRef, ThreadRef,
       Waits, LastDeletes, Sockets
  <2>3. QED
    BY <2>1, <2>2
<1>2. QED
  BY InitIInv, <1>1, PTL DEF Spec

(* Whoever was last, the thread object is deleted and its socket closed.   *)
THEOREM NothingLeftHolds == Spec => []NothingLeft
<1>1. IInv => NothingLeft
  BY DEF IInv, LastDeletes, Sockets, NothingLeft
<1>2. QED
  BY SpeedFanInvariance, <1>1, PTL

(* Stop, OpenSocket and the destructor close no socket of anybody else's,  *)
(* however few numbers there are to give out again.                        *)
THEOREM ClosesOwnSocketHolds == Spec => ClosesOwnSocket
<1> DEFINE Own == \A h \in Handles : holder[h] = "other" /\ holder'[h] = "free" => Others
<1>1. IInv /\ [Next]_vars => [Own]_vars
  <2> SUFFICES ASSUME IInv, Next, ~Others, NEW h \in Handles, holder[h] = "other"
               PROVE holder'[h] # "free"
    OBVIOUS
  <2> USE DEF IInv
  <2>1. CASE StopCloses \/ Delete(Plugin) \/ Delete(Listener)
    BY <2>1 DEF StopCloses, Delete, Sockets, LastDeletes, Up
  <2>2. CASE OpenCloses
    BY <2>2, CloseDoes, HandlesAssumption DEF OpenCloses, Sockets, LifeOK
  <2>3. CASE OpenCreates
    BY <2>3 DEF OpenCreates, LifeOK
  <2>4. CASE UNCHANGED holder
    BY <2>4
  <2>5. QED
    BY <2>1, <2>2, <2>3, <2>4
    DEF Next, Construct, Destruct, OpenSocket, ListenerStep, ReaderStep, socketVars,
        Run, RunPolls, RunReleases, Destroy, Stop, StopLoads, Unref, OpenCreateFails, OpenBinds,
        ThreadAddRef, ThreadMark, LoopTests, ReceiveAborted, Retest, Replace, ThreadStops,
        ThreadRemoveRef, Receive, ReceiveFails, Ask, Enter, Loop, LoopEnds, Leave
<1>2. QED
  BY SpeedFanInvariance, <1>1, PTL DEF Spec, ClosesOwnSocket

-----------------------------------------------------------------------------
(* A set of numbers has a least one: the sets of numbers below each of     *)
(* them are finite, and strict inclusion is well founded on finite sets.   *)
LEMMA LeastNumber ==
  ASSUME NEW T \in SUBSET Nat, T # {}
  PROVE  \E x \in T : \A y \in T : x <= y
<1> DEFINE below(n) == 0 .. n - 1
           S == {below(n) : n \in T}
<1>1. \A n \in Nat : below(n) \in FiniteSubsetsOf(Nat)
  <2> SUFFICES ASSUME NEW n \in Nat PROVE below(n) \in FiniteSubsetsOf(Nat)
    OBVIOUS
  <2>1. IsFiniteSet(below(n))
    BY FS_Interval
  <2>2. QED
    BY <2>1 DEF FiniteSubsetsOf
<1>2. S \subseteq FiniteSubsetsOf(Nat) /\ S # {}
  BY <1>1
<1>3. PICK s \in S : \A r \in S : <<r, s>> \notin StrictSubsetOrdering(Nat)
  BY <1>2, FS_StrictSubsetOrderingWellFounded, WFMin
<1>4. PICK x \in T : s = below(x)
  OBVIOUS
<1>5. ASSUME NEW y \in T, y < x PROVE FALSE
  <2>1. y \in below(x) /\ y \notin below(y)
    BY <1>5
  <2>2. below(y) \subseteq below(x) /\ below(x) # below(y)
    BY <1>5, <2>1
  <2>3. below(y) \in S /\ below(y) \subseteq Nat /\ below(x) \subseteq Nat
    OBVIOUS
  <2>4. <<below(y), below(x)>> \in StrictSubsetOrdering(Nat)
    BY <2>2, <2>3 DEF StrictSubsetOrdering
  <2>5. QED
    BY <2>3, <2>4, <1>3, <1>4
<1>6. QED
  BY <1>5

(* Induction, for a set of numbers in the place of a property.             *)
LEMMA Induction ==
  ASSUME NEW T \in SUBSET Nat, 0 \in T, \A n \in T : n + 1 \in T
  PROVE  \A n \in Nat : n \in T
<1>1. SUFFICES ASSUME Nat \ T # {} PROVE FALSE
  OBVIOUS
<1>2. PICK x \in Nat \ T : \A y \in Nat \ T : x <= y
  BY <1>1, LeastNumber
<1>3. x # 0 /\ x - 1 \in Nat /\ x - 1 \in T
  BY <1>2
<1>4. QED
  BY <1>2, <1>3

(* The largest of the first numbers, by which a fold goes.                 *)
LEMMA LargestIs ==
  ASSUME NEW k \in Nat, NEW s \in SUBSET (1 .. k), k \in s
  PROVE  Max(s) = k
<1>1. \A x \in s : x \in Int /\ k >= x
  OBVIOUS
<1>2. \A x \in s : (\A y \in s : x >= y) => x = k
  BY <1>1
<1>3. (CHOOSE x \in s : \A y \in s : x >= y) = k
  BY <1>1, <1>2
<1>4. QED
  BY <1>3 DEF Max

ParseAll(base, lines) == FoldLeft(ParseLine, base, lines)

Goes(at, base, n, lines) ==
  /\ at[0] = base
  /\ \A i \in 1 .. n : at[i] = ParseLine(at[i - 1], lines[i])
  /\ ParseAll(base, lines) = at[n]

(* The states a fold of ParseLine goes through, from line to line.         *)
LEMMA ParseGoes ==
  ASSUME NEW base, NEW n \in Nat, NEW lines, DOMAIN lines = 1 .. n
  PROVE  \E at : Goes(at, base, n, lines)
<1> DEFINE step(f, s) == IF s = {} THEN base ELSE ParseLine(f[s \ {Max(s)}], lines[Max(s)])
           Is(f, k) == f = [s \in SUBSET (1 .. k) |-> step(f, s)]
           fold == CHOOSE f : Is(f, n)
           K == {k \in Nat : \E f : Is(f, k)}
<1> HIDE DEF step
<1>1. ParseAll(base, lines) = fold[1 .. n]
  BY DEF ParseAll, FoldLeft, MapThenFoldSet, step
<1>2. 0 \in K
  <2> DEFINE f0 == [s \in SUBSET (1 .. 0) |-> base]
  <2>1. \A s \in SUBSET (1 .. 0) : step(f0, s) = base
    BY DEF step
  <2>2. Is(f0, 0)
    BY <2>1
  <2>3. QED
    BY <2>2
<1>3. ASSUME NEW k \in K PROVE k + 1 \in K
  <2>1. PICK f : Is(f, k)
    OBVIOUS
  <2> DEFINE g == [s \in SUBSET (1 .. k + 1) |->
                     IF s \subseteq 1 .. k THEN f[s] ELSE ParseLine(f[s \ {k + 1}], lines[k + 1])]
  <2>2. ASSUME NEW s \in SUBSET (1 .. k + 1) PROVE g[s] = step(g, s)
    <3>1. CASE k + 1 \in s
      <4>1. Max(s) = k + 1 /\ s \ {k + 1} \in SUBSET (1 .. k) /\ s # {} /\ ~(s \subseteq 1 .. k)
        BY <3>1, LargestIs
      <4>2. SUBSET (1 .. k) \subseteq SUBSET (1 .. k + 1)
        OBVIOUS
      <4>3. g[s \ {k + 1}] = f[s \ {k + 1}]
        BY <4>1, <4>2
      <4>4. QED
        BY <4>1, <4>3 DEF step
    <3>2. CASE k + 1 \notin s
      <4>1. s \in SUBSET (1 .. k)
        BY <3>2
      <4>2. g[s] = f[s]
        BY <4>1
      <4>3. f[s] = step(f, s)
        BY <2>1, <4>1
      <4>4. s # {} => g[s \ {Max(s)}] = f[s \ {Max(s)}]
        BY <4>1
      <4>5. step(f, s) = step(g, s)
        BY <4>4 DEF step
      <4> HIDE DEF g
      <4>6. QED
        BY <4>2, <4>3, <4>5
    <3>3. QED
      BY <3>1, <3>2
  <2>3. Is(g, k + 1)
    BY <2>2
  <2> HIDE DEF g
  <2>4. QED
    BY <2>3
<1>4. n \in K
  BY <1>2, <1>3, Induction
<1>5. Is(fold, n)
  BY <1>4
<1> DEFINE at == [i \in 0 .. n |-> fold[1 .. i]]
<1>6. at[0] = base
  <2>1. 1 .. 0 = {} /\ {} \in SUBSET (1 .. n)
    OBVIOUS
  <2>2. fold[{}] = step(fold, {})
    BY <1>5, <2>1
  <2>3. step(fold, {}) = base
    BY DEF step
  <2>4. at[0] = fold[1 .. 0]
    OBVIOUS
  <2> HIDE DEF fold, at
  <2>5. QED
    BY <2>1, <2>2, <2>3, <2>4
<1> HIDE DEF fold
<1>7. ASSUME NEW i \in 1 .. n PROVE at[i] = ParseLine(at[i - 1], lines[i])
  <2>0. at[i] = fold[1 .. i] /\ at[i - 1] = fold[1 .. i - 1]
    OBVIOUS
  <2>1. /\ i \in Nat /\ i \in 1 .. i /\ 1 .. i \in SUBSET (1 .. n)
        /\ (1 .. i) \ {i} = 1 .. i - 1
    OBVIOUS
  <2>2. Max(1 .. i) = i
    BY <2>1, LargestIs
  <2>3. fold[1 .. i] = step(fold, 1 .. i)
    BY <1>5, <2>1
  <2>4. step(fold, 1 .. i) = ParseLine(fold[1 .. i - 1], lines[i])
    BY <2>1, <2>2 DEF step
  <2>5. QED
    BY <2>0, <2>3, <2>4
<1>8. QED
  <2>1. at[n] = fold[1 .. n]
    OBVIOUS
  <2> HIDE DEF at
  <2>2. QED
    BY <1>1, <1>6, <1>7, <2>1 DEF Goes

(* Induction over sequences, for a set of them.                            *)
LEMMA SequenceInduction ==
  ASSUME NEW S, NEW T \in SUBSET Seq(S), <<>> \in T,
         \A t \in T : \A e \in S : Append(t, e) \in T
  PROVE  \A t \in Seq(S) : t \in T
<1> DEFINE K == {k \in Nat : \A t \in Seq(S) : Len(t) = k => t \in T}
<1>1. 0 \in K
  BY EmptySeq
<1>2. ASSUME NEW k \in K PROVE k + 1 \in K
  <2> SUFFICES ASSUME NEW t \in Seq(S), Len(t) = k + 1 PROVE t \in T
    OBVIOUS
  <2>1. t # <<>>
    OBVIOUS
  <2>2. PICK u \in Seq(S), e \in S : t = Append(u, e)
    BY <2>1, SequenceEmptyOrAppend
  <2>3. u \in T
    BY <2>2
  <2>4. QED
    BY <2>2, <2>3
<1> HIDE DEF K
<1>3. \A k \in Nat : k \in K
  <2>1. K \in SUBSET Nat
    BY DEF K
  <2>2. QED
    BY <1>1, <1>2, <2>1, Induction
<1>4. QED
  BY <1>3 DEF K

(* What a fold of ParseLine is, by the last of its lines.                  *)
LEMMA ParseAllEmpty ==
  ASSUME NEW base
  PROVE  ParseAll(base, <<>>) = base
<1>1. DOMAIN <<>> = 1 .. 0 /\ 0 \in Nat
  OBVIOUS
<1>2. PICK at : Goes(at, base, 0, <<>>)
  BY <1>1, ParseGoes
<1>3. QED
  BY <1>2 DEF Goes

(* One more line is one more turn of ProcessBuffer's loop.                 *)
LEMMA ParseAllAppend ==
  ASSUME NEW S, NEW s \in Seq(S), NEW e, NEW base
  PROVE  ParseAll(base, Append(s, e)) = ParseLine(ParseAll(base, s), e)
<1> DEFINE n == Len(s)
           t == Append(s, e)
<1>1. /\ n \in Nat /\ n + 1 \in Nat /\ DOMAIN s = 1 .. n
      /\ DOMAIN t = 1 .. n + 1 /\ t[n + 1] = e
      /\ \A i \in 1 .. n : t[i] = s[i]
  OBVIOUS
<1> HIDE DEF n, t
<1>2. PICK first : Goes(first, base, n, s)
  BY <1>1, ParseGoes
<1>3. PICK whole : Goes(whole, base, n + 1, t)
  BY <1>1, ParseGoes
<1> DEFINE T == {i \in Nat : i <= n => whole[i] = first[i]}
<1>4. 0 \in T
  BY <1>2, <1>3 DEF Goes
<1>5. ASSUME NEW i \in T PROVE i + 1 \in T
  <2> SUFFICES ASSUME i + 1 <= n PROVE whole[i + 1] = first[i + 1]
    OBVIOUS
  <2>1. i + 1 \in 1 .. n /\ i + 1 \in 1 .. n + 1 /\ (i + 1) - 1 = i /\ i <= n
    BY <1>1
  <2>2. whole[i + 1] = ParseLine(whole[i], s[i + 1])
    BY <2>1, <1>1, <1>3 DEF Goes
  <2>3. first[i + 1] = ParseLine(first[i], s[i + 1])
    BY <2>1, <1>2 DEF Goes
  <2>4. QED
    BY <2>1, <2>2, <2>3
<1> HIDE DEF T
<1>6. n \in T
  <2>1. T \in SUBSET Nat
    BY DEF T
  <2>2. QED
    BY <1>1, <1>4, <1>5, <2>1, Induction
<1>7. whole[n] = first[n]
  BY <1>1, <1>6 DEF T
<1>8. n + 1 \in 1 .. n + 1 /\ (n + 1) - 1 = n
  BY <1>1
<1>9. whole[n + 1] = ParseLine(first[n], e)
  BY <1>1, <1>3, <1>7, <1>8 DEF Goes
<1>10. QED
  BY <1>2, <1>3, <1>9 DEF t, Goes

(* A fold over two sequences, one after the other.                         *)
LEMMA ParseOfConcat ==
  ASSUME NEW S, NEW s \in Seq(S), NEW base
  PROVE  \A t \in Seq(S) : ParseAll(base, s \o t) = ParseAll(ParseAll(base, s), t)
<1> DEFINE T == {t \in Seq(S) : ParseAll(base, s \o t) = ParseAll(ParseAll(base, s), t)}
<1>1. <<>> \in T
  <2>1. s \o <<>> = s /\ <<>> \in Seq(S)
    OBVIOUS
  <2>2. QED
    BY <2>1, ParseAllEmpty
<1>2. ASSUME NEW t \in T, NEW e \in S PROVE Append(t, e) \in T
  <2>1. s \o Append(t, e) = Append(s \o t, e) /\ s \o t \in Seq(S) /\ Append(t, e) \in Seq(S)
    OBVIOUS
  <2>2. ParseAll(base, Append(s \o t, e)) = ParseLine(ParseAll(base, s \o t), e)
    BY <2>1, ParseAllAppend
  <2>3. ParseAll(ParseAll(base, s), Append(t, e)) = ParseLine(ParseAll(ParseAll(base, s), t), e)
    BY ParseAllAppend
  <2>4. QED
    BY <2>1, <2>2, <2>3
<1> HIDE DEF T
<1>3. T \in SUBSET Seq(S)
  BY DEF T
<1>4. \A t \in Seq(S) : t \in T
  BY <1>1, <1>2, <1>3, SequenceInduction
<1>5. QED
  BY <1>4 DEF T

(* What FlattenSeq has put together after each of its parts.               *)
Flattens(at, parts) ==
  /\ DOMAIN at = 1 .. Len(parts)
  /\ \A i \in 1 .. Len(parts) : at[i] = IF i = 1 THEN parts[i] ELSE at[i - 1] \o parts[i]

(* FlattenSeq of something goes through its parts, one after the other.    *)
LEMMA FlattenGoes ==
  ASSUME NEW S, NEW parts \in Seq(S), parts # <<>>
  PROVE  \E at : Flattens(at, parts) /\ FlattenSeq(parts) = at[Len(parts)]
<1> DEFINE n == Len(parts)
           step(f, i) == IF i = 1 THEN parts[i] ELSE f[i - 1] \o parts[i]
           Is(f, k) == f = [i \in 1 .. k |-> step(f, i)]
           flatten == CHOOSE f : Is(f, n)
           K == {k \in Nat : \E f : Is(f, k)}
<1>0. n \in Nat /\ n # 0
  OBVIOUS
<1>1. FlattenSeq(parts) = flatten[n]
  BY <1>0 DEF FlattenSeq
<1> HIDE DEF step
<1>2. 0 \in K
  <2> DEFINE f0 == [i \in 1 .. 0 |-> <<>>]
  <2>1. Is(f0, 0)
    OBVIOUS
  <2> HIDE DEF f0
  <2>2. QED
    BY <2>1
<1>3. ASSUME NEW k \in K PROVE k + 1 \in K
  <2>1. PICK f : Is(f, k)
    OBVIOUS
  <2> DEFINE g == [i \in 1 .. k + 1 |->
                     IF i <= k THEN f[i] ELSE step(f, k + 1)]
  <2>2. ASSUME NEW i \in 1 .. k + 1 PROVE g[i] = step(g, i)
    <3>1. i # 1 => i - 1 \in 1 .. k /\ g[i - 1] = f[i - 1]
      OBVIOUS
    <3>2. step(g, i) = step(f, i)
      BY <3>1 DEF step
    <3>3. CASE i <= k
      <4>1. g[i] = f[i] /\ i \in 1 .. k
        BY <3>3
      <4>2. f[i] = step(f, i)
        BY <2>1, <4>1
      <4> HIDE DEF g
      <4>3. QED
        BY <3>2, <4>1, <4>2
    <3>4. CASE i = k + 1
      <4>1. g[i] = step(f, i)
        BY <3>4
      <4> HIDE DEF g
      <4>2. QED
        BY <3>2, <4>1
    <3>5. QED
      BY <3>3, <3>4
  <2>3. Is(g, k + 1)
    BY <2>2
  <2> HIDE DEF g
  <2>4. QED
    BY <2>3
<1>4. n \in K
  BY <1>0, <1>2, <1>3, Induction
<1>5. Is(flatten, n)
  BY <1>4
<1> HIDE DEF flatten
<1>6. Flattens(flatten, parts)
  BY <1>5 DEF Flattens, step
<1>7. QED
  BY <1>1, <1>6

(* What FlattenSeq is, by the last of its parts.                           *)
LEMMA FlattenEmpty == FlattenSeq(<<>>) = <<>>
<1>1. Len(<<>>) = 0
  OBVIOUS
<1>2. QED
  BY <1>1 DEF FlattenSeq

(* One more part is appended to what the others gave.                      *)
LEMMA FlattenAppend ==
  ASSUME NEW S, NEW parts \in Seq(Seq(S)), NEW p \in Seq(S)
  PROVE  FlattenSeq(Append(parts, p)) = FlattenSeq(parts) \o p
<1> DEFINE n == Len(parts)
           longer == Append(parts, p)
<1>1. /\ n \in Nat /\ n + 1 \in Nat /\ n + 1 \in 1 .. n + 1
      /\ Len(longer) = n + 1 /\ longer # <<>> /\ longer \in Seq(Seq(S))
      /\ longer[n + 1] = p
      /\ \A i \in 1 .. n : longer[i] = parts[i]
  OBVIOUS
<1> HIDE DEF longer
<1>2. PICK whole : Flattens(whole, longer) /\ FlattenSeq(longer) = whole[n + 1]
  BY <1>1, FlattenGoes
<1>3. CASE parts = <<>>
  <2>1. n = 0
    BY <1>3
  <2>2. whole[n + 1] = p
    BY <1>1, <1>2, <2>1 DEF Flattens
  <2>3. <<>> \o p = p
    OBVIOUS
  <2>4. QED
    BY <1>2, <1>3, <2>2, <2>3, FlattenEmpty DEF longer
<1>4. CASE parts # <<>>
  <2>1. n # 0
    BY <1>4
  <2>2. PICK first : Flattens(first, parts) /\ FlattenSeq(parts) = first[n]
    BY <1>4, FlattenGoes
  <2> HIDE DEF n
  <2> DEFINE T == {i \in Nat : i \in 1 .. n => whole[i] = first[i]}
  <2>3. 0 \in T
    BY <1>1
  <2>4. ASSUME NEW i \in T PROVE i + 1 \in T
    <3> SUFFICES ASSUME i + 1 <= n PROVE whole[i + 1] = first[i + 1]
      OBVIOUS
    <3>1. i + 1 \in 1 .. n /\ i + 1 \in 1 .. n + 1 /\ (i + 1) - 1 = i
      BY <1>1
    <3>2. whole[i + 1] = IF i + 1 = 1 THEN parts[i + 1] ELSE whole[i] \o parts[i + 1]
      BY <3>1, <1>1, <1>2 DEF Flattens
    <3>3. first[i + 1] = IF i + 1 = 1 THEN parts[i + 1] ELSE first[i] \o parts[i + 1]
      BY <3>1, <2>2 DEF Flattens, n
    <3>4. i + 1 = 1 \/ i \in 1 .. n
      BY <3>1, <1>1
    <3>5. i + 1 = 1 \/ whole[i] = first[i]
      BY <3>4
    <3> HIDE DEF T
    <3>6. QED
      BY <3>2, <3>3, <3>5
  <2> HIDE DEF T
  <2>5. n \in T
    <3>1. T \in SUBSET Nat
      BY DEF T
    <3>2. QED
      BY <1>1, <2>3, <2>4, <3>1, Induction
  <2>6. whole[n] = first[n]
    BY <1>1, <2>1, <2>5 DEF T
  <2>7. whole[n + 1] = whole[n] \o p
    <3>1. n + 1 # 1 /\ (n + 1) - 1 = n
      BY <1>1, <2>1
    <3>2. QED
      BY <3>1, <1>1, <1>2 DEF Flattens
  <2>8. QED
    BY <1>2, <2>2, <2>6, <2>7 DEF longer
<1>5. QED
  BY <1>3, <1>4

(* Its elements are those of the parts.                                    *)
LEMMA FlattenTyped ==
  ASSUME NEW S
  PROVE  \A parts \in Seq(Seq(S)) : FlattenSeq(parts) \in Seq(S)
<1> DEFINE T == {parts \in Seq(Seq(S)) : FlattenSeq(parts) \in Seq(S)}
<1>1. <<>> \in T
  <2>1. <<>> \in Seq(S) /\ <<>> \in Seq(Seq(S))
    OBVIOUS
  <2>2. QED
    BY <2>1, FlattenEmpty
<1>2. ASSUME NEW parts \in T, NEW p \in Seq(S) PROVE Append(parts, p) \in T
  <2>1. FlattenSeq(Append(parts, p)) = FlattenSeq(parts) \o p
    BY FlattenAppend
  <2>2. Append(parts, p) \in Seq(Seq(S)) /\ FlattenSeq(parts) \o p \in Seq(S)
    OBVIOUS
  <2>3. QED
    BY <2>1, <2>2
<1> HIDE DEF T
<1>3. T \in SUBSET Seq(Seq(S))
  BY DEF T
<1>4. \A parts \in Seq(Seq(S)) : parts \in T
  BY <1>1, <1>2, <1>3, SequenceInduction
<1>5. QED
  BY <1>4 DEF T

-----------------------------------------------------------------------------
ParseState == [inBlock : BOOLEAN, current : Seq(Block), blocks : Seq(Block)]

Start == [inBlock |-> FALSE, current |-> <<>>, blocks |-> <<>>]

(* What a line leaves are blocks again.                                    *)
LEMMA ReadDataTyped ==
  ASSUME NEW block \in Block, NEW line \in Line
  PROVE  ReadData(block, line) \in Block
<1>1. CASE line.value # NoText /\ line.key \in (IF block.header THEN HeaderKeys ELSE DataKeys)
  <2>1. line.value \in Texts \cup {NoText, Cut} /\ line.key \in HeaderKeys \cup DataKeys
    BY <1>1 DEF Line
  <2>2. ReadData(block, line) = [block EXCEPT !.data[line.key] = line.value]
    BY <1>1 DEF ReadData
  <2>3. QED
    BY <2>1, <2>2 DEF Block
<1>2. CASE ~(line.value # NoText /\ line.key \in (IF block.header THEN HeaderKeys ELSE DataKeys))
  BY <1>2 DEF ReadData
<1>3. QED
  BY <1>1, <1>2

(* A block that a line begins is a block.                                  *)
LEMMA NewBlockTyped ==
  ASSUME NEW line \in Line
  PROVE  NewBlock(line) \in Block
BY DEF NewBlock, IsHeader, NoData, Block

(* A turn of the loop keeps the types.                                     *)
LEMMA ParseLineTyped ==
  ASSUME NEW s \in ParseState, NEW line \in Line
  PROVE  ParseLine(s, line) \in ParseState
<1>1. CASE line.key = "{" \/ line.key = "}"
  BY <1>1 DEF ParseLine, ParseState
<1>2. CASE line.key # "{" /\ line.key # "}" /\ s.inBlock
  <2> DEFINE read == [i \in DOMAIN s.current |-> ReadData(s.current[i], line)]
  <2>1. read \in Seq(Block)
    <3>1. s.current \in Seq(Block)
      BY DEF ParseState
    <3>2. \A i \in DOMAIN s.current : ReadData(s.current[i], line) \in Block
      BY <3>1, ReadDataTyped
    <3>3. QED
      BY <3>1, <3>2
  <2>2. ParseLine(s, line) = [s EXCEPT !.current = read]
    BY <1>2 DEF ParseLine
  <2> HIDE DEF read
  <2>3. QED
    BY <2>1, <2>2 DEF ParseState
<1>3. CASE line.key # "{" /\ line.key # "}" /\ ~s.inBlock
  <2>1. <<NewBlock(line)>> \in Seq(Block)
    BY NewBlockTyped
  <2>2. /\ s.blocks \in Seq(Block) /\ s.current \in Seq(Block)
        /\ s.blocks \o s.current \in Seq(Block)
    BY DEF ParseState
  <2>3. ParseLine(s, line) = [s EXCEPT !.current = <<NewBlock(line)>>,
                 !.blocks = IF IsHeader(line) THEN s.blocks ELSE s.blocks \o s.current]
    BY <1>3 DEF ParseLine
  <2>4. QED
    BY <2>1, <2>2, <2>3 DEF ParseState
<1>4. QED
  BY <1>1, <1>2, <1>3

(* So does its start.                                                      *)
LEMMA StartTyped == Start \in ParseState
<1>1. <<>> \in Seq(Block)
  OBVIOUS
<1>2. QED
  BY <1>1 DEF Start, ParseState

(* The listener's state stays one, over any lines.                         *)
LEMMA ParseAllTyped ==
  ASSUME NEW base \in ParseState
  PROVE  \A lines \in Seq(Line) : ParseAll(base, lines) \in ParseState
<1> DEFINE T == {lines \in Seq(Line) : ParseAll(base, lines) \in ParseState}
<1>1. <<>> \in T
  <2>1. <<>> \in Seq(Line)
    OBVIOUS
  <2>2. QED
    BY <2>1, ParseAllEmpty
<1>2. ASSUME NEW lines \in T, NEW line \in Line PROVE Append(lines, line) \in T
  <2>1. ParseAll(base, Append(lines, line)) = ParseLine(ParseAll(base, lines), line)
    BY ParseAllAppend
  <2>2. Append(lines, line) \in Seq(Line)
    OBVIOUS
  <2>3. QED
    BY <2>1, <2>2, ParseLineTyped
<1> HIDE DEF T
<1>3. T \in SUBSET Seq(Line)
  BY DEF T
<1>4. \A lines \in Seq(Line) : lines \in T
  BY <1>1, <1>2, <1>3, SequenceInduction
<1>5. QED
  BY <1>4 DEF T

(* A last line that is cut is a line.                                      *)
LEMMA ReceivedTyped ==
  ASSUME NEW p \in Packet
  PROVE  Received(p) \in Seq(Line)
<1>1. p.lines \in Seq(Line)
  BY DEF Packet
<1>2. CASE p.ended \/ p.lines = <<>>
  BY <1>1, <1>2 DEF Received
<1>3. CASE ~(p.ended \/ p.lines = <<>>)
  <2>1. Last(p.lines) \in Line /\ Front(p.lines) \in Seq(Line)
    BY <1>1, <1>3 DEF Last, Front
  <2>2. Chop(Last(p.lines)) \in Line
    BY <2>1 DEF Chop, Name, Pair, Line
  <2>3. Received(p) = Front(p.lines) \o <<Chop(Last(p.lines))>>
    BY <1>3 DEF Received
  <2>4. QED
    BY <2>1, <2>2, <2>3
<1>4. QED
  BY <1>2, <1>3

(* What a packet is parsed as is a sequence of blocks.                     *)
LEMMA ParseIs ==
  ASSUME NEW p
  PROVE  Parse(p) = ParseAll(Start, Received(p)).blocks \o ParseAll(Start, Received(p)).current
BY Zenon DEF Parse, ParseAll, Start

(* What a packet is parsed as are blocks.                                  *)
LEMMA ParseTyped ==
  ASSUME NEW p \in Packet
  PROVE  Parse(p) \in Seq(Block)
<1>1. ParseAll(Start, Received(p)) \in ParseState
  BY StartTyped, ReceivedTyped, ParseAllTyped
<1> DEFINE s == ParseAll(Start, Received(p))
<1>2. s.blocks \in Seq(Block) /\ s.current \in Seq(Block)
  BY <1>1 DEF ParseState
<1>3. Parse(p) = s.blocks \o s.current
  BY ParseIs
<1> HIDE DEF s
<1>4. QED
  BY <1>2, <1>3

-----------------------------------------------------------------------------
(* A fold over the lines of a block.                                       *)
LEMMA ParseOne ==
  ASSUME NEW a \in Line, NEW base
  PROVE  ParseAll(base, <<a>>) = ParseLine(base, a)
<1>1. <<>> \in Seq(Line)
  OBVIOUS
<1>2. ParseAll(base, Append(<<>>, a)) = ParseLine(ParseAll(base, <<>>), a)
  BY <1>1, ParseAllAppend, Zenon
<1>3. <<a>> = Append(<<>>, a)
  OBVIOUS
<1>4. QED
  BY <1>2, <1>3, ParseAllEmpty, Zenon

(* Three lines, as after a header's brace.                                 *)
LEMMA ParseThree ==
  ASSUME NEW a \in Line, NEW b \in Line, NEW c \in Line, NEW base
  PROVE  ParseAll(base, <<a, b, c>>) = ParseLine(ParseLine(ParseLine(base, a), b), c)
<1>1. <<a>> \in Seq(Line) /\ <<a, b>> \in Seq(Line)
  OBVIOUS
<1>2. /\ ParseAll(base, Append(<<a>>, b)) = ParseLine(ParseAll(base, <<a>>), b)
      /\ ParseAll(base, Append(<<a, b>>, c)) = ParseLine(ParseAll(base, <<a, b>>), c)
  BY <1>1, ParseAllAppend, Zenon
<1>3. <<a, b>> = Append(<<a>>, b) /\ <<a, b, c>> = Append(<<a, b>>, c)
  OBVIOUS
<1>4. QED
  BY <1>2, <1>3, ParseOne, Zenon

(* Four, as of a reading.                                                  *)
LEMMA ParseFour ==
  ASSUME NEW a \in Line, NEW b \in Line, NEW c \in Line, NEW d \in Line, NEW base
  PROVE  ParseAll(base, <<a, b, c, d>>)
           = ParseLine(ParseLine(ParseLine(ParseLine(base, a), b), c), d)
<1> DEFINE u == <<a, b, c>>
           t == <<a, b, c, d>>
<1>1. u \in Seq(Line) /\ t = Append(u, d)
  OBVIOUS
<1>2. ParseAll(base, u) = ParseLine(ParseLine(ParseLine(base, a), b), c)
  BY ParseThree
<1> HIDE DEF u, t
<1>3. ParseAll(base, t) = ParseLine(ParseAll(base, u), d)
  BY <1>1, ParseAllAppend
<1>4. QED
  BY <1>2, <1>3 DEF t

(* Five, as of a header.                                                   *)
LEMMA ParseFive ==
  ASSUME NEW a \in Line, NEW b \in Line, NEW c \in Line, NEW d \in Line, NEW e \in Line,
         NEW base
  PROVE  ParseAll(base, <<a, b, c, d, e>>)
           = ParseLine(ParseLine(ParseLine(ParseLine(ParseLine(base, a), b), c), d), e)
<1> DEFINE u == <<a, b, c, d>>
           t == <<a, b, c, d, e>>
<1>1. u \in Seq(Line) /\ t = Append(u, e)
  OBVIOUS
<1>2. ParseAll(base, u) = ParseLine(ParseLine(ParseLine(ParseLine(base, a), b), c), d)
  BY ParseFour
<1> HIDE DEF u, t
<1>3. ParseAll(base, t) = ParseLine(ParseAll(base, u), e)
  BY <1>1, ParseAllAppend
<1>4. QED
  BY <1>2, <1>3 DEF t

(* The lines of a block, one by one.                                       *)
LEMMA BlockLinesAre ==
  ASSUME NEW name, NEW p, NEW q
  PROVE  /\ BlockLines(name, <<p>>) = <<Name(name), Name("{"), p, Name("}")>>
         /\ BlockLines(name, <<p, q>>) = <<Name(name), Name("{"), p, q, Name("}")>>
<1> DEFINE a == Name(name)   b == Name("{")   e == Name("}")
           S == {a, b, p, q, e}
           two == <<a, b>>   three == <<a, b, p>>   four == <<a, b, p, q>>
           P == <<p>>   Q == <<q>>   PQ == <<p, q>>   E == <<e>>
<1>0. a \in S /\ b \in S /\ p \in S /\ q \in S /\ e \in S
  OBVIOUS
<1> HIDE DEF a, b, e, S
<1>1. /\ two \in Seq(S) /\ three \in Seq(S) /\ four \in Seq(S)
      /\ P \in Seq(S) /\ Q \in Seq(S) /\ PQ \in Seq(S)
  BY <1>0
<1>2. /\ three = Append(two, p) /\ four = Append(three, q) /\ PQ = Append(P, q)
      /\ <<a, b, p, e>> = Append(three, e) /\ <<a, b, p, q, e>> = Append(four, e)
  OBVIOUS
<1> HIDE DEF two, three, four, P, Q, PQ, E
<1>3. two \o P = three
  BY <1>0, <1>1, <1>2, AppendIsConcat DEF P
<1>4. three \o Q = four /\ PQ = P \o Q
  BY <1>0, <1>1, <1>2, AppendIsConcat DEF Q
<1>5. two \o PQ = four
  <2>1. two \in Seq(S) /\ P \in Seq(S) /\ Q \in Seq(S)
    BY <1>1
  <2>2. (two \o P) \o Q = two \o (P \o Q)
    BY <2>1, ConcatAssociative
  <2>3. QED
    BY <1>3, <1>4, <2>2, Zenon
<1>6. three \o E = <<a, b, p, e>> /\ four \o E = <<a, b, p, q, e>>
  BY <1>0, <1>1, <1>2, AppendIsConcat DEF E
<1>7. /\ BlockLines(name, P) = (two \o P) \o E
      /\ BlockLines(name, PQ) = (two \o PQ) \o E
  BY Zenon DEF BlockLines, two, a, b, e, E
<1>8. BlockLines(name, P) = <<a, b, p, e>> /\ BlockLines(name, PQ) = <<a, b, p, q, e>>
  BY <1>3, <1>5, <1>6, <1>7, Zenon
<1>9. QED
  BY <1>8, Zenon DEF P, PQ, a, b, e

(* A key is looked for in the one block there is.                          *)
LEMMA ReadOne ==
  ASSUME NEW block, NEW line
  PROVE  [i \in DOMAIN <<block>> |-> ReadData(<<block>>[i], line)] = <<ReadData(block, line)>>
OBVIOUS

-----------------------------------------------------------------------------
HeaderBlock(m) ==
  [header |-> TRUE, name |-> Name(Header),
   data |-> [NoData EXCEPT !["uid"] = m.uid, !["class"] = m.class]]

DataBlock(r) ==
  [header |-> FALSE, name |-> Name(r.name), data |-> [NoData EXCEPT !["curr"] = r.curr]]

HeaderLines(m) == BlockLines(Header, <<Pair("uid", m.uid), Pair("class", m.class)>>)
DataLines(r)   == BlockLines(r.name, <<Pair("curr", r.curr)>>)

ReadingParts(rs)  == [i \in DOMAIN rs |-> DataLines(rs[i])]
ReadingBlocks(rs) == [i \in DOMAIN rs |-> DataBlock(rs[i])]

(* The lines of a message are lines.                                       *)
LEMMA LinesTyped ==
  /\ \A key \in Names \cup {Header, "{", "}"} : Name(key) \in Line
  /\ \A text \in Texts : \A k \in HeaderKeys \cup DataKeys : Pair(k, text) \in Line
BY DEF Name, Pair, Line

(* A header's lines.                                                       *)
LEMMA HeaderLinesAre ==
  ASSUME NEW m \in Message
  PROVE  /\ HeaderLines(m) = <<Name(Header), Name("{"), Pair("uid", m.uid),
                               Pair("class", m.class), Name("}")>>
         /\ Name(Header) \in Line /\ Name("{") \in Line /\ Name("}") \in Line
         /\ Pair("uid", m.uid) \in Line /\ Pair("class", m.class) \in Line
         /\ HeaderLines(m) \in Seq(Line)
<1>1. m.uid \in Texts /\ m.class \in Texts
  BY DEF Message
<1>2. /\ Name(Header) \in Line /\ Name("{") \in Line /\ Name("}") \in Line
      /\ Pair("uid", m.uid) \in Line /\ Pair("class", m.class) \in Line
  BY <1>1 DEF Line, Name, Pair, HeaderKeys
<1>3. HeaderLines(m) = <<Name(Header), Name("{"), Pair("uid", m.uid),
                         Pair("class", m.class), Name("}")>>
  BY BlockLinesAre, Zenon DEF HeaderLines
<1>4. HeaderLines(m) \in Seq(Line)
  <2> DEFINE a == Name(Header)   b == Name("{")   c == Pair("uid", m.uid)
             d == Pair("class", m.class)   e == Name("}")
  <2>1. HeaderLines(m) = <<a, b, c, d, e>> /\ a \in Line /\ b \in Line /\ c \in Line
        /\ d \in Line /\ e \in Line
    BY <1>2, <1>3
  <2> HIDE DEF a, b, c, d, e
  <2>2. QED
    BY <2>1
<1>5. QED
  BY <1>2, <1>3, <1>4, Zenon

(* A reading's lines.                                                      *)
LEMMA DataLinesAre ==
  ASSUME NEW r \in Reading
  PROVE  /\ DataLines(r) = <<Name(r.name), Name("{"), Pair("curr", r.curr), Name("}")>>
         /\ Name(r.name) \in Line /\ Name("{") \in Line /\ Name("}") \in Line
         /\ Pair("curr", r.curr) \in Line
         /\ DataLines(r) \in Seq(Line)
<1>1. r.name \in Names /\ r.curr \in Texts
  BY DEF Reading
<1>2. /\ Name(r.name) \in Line /\ Name("{") \in Line /\ Name("}") \in Line
      /\ Pair("curr", r.curr) \in Line
  BY <1>1 DEF Line, Name, Pair, DataKeys
<1>3. DataLines(r) = <<Name(r.name), Name("{"), Pair("curr", r.curr), Name("}")>>
  BY BlockLinesAre, Zenon DEF DataLines
<1>4. DataLines(r) \in Seq(Line)
  <2> DEFINE a == Name(r.name)   b == Name("{")   c == Pair("curr", r.curr)   d == Name("}")
  <2>1. DataLines(r) = <<a, b, c, d>> /\ a \in Line /\ b \in Line /\ c \in Line /\ d \in Line
    BY <1>2, <1>3
  <2> HIDE DEF a, b, c, d
  <2>2. QED
    BY <2>1
<1>5. QED
  BY <1>2, <1>3, <1>4, Zenon

(* The listener's state after the header of a message, ...                 *)
LEMMA ParseHeader ==
  ASSUME NEW m \in Message
  PROVE  ParseAll(Start, HeaderLines(m))
           = [inBlock |-> FALSE, current |-> <<HeaderBlock(m)>>, blocks |-> <<>>]
<1> DEFINE a == Name(Header)   b == Name("{")   c == Pair("uid", m.uid)
           d == Pair("class", m.class)   e == Name("}")
           new == [header |-> TRUE, name |-> a, data |-> NoData]
           half == [header |-> TRUE, name |-> a, data |-> [NoData EXCEPT !["uid"] = m.uid]]
<1>0. m.uid \in Texts /\ m.class \in Texts /\ m.uid # NoText /\ m.class # NoText
  BY TextsAssumption DEF Message
<1>1. ParseLine(Start, a) = [inBlock |-> FALSE, current |-> <<new>>, blocks |-> <<>>]
  BY DEF ParseLine, Start, NewBlock, IsHeader, Name, Header
<1>2. ParseLine([inBlock |-> FALSE, current |-> <<new>>, blocks |-> <<>>], b)
        = [inBlock |-> TRUE, current |-> <<new>>, blocks |-> <<>>]
  BY DEF ParseLine, Name
<1>3. ReadData(new, c) = half
  BY <1>0 DEF ReadData, Pair, HeaderKeys
<1>4. ParseLine([inBlock |-> TRUE, current |-> <<new>>, blocks |-> <<>>], c)
        = [inBlock |-> TRUE, current |-> <<half>>, blocks |-> <<>>]
  <2>1. [i \in DOMAIN <<new>> |-> ReadData(<<new>>[i], c)] = <<half>>
    BY <1>3, ReadOne, Zenon
  <2> HIDE DEF new, half
  <2>2. QED
    BY <2>1 DEF ParseLine, Pair
<1>5. ReadData(half, d) = HeaderBlock(m)
  BY <1>0 DEF ReadData, Pair, HeaderKeys, HeaderBlock
<1>6. ParseLine([inBlock |-> TRUE, current |-> <<half>>, blocks |-> <<>>], d)
        = [inBlock |-> TRUE, current |-> <<HeaderBlock(m)>>, blocks |-> <<>>]
  <2>1. [i \in DOMAIN <<half>> |-> ReadData(<<half>>[i], d)] = <<HeaderBlock(m)>>
    BY <1>5, ReadOne, Zenon
  <2> HIDE DEF half
  <2>2. QED
    BY <2>1 DEF ParseLine, Pair
<1>7. ParseLine([inBlock |-> TRUE, current |-> <<HeaderBlock(m)>>, blocks |-> <<>>], e)
        = [inBlock |-> FALSE, current |-> <<HeaderBlock(m)>>, blocks |-> <<>>]
  BY DEF ParseLine, Name
<1>8. a \in Line /\ b \in Line /\ c \in Line /\ d \in Line /\ e \in Line
      /\ HeaderLines(m) = <<a, b, c, d, e>>
  BY HeaderLinesAre, Zenon
<1> HIDE DEF a, b, c, d, e, new, half
<1>9. ParseAll(Start, <<a, b, c, d, e>>)
        = ParseLine(ParseLine(ParseLine(ParseLine(ParseLine(Start, a), b), c), d), e)
  BY <1>8, ParseFive, SMT
<1>10. QED
  BY <1>1, <1>2, <1>4, <1>6, <1>7, <1>8, <1>9, Zenon

(* ... and after each of its data blocks, whatever came before.            *)
LEMMA ParseData ==
  ASSUME NEW r \in Reading, NEW s \in ParseState, ~s.inBlock
  PROVE  ParseAll(s, DataLines(r))
           = [inBlock |-> FALSE, current |-> <<DataBlock(r)>>, blocks |-> s.blocks \o s.current]
<1> DEFINE a == Name(r.name)   b == Name("{")   c == Pair("curr", r.curr)   d == Name("}")
           bs == s.blocks \o s.current
           new == [header |-> FALSE, name |-> a, data |-> NoData]
<1>0. /\ r.name \in Names /\ r.curr \in Texts /\ r.curr # NoText
      /\ r.name # "{" /\ r.name # "}" /\ r.name \notin {Header, CutHeader}
  BY TextsAssumption DEF Reading, Header, CutHeader
<1>1. ParseLine(s, a) = [inBlock |-> FALSE, current |-> <<new>>, blocks |-> bs]
  <2>1. ~IsHeader(a)
    BY <1>0 DEF IsHeader, Name
  <2>2. IsHeader(a) = FALSE
    BY <2>1 DEF IsHeader
  <2>3. NewBlock(a) = new
    BY <2>2, Zenon DEF NewBlock
  <2>4. QED
    BY <1>0, <2>1, <2>3 DEF ParseLine, Name, ParseState
<1>2. ParseLine([inBlock |-> FALSE, current |-> <<new>>, blocks |-> bs], b)
        = [inBlock |-> TRUE, current |-> <<new>>, blocks |-> bs]
  <2> HIDE DEF new, bs
  <2>1. QED
    BY DEF ParseLine, Name
<1>3. ReadData(new, c) = DataBlock(r)
  BY <1>0 DEF ReadData, Pair, DataKeys, DataBlock
<1>4. ParseLine([inBlock |-> TRUE, current |-> <<new>>, blocks |-> bs], c)
        = [inBlock |-> TRUE, current |-> <<DataBlock(r)>>, blocks |-> bs]
  <2>1. [i \in DOMAIN <<new>> |-> ReadData(<<new>>[i], c)] = <<DataBlock(r)>>
    BY <1>3, ReadOne, Zenon
  <2> HIDE DEF new, bs
  <2>2. QED
    BY <2>1 DEF ParseLine, Pair
<1>5. ParseLine([inBlock |-> TRUE, current |-> <<DataBlock(r)>>, blocks |-> bs], d)
        = [inBlock |-> FALSE, current |-> <<DataBlock(r)>>, blocks |-> bs]
  <2> HIDE DEF bs
  <2>1. QED
    BY DEF ParseLine, Name
<1>6. a \in Line /\ b \in Line /\ c \in Line /\ d \in Line /\ DataLines(r) = <<a, b, c, d>>
  BY DataLinesAre, Zenon
<1> HIDE DEF a, b, c, d, new, bs
<1>7. ParseAll(s, <<a, b, c, d>>) = ParseLine(ParseLine(ParseLine(ParseLine(s, a), b), c), d)
  BY <1>6, ParseFour, SMT
<1>8. ParseAll(s, DataLines(r)) = [inBlock |-> FALSE, current |-> <<DataBlock(r)>>, blocks |-> bs]
  BY <1>1, <1>2, <1>4, <1>5, <1>6, <1>7, Zenon
<1>9. QED
  BY <1>8 DEF bs

(* The lines and the blocks of a message, reading by reading.              *)
LEMMA MessageIs ==
  ASSUME NEW m
  PROVE  /\ Lines(m) = HeaderLines(m) \o FlattenSeq(ReadingParts(m.readings))
         /\ Blocks(m) = <<HeaderBlock(m)>> \o ReadingBlocks(m.readings)
BY Zenon DEF Lines, HeaderLines, ReadingParts, DataLines, Blocks, HeaderBlock, ReadingBlocks, DataBlock

(* The lines of all readings are lines.                                    *)
LEMMA ReadingPartsTyped ==
  ASSUME NEW rs \in Seq(Reading)
  PROVE  ReadingParts(rs) \in Seq(Seq(Line)) /\ FlattenSeq(ReadingParts(rs)) \in Seq(Line)
<1>1. \A i \in DOMAIN rs : rs[i] \in Reading
  OBVIOUS
<1>2. \A i \in DOMAIN rs : DataLines(rs[i]) \in Seq(Line)
  BY <1>1, DataLinesAre
<1>3. ReadingParts(rs) \in Seq(Seq(Line))
  BY <1>2 DEF ReadingParts
<1>4. QED
  BY <1>3, FlattenTyped

(* One more reading adds its lines and its block.                          *)
LEMMA ReadingsAppend ==
  ASSUME NEW rs \in Seq(Reading), NEW r \in Reading
  PROVE  /\ ReadingParts(Append(rs, r)) = Append(ReadingParts(rs), DataLines(r))
         /\ ReadingBlocks(Append(rs, r)) = Append(ReadingBlocks(rs), DataBlock(r))
<1>1. /\ DOMAIN Append(rs, r) = 1 .. Len(rs) + 1 /\ DOMAIN rs = 1 .. Len(rs) /\ Len(rs) \in Nat
      /\ \A i \in 1 .. Len(rs) : Append(rs, r)[i] = rs[i]
      /\ Append(rs, r)[Len(rs) + 1] = r
  OBVIOUS
<1>2. ReadingParts(Append(rs, r)) = Append(ReadingParts(rs), DataLines(r))
  BY <1>1 DEF ReadingParts
<1>3. ReadingBlocks(Append(rs, r)) = Append(ReadingBlocks(rs), DataBlock(r))
  BY <1>1 DEF ReadingBlocks
<1>4. QED
  BY <1>2, <1>3

(* What a header and a reading say are blocks.                             *)
LEMMA BlockTyped ==
  /\ \A m \in Message : HeaderBlock(m) \in Block
  /\ \A r \in Reading : DataBlock(r) \in Block
<1>1. ASSUME NEW m \in Message PROVE HeaderBlock(m) \in Block
  <2>1. m.uid \in Texts /\ m.class \in Texts
    BY DEF Message
  <2>2. Name(Header) \in Line
    BY DEF Name, Line
  <2>3. QED
    BY <2>1, <2>2 DEF HeaderBlock, Block, NoData
<1>2. ASSUME NEW r \in Reading PROVE DataBlock(r) \in Block
  <2>1. r.curr \in Texts
    BY DEF Reading
  <2>2. Name(r.name) \in Line
    BY DataLinesAre
  <2>3. QED
    BY <2>1, <2>2 DEF DataBlock, Block, NoData
<1>3. QED
  BY <1>1, <1>2

(* So are those of all readings.                                           *)
LEMMA ReadingBlocksTyped ==
  ASSUME NEW rs \in Seq(Reading)
  PROVE  ReadingBlocks(rs) \in Seq(Block)
<1>1. \A i \in DOMAIN rs : rs[i] \in Reading
  OBVIOUS
<1>2. \A i \in DOMAIN rs : DataBlock(rs[i]) \in Block
  BY <1>1, BlockTyped
<1>3. QED
  BY <1>2 DEF ReadingBlocks

(* The readings of a message, one after the other.                         *)
Parsed(m, rs) == ParseAll(Start, HeaderLines(m) \o FlattenSeq(ReadingParts(rs)))

(* By induction: when the header and any readings have been parsed, the    *)
(* blocks finished and the one at hand are what they say.                  *)
LEMMA ParseReadings ==
  ASSUME NEW m \in Message
  PROVE  \A rs \in Seq(Reading) :
           /\ Parsed(m, rs) \in ParseState /\ ~Parsed(m, rs).inBlock
           /\ Parsed(m, rs).blocks \o Parsed(m, rs).current
                = <<HeaderBlock(m)>> \o ReadingBlocks(rs)
<1> DEFINE hs == HeaderLines(m)
           flat(rs) == FlattenSeq(ReadingParts(rs))
           Good(rs) ==
             /\ Parsed(m, rs) \in ParseState /\ ~Parsed(m, rs).inBlock
             /\ Parsed(m, rs).blocks \o Parsed(m, rs).current
                  = <<HeaderBlock(m)>> \o ReadingBlocks(rs)
           T == {rs \in Seq(Reading) : Good(rs)}
<1>0. hs \in Seq(Line) /\ <<HeaderBlock(m)>> \in Seq(Block)
  <2>1. hs \in Seq(Line)
    BY HeaderLinesAre, Zenon
  <2>2. HeaderBlock(m) \in Block
    BY BlockTyped
  <2> HIDE DEF hs
  <2>3. QED
    BY <2>1, <2>2
<1> HIDE DEF hs
<1>1. <<>> \in T
  <2>1. <<>> \in Seq(Reading) /\ ReadingParts(<<>>) = <<>> /\ ReadingBlocks(<<>>) = <<>>
    BY DEF ReadingParts, ReadingBlocks
  <2>2. hs \o flat(<<>>) = hs
    BY <1>0, <2>1, FlattenEmpty
  <2>3. Parsed(m, <<>>) = [inBlock |-> FALSE, current |-> <<HeaderBlock(m)>>, blocks |-> <<>>]
    BY <2>2, ParseHeader, Zenon DEF hs, Parsed
  <2>4. Parsed(m, <<>>) \in ParseState /\ ~Parsed(m, <<>>).inBlock
    <3> DEFINE h == <<HeaderBlock(m)>>
    <3>1. Parsed(m, <<>>) = [inBlock |-> FALSE, current |-> h, blocks |-> <<>>]
      BY <2>3
    <3>2. h \in Seq(Block) /\ <<>> \in Seq(Block)
      BY <1>0
    <3> HIDE DEF h
    <3> DEFINE s == Parsed(m, <<>>)
    <3>3. s = [inBlock |-> FALSE, current |-> h, blocks |-> <<>>]
      BY <3>1
    <3> HIDE DEF s
    <3>4. s \in ParseState /\ ~s.inBlock
      BY <3>2, <3>3 DEF ParseState
    <3>5. QED
      BY <3>4 DEF s
  <2>5. Parsed(m, <<>>).blocks \o Parsed(m, <<>>).current = <<HeaderBlock(m)>> \o <<>>
    <3> DEFINE h == <<HeaderBlock(m)>>
    <3>1. <<>> \o h = h /\ h \o <<>> = h /\ h \in Seq(Block)
      BY <1>0
    <3>2. Parsed(m, <<>>).blocks = <<>> /\ Parsed(m, <<>>).current = h
      BY <2>3
    <3> HIDE DEF h
    <3>3. Parsed(m, <<>>).blocks \o Parsed(m, <<>>).current = h \o <<>>
      BY <3>1, <3>2
    <3>4. QED
      BY <3>3 DEF h
  <2>6. QED
    BY <2>1, <2>4, <2>5
<1>2. ASSUME NEW rs \in T, NEW r \in Reading PROVE Append(rs, r) \in T
  <2> DEFINE more == Append(rs, r)
             s == Parsed(m, rs)
  <2>0. rs \in Seq(Reading) /\ Good(rs)
    BY Zenon
  <2> HIDE DEF T, Good
  <2>1. rs \in Seq(Reading) /\ more \in Seq(Reading) /\ Good(rs)
    BY <2>0
  <2> USE DEF Good
  <2>2. /\ flat(more) = flat(rs) \o DataLines(r)
        /\ flat(rs) \in Seq(Line) /\ DataLines(r) \in Seq(Line)
    <3>1. ReadingParts(rs) \in Seq(Seq(Line)) /\ DataLines(r) \in Seq(Line)
      BY <2>1, ReadingPartsTyped, DataLinesAre
    <3>2. ReadingParts(more) = Append(ReadingParts(rs), DataLines(r))
      BY <2>1, ReadingsAppend
    <3>3. FlattenSeq(Append(ReadingParts(rs), DataLines(r)))
            = FlattenSeq(ReadingParts(rs)) \o DataLines(r)
      BY <3>1, FlattenAppend
    <3>4. QED
      BY <2>1, <3>1, <3>2, <3>3, ReadingPartsTyped
  <2> HIDE DEF more, flat
  <2>3. hs \o flat(more) = (hs \o flat(rs)) \o DataLines(r) /\ hs \o flat(rs) \in Seq(Line)
    BY <1>0, <2>2
  <2>4. ParseAll(Start, (hs \o flat(rs)) \o DataLines(r))
          = ParseAll(ParseAll(Start, hs \o flat(rs)), DataLines(r))
    <3> DEFINE u == hs \o flat(rs)
    <3>1. u \in Seq(Line)
      BY <2>3
    <3> HIDE DEF u
    <3>2. ParseAll(Start, u \o DataLines(r)) = ParseAll(ParseAll(Start, u), DataLines(r))
      BY <3>1, <2>2, ParseOfConcat
    <3>3. QED
      BY <3>2 DEF u
  <2>5. Parsed(m, more) = ParseAll(s, DataLines(r))
    BY <2>3, <2>4, Zenon DEF Parsed, hs, flat
  <2> HIDE DEF T, s
  <2>6. s \in ParseState /\ ~s.inBlock /\ s.blocks \o s.current = <<HeaderBlock(m)>> \o ReadingBlocks(rs)
    BY <2>1 DEF s
  <2>7. Parsed(m, more)
          = [inBlock |-> FALSE, current |-> <<DataBlock(r)>>, blocks |-> s.blocks \o s.current]
    BY <2>5, <2>6, ParseData
  <2> DEFINE h == <<HeaderBlock(m)>>   d == <<DataBlock(r)>>   bs == ReadingBlocks(rs)
  <2>8. /\ h \in Seq(Block) /\ d \in Seq(Block) /\ bs \in Seq(Block)
        /\ s.blocks \in Seq(Block) /\ s.current \in Seq(Block)
    BY <1>0, <2>1, <2>6, BlockTyped, ReadingBlocksTyped DEF ParseState
  <2>9. ReadingBlocks(more) = bs \o d
    <3>1. ReadingBlocks(more) = Append(bs, DataBlock(r))
      BY <2>1, ReadingsAppend DEF more
    <3>2. DataBlock(r) \in Block
      BY BlockTyped
    <3>3. Append(bs, DataBlock(r)) = bs \o d
      BY <2>8, <3>2, AppendIsConcat
    <3>4. QED
      BY <3>1, <3>3
  <2>10. /\ Parsed(m, more).blocks = h \o bs /\ Parsed(m, more).current = d
         /\ ~Parsed(m, more).inBlock
    BY <2>6, <2>7
  <2>11. Parsed(m, more) \in ParseState
    <3>1. Parsed(m, more) = [inBlock |-> FALSE, current |-> d, blocks |-> s.blocks \o s.current]
      BY <2>7
    <3> HIDE DEF d
    <3>2. s.blocks \o s.current \in Seq(Block)
      BY <2>8
    <3>3. QED
      BY <2>8, <3>1, <3>2 DEF ParseState
  <2> HIDE DEF h, d, bs
  <2>12. (h \o bs) \o d = h \o (bs \o d)
    BY <2>8, ConcatAssociative
  <2>13. Parsed(m, more).blocks \o Parsed(m, more).current = h \o ReadingBlocks(more)
    BY <2>9, <2>10, <2>12
  <2>14. QED
    BY <2>1, <2>10, <2>11, <2>13 DEF T, h, more
<1> HIDE DEF T
<1>3. T \in SUBSET Seq(Reading)
  BY DEF T
<1>4. \A rs \in Seq(Reading) : rs \in T
  BY <1>1, <1>2, <1>3, SequenceInduction
<1>5. QED
  BY <1>4 DEF T

(* The last line of a message is a brace, which Chop leaves alone: whether *)
(* or not a newline ends it, the message is received as it is.             *)
LEMMA EndsInBrace ==
  ASSUME NEW m \in Message
  PROVE  \E u \in Seq(Line) : Lines(m) = Append(u, Name("}"))
<1> DEFINE h == HeaderLines(m)   brace == Name("}")
<1>0. h \in Seq(Line) /\ brace \in Line /\ m.readings \in Seq(Reading)
  BY HeaderLinesAre DEF Message
<1>1. CASE m.readings = <<>>
  <2>1. ReadingParts(<<>>) = <<>>
    BY DEF ReadingParts
  <2>2. Lines(m) = h \o <<>>
    BY <1>1, <2>1, MessageIs, FlattenEmpty
  <2> DEFINE a == Name(Header)   b == Name("{")   c == Pair("uid", m.uid)
             d == Pair("class", m.class)
  <2>3. h = <<a, b, c, d, brace>> /\ a \in Line /\ b \in Line /\ c \in Line /\ d \in Line
    BY HeaderLinesAre
  <2> HIDE DEF a, b, c, d, brace
  <2>4. h = Append(<<a, b, c, d>>, brace) /\ <<a, b, c, d>> \in Seq(Line)
    <3> HIDE DEF h
    <3>1. QED
      BY <2>3
  <2> HIDE DEF h
  <2>5. Lines(m) = h
    BY <1>0, <2>2
  <2>6. QED
    BY <2>4, <2>5 DEF brace
<1>2. CASE m.readings # <<>>
  <2>1. PICK rs \in Seq(Reading), r \in Reading : m.readings = Append(rs, r)
    BY <1>0, <1>2, SequenceEmptyOrAppend
  <2> DEFINE f == FlattenSeq(ReadingParts(rs))
             a == Name(r.name)   b == Name("{")   c == Pair("curr", r.curr)
             u == <<a, b, c>>
  <2>2. DataLines(r) = <<a, b, c, brace>> /\ a \in Line /\ b \in Line /\ c \in Line
    BY DataLinesAre
  <2>3. f \in Seq(Line) /\ DataLines(r) \in Seq(Line) /\ ReadingParts(rs) \in Seq(Seq(Line))
    BY ReadingPartsTyped, DataLinesAre
  <2>4. FlattenSeq(ReadingParts(m.readings)) = f \o DataLines(r)
    <3>1. ReadingParts(m.readings) = Append(ReadingParts(rs), DataLines(r))
      BY <2>1, ReadingsAppend
    <3>2. FlattenSeq(Append(ReadingParts(rs), DataLines(r))) = f \o DataLines(r)
      BY <2>3, FlattenAppend
    <3>3. QED
      BY <3>1, <3>2
  <2> HIDE DEF a, b, c, brace, f, h
  <2>5. DataLines(r) = Append(u, brace) /\ u \in Seq(Line)
    BY <2>2
  <2> HIDE DEF u
  <2>6. Lines(m) = h \o (f \o Append(u, brace))
    <3>1. Lines(m) = h \o FlattenSeq(ReadingParts(m.readings))
      BY MessageIs, Zenon DEF h
    <3>2. FlattenSeq(ReadingParts(m.readings)) = f \o Append(u, brace)
      BY <2>4, <2>5, Zenon
    <3>3. QED
      BY <3>1, <3>2, Zenon
  <2>7. h \o (f \o Append(u, brace)) = Append(h \o (f \o u), brace) /\ h \o (f \o u) \in Seq(Line)
    <3>1. u \in Seq(Line) /\ f \in Seq(Line) /\ h \in Seq(Line) /\ brace \in Line
      BY <1>0, <2>3, <2>5
    <3>2. f \o Append(u, brace) = Append(f \o u, brace) /\ f \o u \in Seq(Line)
      BY <3>1
    <3> DEFINE v == f \o u
    <3> HIDE DEF v
    <3>3. h \o Append(v, brace) = Append(h \o v, brace) /\ h \o v \in Seq(Line)
      BY <3>1, <3>2 DEF v
    <3>4. QED
      BY <3>2, <3>3, Zenon DEF v
  <2>8. QED
    BY <2>6, <2>7, Zenon DEF brace
<1>3. QED
  BY <1>1, <1>2

(* A message's last line is a brace, which survives the loss of its last   *)
(* character: what is parsed is what was sent.                             *)
LEMMA ReceivedMessage ==
  ASSUME NEW m \in Message, NEW p, p.lines = Lines(m)
  PROVE  Received(p) = Lines(m)
<1> DEFINE brace == Name("}")
<1>0. brace \in Line
  BY DEF Name, Line
<1>1. PICK u \in Seq(Line) : Lines(m) = Append(u, brace)
  BY EndsInBrace
<1>2. Chop(brace) = brace
  BY DEF Chop, Name
<1> HIDE DEF brace
<1>3. Last(Append(u, brace)) = brace /\ Front(Append(u, brace)) = u
  BY <1>0 DEF Last, Front
<1>4. u \o <<brace>> = Append(u, brace)
  BY <1>0, AppendIsConcat
<1>5. QED
  BY <1>1, <1>2, <1>3, <1>4 DEF Received

(* A well-formed message is received whole, and parsed as what it says.    *)
THEOREM MessageParsed ==
  ASSUME NEW m \in Message, NEW p, p.lines = Lines(m)
  PROVE  Parse(p) = Blocks(m)
<1>1. m.readings \in Seq(Reading)
  BY DEF Message
<1>2. ParseAll(Start, Received(p)) = Parsed(m, m.readings)
  <2>1. Received(p) = Lines(m)
    BY ReceivedMessage
  <2>2. QED
    BY <2>1, MessageIs, Zenon DEF Parsed
<1> DEFINE s == Parsed(m, m.readings)
<1>3. s.blocks \o s.current = <<HeaderBlock(m)>> \o ReadingBlocks(m.readings)
  BY <1>1, ParseReadings
<1> HIDE DEF s
<1>4. Parse(p) = s.blocks \o s.current
  BY <1>2, ParseIs, Zenon DEF s
<1>5. QED
  BY <1>3, <1>4, MessageIs, Zenon

(* What may come in are packets.                                           *)
LEMMA MessagesTyped == Packets \subseteq Packet
<1>1. ASSUME NEW m \in Broadcasts, NEW e \in BOOLEAN
      PROVE  [lines |-> Lines(m), ended |-> e, message |-> <<m>>] \in Packet
  <2>1. m \in Message
    BY BroadcastsAssumption
  <2> DEFINE brace == Name("}")
  <2>2. PICK u \in Seq(Line) : Lines(m) = Append(u, brace)
    BY <2>1, EndsInBrace
  <2>3. brace \in Line
    BY DEF Name, Line
  <2> HIDE DEF brace
  <2>4. Lines(m) \in Seq(Line)
    BY <2>2, <2>3
  <2>5. <<m>> \in Seq(Message)
    BY <2>1
  <2>6. QED
    BY <2>4, <2>5 DEF Packet
<1>2. Messages \subseteq Packet
  BY <1>1 DEF Messages
<1>3. QED
  BY <1>2, MalformedAssumption DEF Packets

(* A message's parsed blocks are wanted when the message is one of the     *)
(* configured SpeedFan, and only then.                                     *)
LEMMA WantedIsOurs ==
  ASSUME NEW m \in Message
  PROVE  IsWanted(Blocks(m)) <=> FromOurs(m)
<1>1. m.readings \in Seq(Reading)
  BY DEF Message
<1>2. Blocks(m)[1] = HeaderBlock(m) /\ Blocks(m) # <<>>
  <2> DEFINE h == HeaderBlock(m)   bs == ReadingBlocks(m.readings)
  <2>1. h \in Block /\ bs \in Seq(Block)
    BY <1>1, BlockTyped, ReadingBlocksTyped
  <2> HIDE DEF h, bs
  <2>2. (<<h>> \o bs)[1] = h /\ <<h>> \o bs # <<>>
    BY <2>1
  <2>3. QED
    BY <2>2, MessageIs DEF h, bs
<1>3. /\ HeaderBlock(m).header
      /\ HeaderBlock(m).data["uid"] = m.uid /\ HeaderBlock(m).data["class"] = m.class
  BY DEF HeaderBlock, NoData, HeaderKeys, DataKeys
<1>4. QED
  BY <1>2, <1>3 DEF IsWanted, FromOurs

-----------------------------------------------------------------------------
(* Packets that are no messages.  The state of ProcessBuffer after some of *)
(* the lines: it is inside a block when they are, the blocks it has put    *)
(* away are ones the lines say, and so is the block it is at, which no     *)
(* later line has taken over from.                                         *)
Has(lines, b) == \E i \in DOMAIN lines : SaysBlock(lines, i, b)

AtBlock(lines, i, b) ==
  SaysBlock(lines, i, b) /\ \A n \in DOMAIN lines : i < n => ~NamesBlock(lines, n)

IsAt(lines, b) == \E i \in DOMAIN lines : AtBlock(lines, i, b)

Follows(s, lines) ==
  /\ s.inBlock <=> Inside(lines, Len(lines) + 1)
  /\ \A i \in DOMAIN s.blocks : Has(lines, s.blocks[i])
  /\ \A i \in DOMAIN s.current : IsAt(lines, s.current[i])

(* One more line, which changes nothing about those before.                *)
Longer(more, lines, e) ==
  /\ DOMAIN more = DOMAIN lines \cup {Len(lines) + 1}
  /\ more[Len(lines) + 1] = e /\ Len(more) = Len(lines) + 1
  /\ \A n \in DOMAIN lines : more[n] = lines[n] /\ n \in Nat /\ n <= Len(lines)
  /\ Len(lines) \in Nat /\ Len(lines) + 1 \notin DOMAIN lines

(* It is what Append makes.                                                *)
LEMMA LongerIs ==
  ASSUME NEW lines \in Seq(Line), NEW e \in Line
  PROVE  Longer(Append(lines, e), lines, e)
<1> DEFINE more == Append(lines, e)
<1>1. DOMAIN lines = 1 .. Len(lines) /\ Len(lines) \in Nat
  OBVIOUS
<1>2. DOMAIN more = 1 .. Len(lines) + 1 /\ Len(more) = Len(lines) + 1 /\ more[Len(lines) + 1] = e
  OBVIOUS
<1>3. \A n \in DOMAIN lines : more[n] = lines[n]
  OBVIOUS
<1> HIDE DEF more
<1>4. QED
  BY <1>1, <1>2, <1>3 DEF Longer

(* Which lines name a block, and what the blocks are, stays.               *)
LEMMA LongerKeeps ==
  ASSUME NEW lines, NEW more, NEW e, Longer(more, lines, e)
  PROVE  /\ \A n \in DOMAIN lines : Inside(more, n) <=> Inside(lines, n)
         /\ Inside(more, Len(lines) + 1) <=> Inside(lines, Len(lines) + 1)
         /\ \A n \in DOMAIN lines : NamesBlock(more, n) <=> NamesBlock(lines, n)
<1>1. ASSUME NEW n \in Nat, n <= Len(lines) + 1
      PROVE  Inside(more, n) <=> Inside(lines, n)
  <2>1. /\ \A x \in DOMAIN more : x < n => x \in DOMAIN lines
        /\ \A x \in DOMAIN lines : x \in DOMAIN more /\ more[x] = lines[x]
    BY <1>1 DEF Longer
  <2>2. Inside(more, n) => Inside(lines, n)
    BY <2>1 DEF Inside
  <2>3. Inside(lines, n) => Inside(more, n)
    BY <2>1 DEF Inside
  <2>4. QED
    BY <2>2, <2>3
<1>2. \A n \in DOMAIN lines : n \in Nat /\ n <= Len(lines) + 1 /\ more[n] = lines[n]
  BY DEF Longer
<1>3. Len(lines) + 1 \in Nat /\ Len(lines) + 1 <= Len(lines) + 1
  BY DEF Longer
<1>4. \A n \in DOMAIN lines : Inside(more, n) <=> Inside(lines, n)
  BY <1>1, <1>2
<1>5. Inside(more, Len(lines) + 1) <=> Inside(lines, Len(lines) + 1)
  BY <1>1, <1>3
<1>6. QED
  BY <1>2, <1>4, <1>5 DEF NamesBlock

(* What lines say they also say when another follows.                      *)
LEMMA SaysKept ==
  ASSUME NEW lines, NEW more, NEW e, Longer(more, lines, e), NEW b,
         NEW i \in DOMAIN lines, SaysBlock(lines, i, b)
  PROVE  SaysBlock(more, i, b)
<1>1. \A n \in DOMAIN lines : NamesBlock(more, n) <=> NamesBlock(lines, n)
  BY LongerKeeps
<1>2. /\ NamesBlock(more, i) /\ b.name = more[i] /\ b.header = IsHeader(more[i])
  BY <1>1 DEF SaysBlock, Longer
<1>3. ASSUME NEW k \in HeaderKeys \cup DataKeys, b.data[k] # NoText
      PROVE  \E j \in DOMAIN more :
               /\ i < j /\ more[j] = Pair(k, b.data[k])
               /\ \A n \in DOMAIN more : i < n /\ n <= j => ~NamesBlock(more, n)
  <2>1. PICK j \in DOMAIN lines :
          /\ i < j /\ lines[j] = Pair(k, b.data[k])
          /\ \A n \in DOMAIN lines : i < n /\ n <= j => ~NamesBlock(lines, n)
    BY <1>3 DEF SaysBlock
  <2>2. j \in DOMAIN more /\ more[j] = lines[j] /\ j \in Nat /\ j <= Len(lines)
    BY DEF Longer
  <2>3. ASSUME NEW n \in DOMAIN more, i < n, n <= j PROVE ~NamesBlock(more, n)
    <3>1. n \in DOMAIN lines
      BY <2>2, <2>3 DEF Longer
    <3>2. QED
      BY <1>1, <2>1, <2>3, <3>1
  <2>4. QED
    BY <2>1, <2>2, <2>3
<1>4. QED
  BY <1>2, <1>3 DEF SaysBlock

(* The same of a block wherever its name is.                               *)
LEMMA HasKept ==
  ASSUME NEW lines, NEW more, NEW e, Longer(more, lines, e), NEW b, Has(lines, b)
  PROVE  Has(more, b)
BY SaysKept DEF Has, Longer

(* The block that is being read is still so after a line that names none.  *)
LEMMA AtKept ==
  ASSUME NEW lines, NEW more, NEW e, Longer(more, lines, e), NEW b,
         NEW i \in DOMAIN lines, AtBlock(lines, i, b), ~NamesBlock(more, Len(lines) + 1)
  PROVE  AtBlock(more, i, b)
<1>1. SaysBlock(more, i, b)
  BY SaysKept DEF AtBlock
<1>2. ASSUME NEW n \in DOMAIN more, i < n PROVE ~NamesBlock(more, n)
  <2>1. CASE n \in DOMAIN lines
    BY <1>2, <2>1, LongerKeeps DEF AtBlock
  <2>2. CASE n = Len(lines) + 1
    BY <2>2
  <2>3. QED
    BY <2>1, <2>2 DEF Longer
<1>3. QED
  BY <1>1, <1>2 DEF AtBlock

(* A line of data: the block has it from there.                            *)
LEMMA AtReads ==
  ASSUME NEW lines, NEW more, NEW e \in Line, Longer(more, lines, e), NEW b \in Block,
         NEW i \in DOMAIN lines, AtBlock(lines, i, b), ~NamesBlock(more, Len(lines) + 1)
  PROVE  AtBlock(more, i, ReadData(b, e))
<1>1. AtBlock(more, i, b)
  BY AtKept
<1>2. CASE ReadData(b, e) = b
  BY <1>1, <1>2, Zenon
<1>3. CASE ReadData(b, e) # b
  <2> DEFINE c == ReadData(b, e)   z == Len(lines) + 1
  <2>1. /\ e.key \in HeaderKeys \cup DataKeys /\ e.value # NoText
        /\ c = [b EXCEPT !.data[e.key] = e.value]
    BY <1>3 DEF ReadData
  <2>2. /\ c.name = b.name /\ c.header = b.header /\ c.data[e.key] = e.value
        /\ \A k \in HeaderKeys \cup DataKeys : k # e.key => c.data[k] = b.data[k]
    BY <2>1 DEF Block
  <2>3. e = Pair(e.key, e.value)
    BY DEF Line, Pair
  <2>4. z \in DOMAIN more /\ more[z] = e /\ i < z
    BY DEF Longer
  <2> HIDE DEF c, z
  <2>5. ASSUME NEW k \in HeaderKeys \cup DataKeys, c.data[k] # NoText
        PROVE  \E j \in DOMAIN more :
                 /\ i < j /\ more[j] = Pair(k, c.data[k])
                 /\ \A n \in DOMAIN more : i < n /\ n <= j => ~NamesBlock(more, n)
    <3>1. CASE k = e.key
      <4>1. more[z] = Pair(k, c.data[k])
        BY <2>2, <2>3, <2>4, <3>1, Zenon
      <4>2. \A n \in DOMAIN more : i < n => ~NamesBlock(more, n)
        BY <1>1 DEF AtBlock
      <4>3. QED
        BY <2>4, <4>1, <4>2
    <3>2. CASE k # e.key
      <4>1. c.data[k] = b.data[k]
        BY <2>2, <3>2
      <4>2. QED
        BY <1>1, <2>5, <4>1 DEF AtBlock, SaysBlock
    <3>3. QED
      BY <3>1, <3>2
  <2>6. SaysBlock(more, i, c)
    BY <1>1, <2>2, <2>5 DEF AtBlock, SaysBlock
  <2>7. QED
    BY <1>1, <2>6 DEF AtBlock, c
<1>4. QED
  BY <1>2, <1>3

(* A line that names a block says an empty one.                            *)
LEMMA AtNew ==
  ASSUME NEW lines, NEW more, NEW e, Longer(more, lines, e), NamesBlock(more, Len(lines) + 1)
  PROVE  IsAt(more, NewBlock(e))
<1> DEFINE z == Len(lines) + 1   b == NewBlock(e)
<1>1. z \in DOMAIN more /\ more[z] = e /\ \A n \in DOMAIN more : ~(z < n)
  BY DEF Longer
<1>2. /\ b.name = e /\ b.header = IsHeader(e)
      /\ \A k \in HeaderKeys \cup DataKeys : b.data[k] = NoText
  BY DEF NewBlock, NoData
<1>3. NamesBlock(more, z)
  OBVIOUS
<1> HIDE DEF z, b
<1>4. SaysBlock(more, z, b)
  BY <1>1, <1>2, <1>3 DEF SaysBlock
<1>5. AtBlock(more, z, b)
  BY <1>1, <1>4 DEF AtBlock
<1>6. QED
  BY <1>1, <1>5 DEF IsAt, b

Joins(u, s, t) == u = s \o t

(* What is in two sequences put together is in one of them.                *)
LEMMA OneOfBoth ==
  ASSUME NEW S, NEW s \in Seq(S), NEW t \in Seq(S), NEW u, Joins(u, s, t), NEW i \in DOMAIN u
  PROVE  \/ \E k \in DOMAIN s : u[i] = s[k]
         \/ \E k \in DOMAIN t : u[i] = t[k]
<1> DEFINE m == Len(s)   n == Len(t)
<1>1. /\ m \in Nat /\ n \in Nat /\ DOMAIN s = 1 .. m /\ DOMAIN t = 1 .. n
      /\ DOMAIN u = 1 .. m + n
  BY DEF Joins
<1>2. i \in 1 .. m => u[i] = s[i]
  BY DEF Joins
<1>3. i \in m + 1 .. m + n => u[i] = t[i - m]
  BY DEF Joins
<1> HIDE DEF m, n
<1>4. i \in 1 .. m \/ i \in m + 1 .. m + n
  BY <1>1
<1>5. CASE i \in 1 .. m
  BY <1>1, <1>2, <1>5
<1>6. CASE i \in m + 1 .. m + n
  <2>1. i - m \in 1 .. n
    BY <1>1, <1>6
  <2>2. QED
    BY <1>1, <1>3, <1>6, <2>1
<1>7. QED
  BY <1>4, <1>5, <1>6

(* A turn of the loop follows the lines.                                   *)
LEMMA ParseLineFollows ==
  ASSUME NEW s \in ParseState, NEW lines \in Seq(Line), NEW e \in Line, Follows(s, lines)
  PROVE  Follows(ParseLine(s, e), Append(lines, e))
<1> DEFINE more == Append(lines, e)   z == Len(lines) + 1   t == ParseLine(s, e)
<1>1. Longer(more, lines, e)
  BY LongerIs
<1> HIDE DEF more
<1>2. /\ z \in DOMAIN more /\ more[z] = e /\ Len(more) = z /\ z \in Nat
      /\ \A n \in DOMAIN more : n \in Nat /\ n <= z
      /\ \A n \in DOMAIN more : n < z => n \in DOMAIN lines
      /\ \A n \in DOMAIN lines : n < z /\ n \in DOMAIN more
  BY <1>1 DEF Longer
<1>3. Inside(more, z) <=> s.inBlock
  BY <1>1, LongerKeeps DEF Follows
<1>4. NamesBlock(more, z) <=> e.key \notin {"{", "}"} /\ ~s.inBlock
  BY <1>2, <1>3 DEF NamesBlock
<1> HIDE DEF z
<1>5. \A b : Has(lines, b) => Has(more, b)
  BY <1>1, HasKept
<1>6. ASSUME NEW b, IsAt(lines, b), ~NamesBlock(more, z) PROVE IsAt(more, b)
  <2>1. PICK i \in DOMAIN lines : AtBlock(lines, i, b)
    BY <1>6 DEF IsAt
  <2>2. AtBlock(more, i, b)
    BY <1>1, <1>6, <2>1, AtKept DEF z
  <2>3. QED
    BY <1>2, <2>2 DEF IsAt
<1>7. CASE e.key = "{"
  <2>1. t.inBlock /\ t.blocks = s.blocks /\ t.current = s.current
    BY <1>7 DEF ParseLine, ParseState
  <2>2. Inside(more, z + 1)
    <3>1. z < z + 1 /\ \A x \in DOMAIN more : ~(z < x)
      BY <1>2
    <3>2. QED
      BY <1>2, <1>7, <3>1 DEF Inside
  <2>3. QED
    BY <1>2, <1>4, <1>5, <1>6, <1>7, <2>1, <2>2 DEF Follows, more
<1>8. CASE e.key = "}"
  <2>1. ~t.inBlock /\ t.blocks = s.blocks /\ t.current = s.current
    BY <1>8 DEF ParseLine, ParseState
  <2>2. ~Inside(more, z + 1)
    <3>1. ASSUME NEW open \in DOMAIN more, more[open].key = "{"
          PROVE  open < z /\ z < z + 1
      <4>1. open # z
        BY <1>2, <1>8, <3>1
      <4>2. open \in Nat /\ open <= z
        BY <1>2
      <4>3. QED
        BY <1>2, <4>1, <4>2
    <3>2. QED
      BY <1>2, <1>8, <3>1 DEF Inside
  <2>3. QED
    BY <1>2, <1>4, <1>5, <1>6, <1>8, <2>1, <2>2 DEF Follows, more
<1>9. ASSUME e.key \notin {"{", "}"}
      PROVE  Inside(more, z + 1) <=> s.inBlock
  <2>1. \A x \in DOMAIN more : x = z \/ (x < z <=> x < z + 1)
    BY <1>2
  <2>2. ~(z < z) /\ \A x \in DOMAIN more : x < z => x # z
    BY <1>2
  <2>3. Inside(more, z + 1) => Inside(more, z)
    BY <1>2, <1>9, <2>1, <2>2 DEF Inside
  <2>4. Inside(more, z) => Inside(more, z + 1)
    BY <1>2, <1>9, <2>1, <2>2 DEF Inside
  <2>5. QED
    BY <1>3, <2>3, <2>4
<1>10. CASE e.key \notin {"{", "}"} /\ s.inBlock
  <2>1. /\ t.inBlock = s.inBlock /\ t.blocks = s.blocks
        /\ t.current = [i \in DOMAIN s.current |-> ReadData(s.current[i], e)]
    BY <1>10 DEF ParseLine, ParseState
  <2>2. ASSUME NEW i \in DOMAIN t.current PROVE IsAt(more, t.current[i])
    <3>1. i \in DOMAIN s.current /\ t.current[i] = ReadData(s.current[i], e)
      BY <2>1
    <3>2. s.current[i] \in Block
      BY <3>1 DEF ParseState
    <3>3. PICK j \in DOMAIN lines : AtBlock(lines, j, s.current[i])
      BY <3>1 DEF Follows, IsAt
    <3>4. AtBlock(more, j, ReadData(s.current[i], e))
      BY <1>1, <1>4, <1>10, <3>2, <3>3, AtReads DEF z
    <3>5. QED
      BY <1>2, <3>1, <3>4 DEF IsAt
  <2>3. QED
    BY <1>2, <1>5, <1>9, <1>10, <2>1, <2>2 DEF Follows, more
<1>11. CASE e.key \notin {"{", "}"} /\ ~s.inBlock
  <2> DEFINE put == IF IsHeader(e) THEN s.blocks ELSE s.blocks \o s.current
             b == NewBlock(e)
  <2>1. t = [s EXCEPT !.current = <<b>>, !.blocks = put]
    BY <1>11 DEF ParseLine
  <2>2. IsAt(more, b)
    BY <1>1, <1>4, <1>11, AtNew DEF z
  <2>3. ASSUME NEW i \in DOMAIN put PROVE Has(more, put[i])
    <3>1. \A c : IsAt(lines, c) => Has(lines, c)
      BY DEF IsAt, Has, AtBlock
    <3>2. s.blocks \in Seq(Block) /\ s.current \in Seq(Block)
      BY DEF ParseState
    <3>3. \/ \E k \in DOMAIN s.blocks : put[i] = s.blocks[k]
          \/ \E k \in DOMAIN s.current : put[i] = s.current[k]
      <4> DEFINE one == s.blocks   two == s.current
      <4>1. one \in Seq(Block) /\ two \in Seq(Block)
        BY <3>2
      <4> HIDE DEF one, two
      <4>2. CASE put = one
        BY <4>2 DEF one
      <4>3. CASE put = one \o two
        <5>1. \/ \E k \in DOMAIN one : put[i] = one[k]
              \/ \E k \in DOMAIN two : put[i] = two[k]
          <6> HIDE DEF put
          <6>1. Joins(put, one, two)
            BY <4>3 DEF Joins
          <6>2. QED
            BY <4>1, <6>1, OneOfBoth
        <5>2. QED
          BY <5>1, Zenon DEF one, two
      <4>4. QED
        BY <4>2, <4>3 DEF one, two
    <3> HIDE DEF put
    <3>4. QED
      BY <1>5, <3>1, <3>3 DEF Follows
  <2> HIDE DEF put, b
  <2>4. t.inBlock = s.inBlock /\ t.current = <<b>> /\ t.blocks = put
    BY <2>1 DEF ParseState
  <2>5. \A i \in DOMAIN t.current : IsAt(more, t.current[i])
    BY <2>2, <2>4
  <2>6. QED
    BY <1>2, <1>9, <1>11, <2>3, <2>4, <2>5 DEF Follows, more
<1>12. QED
  BY <1>7, <1>8, <1>10, <1>11

(* ProcessBuffer follows the lines of any packet, ...                      *)
LEMMA ParseFollows ==
  \A lines \in Seq(Line) : Follows(ParseAll(Start, lines), lines)
<1> DEFINE T == {lines \in Seq(Line) : Follows(ParseAll(Start, lines), lines)}
<1>1. <<>> \in T
  <2>1. <<>> \in Seq(Line) /\ DOMAIN <<>> = {}
    OBVIOUS
  <2>2. Follows(Start, <<>>)
    BY <2>1 DEF Follows, Start, Inside
  <2>3. QED
    BY <2>1, <2>2, ParseAllEmpty
<1>2. ASSUME NEW lines \in T, NEW e \in Line PROVE Append(lines, e) \in T
  <2>1. ParseAll(Start, Append(lines, e)) = ParseLine(ParseAll(Start, lines), e)
    BY ParseAllAppend
  <2>2. ParseAll(Start, lines) \in ParseState
    BY StartTyped, ParseAllTyped
  <2>3. Follows(ParseLine(ParseAll(Start, lines), e), Append(lines, e))
    BY <2>2, ParseLineFollows
  <2>4. Append(lines, e) \in Seq(Line)
    OBVIOUS
  <2>5. QED
    BY <2>1, <2>3, <2>4
<1> HIDE DEF T
<1>3. T \in SUBSET Seq(Line)
  BY DEF T
<1>4. \A lines \in Seq(Line) : lines \in T
  BY <1>1, <1>2, <1>3, SequenceInduction
<1>5. QED
  BY <1>4 DEF T

(* ... and finds there nothing that the packet does not say.               *)
THEOREM PacketSaysBlocks ==
  ASSUME NEW p \in Packet
  PROVE  \A i \in DOMAIN Parse(p) : Says(p, Parse(p)[i])
<1> DEFINE lines == Received(p)   s == ParseAll(Start, lines)
<1>1. lines \in Seq(Line)
  BY ReceivedTyped
<1>2. Follows(s, lines) /\ s \in ParseState
  BY <1>1, ParseFollows, StartTyped, ParseAllTyped
<1>3. Parse(p) = s.blocks \o s.current
  BY ParseIs
<1> HIDE DEF s, lines
<1>4. \A c : IsAt(lines, c) => Has(lines, c)
  BY DEF IsAt, Has, AtBlock
<1>5. s.blocks \in Seq(Block) /\ s.current \in Seq(Block)
  BY <1>2 DEF ParseState
<1> SUFFICES ASSUME NEW i \in DOMAIN Parse(p) PROVE Says(p, Parse(p)[i])
  OBVIOUS
<1>6. \/ \E k \in DOMAIN s.blocks : Parse(p)[i] = s.blocks[k]
      \/ \E k \in DOMAIN s.current : Parse(p)[i] = s.current[k]
  <2> DEFINE one == s.blocks   two == s.current
  <2>1. one \in Seq(Block) /\ two \in Seq(Block) /\ Parse(p) = one \o two
    BY <1>3, <1>5
  <2> HIDE DEF one, two
  <2>2. \/ \E k \in DOMAIN one : Parse(p)[i] = one[k]
        \/ \E k \in DOMAIN two : Parse(p)[i] = two[k]
    <3>1. Joins(Parse(p), one, two)
      BY <2>1 DEF Joins
    <3>2. QED
      BY <2>1, <3>1, OneOfBoth
  <2>3. QED
    BY <2>2, Zenon DEF one, two
<1>7. Has(lines, Parse(p)[i])
  BY <1>2, <1>4, <1>6 DEF Follows
<1>8. QED
  BY <1>7 DEF Has, Says, lines

-----------------------------------------------------------------------------
(* What blocks may be that came in last: the last message's, or those of a *)
(* packet since then that was none.                                        *)
SaidBy(p, bs) ==
  /\ bs # <<>> /\ bs[1].header
  /\ bs[1].data["uid"] = Uid /\ bs[1].data["class"] = Status
  /\ \A i \in DOMAIN bs : Says(p, bs[i])

Came(bs) ==
  \/ last # <<>> /\ bs = Blocks(last[1])
  \/ \E p \in strays : SaidBy(p, bs)

(* The blocks, and what the listener is about to put into their place.     *)
TableOK ==
  /\ last \in Seq(Message) /\ strays \subseteq Malformed
  /\ parsed \in Seq(Block) /\ blocks \in Seq(Block)
  /\ IF pc[Listener] = "lock" THEN Came(parsed)
     ELSE Came(blocks) \/ (last = <<>> /\ blocks = <<>>)

(* A reader's answer: the part of it that belongs to the blocks it has     *)
(* passed.  Who is at the blocks has the lock.                             *)
ReaderOK(r) ==
  /\ pc[r] \in ReaderLabel
  /\ owner = r <=> pc[r] \in {"loop", "unlock"}
  /\ pc[r] \in {"idle", "lock"} => index[r] = 2 /\ reply[r] = <<>>
  /\ pc[r] = "loop" => index[r] \in 2 .. Len(blocks) + 1 /\ Reports(reply[r], index[r] - 1)
  /\ pc[r] = "unlock" => Reports(reply[r], Len(blocks))

ReadersOK ==
  /\ owner \in Readers \cup {NoOne}
  /\ index \in [Readers -> Nat] /\ reply \in [Readers -> Seq(Block)]
  /\ \A r \in Readers : ReaderOK(r)

TInv == TableOK /\ ReadersOK

(* The invariant at first, and over each kind of step.                     *)
LEMMA InitTInv == Init => TInv
<1> SUFFICES ASSUME Init PROVE TInv
  OBVIOUS
<1>1. <<>> \in Seq(Block) /\ <<>> \in Seq(Message)
  OBVIOUS
<1>2. TableOK
  <2>1. pc[Listener] # "lock"
    BY DEF Init, Process
  <2>2. QED
    BY <1>1, <2>1 DEF Init, TableOK
<1>3. ReadersOK
  <2>1. \A r \in Readers : pc[r] = "idle" /\ index[r] = 2 /\ reply[r] = <<>> /\ owner # r
    BY ReadersAssumption DEF Init, Process
  <2>2. /\ owner \in Readers \cup {NoOne}
        /\ index \in [Readers -> Nat] /\ reply \in [Readers -> Seq(Block)]
    BY <1>1 DEF Init
  <2>3. QED
    BY <2>1, <2>2 DEF ReadersOK, ReaderOK, ReaderLabel
<1>4. QED
  BY <1>2, <1>3 DEF TInv

(* A step that leaves the blocks and the readers alone.                    *)
LEMMA KeepsTInv ==
  ASSUME TInv, UNCHANGED <<tableVars, readerVars>>,
         pc'[Listener] = "lock" <=> pc[Listener] = "lock",
         \A r \in Readers : pc'[r] = pc[r]
  PROVE  TInv'
<1>1. TableOK'
  BY DEF TInv, TableOK, Came, SaidBy, tableVars, heardVars
<1>2. ReadersOK'
  <2>1. UNCHANGED <<owner, index, reply, blocks>>
    BY DEF tableVars, readerVars
  <2>2. ASSUME NEW r \in Readers PROVE ReaderOK(r)'
    <3>1. ReaderOK(r)
      BY DEF TInv, ReadersOK
    <3>2. Reports(reply[r], index[r] - 1) <=> Reports(reply[r], index[r] - 1)'
      BY <2>1 DEF Reports, Reported
    <3>3. Reports(reply[r], Len(blocks)) <=> Reports(reply[r], Len(blocks))'
      BY <2>1 DEF Reports, Reported
    <3>4. QED
      BY <2>1, <3>1, <3>2, <3>3 DEF ReaderOK
  <2>3. QED
    BY <2>1, <2>2 DEF TInv, ReadersOK
<1>3. QED
  BY <1>1, <1>2 DEF TInv

(* Where a step takes the listener and the readers.                        *)
LEMMA GotoLeaves ==
  ASSUME LifeOK, NEW p \in {Plugin, Listener}, NEW label, Goto(p, label), label # "lock",
         pc[p] # "lock"
  PROVE  /\ pc'[Listener] = "lock" <=> pc[Listener] = "lock"
         /\ \A r \in Readers : pc'[r] = pc[r]
BY ReadersAssumption DEF Goto, LifeOK, Process

(* The steps of the two threads that are not about packets.                *)
LEMMA ThreadsKeep ==
  ASSUME IInv, TInv,
         \/ Construct \/ Destroy \/ Destruct \/ ReceiveFails \/ Others
         \/ ThreadAddRef \/ ThreadMark \/ OpenSocket \/ LoopTests \/ ReceiveAborted
         \/ Retest \/ ThreadStops \/ ThreadRemoveRef \/ Delete(Listener)
  PROVE  TInv'
<1>0. LifeOK
  BY DEF IInv
<1>1. CASE Construct \/ Destroy
  <2>1. UNCHANGED <<tableVars, readerVars>>
    BY <1>1 DEF Construct, Destroy, Run, RunPolls, RunReleases
  <2>2. /\ pc'[Listener] = "lock" <=> pc[Listener] = "lock"
        /\ \A r \in Readers : pc'[r] = pc[r]
    BY <1>0, <1>1, ReadersAssumption
    DEF Construct, Destroy, Run, RunPolls, RunReleases, RemoveRef, Goto, LifeOK, Process
  <2>3. QED
    BY <2>1, <2>2, KeepsTInv
<1>2. CASE Destruct
  <2>1. UNCHANGED <<tableVars, readerVars>>
    BY <1>2 DEF Destruct, Stop, StopLoads, StopCloses, Unref, Delete
  <2>2. /\ pc'[Listener] = "lock" <=> pc[Listener] = "lock"
        /\ \A r \in Readers : pc'[r] = pc[r]
    BY <1>0, <1>2, ReadersAssumption
    DEF Destruct, Stop, StopLoads, StopCloses, Unref, Delete, RemoveRef, Goto, LifeOK, Process
  <2>3. QED
    BY <2>1, <2>2, KeepsTInv
<1>3. CASE Others
  BY <1>3, KeepsTInv DEF Others
<1>4. CASE OpenSocket
  <2>1. UNCHANGED <<tableVars, readerVars>>
    BY <1>4 DEF OpenSocket, OpenCloses, OpenCreates, OpenCreateFails, OpenBinds
  <2>2. /\ pc'[Listener] = "lock" <=> pc[Listener] = "lock"
        /\ \A r \in Readers : pc'[r] = pc[r]
    BY <1>0, <1>4, ReadersAssumption
    DEF OpenSocket, OpenCloses, OpenCreates, OpenCreateFails, OpenBinds, Goto, LifeOK, Process
  <2>3. QED
    BY <2>1, <2>2, KeepsTInv
<1>5. CASE \/ ReceiveFails \/ ThreadAddRef \/ ThreadMark \/ LoopTests \/ ReceiveAborted
           \/ Retest \/ ThreadStops \/ ThreadRemoveRef \/ Delete(Listener)
  <2>1. UNCHANGED <<tableVars, readerVars>>
    BY <1>5 DEF ReceiveFails, ThreadAddRef, ThreadMark, LoopTests, ReceiveAborted,
       Retest, ThreadStops, ThreadRemoveRef, Delete
  <2>2. /\ pc[Listener] # "lock" /\ \E label : Goto(Listener, label) /\ label # "lock"
    BY <1>5 DEF ReceiveFails, ThreadAddRef, ThreadMark, LoopTests, ReceiveAborted,
       Retest, ThreadStops, ThreadRemoveRef, RemoveRef, Delete
  <2>3. QED
    BY <1>0, <2>1, <2>2, GotoLeaves, KeepsTInv
<1>6. QED
  BY <1>1, <1>2, <1>3, <1>4, <1>5

(* The two that are.                                                       *)
LEMMA ReceiveKeeps ==
  ASSUME IInv, TInv, Receive
  PROVE  TInv'
<1>1. LifeOK /\ TableOK /\ pc[Listener] = "receive"
  BY DEF IInv, TInv, Receive
<1>2. PICK p \in Packets :
        /\ Hears(p)
        /\ IF IsWanted(Parse(p))
           THEN parsed' = Parse(p) /\ Goto(Listener, "lock")
           ELSE UNCHANGED parsed /\ Goto(Listener, "test")
  BY DEF Receive
<1>3. UNCHANGED <<blocks, readerVars>>
  BY DEF Receive
<1>4. p \in Packet /\ Parse(p) \in Seq(Block)
  BY MessagesTyped, ParseTyped
<1>5. /\ pc'[Listener] = IF IsWanted(Parse(p)) THEN "lock" ELSE "test"
      /\ \A r \in Readers : pc'[r] = pc[r]
  <2>1. pc \in [Process -> PluginLabel \cup ListenerLabel \cup ReaderLabel]
    BY <1>1 DEF LifeOK
  <2>2. Listener \in Process /\ Readers \subseteq Process /\ Listener \notin Readers
    BY ReadersAssumption DEF Process
  <2>3. CASE IsWanted(Parse(p))
    <3>1. pc' = [pc EXCEPT ![Listener] = "lock"]
      BY <1>2, <2>3 DEF Goto
    <3>2. QED
      BY <2>1, <2>2, <2>3, <3>1
  <2>4. CASE ~IsWanted(Parse(p))
    <3>1. pc' = [pc EXCEPT ![Listener] = "test"]
      BY <1>2, <2>4 DEF Goto
    <3>2. QED
      BY <2>1, <2>2, <2>4, <3>1
  <2>5. QED
    BY <2>3, <2>4
<1>6. Came(blocks) \/ (last = <<>> /\ blocks = <<>>)
  BY <1>1 DEF TableOK
<1>7. parsed' \in Seq(Block) /\ blocks' \in Seq(Block)
  BY <1>1, <1>2, <1>3, <1>4 DEF TableOK
<1>8. TableOK'
  <2>1. CASE p \in Malformed
    <3>1. strays' = strays \cup {p} /\ last' = last
      BY <1>2, <2>1, MalformedAssumption DEF Hears
    <3>2. \A bs : Came(bs) => Came(bs)'
      BY <3>1 DEF Came, SaidBy
    <3>3. IsWanted(Parse(p)) => SaidBy(p, Parse(p))
      BY <1>4, PacketSaysBlocks DEF IsWanted, SaidBy
    <3>4. IsWanted(Parse(p)) => Came(Parse(p))'
      BY <3>1, <3>3 DEF Came, SaidBy
    <3>5. last' \in Seq(Message) /\ strays' \subseteq Malformed
      BY <1>1, <2>1, <3>1 DEF TableOK
    <3>6. CASE IsWanted(Parse(p))
      BY <1>2, <1>5, <1>7, <3>4, <3>5, <3>6 DEF TableOK, Came, SaidBy
    <3>7. CASE ~IsWanted(Parse(p))
      <4>1. Came(blocks)' \/ (last' = <<>> /\ blocks' = <<>>)
        BY <1>3, <1>6, <3>1 DEF Came, SaidBy
      <4>2. QED
        BY <1>5, <1>7, <3>5, <3>7, <4>1 DEF TableOK
    <3>8. QED
      BY <3>6, <3>7
  <2>2. CASE p \in Messages
    <3>1. PICK m \in Broadcasts : p.lines = Lines(m) /\ p.message = <<m>>
      BY <2>2 DEF Messages
    <3>2. m \in Message /\ Parse(p) = Blocks(m) /\ p.message # <<>> /\ p.message[1] = m
      BY <3>1, BroadcastsAssumption, MessageParsed
    <3>3. IsWanted(Parse(p)) <=> FromOurs(m)
      BY <3>2, WantedIsOurs
    <3>4. CASE FromOurs(m)
      <4>1. last' = <<m>> /\ strays' = {}
        BY <1>2, <3>1, <3>2, <3>4 DEF Hears
      <4>2. <<m>> \in Seq(Message) /\ <<m>> # <<>> /\ <<m>>[1] = m
        BY <3>2
      <4>3. Came(parsed)'
        BY <1>2, <3>2, <3>3, <3>4, <4>1, <4>2 DEF Came
      <4>4. QED
        BY <1>5, <1>7, <3>3, <3>4, <4>1, <4>2, <4>3 DEF TableOK
    <3>5. CASE ~FromOurs(m)
      <4>1. last' = last /\ strays' = strays
        BY <1>2, <3>2, <3>5 DEF Hears, heardVars
      <4>2. Came(blocks)' \/ (last' = <<>> /\ blocks' = <<>>)
        BY <1>3, <1>6, <4>1 DEF Came, SaidBy
      <4>3. QED
        BY <1>1, <1>5, <1>7, <3>3, <3>5, <4>1, <4>2 DEF TableOK
    <3>6. QED
      BY <3>4, <3>5
  <2>3. QED
    BY <2>1, <2>2 DEF Packets
<1>9. ReadersOK'
  <2>1. UNCHANGED <<owner, index, reply, blocks>>
    BY <1>3 DEF readerVars
  <2>2. ASSUME NEW r \in Readers PROVE ReaderOK(r)'
    <3>1. ReaderOK(r)
      BY DEF TInv, ReadersOK
    <3>2. Reports(reply[r], index[r] - 1) <=> Reports(reply[r], index[r] - 1)'
      BY <2>1 DEF Reports, Reported
    <3>3. Reports(reply[r], Len(blocks)) <=> Reports(reply[r], Len(blocks))'
      BY <2>1 DEF Reports, Reported
    <3>4. QED
      BY <1>5, <2>1, <3>1, <3>2, <3>3 DEF ReaderOK
  <2>3. QED
    BY <2>1, <2>2 DEF TInv, ReadersOK
<1>10. QED
  BY <1>8, <1>9 DEF TInv

(* The listener puts the new blocks into the place of the old, under the   *)
(* lock.                                                                   *)
LEMMA ReplaceKeeps ==
  ASSUME IInv, TInv, Replace
  PROVE  TInv'
<1>1. /\ pc[Listener] = "lock" /\ owner = NoOne
      /\ blocks' = parsed /\ parsed' = <<>>
      /\ UNCHANGED <<last, strays, owner, index, reply>>
  BY DEF Replace, readerVars, heardVars
<1>2. pc'[Listener] = "test" /\ \A r \in Readers : pc'[r] = pc[r]
  BY ReadersAssumption DEF Replace, Goto, IInv, LifeOK, Process
<1>3. TableOK'
  <2>1. <<>> \in Seq(Block) /\ Came(parsed)
    BY <1>1 DEF TInv, TableOK
  <2>2. Came(blocks)'
    BY <1>1, <2>1 DEF Came, SaidBy
  <2>3. QED
    BY <1>1, <1>2, <2>1, <2>2 DEF TInv, TableOK
<1>4. ReadersOK'
  <2>1. ASSUME NEW r \in Readers PROVE ReaderOK(r)'
    <3>1. ReaderOK(r) /\ owner # r
      BY <1>1, ReadersAssumption DEF TInv, ReadersOK
    <3>2. pc[r] \in {"idle", "lock"}
      BY <3>1 DEF ReaderOK, ReaderLabel
    <3>3. QED
      BY <1>1, <1>2, <3>1, <3>2 DEF ReaderOK
  <2>2. QED
    BY <1>1, <2>1 DEF TInv, ReadersOK
<1>5. QED
  BY <1>3, <1>4 DEF TInv

(* Nothing has been reported of no blocks.                                 *)
LEMMA ReportsNone ==
  ASSUME NEW n \in Nat, n < 2
  PROVE  Reports(<<>>, n)
<1> DEFINE at == [k \in DOMAIN <<>> |-> 2]
<1>1. DOMAIN <<>> = {} /\ 2 .. n = {}
  OBVIOUS
<1>2. at \in [DOMAIN <<>> -> 2 .. n]
  BY <1>1
<1> HIDE DEF at
<1>3. QED
  BY <1>1, <1>2 DEF Reports

(* What one more block adds to an answer.                                  *)
LEMMA ReportsMore ==
  ASSUME NEW answer \in Seq(Block), NEW n \in Nat, n >= 2, Reports(answer, n - 1)
  PROVE  Reports(IF Reported(blocks[n]) THEN Append(answer, blocks[n]) ELSE answer, n)
<1>1. PICK at \in [DOMAIN answer -> 2 .. n - 1] :
        /\ \A k, l \in DOMAIN answer : k < l => at[k] < at[l]
        /\ \A k \in DOMAIN answer : Reported(blocks[at[k]]) /\ answer[k] = blocks[at[k]]
        /\ \A i \in 2 .. n - 1 : Reported(blocks[i]) => \E k \in DOMAIN answer : at[k] = i
  BY DEF Reports
<1>2. \A i \in 2 .. n : i = n \/ i \in 2 .. n - 1
  OBVIOUS
<1>3. CASE ~Reported(blocks[n])
  <2>1. at \in [DOMAIN answer -> 2 .. n]
    <3>1. 2 .. n - 1 \subseteq 2 .. n
      OBVIOUS
    <3>2. QED
      BY <1>1, <3>1
  <2>2. \A i \in 2 .. n : Reported(blocks[i]) => \E k \in DOMAIN answer : at[k] = i
    BY <1>1, <1>2, <1>3
  <2>3. Reports(answer, n)
    BY <1>1, <2>1, <2>2 DEF Reports
  <2>4. QED
    BY <1>3, <2>3
<1>4. CASE Reported(blocks[n])
  <2> DEFINE m == Len(answer)
             more == Append(answer, blocks[n])
             to == [k \in 1 .. m + 1 |-> IF k = m + 1 THEN n ELSE at[k]]
  <2>1. /\ m \in Nat /\ DOMAIN answer = 1 .. m /\ DOMAIN more = 1 .. m + 1
        /\ \A k \in 1 .. m : more[k] = answer[k]
        /\ more[m + 1] = blocks[n]
    OBVIOUS
  <2> HIDE DEF m, more
  <2>2. \A k \in 1 .. m + 1 : k = m + 1 \/ k \in 1 .. m
    BY <2>1
  <2>3. \A k \in 1 .. m : k # m + 1 /\ k \in 1 .. m + 1 /\ at[k] \in 2 .. n - 1
    BY <1>1, <2>1
  <2>4. to[m + 1] = n /\ \A k \in 1 .. m : to[k] = at[k]
    BY <2>1, <2>3
  <2>5. to \in [1 .. m + 1 -> 2 .. n]
    BY <2>2, <2>3
  <2> HIDE DEF to
  <2>6. \A k, l \in 1 .. m + 1 : k < l => to[k] < to[l]
    <3> SUFFICES ASSUME NEW k \in 1 .. m + 1, NEW l \in 1 .. m + 1, k < l
                 PROVE to[k] < to[l]
      OBVIOUS
    <3>1. k \in 1 .. m
      BY <2>1
    <3>2. CASE l = m + 1
      BY <2>3, <2>4, <3>1, <3>2
    <3>3. CASE l \in 1 .. m
      BY <1>1, <2>1, <2>4, <3>1, <3>3
    <3>4. QED
      BY <2>2, <3>2, <3>3
  <2>7. \A k \in 1 .. m + 1 : Reported(blocks[to[k]]) /\ more[k] = blocks[to[k]]
    <3> SUFFICES ASSUME NEW k \in 1 .. m + 1
                 PROVE Reported(blocks[to[k]]) /\ more[k] = blocks[to[k]]
      OBVIOUS
    <3>1. CASE k = m + 1
      BY <1>4, <2>1, <2>4, <3>1
    <3>2. CASE k \in 1 .. m
      BY <1>1, <2>1, <2>4, <3>2
    <3>3. QED
      BY <2>2, <3>1, <3>2
  <2>8. \A i \in 2 .. n : Reported(blocks[i]) => \E k \in 1 .. m + 1 : to[k] = i
    <3> SUFFICES ASSUME NEW i \in 2 .. n, Reported(blocks[i])
                 PROVE \E k \in 1 .. m + 1 : to[k] = i
      OBVIOUS
    <3>1. CASE i = n
      BY <2>1, <2>4, <3>1
    <3>2. CASE i \in 2 .. n - 1
      <4>1. PICK k \in 1 .. m : at[k] = i
        BY <1>1, <2>1, <3>2
      <4>2. k \in 1 .. m + 1 /\ to[k] = i
        BY <2>3, <2>4, <4>1
      <4>3. QED
        BY <4>2
    <3>3. QED
      BY <1>2, <3>1, <3>2
  <2>9. Reports(more, n)
    <3>1. to \in [DOMAIN more -> 2 .. n]
      BY <2>1, <2>5
    <3>2. \A k, l \in DOMAIN more : k < l => to[k] < to[l]
      BY <2>1, <2>6
    <3>3. \A k \in DOMAIN more : Reported(blocks[to[k]]) /\ more[k] = blocks[to[k]]
      BY <2>1, <2>7
    <3>4. \A i \in 2 .. n : Reported(blocks[i]) => \E k \in DOMAIN more : to[k] = i
      BY <2>1, <2>8
    <3>5. QED
      BY <3>1, <3>2, <3>3, <3>4, Zenon DEF Reports
  <2>10. QED
    BY <1>4, <2>9 DEF more
<1>5. QED
  BY <1>3, <1>4

(* Reports is about the blocks alone.                                      *)
LEMMA ReportsSame ==
  ASSUME UNCHANGED blocks
  PROVE  \A answer, n : Reports(answer, n) <=> Reports(answer, n)'
BY DEF Reports, Reported

(* A reader's step, among the other readers.                               *)
LEMMA ReaderKeeps ==
  ASSUME IInv, TInv, NEW r \in Readers, Ask(r) \/ ReaderStep(r)
  PROVE  TInv'
<1>0. /\ TableOK /\ ReadersOK /\ LifeOK /\ ReaderOK(r)
      /\ reply[r] \in Seq(Block) /\ index[r] \in Nat /\ blocks \in Seq(Block)
  BY DEF IInv, TInv, ReadersOK, TableOK
<1>1. UNCHANGED tableVars /\ pc'[Listener] = pc[Listener]
  BY <1>0, ReadersAssumption
  DEF Ask, ReaderStep, Enter, Loop, LoopEnds, Leave, Goto, LifeOK, Process
<1>2. \A q \in Readers \ {r} : pc'[q] = pc[q]
  BY <1>0, ReadersAssumption
  DEF Ask, ReaderStep, Enter, Loop, LoopEnds, Leave, Goto, LifeOK, Process
<1>3. TableOK'
  BY <1>0, <1>1 DEF TableOK, Came, SaidBy, tableVars, heardVars
<1>4. /\ index' \in [Readers -> Nat] /\ reply' \in [Readers -> Seq(Block)]
      /\ \A q \in Readers \ {r} : index'[q] = index[q] /\ reply'[q] = reply[q]
  <2>1. index \in [Readers -> Nat] /\ reply \in [Readers -> Seq(Block)]
    BY <1>0 DEF ReadersOK
  <2>2. CASE UNCHANGED <<index, reply>>
    BY <2>1, <2>2
  <2>3. CASE Loop(r)
    <3>1. blocks[index[r]] \in Block
      BY <1>0, <2>3 DEF Loop
    <3> DEFINE next == IF Reported(blocks[index[r]]) THEN Append(reply[r], blocks[index[r]])
                       ELSE reply[r]
    <3>2. next \in Seq(Block)
      BY <1>0, <3>1
    <3>3. index' = [index EXCEPT ![r] = index[r] + 1] /\ reply' = [reply EXCEPT ![r] = next]
      BY <2>3 DEF Loop
    <3> HIDE DEF next
    <3>4. QED
      BY <1>0, <2>1, <3>2, <3>3
  <2>4. CASE Leave(r)
    <3>1. <<>> \in Seq(Block)
      OBVIOUS
    <3>2. QED
      BY <2>1, <2>4, <3>1 DEF Leave
  <2>5. QED
    BY <2>2, <2>3, <2>4 DEF Ask, ReaderStep, Enter, LoopEnds, readerVars
<1>5. owner' \in Readers \cup {NoOne}
  BY <1>0 DEF ReadersOK, Ask, ReaderStep, Enter, Loop, LoopEnds, Leave, readerVars
<1>6. UNCHANGED blocks
  BY <1>1 DEF tableVars
<1>7. ReaderOK(r)'
  <2>1. CASE Ask(r)
    <3>1. pc'[r] = "lock" /\ pc[r] = "idle" /\ UNCHANGED <<owner, index, reply>>
      BY <1>0, <2>1 DEF Ask, Goto, LifeOK, Process, readerVars
    <3>2. QED
      BY <1>0, <3>1 DEF ReaderOK, ReaderLabel
  <2>2. CASE Enter(r)
    <3>1. /\ pc[r] = "lock" /\ owner' = r /\ UNCHANGED <<index, reply>>
          /\ pc'[r] = IF Len(blocks) > 1 THEN "loop" ELSE "unlock"
      BY <1>0, <2>2 DEF Enter, Goto, LifeOK, Process
    <3>2. index'[r] = 2 /\ reply'[r] = <<>>
      BY <1>0, <3>1 DEF ReaderOK
    <3>3. CASE Len(blocks) > 1
      <4>1. 2 \in 2 .. Len(blocks) + 1
        BY <1>0, <3>3
      <4>2. Reports(<<>>, 1)
        BY ReportsNone
      <4>3. Reports(<<>>, 1)'
        BY <1>6, <4>2, ReportsSame
      <4>4. QED
        BY <1>6, <3>1, <3>2, <3>3, <4>1, <4>3 DEF ReaderOK, ReaderLabel
    <3>4. CASE ~(Len(blocks) > 1)
      <4>1. Reports(<<>>, Len(blocks))
        BY <1>0, <3>4, ReportsNone
      <4>2. Reports(<<>>, Len(blocks))'
        BY <1>6, <4>1, ReportsSame
      <4>3. QED
        BY <1>6, <3>1, <3>2, <3>4, <4>2 DEF ReaderOK, ReaderLabel
    <3>5. QED
      BY <3>3, <3>4
  <2>3. CASE Loop(r)
    <3>0. PICK n, next :
            /\ n = index[r]
            /\ next = IF Reported(blocks[n]) THEN Append(reply[r], blocks[n]) ELSE reply[r]
      OBVIOUS
    <3>1. /\ pc[r] = "loop" /\ pc' = pc /\ owner' = owner /\ n \in DOMAIN blocks
          /\ index'[r] = n + 1 /\ reply'[r] = next
      BY <1>0, <2>3, <3>0 DEF Loop, ReadersOK
    <3>2. n \in Nat /\ n >= 2 /\ Reports(reply[r], n - 1) /\ n + 1 \in 2 .. Len(blocks) + 1
      BY <1>0, <3>0, <3>1 DEF ReaderOK
    <3>3. Reports(next, n)
      BY <1>0, <3>0, <3>2, ReportsMore
    <3>4. Reports(reply[r], index[r] - 1)'
      <4>1. reply'[r] = next /\ index'[r] - 1 = n
        BY <3>1, <3>2
      <4>2. QED
        BY <1>6, <3>3, <4>1 DEF Reports, Reported
    <3>5. QED
      BY <1>0, <1>6, <3>0, <3>1, <3>2, <3>4 DEF ReaderOK
  <2>4. CASE LoopEnds(r)
    <3>1. /\ pc[r] = "loop" /\ pc'[r] = "unlock" /\ UNCHANGED <<owner, index, reply>>
          /\ index[r] \notin DOMAIN blocks
      BY <1>0, <2>4 DEF LoopEnds, Goto, LifeOK, Process, readerVars
    <3>2. index[r] - 1 = Len(blocks)
      BY <1>0, <3>1 DEF ReaderOK
    <3>3. Reports(reply[r], Len(blocks))
      BY <1>0, <3>1, <3>2 DEF ReaderOK
    <3>4. Reports(reply[r], Len(blocks))'
      BY <1>6, <3>1, <3>3 DEF Reports, Reported
    <3>5. QED
      BY <1>0, <3>1, <3>4 DEF ReaderOK, ReaderLabel
  <2>5. CASE Leave(r)
    <3>1. pc'[r] = "idle" /\ owner' = NoOne /\ index'[r] = 2 /\ reply'[r] = <<>>
      BY <1>0, <2>5 DEF Leave, Goto, LifeOK, Process, ReadersOK
    <3>2. NoOne # r
      BY ReadersAssumption
    <3>3. QED
      BY <3>1, <3>2 DEF ReaderOK, ReaderLabel
  <2>6. QED
    BY <2>1, <2>2, <2>3, <2>4, <2>5 DEF ReaderStep
<1>8. ASSUME NEW q \in Readers \ {r} PROVE ReaderOK(q)'
  <2>1. ReaderOK(q) /\ q # NoOne
    BY <1>0, ReadersAssumption DEF ReadersOK
  <2>2. pc'[q] = pc[q] /\ index'[q] = index[q] /\ reply'[q] = reply[q]
    BY <1>2, <1>4
  <2>3. owner' = q <=> owner = q
    <3>1. CASE owner' = owner
      BY <3>1
    <3>2. CASE Enter(r)
      BY <2>1, <3>2 DEF Enter
    <3>3. CASE Leave(r)
      BY <1>0, <2>1, <3>3 DEF Leave, ReaderOK
    <3>4. QED
      BY <3>1, <3>2, <3>3 DEF Ask, ReaderStep, Loop, LoopEnds, readerVars
  <2>4. Reports(reply[q], index[q] - 1) <=> Reports(reply[q], index[q] - 1)'
    BY <1>6, <2>2 DEF Reports, Reported
  <2>5. Reports(reply[q], Len(blocks)) <=> Reports(reply[q], Len(blocks))'
    BY <1>6, <2>2 DEF Reports, Reported
  <2>6. QED
    BY <1>6, <2>1, <2>2, <2>3, <2>4, <2>5 DEF ReaderOK
<1>9. QED
  BY <1>3, <1>4, <1>5, <1>7, <1>8 DEF TInv, ReadersOK

(* The second inductive invariant.                                         *)
THEOREM TableInvariance == Spec => []TInv
<1>1. IInv /\ TInv /\ [Next]_vars => TInv'
  <2> SUFFICES ASSUME IInv, TInv, [Next]_vars PROVE TInv'
    OBVIOUS
  <2>1. CASE Next
    BY <2>1, ThreadsKeep, ReceiveKeeps, ReplaceKeeps, ReaderKeeps DEF Next, ListenerStep
  <2>2. CASE UNCHANGED vars
    BY <2>2, KeepsTInv DEF vars
  <2>3. QED
    BY <2>1, <2>2
<1>2. QED
  BY InitTInv, <1>1, SpeedFanInvariance, PTL DEF Spec

(* The type invariant, with the count of references never above three.     *)
THEOREM SpeedFanTyped == Spec => []TypeOK
<1>1. IInv /\ TInv => TypeOK
  <2> SUFFICES ASSUME IInv, TInv PROVE TypeOK
    OBVIOUS
  <2>1. refCount \in 0 .. 3
    BY Refs DEF IInv, Counted
  <2>2. \A r \in Readers : pc[r] \in ReaderLabel /\ reply[r] \in Seq(Block)
    BY DEF TInv, ReadersOK, ReaderOK
  <2>3. QED
    BY <2>1, <2>2 DEF TypeOK, IInv, LifeOK, TInv, TableOK, ReadersOK
<1>2. QED
  BY <1>1, SpeedFanInvariance, TableInvariance, PTL

(* The table is what the last message of the configured SpeedFan says, or  *)
(* what a packet says that was none and came in since, for any messages    *)
(* and any packets: no message of ours is passed over, nobody else's taken *)
(* for one, and no block is put together from two.                         *)
THEOREM TableIsMessageHolds == Spec => []TableIsMessage
<1>1. TInv => TableIsMessage
  BY DEF TInv, TableOK, Came, SaidBy, TableIsMessage, Intact, SaidByStray
<1>2. QED
  BY <1>1, TableInvariance, PTL

(* Every answer reports the temperatures of one packet, all of them once,  *)
(* although the blocks are replaced between its requests.                  *)
THEOREM AnswerIsTableHolds == Spec => []AnswerIsTable
<1>1. TInv => AnswerIsTable
  BY DEF TInv, ReadersOK, ReaderOK, AnswerIsTable
<1>2. QED
  BY <1>1, TableInvariance, PTL
=============================================================================
