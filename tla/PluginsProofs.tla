--------------------------- MODULE PluginsProofs ----------------------------
(***************************************************************************)
(* Proofs about the plugins' locks and the SMART reader they share, for    *)
(* any number of threads, plugins and drives, and any clock.               *)
(***************************************************************************)
EXTENDS Plugins, FiniteSetTheorems, TLAPS

(* A thread between a lock's constructor and its destructor owns the lock. *)
HoldsWrapper(t) ==
  \/ pc[t] \in {"smart", "update", "loop", "leaveSmart", "leave"}
  \/ pc[t] \in {"test", "open", "map"} /\ req[t].kind = "call"

LockInv ==
  \A t \in Threads :
    /\ HoldsWrapper(t) => owner[req[t].plugin] = t
    /\ pc[t] \in {"update", "loop", "leaveSmart"} => owner[Smart] = t
    /\ pc[t] = "wrapper" => req[t].kind = "call"
    /\ pc[t] \in {"smart", "update", "loop", "leaveSmart"} => req[t].kind = "call"

(* All that the table holds is of the last refresh, and so is what a       *)
(* thread that owns the reader has taken from it.                          *)
TableInv == \A d \in Drive : values[d] \in {Never, refresh}

ReplyInv ==
  \A t \in Threads :
    /\ pc[t] \notin {"loop", "leaveSmart", "leave", "crashed"} => reply[t] = {}
    /\ pc[t] \in {"loop", "leaveSmart"} => \A x \in reply[t] : x.refresh = refresh
    /\ \A x, y \in reply[t] : x.refresh = y.refresh

Inv == TypeOK /\ LockInv /\ TableInv /\ ReplyInv

-----------------------------------------------------------------------------
(* The locks are different from each other and from nobody.                *)
LEMMA Locks ==
  /\ Smart \notin Wrapped /\ Smart \in Lock /\ Wrapped \subseteq Lock
  /\ Mbm \in Wrapped /\ Mbm \notin SmartPlugins
  /\ NoOne \notin Threads
BY ThreadsAssumption DEF Smart, Mbm, Wrapped, Lock

(* What the loop over the drives counts is a number of drives.             *)
LEMMA CountTyped == Cardinality(Counted) \in 0 .. Drives
<1>1. Drives \in Nat /\ Drives > 0
  BY DrivesAssumption
<1>2. IsFiniteSet(Drive) /\ Cardinality(Drive) = Drives
  BY <1>1, FS_Interval DEF Drive
<1>3. Counted \in SUBSET Drive
  BY DEF Counted
<1>4. IsFiniteSet(Counted) /\ Cardinality(Counted) <= Drives
  BY <1>2, <1>3, FS_Subset
<1>5. Cardinality(Counted) \in Nat
  BY <1>4, FS_CardinalityType
<1>6. QED
  BY <1>1, <1>4, <1>5

(* Reading the table keeps its type, and leaves nothing older in it.       *)
LEMMA ReadTyped ==
  ASSUME SmartTypeOK, ReadSMARTValuesForAllDrives, last' = clock,
         UNCHANGED <<hw, clock>>
  PROVE  SmartTypeOK' /\ TableInv' /\ refresh' \in Nat
<1>1. refresh \in Nat /\ refresh' = refresh + 1 /\ refresh' \in Nat
  BY DEF SmartTypeOK, ReadSMARTValuesForAllDrives
<1>2. count' \in 0 .. Drives
  BY CountTyped DEF ReadSMARTValuesForAllDrives
<1>3. driveIndex' \in [Drive -> Drive]
  BY DEF SmartTypeOK, ReadSMARTValuesForAllDrives
<1>4. /\ values' \in [Drive -> {Never, refresh'}]
  BY <1>1 DEF ReadSMARTValuesForAllDrives
<1>5. values' \in [Drive -> 0 .. refresh']
  BY <1>1, <1>4 DEF Never
<1>6. QED
  BY <1>1, <1>2, <1>3, <1>4, <1>5 DEF SmartTypeOK, TableInv

(* UpdateSMART is a reading of the table, or nothing.                      *)
LEMMA UpdateTyped ==
  ASSUME SmartTypeOK, TableInv, UpdateSMART
  PROVE  SmartTypeOK' /\ TableInv'
<1>1. CASE DiffTime > Minute
  BY <1>1, ReadTyped DEF UpdateSMART
<1>2. CASE ~(DiffTime > Minute)
  BY <1>2 DEF UpdateSMART, smartVars, SmartTypeOK, TableInv
<1>3. QED
  BY <1>1, <1>2

(* The invariant at first.                                                 *)
LEMMA InitInv == Init => Inv
<1> SUFFICES ASSUME Init PROVE Inv
  OBVIOUS
<1> USE DEF Init, SmartInit
<1>1. SmartTypeOK
  <2>1. 0 \in Drive
    BY DrivesAssumption DEF Drive
  <2>2. Start \in 0 .. MaxClock /\ 0 \in 0 .. MaxClock
    BY ClockAssumption
  <2>3. 0 \in 0 .. Drives
    BY DrivesAssumption
  <2>4. QED
    BY <2>1, <2>2, <2>3 DEF SmartTypeOK, Never
<1>2. TypeOK
  <2>1. [kind |-> "list", plugin |-> Mbm] \in Request
    BY DEF Request
  <2>2. idx \in [Threads -> 0 .. Drives] /\ reply \in [Threads -> SUBSET Entry]
    BY DrivesAssumption
  <2>3. pc \in [Threads -> Label] /\ req \in [Threads -> Request]
    BY <2>1 DEF Label
  <2>4. QED
    BY <1>1, <2>2, <2>3 DEF TypeOK
<1>3. LockInv
  BY DEF LockInv, HoldsWrapper
<1>4. TableInv
  BY DEF TableInv
<1>5. ReplyInv
  BY DEF ReplyInv
<1>6. QED
  BY <1>2, <1>3, <1>4, <1>5 DEF Inv

-----------------------------------------------------------------------------
(* The reader's table, whoever moves.                                      *)
LEMMA SmartStep == TypeOK /\ TableInv /\ [Next]_vars => SmartTypeOK' /\ TableInv'
<1> SUFFICES ASSUME TypeOK, TableInv, [Next]_vars PROVE SmartTypeOK' /\ TableInv'
  OBVIOUS
<1>1. CASE UNCHANGED smartVars
  BY <1>1 DEF smartVars, TypeOK, SmartTypeOK, TableInv
<1>2. ASSUME NEW t \in Threads, Update(t)
      PROVE  SmartTypeOK' /\ TableInv'
  BY <1>2, UpdateTyped DEF Update, TypeOK
<1>3. CASE ClockChanges
  BY <1>3 DEF ClockChanges, TypeOK, SmartTypeOK, TableInv
<1>4. ASSUME NEW d \in Drive, DriveChanges(d)
      PROVE  SmartTypeOK' /\ TableInv'
  <2>1. hw' \in [Drive -> Kinds]
    BY <1>4 DEF DriveChanges, TypeOK, SmartTypeOK
  <2>2. QED
    BY <1>4, <2>1 DEF DriveChanges, TypeOK, SmartTypeOK, TableInv
<1>5. ASSUME NEW t \in Threads, Ask(t) \/ (Work(t) /\ ~Update(t))
      PROVE  UNCHANGED smartVars
  BY <1>5 DEF Ask, Work, EnterWrapper, LeaveWrapper, EnterSmart, Loop, LoopEnds,
       LeaveSmart, MbmTest, MbmOpen, MbmOpenFails, MbmMap, MbmMapFails
<1>6. QED
  BY <1>1, <1>2, <1>3, <1>4, <1>5 DEF Next, Ended, Environment, vars

(* Every step keeps the types.                                             *)
LEMMA TypeStep == TypeOK /\ TableInv /\ [Next]_vars => TypeOK'
<1> SUFFICES ASSUME TypeOK, TableInv, [Next]_vars PROVE TypeOK'
  OBVIOUS
<1> USE Locks DEF TypeOK, Goto
<1>1. SmartTypeOK'
  BY SmartStep
<1>2. CASE UNCHANGED <<threadVars, owner, mbmVars>>
  BY <1>1, <1>2 DEF threadVars, mbmVars
<1>3. ASSUME NEW t \in Threads, Ask(t)
      PROVE  TypeOK'
  BY <1>1, <1>3 DEF Ask, mbmVars, Label
<1>4. ASSUME NEW t \in Threads, Work(t)
      PROVE  TypeOK'
  <2>1. CASE EnterWrapper(t)
    BY <1>1, <2>1 DEF EnterWrapper, Acquire, Inside, mbmVars, Label
  <2>2. CASE LeaveWrapper(t)
    <3>1. idx' \in [Threads -> 0 .. Drives]
      BY <2>2, DrivesAssumption DEF LeaveWrapper
    <3>2. reply' \in [Threads -> SUBSET Entry]
      BY <2>2 DEF LeaveWrapper
    <3>3. owner' \in [Lock -> Threads \cup {NoOne}]
      BY <2>2 DEF LeaveWrapper, Release
    <3>4. QED
      BY <1>1, <2>2, <3>1, <3>2, <3>3 DEF LeaveWrapper, mbmVars, Label
  <2>3. CASE EnterSmart(t)
    BY <1>1, <2>3 DEF EnterSmart, Acquire, mbmVars, Label
  <2>4. CASE Update(t)
    BY <1>1, <2>4 DEF Update, mbmVars, Label
  <2>5. CASE Loop(t)
    <3>1. idx[t] \in Drive
      BY <2>5, DrivesAssumption DEF Loop, SmartTypeOK, Drive
    <3>2. /\ driveIndex[idx[t]] \in Drive
          /\ ReadingAt(idx[t]) \in Nat
      BY <3>1 DEF SmartTypeOK, ReadingAt
    <3>3. [index |-> idx[t], drive |-> driveIndex[idx[t]],
           refresh |-> ReadingAt(idx[t])] \in Entry
      BY <3>1, <3>2 DEF Entry
    <3>4. reply' \in [Threads -> SUBSET Entry]
      BY <2>5, <3>3 DEF Loop
    <3>5. idx' \in [Threads -> 0 .. Drives]
      BY <2>5, <3>1, DrivesAssumption DEF Loop, Drive
    <3>6. QED
      BY <1>1, <2>5, <3>4, <3>5 DEF Loop, mbmVars
  <2>6. CASE LoopEnds(t)
    BY <1>1, <2>6 DEF LoopEnds, mbmVars, Label
  <2>7. CASE LeaveSmart(t)
    BY <1>1, <2>7 DEF LeaveSmart, Release, mbmVars, Label
  <2>8. CASE MbmTest(t)
    BY <1>1, <2>8 DEF MbmTest, AfterOpen, mbmVars, Label
  <2>9. CASE MbmOpen(t)
    BY <1>1, <2>9 DEF MbmOpen, Label
  <2>10. CASE MbmOpenFails(t)
    BY <1>1, <2>10 DEF MbmOpenFails, AfterOpen, mbmVars, Label
  <2>11. CASE MbmMap(t)
    BY <1>1, <2>11 DEF MbmMap, AfterOpen, Label
  <2>12. CASE MbmMapFails(t)
    BY <1>1, <2>12 DEF MbmMapFails, Label
  <2>13. QED
    BY <1>4, <2>1, <2>2, <2>3, <2>4, <2>5, <2>6, <2>7, <2>8, <2>9, <2>10, <2>11, <2>12 DEF Work
<1>5. QED
  BY <1>2, <1>3, <1>4 DEF Next, Ended, vars

(* The locks: nobody gets one that another thread owns, and everybody lets *)
(* go of those he has taken only.                                          *)
LEMMA LockStep == TypeOK /\ LockInv /\ [Next]_vars => LockInv'
<1> SUFFICES ASSUME TypeOK, LockInv, [Next]_vars PROVE LockInv'
  OBVIOUS
<1> USE Locks DEF TypeOK, LockInv, HoldsWrapper, Goto
<1>1. CASE UNCHANGED <<threadVars, owner>>
  BY <1>1 DEF threadVars
<1>2. ASSUME NEW t \in Threads, Ask(t)
      PROVE  LockInv'
  BY <1>2 DEF Ask, Request
<1>3. ASSUME NEW t \in Threads, Work(t)
      PROVE  LockInv'
  <2>1. req[t].plugin \in Wrapped /\ req[t].kind \in {"list", "call"}
    BY DEF Request
  <2>2. CASE EnterWrapper(t)
    BY <2>1, <2>2 DEF EnterWrapper, Acquire, Inside
  <2>3. CASE LeaveWrapper(t)
    BY <2>1, <2>3 DEF LeaveWrapper, Release
  <2>4. CASE EnterSmart(t)
    BY <2>1, <2>4 DEF EnterSmart, Acquire
  <2>5. CASE Update(t)
    BY <2>1, <2>5 DEF Update
  <2>6. CASE Loop(t)
    BY <2>1, <2>6 DEF Loop
  <2>7. CASE LoopEnds(t)
    BY <2>1, <2>7 DEF LoopEnds
  <2>8. CASE LeaveSmart(t)
    BY <2>1, <2>8 DEF LeaveSmart, Release
  <2>9. CASE MbmTest(t)
    BY <2>1, <2>9 DEF MbmTest, AfterOpen
  <2>10. CASE MbmOpen(t)
    BY <2>1, <2>10 DEF MbmOpen
  <2>11. CASE MbmOpenFails(t)
    BY <2>1, <2>11 DEF MbmOpenFails, AfterOpen
  <2>12. CASE MbmMap(t)
    BY <2>1, <2>12 DEF MbmMap, AfterOpen
  <2>13. CASE MbmMapFails(t)
    BY <2>1, <2>13 DEF MbmMapFails
  <2>14. QED
    BY <1>3, <2>2, <2>3, <2>4, <2>5, <2>6, <2>7, <2>8, <2>9, <2>10, <2>11, <2>12, <2>13 DEF Work
<1>4. QED
  BY <1>1, <1>2, <1>3 DEF Next, Ended, vars

(* The answers: the thread that owns the reader is the only one that may   *)
(* have the table read again, and it does so before its loop.              *)
LEMMA ReplyStep ==
  TypeOK /\ LockInv /\ TableInv /\ ReplyInv /\ [Next]_vars => ReplyInv'
<1> SUFFICES ASSUME TypeOK, LockInv, TableInv, ReplyInv, [Next]_vars
             PROVE  ReplyInv'
  OBVIOUS
<1> USE DEF TypeOK, ReplyInv, Goto
<1>1. CASE UNCHANGED <<threadVars, refresh>>
  BY <1>1 DEF threadVars
<1>2. ASSUME NEW t \in Threads, Ask(t)
      PROVE  ReplyInv'
  BY <1>2 DEF Ask, smartVars
<1>3. ASSUME NEW t \in Threads, Work(t)
      PROVE  ReplyInv'
  <2>1. CASE EnterWrapper(t)
    BY <2>1 DEF EnterWrapper, smartVars, Acquire, Inside
  <2>2. CASE LeaveWrapper(t)
    BY <2>2 DEF LeaveWrapper, smartVars, Release
  <2>3. CASE EnterSmart(t)
    BY <2>3 DEF EnterSmart, smartVars, Acquire
  <2>4. CASE Update(t)
    <3>1. \A u \in Threads : u # t => pc[u] \notin {"loop", "leaveSmart"}
      BY <2>4, Locks DEF Update, LockInv
    <3>2. reply[t] = {} /\ reply' = reply
      BY <2>4 DEF Update
    <3>3. /\ pc' = [pc EXCEPT ![t] = "loop"]
      BY <2>4 DEF Update
    <3>4. QED
      BY <3>1, <3>2, <3>3
  <2>5. CASE Loop(t)
    <3>1. idx[t] \in Drive
      BY <2>5, DrivesAssumption DEF Loop, SmartTypeOK, Drive
    <3>2. ReadingAt(idx[t]) # Never => ReadingAt(idx[t]) = refresh
      BY <3>1 DEF SmartTypeOK, ReadingAt, TableInv
    <3>3. \A x \in reply'[t] : x.refresh = refresh
      <4>1. \A x \in reply[t] : x.refresh = refresh
        BY <2>5 DEF Loop
      <4>2. CASE ReadingAt(idx[t]) = Never
        BY <2>5, <4>1, <4>2 DEF Loop
      <4>3. CASE ReadingAt(idx[t]) # Never
        <5>1. reply'[t] = reply[t] \cup
                {[index |-> idx[t], drive |-> driveIndex[idx[t]],
                  refresh |-> ReadingAt(idx[t])]}
          BY <2>5, <4>3 DEF Loop
        <5>2. QED
          BY <3>2, <4>1, <4>3, <5>1
      <4>4. QED
        BY <4>2, <4>3
    <3>4. /\ pc' = pc /\ refresh' = refresh /\ pc[t] = "loop"
          /\ \A u \in Threads : u # t => reply'[u] = reply[u]
      BY <2>5 DEF Loop, smartVars
    <3>5. QED
      BY <3>3, <3>4
  <2>6. CASE LoopEnds(t)
    BY <2>6 DEF LoopEnds, smartVars
  <2>7. CASE LeaveSmart(t)
    BY <2>7 DEF LeaveSmart, smartVars, Release
  <2>8. CASE MbmTest(t)
    BY <2>8 DEF MbmTest, smartVars, AfterOpen
  <2>9. CASE MbmOpen(t)
    BY <2>9 DEF MbmOpen, smartVars
  <2>10. CASE MbmOpenFails(t)
    BY <2>10 DEF MbmOpenFails, smartVars, AfterOpen
  <2>11. CASE MbmMap(t)
    BY <2>11 DEF MbmMap, smartVars, AfterOpen
  <2>12. CASE MbmMapFails(t)
    BY <2>12 DEF MbmMapFails, smartVars
  <2>13. QED
    BY <1>3, <2>1, <2>2, <2>3, <2>4, <2>5, <2>6, <2>7, <2>8, <2>9, <2>10, <2>11, <2>12 DEF Work
<1>4. QED
  BY <1>1, <1>2, <1>3 DEF Next, Ended, vars, smartVars, Environment, ClockChanges,
     DriveChanges

(* Every step keeps the invariant.                                         *)
LEMMA InvStep == Inv /\ [Next]_vars => Inv'
BY SmartStep, TypeStep, LockStep, ReplyStep DEF Inv

-----------------------------------------------------------------------------
(* The inductive invariant holds in every reachable state.                 *)
THEOREM PluginsInvariance == Spec => []Inv
<1>1. QED
  BY InitInv, InvStep, PTL DEF Spec

(* Type correctness of the reader, the locks and the threads.              *)
THEOREM PluginsTyped == Spec => []TypeOK
<1>1. Inv => TypeOK
  BY DEF Inv
<1>2. QED
  BY <1>1, PluginsInvariance, PTL

(* MuninNodePluginLockWrapper: no two threads are inside the same plugin.  *)
THEOREM WrappedPluginsExclusiveHolds == Spec => []WrappedPluginsExclusive
<1>1. Inv => WrappedPluginsExclusive
  BY DEF Inv, LockInv, HoldsWrapper, WrappedPluginsExclusive, Using
<1>2. QED
  BY <1>1, PluginsInvariance, PTL

(* g_SmartReaderCritSec: an answer never mixes two readings of the drives. *)
THEOREM ReplyIsSnapshotHolds == Spec => []ReplyIsSnapshot
<1>1. Inv => ReplyIsSnapshot
  BY DEF Inv, ReplyInv, ReplyIsSnapshot
<1>2. QED
  BY <1>1, PluginsInvariance, PTL

(* The age of the table when the difference of the times is taken modulo   *)
(* Wrap: a last update in the future looks very old.                       *)
LEMMA OldOrRecent ==
  ASSUME SmartTypeOK, UpdateSMART
  PROVE  last' <= clock /\ clock - last' <= Minute
<1>1. /\ clock \in Nat /\ last \in Nat /\ clock <= MaxClock /\ last <= MaxClock
      /\ Minute \in Nat /\ Wrap \in Nat /\ Wrap > MaxClock + Minute
      /\ MaxClock \in Nat
  BY ClockAssumption DEF SmartTypeOK
<1>2. CASE DiffTime > Minute
  BY <1>1, <1>2 DEF UpdateSMART
<1>3. CASE ~(DiffTime > Minute)
  <2>1. last' = last
    BY <1>3 DEF UpdateSMART, smartVars
  <2>2. CASE clock < last
    <3>1. DiffTime = clock - last + Wrap
      BY <1>1, <2>2 DEF DiffTime
    <3>2. QED
      BY <1>1, <1>3, <3>1
  <2>3. CASE last <= clock
    <3>1. DiffTime = clock - last
      BY <1>1, <2>3 DEF DiffTime
    <3>2. QED
      BY <1>1, <1>3, <2>1, <2>3, <3>1, DiffTime \in Int
  <2>4. QED
    BY <1>1, <2>2, <2>3
<1>4. QED
  BY <1>2, <1>3

(* Past UpdateSMART the table is a minute old at most, whatever the clock  *)
(* has been set to, as long as it is far from the end of its range.        *)
THEOREM FreshAfterUpdateHolds == Spec => FreshAfterUpdate
<1> DEFINE Fresh == \A t \in Threads :
             pc[t] = "update" /\ pc'[t] = "loop" =>
               last' <= clock /\ clock - last' <= Minute
<1>1. TypeOK /\ [Next]_vars => [Fresh]_vars
  <2> SUFFICES ASSUME TypeOK, Next, NEW t \in Threads,
                      pc[t] = "update", pc'[t] = "loop"
               PROVE  last' <= clock /\ clock - last' <= Minute
    BY DEF vars
  <2>1. Update(t)
    BY DEF Next, Ended, vars, smartVars, TypeOK, Goto, Ask, Work, EnterWrapper, LeaveWrapper, EnterSmart,
       Update, Loop, LoopEnds, LeaveSmart, MbmTest, MbmOpen, MbmOpenFails,
       MbmMap, MbmMapFails, Environment, threadVars, Inside, AfterOpen
  <2>2. QED
    BY <2>1, OldOrRecent DEF Update, TypeOK
<1>2. QED
  BY <1>1, PluginsTyped, PTL DEF Spec, FreshAfterUpdate
=============================================================================
