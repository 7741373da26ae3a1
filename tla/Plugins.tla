------------------------------- MODULE Plugins ------------------------------
(***************************************************************************)
(* The plugins as the client threads call them: the lock wrapper around    *)
(* each plugin that is not thread-safe, the critical section around the    *)
(* SMART reader, which the hard drive plugins share, and a plugin that     *)
(* maps the shared memory of Motherboard Monitor.                          *)
(*                                                                         *)
(* A thread answers a request: "list" asks the plugins whether they are    *)
(* loaded, without a lock; a "call" (config or fetch, which take the same  *)
(* locks and go through the same drives) goes through the wrapper.         *)
(* A label pc[t] names the next step of t.                                 *)
(***************************************************************************)
EXTENDS SmartReader, Sequences

CONSTANTS
  Threads,       \* client threads (and, in a debug build, the test thread)
  SmartPlugins   \* the plugins that use the SMART reader

Mbm  == "mbm"      \* the plugin of Motherboard Monitor
Smart == "smart"   \* g_SmartReaderCritSec
NoOne == "no one"

ASSUME ThreadsAssumption ==
  /\ IsFiniteSet(Threads) /\ NoOne \notin Threads
  /\ {"mbm", "smart"} \cap SmartPlugins = {}

Wrapped == SmartPlugins \cup {Mbm}
Lock    == Wrapped \cup {Smart}

VARIABLES
  pc,       \* next step of each thread
  req,      \* what it was asked: a kind and, for a call, a plugin
  idx,      \* the drive its loop is at
  reply,    \* the readings it has put into its answer: index, drive, refresh
  owner,    \* who holds each critical section
  mapping,  \* mbm::mbmMemory is set
  view,     \* mbm::data is set
  opens,    \* successful calls of OpenFileMapping
  maps      \* successful calls of MapViewOfFile

threadVars == <<pc, req, idx, reply>>
mbmVars    == <<mapping, view, opens, maps>>
vars       == <<smartVars, threadVars, owner, mbmVars>>

Label == {"idle", "wrapper", "smart", "update", "loop", "leaveSmart", "leave",
          "test", "open", "map", "crashed"}

Request ==
  [kind : {"list"}, plugin : {Mbm}] \cup
  [kind : {"call"}, plugin : Wrapped]

Entry == [index : Drive, drive : Drive, refresh : Nat]

TypeOK ==
  /\ SmartTypeOK
  /\ pc \in [Threads -> Label]
  /\ req \in [Threads -> Request]
  /\ idx \in [Threads -> 0 .. Drives]
  /\ reply \in [Threads -> SUBSET Entry]
  /\ owner \in [Lock -> Threads \cup {NoOne}]
  /\ mapping \in BOOLEAN /\ view \in BOOLEAN
  /\ opens \in Nat /\ maps \in Nat

Init ==
  /\ SmartInit
  /\ pc = [t \in Threads |-> "idle"]
  /\ req = [t \in Threads |-> [kind |-> "list", plugin |-> Mbm]]
  /\ idx = [t \in Threads |-> 0]
  /\ reply = [t \in Threads |-> {}]
  /\ owner = [l \in Lock |-> NoOne]
  /\ mapping = FALSE /\ view = FALSE /\ opens = 0 /\ maps = 0

-----------------------------------------------------------------------------
Goto(t, label) == pc' = [pc EXCEPT ![t] = label]

(* JCAutoLockCritSec: its constructor waits, its destructor lets go.       *)
Acquire(t, l) == owner[l] = NoOne /\ owner' = [owner EXCEPT ![l] = t]
Release(t, l) == owner' = [owner EXCEPT ![l] = NoOne]

(* What the wrapper calls once it is in.                                   *)
Inside(t) == IF req[t].plugin = Mbm THEN "test" ELSE "smart"

-----------------------------------------------------------------------------
(* A request is looked up: LookupPlugin or FillPluginList.                 *)
Ask(t) ==
  /\ pc[t] = "idle"
  /\ \E r \in Request :
       /\ req' = [req EXCEPT ![t] = r]
       /\ Goto(t, IF r.kind = "list" THEN "test" ELSE "wrapper")
  /\ UNCHANGED <<smartVars, idx, reply, owner, mbmVars>>

EnterWithoutLock(t) ==   \* mutant: the wrapper does not lock
  /\ pc[t] = "wrapper"
  /\ Goto(t, Inside(t))
  /\ UNCHANGED <<smartVars, req, idx, reply, owner, mbmVars>>

(* MuninNodePluginLockWrapper::GetConfig and GetValues.                    *)
EnterWrapper(t) ==
  /\ pc[t] = "wrapper"
  /\ Acquire(t, req[t].plugin)
  /\ Goto(t, Inside(t))
  /\ UNCHANGED <<smartVars, req, idx, reply, mbmVars>>

LeaveWrapperLocked(t) ==   \* mutant: the lock outlives the call
  /\ pc[t] = "leave"
  /\ Goto(t, "idle")
  /\ idx' = [idx EXCEPT ![t] = 0] /\ reply' = [reply EXCEPT ![t] = {}]
  /\ UNCHANGED <<smartVars, req, owner, mbmVars>>

(* The answer goes to the master; the next call starts afresh.             *)
LeaveWrapper(t) ==
  /\ pc[t] = "leave"
  /\ Release(t, req[t].plugin)
  /\ Goto(t, "idle")
  /\ idx' = [idx EXCEPT ![t] = 0] /\ reply' = [reply EXCEPT ![t] = {}]
  /\ UNCHANGED <<smartVars, req, mbmVars>>

-----------------------------------------------------------------------------
(* GetConfig and GetValues of a plugin that uses the SMART reader.         *)

EnterSmartUnlocked(t) ==   \* mutant: the wrapper's lock has to do
  /\ pc[t] = "smart"
  /\ Goto(t, "update")
  /\ UNCHANGED <<smartVars, req, idx, reply, owner, mbmVars>>

EnterSmart(t) ==
  /\ pc[t] = "smart"
  /\ Acquire(t, Smart)
  /\ Goto(t, "update")
  /\ UNCHANGED <<smartVars, req, idx, reply, mbmVars>>

Update(t) ==
  /\ pc[t] = "update"
  /\ UpdateSMART
  /\ Goto(t, "loop")
  /\ UNCHANGED <<req, idx, reply, owner, mbmVars>>

(* One drive: its reading, if there is one.                                *)
Loop(t) ==
  /\ pc[t] = "loop"
  /\ idx[t] < count
  /\ idx' = [idx EXCEPT ![t] = @ + 1]
  /\ reply' = IF ReadingAt(idx[t]) # Never
              THEN [reply EXCEPT ![t] = @ \cup
                     {[index |-> idx[t], drive |-> driveIndex[idx[t]],
                       refresh |-> ReadingAt(idx[t])]}]
              ELSE reply
  /\ UNCHANGED <<smartVars, pc, req, owner, mbmVars>>

LoopEnds(t) ==
  /\ pc[t] = "loop"
  /\ idx[t] >= count
  /\ Goto(t, "leaveSmart")
  /\ UNCHANGED <<smartVars, req, idx, reply, owner, mbmVars>>

LeaveSmart(t) ==
  /\ pc[t] = "leaveSmart"
  /\ Release(t, Smart)
  /\ Goto(t, "leave")
  /\ UNCHANGED <<smartVars, req, idx, reply, mbmVars>>

-----------------------------------------------------------------------------
(* The Motherboard Monitor plugin: IsLoaded calls GetConfig, which calls   *)
(* mbm::open.  IsLoaded goes past the wrapper's lock.                      *)

AfterOpen(t) == IF req[t].kind = "list" THEN "idle" ELSE "leave"

(* opened(), then the test of mbmMemory.                                   *)
MbmTest(t) ==
  /\ pc[t] = "test"
  /\ Goto(t, IF view THEN AfterOpen(t) ELSE IF mapping THEN "map" ELSE "open")
  /\ UNCHANGED <<smartVars, req, idx, reply, owner, mbmVars>>

MbmOpen(t) ==
  /\ pc[t] = "open"
  /\ mapping' = TRUE
  /\ opens' = opens + 1
  /\ Goto(t, "map")
  /\ UNCHANGED <<smartVars, req, idx, reply, owner, view, maps>>

(* Motherboard Monitor is not running: nobody holds its memory.            *)
MbmOpenFails(t) ==
  /\ pc[t] = "open"
  /\ opens = 0
  /\ Goto(t, AfterOpen(t))
  /\ UNCHANGED <<smartVars, req, idx, reply, owner, mbmVars>>

MbmMap(t) ==
  /\ pc[t] = "map"
  /\ view' = TRUE
  /\ maps' = maps + 1
  /\ Goto(t, AfterOpen(t))
  /\ UNCHANGED <<smartVars, req, idx, reply, owner, mapping, opens>>

(* MapViewOfFile gives NULL, which is dereferenced at once: nobody catches *)
(* that, and the process ends.                                             *)
MbmMapFails(t) ==
  /\ pc[t] = "map"
  /\ view' = FALSE   \* the assignment comes before the dereference
  /\ pc' = [u \in Threads |-> "crashed"]
  /\ UNCHANGED <<smartVars, req, idx, reply, owner, mapping, opens, maps>>

-----------------------------------------------------------------------------
Work(t) ==
  \/ EnterWrapper(t) \/ LeaveWrapper(t)
  \/ EnterSmart(t) \/ Update(t) \/ Loop(t) \/ LoopEnds(t) \/ LeaveSmart(t)
  \/ MbmTest(t) \/ MbmOpen(t) \/ MbmOpenFails(t) \/ MbmMap(t) \/ MbmMapFails(t)

(* The process has ended and stays so: no deadlock of the locks.           *)
Ended == (\A t \in Threads : pc[t] = "crashed") /\ UNCHANGED vars

Next ==
  \/ \E t \in Threads : Ask(t) \/ Work(t)
  \/ Ended
  \/ Environment /\ UNCHANGED <<threadVars, owner, mbmVars>>

Spec == Init /\ [][Next]_vars

(* A thread that can go on does; nobody has to ask, and a critical section *)
(* may be given to any of the threads that wait for it.                    *)
FairSpec == Spec /\ \A t \in Threads : WF_vars(Work(t))

-----------------------------------------------------------------------------
(* A plugin that is not thread-safe is in use by one thread at a time,     *)
(* config and fetch together.                                              *)
Using(t) ==
  IF pc[t] \in {"smart", "update", "loop", "leaveSmart", "leave"}
  THEN {req[t].plugin} ELSE {}

WrappedPluginsExclusive ==
  \A t, u \in Threads : Using(t) \cap Using(u) # {} => t = u

(* One answer, one reading of the drives: the readings a fetch reports     *)
(* were all made by the same refresh, even while other plugins, behind     *)
(* wrappers of their own, refresh the reader they share.                   *)
ReplyIsSnapshot ==
  \A t \in Threads : \A x, y \in reply[t] : x.refresh = y.refresh

(* Past UpdateSMART the table is at most a minute old by the clock, also   *)
(* when the clock was set back.                                            *)
FreshAfterUpdate ==
  [][ \A t \in Threads :
        pc[t] = "update" /\ pc'[t] = "loop" =>
          last' <= clock /\ clock - last' <= Minute ]_vars

(* Once no more requests come in, every one that was made is answered:     *)
(* the two levels of locks never leave threads waiting for each other or   *)
(* for a lock nobody will let go of; unless the process has ended because  *)
(* Motherboard Monitor's memory could not be mapped.                       *)
RequestsDrain ==
  <>[][\A t \in Threads : ~Ask(t)]_vars =>
    <>[](\A t \in Threads : pc[t] \in {"idle", "crashed"})

(* "Number of drives with information read" (m_ucDrivesWithInfo) and the   *)
(* use GetValues makes of it: what is reported for a drive was read from   *)
(* that drive.                                                             *)
ReportsOwnDrive == \A t \in Threads : \A x \in reply[t] : x.drive = x.index

(* "This method should always be thread-safe" (IsLoaded): threads that ask *)
(* for the list at the same time open and map the memory once.             *)
MappedOnce == opens <= 1 /\ maps <= 1
=============================================================================
