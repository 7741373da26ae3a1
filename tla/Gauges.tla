------------------------------- MODULE Gauges -------------------------------
(***************************************************************************)
(* The plugins that keep something between two requests: the processor's   *)
(* times of the last reading (CpuMuninNodePlugin), the fixed drives of the *)
(* time of construction (DiskMuninNodePlugin), the disks and their         *)
(* counters (DiskTimeMuninNodePlugin), and the uptime's counter.           *)
(* They share nothing: `subject` is the one that is looked at.             *)
(***************************************************************************)
EXTENDS PluginAnswer, FiniteSets

CONSTANTS
  DriveLists,  \* the fixed drives a system may have, in the order of their letters
  Instances,   \* the lists of instances PDH may give for LogicalDisk
  OneLetter,   \* the names of instances that are one character long
  MaxTime      \* bound: how long the system's clocks run

ASSUME ListsAssumption ==
  /\ DriveLists \subseteq Seq(STRING)
  /\ Instances \subseteq Seq(STRING)

VARIABLES
  clock,        \* the system's times, in ticks: idle, kernel (idle included) and user, external
  prev,         \* PrevIdle and PrevTotal, the function's static variables
  since,        \* what the clocks have counted since the last reading
  load,         \* the last reading's IdleSinceLast and TotalSinceLast, of which the percentages are made
  interval,     \* what `since` was at the last reading
  lost,         \* history: how many readings a failed one still spoils, itself included
  drives,       \* DiskMuninNodePlugin::drives
  made,         \* has the constructor of the processor's, the drives' or the uptime's plugin run?
  opening,      \* DiskTime's OpenCounter: "new", "opened", "adding", "loaded" or "unloaded"
  diskNames,    \* m_DiskTimeNames
  diskCounters, \* m_DiskTimeCounters, each by the instance it counts
  uptime,       \* has the uptime's counter been added to its query?
  crashed       \* has the process ended?

cpuVars      == <<clock, prev, since, load, interval, lost>>
diskTimeVars == <<opening, diskNames, diskCounters>>
ownVars      == <<cpuVars, drives, made, diskTimeVars, uptime, crashed>>
gaugeVars    == <<ownVars, subject, answerVars>>

Total(c) == c.kernel + c.user
Span(idle, total) == [idle |-> idle, total |-> total]

(* Times that were never filled in, and what is reckoned from them: any number at all. *)
Unread == Span(-1, -1)

GaugesNew ==
  /\ prev = Span(0, 0) /\ load = Span(0, 0) /\ interval = Span(0, 0) /\ lost = 0
  /\ clock \in [idle : {0}, kernel : 0..1, user : 0..1]
  /\ since = Span(clock.idle, Total(clock))
  /\ drives = <<>> /\ made = FALSE
  /\ opening = "new" /\ diskNames = <<>> /\ diskCounters = <<>> /\ uptime = FALSE
  /\ crashed = FALSE

-----------------------------------------------------------------------------
(* The processor. *)
Tick ==
  /\ subject = "cpu"
  /\ \E idle, busy, user \in 0..1 :
       /\ Total(clock) + idle + busy + user <= MaxTime
       /\ clock' = [idle |-> clock.idle + idle, kernel |-> clock.kernel + idle + busy, user |-> clock.user + user]
       /\ since' = Span(since.idle + idle, since.total + idle + busy + user)
  /\ UNCHANGED <<prev, load, interval, lost, drives, made, diskTimeVars, uptime, subject, answerVars>>

CpuLoadKeepsIdle ==   \* mutant: PrevIdle is not brought up to date
  /\ subject = "cpu"
  /\ load' = Span(clock.idle - prev.idle, Total(clock) - prev.total)
  /\ prev' = Span(prev.idle, Total(clock))
  /\ interval' = since /\ since' = Span(0, 0)
  /\ made' = TRUE
  /\ UNCHANGED <<clock, lost, drives, diskTimeVars, uptime, subject, answerVars>>

(* What the function makes of the times it has, those of the last reading being `prev`. *)
Reading(now) ==
  /\ load' = IF Unread \in {now, prev} THEN Unread ELSE Span(now.idle - prev.idle, now.total - prev.total)
  /\ prev' = now

(* Made by the constructor, and by every fetch.  Nobody asks whether GetSystemTimes has filled in the times. *)
CalculateCpuLoad ==
  /\ subject = "cpu"
  /\ \/ Reading(Span(clock.idle, Total(clock))) /\ lost' = IF lost = 0 THEN 0 ELSE lost - 1
     \/ Reading(Unread) /\ lost' = 2
  /\ interval' = since /\ since' = Span(0, 0)
  /\ made' = TRUE
  /\ UNCHANGED <<clock, drives, diskTimeVars, uptime, subject, answerVars>>

(* A system without GetSystemTimes has no function to call: the constructor's call ends the process. *)
NoSystemTimes == subject = "cpu" /\ ~made

-----------------------------------------------------------------------------
(* The disks' usage.  The drives are those there were when the service started; one that does not answer  *)
(* any more leaves the numbers of the last one that did, or none at all, in its place.                    *)
FindDrives ==
  /\ subject = "disk" /\ ~made
  /\ drives' \in DriveLists
  /\ made' = TRUE
  /\ UNCHANGED <<cpuVars, diskTimeVars, uptime, subject, answerVars>>

DiskConfig ==
  /\ subject = "disk" /\ made
  /\ config' = Answer(drives)
  /\ UNCHANGED <<ownVars, subject, values>>

NumbersInTurn(i, answering) ==   \* mutant: the numbers that came are handed out one after the other
  IF i <= Cardinality(answering)
  THEN drives[CHOOSE j \in answering : Cardinality({k \in answering : k <= j}) = i] ELSE Nobody

NumbersOf(i, answering) ==
  LET before == {j \in answering : j <= i}
  IN IF before = {} THEN Nobody ELSE drives[CHOOSE j \in before : \A k \in before : k <= j]

DiskValues ==
  /\ subject = "disk" /\ made
  /\ \E answering \in SUBSET DOMAIN drives :
       values' = [ok |-> TRUE, of |-> [i \in DOMAIN drives |-> NumbersOf(i, answering)], read |-> answering]
  /\ UNCHANGED <<ownVars, subject, config>>

-----------------------------------------------------------------------------
(* The disks' times.  The plugin is kept when OpenCounter fails, with what it has got by then: list does  *)
(* not show it, but it can be asked.                                                                      *)
OpenDiskQuery ==
  /\ subject = "disktime" /\ opening = "new"
  /\ opening' = "opened"
  /\ UNCHANGED <<cpuVars, drives, made, diskNames, diskCounters, uptime, subject, answerVars>>

(* The loop over the instances takes a name of one character for the end of the list. *)
TakesFirst(n, list) ==
  /\ \A i \in 1..n : list[i] \notin OneLetter
  /\ n < Len(list) => list[n + 1] \in OneLetter

(* The last name it has taken is dropped: at the end of the list that is the sum of the others. *)
EnumerateDisks ==
  /\ subject = "disktime" /\ opening = "opened"
  /\ \E list \in Instances : \E n \in 1..Len(list) : TakesFirst(n, list) /\ diskNames' = SubSeq(list, 1, n - 1)
  /\ opening' = "adding"
  /\ UNCHANGED <<cpuVars, drives, made, diskCounters, uptime, subject, answerVars>>

(* Without a name there is none to drop: the vector's end comes to lie before its beginning, and the loop *)
(* over the names that is next reads memory that is none.                                                 *)
NoDiskToDrop ==
  /\ subject = "disktime" /\ opening = "opened"
  /\ \E list \in Instances : TakesFirst(0, list)

AddDiskCounter ==
  /\ subject = "disktime" /\ opening = "adding" /\ Len(diskCounters) < Len(diskNames)
  /\ diskCounters' = Append(diskCounters, diskNames[Len(diskCounters) + 1])
  /\ UNCHANGED <<cpuVars, drives, made, opening, diskNames, uptime, subject, answerVars>>

CollectDiskTimes ==
  /\ subject = "disktime" /\ opening = "adding" /\ Len(diskCounters) = Len(diskNames)
  /\ opening' = "loaded"
  /\ UNCHANGED <<cpuVars, drives, made, diskNames, diskCounters, uptime, subject, answerVars>>

OpenDiskFails ==
  /\ subject = "disktime" /\ opening \in {"new", "opened", "adding"}
  /\ opening' = "unloaded"
  /\ UNCHANGED <<cpuVars, drives, made, diskNames, diskCounters, uptime, subject, answerVars>>

DiskTimeConfig ==
  /\ subject = "disktime" /\ opening \in {"loaded", "unloaded"}
  /\ config' \in IF diskCounters = <<>> THEN {Answer(<<>>)} ELSE {Answer(diskNames), Error}
  /\ UNCHANGED <<ownVars, subject, values>>

DiskTimeValues ==
  /\ subject = "disktime" /\ opening \in {"loaded", "unloaded"}
  /\ values' \in {Answer(diskCounters), Error}
  /\ UNCHANGED <<ownVars, subject, config>>

-----------------------------------------------------------------------------
(* The uptime.  Nobody asks whether the constructor has added the counter. *)
OpenUptime ==
  /\ subject = "uptime" /\ ~made
  /\ uptime' \in BOOLEAN
  /\ made' = TRUE
  /\ UNCHANGED <<cpuVars, drives, diskTimeVars, subject, answerVars>>

UptimeConfig ==
  /\ subject = "uptime" /\ made
  /\ config' = Answer(<<"uptime">>)
  /\ UNCHANGED <<ownVars, subject, values>>

UptimeValues ==
  /\ subject = "uptime" /\ made
  /\ values' \in {Error} \cup (IF uptime THEN {Answer(<<"uptime">>)} ELSE {})
  /\ UNCHANGED <<ownVars, subject, config>>

-----------------------------------------------------------------------------
Crash ==
  /\ NoSystemTimes \/ NoDiskToDrop
  /\ crashed' = TRUE
  /\ UNCHANGED <<cpuVars, drives, made, diskTimeVars, uptime, subject, answerVars>>

Works ==
  /\ \/ Tick \/ CalculateCpuLoad
     \/ FindDrives \/ DiskConfig \/ DiskValues
     \/ OpenDiskQuery \/ EnumerateDisks \/ AddDiskCounter \/ CollectDiskTimes \/ OpenDiskFails
     \/ DiskTimeConfig \/ DiskTimeValues
     \/ OpenUptime \/ UptimeConfig \/ UptimeValues
  /\ UNCHANGED crashed

GaugesNext == ~crashed /\ (Works \/ Crash)

(* The processor's load is that of the time between two readings, whoever asked for them, when neither    *)
(* has failed: no tick is counted twice and none is left out, and the idle ones are a part of all, so     *)
(* that load and headroom are percentages where any tick has come.  Where none has, both are 0 / 0; a     *)
(* reading that failed spoils itself and the next one, and no more.                                       *)
LoadIsOfInterval == lost = 0 => load = interval /\ load.idle <= load.total
=============================================================================
