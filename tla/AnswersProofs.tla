---------------------------- MODULE AnswersProofs ---------------------------
(***************************************************************************)
(* What holds of the plugins that measure whatever the system answers:     *)
(* however long the clocks run, whatever drives and disks there are,       *)
(* whatever paths PDH lists.  The compiler and the matcher are parameters: *)
(* what a filter lets through follows from what MatchExact promises, and   *)
(* that a match can be taken back follows from what the elements of a      *)
(* pattern leave on the context's stacks.                                  *)
(***************************************************************************)
EXTENDS Answers, SequenceTheorems, FiniteSetTheorems, WellFoundedInduction, TLAPS

(* The clocks count up: the last reading, when it has not failed, and what came since make the present *)
(* times.                                                                                               *)
CpuInv ==
  /\ clock \in [idle : Nat, kernel : Nat, user : Nat]
  /\ {since, interval} \subseteq [idle : Nat, total : Nat]
  /\ lost \in 0..2
  /\ lost < 2 => /\ prev \in [idle : Nat, total : Nat]
                 /\ clock.idle = prev.idle + since.idle
                 /\ clock.kernel + clock.user = prev.total + since.total
  /\ since.idle <= since.total
  /\ lost = 0 => load = interval
  /\ interval.idle <= interval.total

(* The numbers in a drive's field are its own, or none that were read, or those of a drive before it. *)
IsOwnOrOlder(i) ==
  \/ values.of[i] = drives[i]
  \/ i \notin values.read /\ values.of[i] \in {drives[j] : j \in 1..(i - 1)} \cup {Nobody}

(* The drives do not change once the plugin is made, and every drive has a field. *)
DiskInv ==
  subject = "disk" =>
    /\ drives \in Seq(STRING)
    /\ config.ok => made /\ config.of = drives
    /\ values.ok => /\ made
                    /\ \A i \in DOMAIN values.of : i \in DOMAIN drives /\ IsOwnOrOlder(i)

(* The counters are those of the first names, and after OpenCounter neither changes. *)
DiskTimeInv ==
  subject = "disktime" =>
    /\ diskNames \in Seq(STRING) /\ diskCounters \in Seq(STRING)
    /\ Len(diskCounters) <= Len(diskNames)
    /\ \A i \in 1..Len(diskCounters) : diskCounters[i] = diskNames[i]
    /\ opening \in {"new", "opened"} => diskCounters = <<>>
    /\ config.ok => /\ opening \in {"loaded", "unloaded"}
                    /\ config.of = IF diskCounters = <<>> THEN <<>> ELSE diskNames
    /\ values.ok => /\ opening \in {"loaded", "unloaded"}
                    /\ values.of = diskCounters /\ values.read = DOMAIN diskCounters

UptimeInv ==
  subject = "uptime" =>
    /\ config.ok => config.of = <<"uptime">>
    /\ values.ok => values.of = <<"uptime">> /\ values.read = DOMAIN <<"uptime">>

CpuAsksNothing == subject = "cpu" => ~config.ok /\ ~values.ok

GaugesInv ==
  /\ subject \in {"cpu", "disk", "disktime", "uptime", "perf"}
  /\ CpuInv /\ DiskInv /\ DiskTimeInv /\ UptimeInv /\ CpuAsksNothing

-----------------------------------------------------------------------------
(* A search of MatchExact as a walk: what it has and whether it goes on, first and after each round of its *)
(* loop.                                                                                                   *)
Settled(p, t, c) ==
  [ctx |-> IF c.ok /\ c.pos = EndPos(p, t) THEN [c EXCEPT !.groups[1].end = c.pos] ELSE c,
   phase |-> IF ~c.ok THEN "failed" ELSE IF c.pos = EndPos(p, t) THEN "matched" ELSE "running"]

FirstOf(p, t) == Settled(p, t, FirstMatch(p, Prepared(p, t)))

After(p, t, s) ==
  LET c == NextMatch(p, s.ctx)
  IN IF c.ok /\ c.lastBegin = c.begin /\ c.begin = c.pos THEN [ctx |-> c, phase |-> "failed"]
     ELSE Settled(p, t, [c EXCEPT !.lastBegin = IF c.ok THEN c.pos ELSE @])

IsWalk(p, t, n, f) ==
  /\ f[0] = FirstOf(p, t)
  /\ \A i \in 0..(n - 1) : f[i].phase = "running" /\ f[i + 1] = After(p, t, f[i])

Comes(r, t, s) == \E n \in Nat : \E f : IsWalk(Built(r), t, n, f) /\ f[n] = s

(* What MatchExact answers for an expression and a text, when it does. *)
Finds(r, t) == \E s : Comes(r, t, s) /\ s.phase = "matched"
GivesUp(r, t) == \E s : Comes(r, t, s) /\ s.phase = "failed"

Now == [ctx |-> ctx, phase |-> phase]

-----------------------------------------------------------------------------
(* A performance counter plugin.  What its filters make of a text, and which paths have counters. *)
LetThrough(t) == Finds(section.include, t) /\ GivesUp(section.exclude, t)
TurnedAway(t) == GivesUp(section.include, t) \/ Finds(section.exclude, t)

FoundBy(at) ==
  /\ \A k \in DOMAIN counters : counters[k] = Examined[at[k]] /\ LetThrough(asked[at[k]])
  /\ \A k, l \in DOMAIN counters : k < l => at[k] < at[l]
  /\ \A i \in DOMAIN Examined :
       asked[i] \in SeenAs(section, Examined[i]) /\ ((\E k \in DOMAIN counters : at[k] = i) \/ TurnedAway(asked[i]))

FilteredAsFound ==
  pc \notin {"new", "opened"} /\ filters # <<>> =>
    \E at \in [DOMAIN counters -> DOMAIN Examined] :
      /\ \A k \in DOMAIN counters : counters[k] = Examined[at[k]]
      /\ \A k, l \in DOMAIN counters : k < l => at[k] < at[l]
      /\ \A i \in DOMAIN Examined :
           /\ asked[i] \in SeenAs(section, Examined[i])
           /\ (\E k \in DOMAIN counters : at[k] = i) <=> LetThrough(asked[i])

(* Has OpenCounter come to its loop over the paths? *)
Looped == pc \in {"next", "exclude", "loaded"} \/ (pc \in {"unloaded", "gone"} /\ filters # <<>>)

(* The paths that are still to be examined are the last ones of the listing, and a counter is kept with *)
(* its name.                                                                                            *)
PathsInv ==
  /\ pc \in {"new", "opened", "next", "exclude", "loaded", "unloaded", "gone"}
  /\ section \in Sections
  /\ section.listing \in Seq(Paths)
  /\ counters \in Seq(Paths) /\ names = counters
  /\ pc \in {"new", "opened"} => filters = <<>> /\ counters = <<>>
  /\ pc \in {"next", "exclude", "loaded"} => filters = [part \in {"include", "exclude"} |-> Compiled(section[part])]
  /\ Looped => /\ Len(todo) \in 0..Len(section.listing)
               /\ todo = SubSeq(section.listing, Len(section.listing) - Len(todo) + 1, Len(section.listing))

(* A search is one of the two filters' for the first of those paths, and on its walk. *)
SearchInv ==
  /\ phase \in {"idle", "running", "matched", "failed"}
  /\ pc \notin {"next", "exclude"} => phase = "idle"
  /\ pc = "exclude" => phase # "idle"
  /\ phase # "idle" => /\ todo # <<>> /\ text \in SeenAs(section, Head(todo))
                       /\ re = IF pc = "next" THEN section.include ELSE section.exclude
                       /\ prog = Built(re) /\ Comes(re, text, Now)

(* After OpenCounter the counters do not change: every answer is about all of them. *)
RepliesInv ==
  /\ config.ok => pc \in {"loaded", "gone"} /\ config.of = names
  /\ values.ok => pc \in {"loaded", "gone"} /\ values.of = counters /\ values.read = DOMAIN counters

(* What the filters were asked about, path after path, and what they have answered. *)
Done == Len(section.listing) - Len(todo)

AskedInv ==
  /\ asked \in Seq(Seq(STRING))
  /\ pc \in {"new", "opened"} => asked = <<>>
  /\ pc = "next" /\ phase = "idle" => Len(asked) = Done
  /\ phase # "idle" => Len(asked) = Done + 1 /\ asked[Done + 1] = text
  /\ pc = "exclude" => Finds(section.include, text)
  /\ Looped => \E at \in [DOMAIN counters -> DOMAIN Examined] : FoundBy(at)

PerfInv ==
  /\ subject = "perf" => PathsInv /\ SearchInv /\ RepliesInv /\ AskedInv
  /\ subject # "perf" => pc = "new"

AnswersInv == GaugesInv /\ PerfInv

-----------------------------------------------------------------------------
(* A set of numbers that is not empty has a least one: the sets of those below a number are finite, and   *)
(* strict inclusion is well founded on finite sets.                                                       *)
LEMMA LeastNumber ==
  ASSUME NEW T \in SUBSET Nat, T # {}
  PROVE  \E x \in T : \A y \in T : x <= y
<1> DEFINE below(n) == 0 .. n - 1
           S == {below(n) : n \in T}
<1>1. \A n \in Nat : below(n) \in FiniteSubsetsOf(Nat)
  <2> SUFFICES ASSUME NEW n \in Nat PROVE below(n) \in FiniteSubsetsOf(Nat)
    OBVIOUS
  <2>1. IsFiniteSet(below(n))
    BY FS_Interval
  <2>2. QED
    BY <2>1 DEF FiniteSubsetsOf
<1>2. S \subseteq FiniteSubsetsOf(Nat) /\ S # {}
  BY <1>1
<1>3. PICK s \in S : \A r \in S : <<r, s>> \notin StrictSubsetOrdering(Nat)
  BY <1>2, FS_StrictSubsetOrderingWellFounded, WFMin
<1>4. PICK x \in T : s = below(x)
  OBVIOUS
<1>5. ASSUME NEW y \in T, y < x PROVE FALSE
  <2>1. y \in below(x) /\ y \notin below(y)
    BY <1>5
  <2>2. below(y) \subseteq below(x) /\ below(x) # below(y)
    BY <1>5, <2>1
  <2>3. below(y) \in S /\ below(y) \subseteq Nat /\ below(x) \subseteq Nat
    OBVIOUS
  <2>4. <<below(y), below(x)>> \in StrictSubsetOrdering(Nat)
    BY <2>2, <2>3 DEF StrictSubsetOrdering
  <2>5. QED
    BY <2>3, <2>4, <1>3, <1>4
<1>6. QED
  BY <1>5

(* A set of places that is not empty and ends somewhere has a last one. *)
LEMMA LastPlace ==
  ASSUME NEW n \in Int, NEW T \in SUBSET (0..n), T # {}
  PROVE  \E i \in T : \A j \in T : j <= i
<1> DEFINE U == {n - i : i \in T}
<1>1. U \in SUBSET Nat /\ U # {}
  <2>1. \A i \in T : n - i \in Nat
    OBVIOUS
  <2> QED
    BY <2>1
<1>2. PICK x \in U : \A y \in U : x <= y
  BY <1>1, LeastNumber
<1>3. PICK i \in T : x = n - i
  OBVIOUS
<1>4. \A j \in T : n - i <= n - j
  BY <1>2, <1>3
<1> QED
  BY <1>4

-----------------------------------------------------------------------------
(* At the start nothing is read and nothing is asked: the clocks' whole time is still to be counted. *)
LEMMA InitGaugesInv == Init => GaugesInv
<1> SUFFICES ASSUME Init PROVE GaugesInv
  OBVIOUS
<1> USE DEF Init, GaugesNew, NoAnswers, Error
<1>1. CpuInv
  BY DEF CpuInv, Span, Total
<1>2. DiskInv /\ DiskTimeInv /\ UptimeInv /\ CpuAsksNothing
  BY DEF DiskInv, DiskTimeInv, UptimeInv, CpuAsksNothing
<1> QED
  BY <1>1, <1>2 DEF GaugesInv

(* A step of the clocks or a reading moves ticks from one account to another and loses none. *)
LEMMA CpuStep == CpuInv /\ [GaugesNext]_gaugeVars => CpuInv'
<1> SUFFICES ASSUME CpuInv, [GaugesNext]_gaugeVars PROVE CpuInv'
  OBVIOUS
<1> USE DEF CpuInv, Span, Total
<1>1. CASE Tick
  <2>1. PICK idle \in 0..1, busy \in 0..1, user \in 0..1 :
          /\ clock' = [idle |-> clock.idle + idle, kernel |-> clock.kernel + idle + busy, user |-> clock.user + user]
          /\ since' = [idle |-> since.idle + idle, total |-> since.total + idle + busy + user]
    BY <1>1 DEF Tick
  <2>2. UNCHANGED <<prev, load, interval, lost>>
    BY <1>1 DEF Tick
  <2> QED
    BY <2>1, <2>2
<1>2. CASE CalculateCpuLoad
  <2> DEFINE now == [idle |-> clock.idle, total |-> clock.kernel + clock.user]
  <2>1. now \in [idle : Nat, total : Nat] /\ now # Unread
    BY DEF Unread
  <2>2. UNCHANGED clock /\ interval' = since /\ since' = [idle |-> 0, total |-> 0]
    BY <1>2 DEF CalculateCpuLoad
  <2>3. CASE Reading(now) /\ lost' = IF lost = 0 THEN 0 ELSE lost - 1
    <3>1. prev' = now /\ lost' \in 0..1
      BY <2>3 DEF Reading
    <3>2. ASSUME lost' = 0, lost < 2, prev # Unread PROVE load' = since
      <4>1. clock.idle - prev.idle = since.idle /\ now.total - prev.total = since.total
        BY <3>2
      <4>2. load' = [idle |-> now.idle - prev.idle, total |-> now.total - prev.total]
        BY <2>1, <2>3, <3>2 DEF Reading
      <4>3. load' = [idle |-> since.idle, total |-> since.total]
        BY <4>1, <4>2
      <4> QED
        BY <4>3
    <3>3. lost < 2 => prev # Unread
      BY DEF Unread
    <3>4. lost' = 0 => lost < 2
      BY <2>3
    <3> QED
      BY <2>1, <2>2, <3>1, <3>2, <3>3, <3>4
  <2>4. CASE Reading(Unread) /\ lost' = 2
    BY <2>2, <2>4
  <2> QED
    BY <1>2, <2>3, <2>4 DEF CalculateCpuLoad
<1>3. CASE UNCHANGED cpuVars
  BY <1>3 DEF cpuVars
<1> QED
  BY <1>1, <1>2, <1>3
  DEF GaugesNext, Works, Crash, gaugeVars, ownVars, cpuVars, FindDrives, DiskConfig, DiskValues, OpenDiskQuery, EnumerateDisks, AddDiskCounter,
      CollectDiskTimes, OpenDiskFails, DiskTimeConfig, DiskTimeValues, OpenUptime, UptimeConfig, UptimeValues

(* Of the drives that answer the numbers are those of the last one up to a field's own. *)
NumberIsOwnOrOlder(i, answering) ==
  \/ NumbersOf(i, answering) = drives[i]
  \/ i \notin answering /\ NumbersOf(i, answering) \in {drives[j] : j \in 1..(i - 1)} \cup {Nobody}

(* A drive that answers has its own numbers, one that does not those of an earlier one. *)
LEMMA NumbersAre ==
  ASSUME drives \in Seq(STRING), NEW answering \in SUBSET DOMAIN drives, NEW i \in DOMAIN drives
  PROVE  NumberIsOwnOrOlder(i, answering)
<1> DEFINE before == {j \in answering : j <= i}
           latest == CHOOSE j \in before : \A k \in before : k <= j
<1>1. answering \subseteq Nat /\ i \in Nat /\ before \subseteq 1..i /\ before \subseteq 0..i
  OBVIOUS
<1>2. CASE before = {}
  <2>1. NumbersOf(i, answering) = Nobody /\ i \notin answering
    BY <1>1, <1>2 DEF NumbersOf
  <2> QED
    BY <2>1 DEF NumberIsOwnOrOlder
<1>3. CASE before # {}
  <2>1. \E j \in before : \A k \in before : k <= j
    <3>1. i \in Int /\ before \in SUBSET (0..i)
      BY <1>1
    <3> HIDE DEF before
    <3> QED
      BY <1>3, <3>1, LastPlace
  <2>2. latest \in before /\ \A k \in before : k <= latest
    BY <2>1
  <2>3. NumbersOf(i, answering) = drives[latest]
    BY <1>3 DEF NumbersOf
  <2> HIDE DEF latest
  <2>4. CASE i \in answering
    <3>1. latest = i
      BY <1>1, <2>2, <2>4
    <3> QED
      BY <2>3, <3>1 DEF NumberIsOwnOrOlder
  <2>5. CASE i \notin answering
    <3>1. latest \in 1..(i - 1)
      BY <1>1, <2>2, <2>5
    <3> QED
      BY <2>3, <2>5, <3>1 DEF NumberIsOwnOrOlder
  <2> QED
    BY <2>4, <2>5
<1> QED
  BY <1>2, <1>3

(* The drives are found once, before the plugin is asked anything. *)
LEMMA DiskStep == DiskInv /\ [GaugesNext]_gaugeVars => DiskInv'
<1> SUFFICES ASSUME DiskInv, [GaugesNext]_gaugeVars, subject' = "disk" PROVE DiskInv'
  BY DEF DiskInv
<1> USE DEF DiskInv
<1>0. subject = "disk"
  BY DEF GaugesNext, Works, Crash, gaugeVars, Tick, CalculateCpuLoad, FindDrives, DiskConfig, DiskValues, OpenDiskQuery, EnumerateDisks, AddDiskCounter,
      CollectDiskTimes, OpenDiskFails, DiskTimeConfig, DiskTimeValues, OpenUptime, UptimeConfig, UptimeValues
<1>1. CASE FindDrives
  BY <1>0, <1>1, ListsAssumption DEF FindDrives, answerVars
<1>2. CASE DiskConfig
  BY <1>0, <1>2 DEF DiskConfig, Answer, ownVars, IsOwnOrOlder
<1>3. CASE DiskValues
  <2>1. PICK answering \in SUBSET DOMAIN drives :
          values' = [ok |-> TRUE, of |-> [i \in DOMAIN drives |-> NumbersOf(i, answering)], read |-> answering]
    BY <1>3 DEF DiskValues
  <2>2. UNCHANGED <<drives, config, made>> /\ made
    BY <1>3 DEF DiskValues, ownVars
  <2>3. ASSUME NEW i \in DOMAIN drives PROVE NumberIsOwnOrOlder(i, answering)
    BY <1>0, NumbersAre
  <2>4. ASSUME NEW i \in DOMAIN values'.of PROVE i \in DOMAIN drives' /\ IsOwnOrOlder(i)'
    <3>1. i \in DOMAIN drives /\ values'.of[i] = NumbersOf(i, answering) /\ values'.read = answering
      BY <2>1
    <3> QED
      BY <2>2, <2>3, <3>1 DEF NumberIsOwnOrOlder, IsOwnOrOlder
  <2> QED
    BY <1>0, <2>1, <2>2, <2>4
<1>4. CASE UNCHANGED <<drives, made, config, values>>
  BY <1>0, <1>4 DEF IsOwnOrOlder
<1> QED
  BY <1>0, <1>1, <1>2, <1>3, <1>4
  DEF GaugesNext, Works, Crash, gaugeVars, ownVars, answerVars, Tick, CalculateCpuLoad, OpenDiskQuery, EnumerateDisks, AddDiskCounter,
      CollectDiskTimes, OpenDiskFails, DiskTimeConfig, DiskTimeValues, OpenUptime, UptimeConfig, UptimeValues

(* The counters follow the names one by one, until OpenCounter ends. *)
LEMMA DiskTimeStep == DiskTimeInv /\ [GaugesNext]_gaugeVars => DiskTimeInv'
<1> SUFFICES ASSUME DiskTimeInv, [GaugesNext]_gaugeVars, subject' = "disktime" PROVE DiskTimeInv'
  BY DEF DiskTimeInv
<1> USE DEF DiskTimeInv
<1>0. subject = "disktime"
  BY DEF GaugesNext, Works, Crash, gaugeVars, Tick, CalculateCpuLoad, FindDrives, DiskConfig, DiskValues, OpenDiskQuery, EnumerateDisks, AddDiskCounter,
      CollectDiskTimes, OpenDiskFails, DiskTimeConfig, DiskTimeValues, OpenUptime, UptimeConfig, UptimeValues
<1>1. CASE OpenDiskQuery
  BY <1>0, <1>1 DEF OpenDiskQuery, answerVars
<1>2. CASE EnumerateDisks
  <2>1. PICK list \in Instances : \E n \in 1..Len(list) : diskNames' = SubSeq(list, 1, n - 1)
    BY <1>2 DEF EnumerateDisks
  <2>1a. PICK n \in 1..Len(list) : diskNames' = SubSeq(list, 1, n - 1)
    BY <2>1
  <2>2. list \in Seq(STRING) /\ n - 1 \in 0..Len(list)
    BY ListsAssumption
  <2>3. diskNames' \in Seq(STRING) /\ Len(diskNames') \in Nat
    BY <2>1a, <2>2
  <2> QED
    BY <1>0, <1>2, <2>3 DEF EnumerateDisks, answerVars
<1>3. CASE AddDiskCounter
  <2>1. Len(diskCounters) + 1 \in 1..Len(diskNames) /\ diskNames[Len(diskCounters) + 1] \in STRING
    BY <1>0, <1>3 DEF AddDiskCounter
  <2> QED
    BY <1>0, <1>3, <2>1 DEF AddDiskCounter, answerVars
<1>4. CASE CollectDiskTimes
  BY <1>0, <1>4 DEF CollectDiskTimes, answerVars
<1>5. CASE OpenDiskFails
  BY <1>0, <1>5 DEF OpenDiskFails, answerVars
<1>6. CASE DiskTimeConfig
  BY <1>0, <1>6 DEF DiskTimeConfig, ownVars, diskTimeVars, Answer, Error
<1>7. CASE DiskTimeValues
  BY <1>0, <1>7 DEF DiskTimeValues, ownVars, diskTimeVars, Answer, Error
<1>8. CASE UNCHANGED <<diskTimeVars, config, values>>
  BY <1>0, <1>8 DEF diskTimeVars
<1> QED
  BY <1>0, <1>1, <1>2, <1>3, <1>4, <1>5, <1>6, <1>7, <1>8
  DEF GaugesNext, Works, Crash, gaugeVars, ownVars, answerVars, Tick, CalculateCpuLoad, FindDrives, DiskConfig, DiskValues,
      OpenUptime, UptimeConfig, UptimeValues

(* The rest: the uptime has one field, and the processor's plugin is not asked for any in the model. *)
LEMMA OthersStep ==
  UptimeInv /\ CpuAsksNothing /\ [GaugesNext]_gaugeVars => UptimeInv' /\ CpuAsksNothing' /\ UNCHANGED subject
BY DEF UptimeInv, CpuAsksNothing, GaugesNext, Works, Crash, gaugeVars, ownVars, answerVars, Answer, Error, Tick, CalculateCpuLoad, FindDrives,
   DiskConfig, DiskValues, OpenDiskQuery, EnumerateDisks, AddDiskCounter, CollectDiskTimes, OpenDiskFails, DiskTimeConfig,
   DiskTimeValues, OpenUptime, UptimeConfig, UptimeValues

(* A step of the performance counters' plugin is none of the gauges'. *)
LEMMA GaugesStep == GaugesInv /\ [Next]_vars => GaugesInv'
<1> SUFFICES ASSUME GaugesInv, [Next]_vars PROVE GaugesInv'
  OBVIOUS
<1>1. CASE [GaugesNext]_gaugeVars
  BY <1>1, CpuStep, DiskStep, DiskTimeStep, OthersStep DEF GaugesInv
<1>2. CASE PerfNext /\ UNCHANGED ownVars
  <2>1. subject = "perf" /\ UNCHANGED subject
    BY <1>2 DEF PerfNext
  <2>2. CpuInv'
    BY <1>2, CpuStep DEF ownVars, cpuVars, GaugesInv, CpuInv
  <2> QED
    BY <2>1, <2>2 DEF GaugesInv, DiskInv, DiskTimeInv, UptimeInv, CpuAsksNothing
<1> QED
  BY <1>1, <1>2 DEF Next, vars

-----------------------------------------------------------------------------
(* The paths that are left are the end of the list: the first of them is the next, and without it they are *)
(* the end from there.                                                                                     *)
LEMMA RestOfList ==
  ASSUME NEW S, NEW list \in Seq(S), NEW n \in 0..Len(list), SubSeq(list, n + 1, Len(list)) # <<>>
  PROVE  /\ n + 1 \in 1..Len(list) /\ list[n + 1] \in S
         /\ Head(SubSeq(list, n + 1, Len(list))) = list[n + 1]
         /\ Tail(SubSeq(list, n + 1, Len(list))) = SubSeq(list, n + 2, Len(list))
         /\ Len(SubSeq(list, n + 2, Len(list))) = Len(list) - n - 1
<1> DEFINE rest == SubSeq(list, n + 1, Len(list))
<1>1. rest \in Seq(S) /\ Len(rest) = Len(list) - n /\ \A i \in 1..Len(rest) : rest[i] = list[n + i]
  <2>1. \A i \in (n + 1)..Len(list) : list[i] \in S
    OBVIOUS
  <2> QED
    BY <2>1, SubSeqProperties
<1>2. n < Len(list)
  BY <1>1
<1>3. \A i \in (n + 2)..Len(list) : list[i] \in S
  OBVIOUS
<1>4. /\ SubSeq(list, n + 2, Len(list)) \in Seq(S)
      /\ Len(SubSeq(list, n + 2, Len(list))) = Len(list) - n - 1
      /\ \A i \in 1..(Len(list) - n - 1) : SubSeq(list, n + 2, Len(list))[i] = list[n + 1 + i]
  BY <1>2, <1>3, SubSeqProperties
<1>5. Tail(rest) \in Seq(S) /\ Len(Tail(rest)) = Len(rest) - 1 /\ \A i \in 1..(Len(rest) - 1) : Tail(rest)[i] = rest[i + 1]
  <2>1. rest \in Seq(S) /\ rest # <<>>
    BY <1>1
  <2> HIDE DEF rest
  <2>2. Tail(rest) \in Seq(S) /\ Len(Tail(rest)) = Len(rest) - 1 /\ \A i \in 1..Len(Tail(rest)) : Tail(rest)[i] = rest[i + 1]
    BY <2>1, HeadTailProperties
  <2> QED
    BY <2>2
<1>6. Tail(rest) = SubSeq(list, n + 2, Len(list))
  <2> DEFINE after == SubSeq(list, n + 2, Len(list))
             tail == Tail(rest)
  <2>1. /\ after \in Seq(S) /\ tail \in Seq(S) /\ Len(tail) = Len(after)
        /\ \A i \in 1..(Len(list) - n - 1) : tail[i] = rest[i + 1] /\ after[i] = list[n + 1 + i]
    BY <1>1, <1>4, <1>5
  <2>2. Len(after) = Len(list) - n - 1
    BY <1>4
  <2> HIDE DEF after, tail
  <2>3. ASSUME NEW i \in 1..Len(after) PROVE tail[i] = after[i]
    <3>1. i + 1 \in 1..Len(rest) /\ n + (i + 1) = n + 1 + i
      BY <1>1, <2>2
    <3>2. rest[i + 1] = list[n + 1 + i]
      BY <1>1, <3>1
    <3> QED
      BY <2>1, <2>2, <3>2
  <2>4. tail = after
    BY <2>1, <2>3, SeqEqual
  <2> QED
    BY <2>4 DEF after, tail
<1>7. n + 1 \in 1..Len(list) /\ list[n + 1] \in S
  BY <1>2
<1> HIDE DEF rest
<1>8. Head(rest) = rest[1]
  BY <1>1
<1>9. rest[1] = list[n + 1]
  BY <1>1, <1>2
<1> QED
  BY <1>4, <1>6, <1>7, <1>8, <1>9 DEF rest

(* The next path of a loop that is not at its end. *)
LEMMA NextPath ==
  ASSUME PathsInv, Looped, todo # <<>>
  PROVE  LET n == Len(section.listing) - Len(todo)
         IN /\ n \in Nat /\ n + 1 \in 1..Len(section.listing)
            /\ Head(todo) = section.listing[n + 1] /\ Head(todo) \in Paths
            /\ Tail(todo) = SubSeq(section.listing, n + 2, Len(section.listing))
            /\ Len(Tail(todo)) = Len(todo) - 1 /\ Len(todo) \in Nat
<1> DEFINE n == Len(section.listing) - Len(todo)
<1> DEFINE list == section.listing
<1>1. list \in Seq(Paths) /\ Len(todo) \in 0..Len(list) /\ todo = SubSeq(list, n + 1, Len(list))
  BY DEF PathsInv
<1>2. Len(list) \in Nat
  BY <1>1
<1>3. n \in 0..Len(list) /\ Len(todo) = Len(list) - n /\ Len(todo) \in Nat
  BY <1>1, <1>2
<1> HIDE DEF n, list
<1>4. /\ n + 1 \in 1..Len(list) /\ list[n + 1] \in Paths
      /\ Head(todo) = list[n + 1]
      /\ Tail(todo) = SubSeq(list, n + 2, Len(list))
      /\ Len(SubSeq(list, n + 2, Len(list))) = Len(list) - n - 1
  BY <1>1, <1>3, RestOfList
<1>5. Len(Tail(todo)) = Len(todo) - 1 /\ n \in Nat
  BY <1>2, <1>3, <1>4
<1> QED
  BY <1>3, <1>4, <1>5 DEF n, list

(* No step of OpenCounter loses or repeats a path. *)
LEMMA PathsStep == PathsInv /\ SearchInv /\ PerfNext => PathsInv'
<1> SUFFICES ASSUME PathsInv, SearchInv, PerfNext PROVE PathsInv'
  OBVIOUS
<1> USE DEF PathsInv
<1>1. CASE OpenQuery
  BY <1>1 DEF OpenQuery, Looped
<1>2. CASE Expand
  <2>1. UNCHANGED <<section, counters, names>> /\ todo' = section.listing /\ pc' = "next" /\ pc = "opened"
    BY <1>2 DEF Expand
  <2>2. filters' = [part \in {"include", "exclude"} |-> Compiled(section[part])]
    BY <1>2 DEF Expand
  <2>3. section.listing = SubSeq(section.listing, 1, Len(section.listing))
    <3>1. \A i \in 1..Len(section.listing) : section.listing[i] \in Paths
      OBVIOUS
    <3>2. /\ SubSeq(section.listing, 1, Len(section.listing)) \in Seq(Paths)
          /\ Len(SubSeq(section.listing, 1, Len(section.listing))) = Len(section.listing)
          /\ \A i \in 1..Len(section.listing) : SubSeq(section.listing, 1, Len(section.listing))[i] = section.listing[i]
      BY <3>1, SubSeqProperties
    <3> QED
      BY <3>2, SeqEqual
  <2>4. Len(section.listing) - Len(section.listing) + 1 = 1 /\ Len(section.listing) \in 0..Len(section.listing)
    OBVIOUS
  <2> QED
    BY <2>1, <2>2, <2>3, <2>4
<1>3. CASE Include \/ Matching
  BY <1>3 DEF Include, Matching, perfVars, Looped
<1>4. CASE Exclude
  BY <1>4 DEF Exclude, Looped
<1>5. CASE (Continue \/ AddCounter) /\ todo # <<>>
  <2>1. Looped /\ pc \in {"next", "exclude"} /\ todo' = Tail(todo) /\ pc' = "next" /\ UNCHANGED <<section, filters>>
    BY <1>5 DEF Continue, AddCounter, Looped
  <2> DEFINE n == Len(section.listing) - Len(todo)
  <2>2. /\ n \in Nat /\ n + 1 \in 1..Len(section.listing)
        /\ Head(todo) \in Paths
        /\ Tail(todo) = SubSeq(section.listing, n + 2, Len(section.listing))
        /\ Len(Tail(todo)) = Len(todo) - 1 /\ Len(todo) \in Nat
    BY <1>5, <2>1, NextPath
  <2>3. Len(todo') \in 0..Len(section.listing) /\ Len(section.listing) - Len(todo') + 1 = n + 2
    <3>1. Len(section.listing) \in Nat /\ Len(todo') = Len(todo) - 1
      BY <2>1, <2>2
    <3> QED
      BY <2>2, <3>1
  <2>4. counters' \in Seq(Paths) /\ names' = counters'
    <3>1. counters \in Seq(Paths) /\ Head(todo) \in Paths /\ names = counters
      BY <2>2
    <3>2. CASE Continue
      BY <3>1, <3>2 DEF Continue
    <3>3. CASE AddCounter
      <4>1. counters' = Append(counters, Head(todo)) /\ names' = Append(names, Head(todo))
        BY <3>3 DEF AddCounter
      <4> QED
        BY <3>1, <4>1, AppendProperties
    <3> QED
      BY <1>5, <3>2, <3>3
  <2> QED
    BY <2>1, <2>2, <2>3, <2>4
<1>6. CASE CollectData \/ OpenFails \/ Destroy
  BY <1>6 DEF CollectData, OpenFails, Destroy, Looped
<1>7. CASE PerfConfig \/ PerfValues
  BY <1>7 DEF PerfConfig, PerfValues, Asked, perfVars, Looped
<1>8. Continue \/ AddCounter => todo # <<>>
  BY DEF SearchInv, Continue, AddCounter
<1> QED
  BY <1>1, <1>2, <1>3, <1>4, <1>5, <1>6, <1>7, <1>8 DEF PerfNext, OpenCounter

(* A walk's first place, and the one after another. *)
LEMMA WalkBegins ==
  ASSUME NEW r, NEW t
  PROVE  Comes(r, t, FirstOf(Built(r), t))
<1> DEFINE f == [i \in {0} |-> FirstOf(Built(r), t)]
<1>1. IsWalk(Built(r), t, 0, f) /\ f[0] = FirstOf(Built(r), t)
  BY DEF IsWalk
<1> HIDE DEF f
<1> QED
  BY <1>1 DEF Comes

(* A walk that has not ended goes on to what comes after. *)
LEMMA WalkGoesOn ==
  ASSUME NEW r, NEW t, NEW s, Comes(r, t, s), s.phase = "running"
  PROVE  Comes(r, t, After(Built(r), t, s))
<1> DEFINE p == Built(r)
           next == After(p, t, s)
<1>1. PICK n \in Nat : \E f : IsWalk(p, t, n, f) /\ f[n] = s
  BY DEF Comes
<1>2. PICK f : IsWalk(p, t, n, f) /\ f[n] = s
  BY <1>1
<1> DEFINE g == [i \in 0..(n + 1) |-> IF i = n + 1 THEN next ELSE f[i]]
<1>3. g[n + 1] = next /\ \A i \in 0..n : g[i] = f[i]
  OBVIOUS
<1> HIDE DEF g
<1>4. ASSUME NEW i \in 0..n PROVE g[i].phase = "running" /\ g[i + 1] = After(p, t, g[i])
  <2>1. CASE i = n
    BY <1>2, <1>3, <2>1
  <2>2. CASE i \in 0..(n - 1)
    <3>1. i + 1 \in 0..n
      BY <2>2
    <3> QED
      BY <1>2, <1>3, <2>2, <3>1 DEF IsWalk
  <2> QED
    BY <2>1, <2>2
<1>5. g[0] = FirstOf(p, t)
  BY <1>2, <1>3 DEF IsWalk
<1>6. IsWalk(p, t, n + 1, g)
  BY <1>4, <1>5 DEF IsWalk
<1> QED
  BY <1>3, <1>6 DEF Comes

(* Two walks for one expression and one text are the same as far as both go. *)
LEMMA WalksAgree ==
  ASSUME NEW p, NEW t, NEW n \in Nat, NEW m \in Nat, n <= m,
         NEW f, NEW g, IsWalk(p, t, n, f), IsWalk(p, t, m, g)
  PROVE  f[n] = g[n]
<1> DEFINE T == {i \in 0..n : f[i] # g[i]}
<1> SUFFICES ASSUME T # {} PROVE FALSE
  OBVIOUS
<1>1. PICK i \in T : \A j \in T : i <= j
  <2>1. T \in SUBSET Nat
    OBVIOUS
  <2> HIDE DEF T
  <2> QED
    BY <2>1, LeastNumber
<1>2. i # 0
  BY DEF IsWalk
<1>3. i - 1 \in 0..(n - 1) /\ i - 1 \in 0..(m - 1) /\ i - 1 + 1 = i
  BY <1>2
<1>4. f[i - 1] = g[i - 1]
  BY <1>1, <1>3
<1>5. f[i] = After(p, t, f[i - 1]) /\ g[i] = After(p, t, g[i - 1])
  BY <1>3 DEF IsWalk
<1> QED
  BY <1>4, <1>5

(* No expression is answered both ways for one text. *)
LEMMA AnsweredOnce ==
  ASSUME NEW r, NEW t, Finds(r, t), GivesUp(r, t)
  PROVE  FALSE
<1>1. PICK n \in Nat : \E f : IsWalk(Built(r), t, n, f) /\ f[n].phase = "matched"
  BY DEF Finds, Comes
<1>2. PICK f : IsWalk(Built(r), t, n, f) /\ f[n].phase = "matched"
  BY <1>1
<1>3. PICK m \in Nat : \E g : IsWalk(Built(r), t, m, g) /\ g[m].phase = "failed"
  BY DEF GivesUp, Comes
<1>4. PICK g : IsWalk(Built(r), t, m, g) /\ g[m].phase = "failed"
  BY <1>3
<1>5. CASE n < m
  <2>1. f[n] = g[n]
    BY <1>2, <1>4, <1>5, WalksAgree
  <2>2. g[n].phase = "running"
    BY <1>4, <1>5 DEF IsWalk
  <2> QED
    BY <1>2, <2>1, <2>2
<1>6. CASE m < n
  <2>1. f[m] = g[m]
    BY <1>2, <1>4, <1>6, WalksAgree
  <2>2. f[m].phase = "running"
    BY <1>2, <1>6 DEF IsWalk
  <2> QED
    BY <1>4, <2>1, <2>2
<1>7. CASE n = m
  BY <1>2, <1>4, <1>7, WalksAgree
<1> QED
  BY <1>5, <1>6, <1>7

(* MatchExact begins a walk about the text it is given. *)
LEMMA SearchBegins ==
  ASSUME NEW r, NEW t, MatchExact(Compiled(r), t)
  PROVE  /\ re' = r /\ text' = t /\ phase' \in {"running", "matched", "failed"}
         /\ prog' = Built(r) /\ Comes(r, t, Now')
<1>1. Now' = FirstOf(Built(r), t)
  BY DEF MatchExact, Compiled, Settle, Now, FirstOf, Settled
<1>2. Comes(r, t, Now')
  BY <1>1, WalkBegins
<1> QED
  BY <1>2 DEF MatchExact, Compiled, Settle

(* A step of the search leaves what is searched and is the next of its walk. *)
LEMMA SearchGoesOn ==
  ASSUME GoOn
  PROVE  /\ UNCHANGED <<re, text, prog>> /\ phase = "running" /\ phase' \in {"running", "matched", "failed"}
         /\ prog = Built(re) /\ Comes(re, text, Now) => Comes(re, text, Now')
<1>1. UNCHANGED <<re, text, prog>> /\ phase = "running" /\ phase' \in {"running", "matched", "failed"}
  BY DEF GoOn, WentOn, Settle
<1>2. Now' = After(prog, text, Now)
  BY DEF GoOn, WentOn, Settle, Now, After, Settled
<1>3. Now.phase = "running"
  BY <1>1 DEF Now
<1> HIDE DEF Now
<1>4. ASSUME prog = Built(re), Comes(re, text, Now) PROVE Comes(re, text, Now')
  BY <1>2, <1>3, <1>4, WalkGoesOn
<1> QED
  BY <1>1, <1>4

(* What is asked of MatchExact stays what was asked until it is answered. *)
LEMMA SearchStep == PathsInv /\ SearchInv /\ PerfNext => SearchInv'
<1> SUFFICES ASSUME PathsInv, SearchInv, PerfNext PROVE SearchInv'
  OBVIOUS
<1> USE DEF SearchInv
<1>1. CASE Include
  <2>1. PICK seen \in SeenAs(section, Head(todo)) : MatchExact(filters.include, seen)
    BY <1>1 DEF Include
  <2>2. filters.include = Compiled(section.include)
    BY <1>1 DEF Include, PathsInv
  <2>3. /\ re' = section.include /\ text' = seen /\ phase' \in {"running", "matched", "failed"}
        /\ prog' = Built(section.include) /\ Comes(section.include, seen, Now')
    BY <2>1, <2>2, SearchBegins
  <2>4. UNCHANGED <<section, todo, pc>> /\ pc = "next" /\ todo # <<>>
    BY <1>1 DEF Include
  <2> QED
    BY <2>1, <2>3, <2>4 DEF SeenAs
<1>2. CASE Exclude
  <2>1. filters.exclude = Compiled(section.exclude) /\ MatchExact(filters.exclude, text)
    BY <1>2 DEF Exclude, PathsInv
  <2>2. /\ re' = section.exclude /\ text' = text /\ phase' \in {"running", "matched", "failed"}
        /\ prog' = Built(section.exclude) /\ Comes(section.exclude, text, Now')
    BY <2>1, SearchBegins
  <2> QED
    BY <1>2, <2>2 DEF Exclude, SeenAs
<1>3. CASE Matching
  <2>1. /\ UNCHANGED <<re, text, prog>> /\ phase = "running" /\ phase' \in {"running", "matched", "failed"}
        /\ prog = Built(re) /\ Comes(re, text, Now) => Comes(re, text, Now')
    BY <1>3, SearchGoesOn DEF Matching
  <2>2. UNCHANGED <<section, todo, pc>>
    BY <1>3 DEF Matching, perfVars
  <2>3. prog' = Built(re') /\ Comes(re', text', Now')
    BY <2>1
  <2> QED
    BY <2>1, <2>2, <2>3 DEF SeenAs
<1>4. CASE Continue \/ AddCounter \/ OpenFails
  <2>1. phase' = "idle" /\ pc' \in {"next", "unloaded"}
    BY <1>4 DEF Continue, AddCounter, OpenFails, Release
  <2> QED
    BY <2>1
<1>5. CASE OpenQuery \/ Expand \/ CollectData \/ Destroy
  <2>1. phase = "idle" /\ UNCHANGED phase /\ pc' # "exclude"
    BY <1>5 DEF OpenQuery, Expand, CollectData, Destroy, matchVars
  <2> QED
    BY <2>1
<1>6. CASE PerfConfig \/ PerfValues
  <2>1. UNCHANGED <<section, todo, pc, re, prog, text, ctx, phase>>
    BY <1>6 DEF PerfConfig, PerfValues, Asked, perfVars, matchVars
  <2> QED
    BY <2>1 DEF SeenAs, Now
<1> QED
  BY <1>1, <1>2, <1>3, <1>4, <1>5, <1>6 DEF PerfNext, OpenCounter

(* An answer is given when the counters do not change any more. *)
LEMMA RepliesStep == PathsInv /\ SearchInv /\ RepliesInv /\ PerfNext => RepliesInv'
<1> SUFFICES ASSUME PathsInv, SearchInv, RepliesInv, PerfNext PROVE RepliesInv'
  OBVIOUS
<1> USE DEF RepliesInv
<1>1. CASE OpenCounter /\ UNCHANGED answerVars
  <2>1. pc \notin {"loaded", "gone"}
    BY <1>1 DEF OpenCounter, OpenQuery, Expand, Include, Exclude, Matching, Continue, AddCounter, CollectData, OpenFails, GoOn, SearchInv
  <2> QED
    BY <1>1, <2>1 DEF answerVars
<1>2. CASE PerfConfig
  BY <1>2 DEF PerfConfig, Asked, perfVars, Answer, Error
<1>3. CASE PerfValues
  BY <1>3 DEF PerfValues, Asked, perfVars, Answer, Error
<1>4. CASE Destroy
  BY <1>4 DEF Destroy, answerVars
<1> QED
  BY <1>1, <1>2, <1>3, <1>4 DEF PerfNext

-----------------------------------------------------------------------------
(* The beginning of a list. *)
LEMMA BeginOfList ==
  ASSUME NEW S, NEW list \in Seq(S), NEW n \in 0..Len(list)
  PROVE  /\ DOMAIN SubSeq(list, 1, n) = 1..n
         /\ \A i \in 1..n : SubSeq(list, 1, n)[i] = list[i]
<1>1. \A i \in 1..n : list[i] \in S
  OBVIOUS
<1>2. /\ SubSeq(list, 1, n) \in Seq(S)
      /\ Len(SubSeq(list, 1, n)) = IF 1 <= n THEN n - 1 + 1 ELSE 0
      /\ \A i \in 1..(n - 1 + 1) : SubSeq(list, 1, n)[i] = list[1 + i - 1]
  BY <1>1, SubSeqProperties
<1> QED
  BY <1>2

(* One path more has been examined. *)
LEMMA OneMoreExamined ==
  ASSUME PathsInv, SearchInv, Continue \/ AddCounter
  PROVE  LET n == Len(section.listing) - Len(todo)
         IN /\ n \in Nat /\ DOMAIN Examined = 1..n /\ DOMAIN Examined' = 1..(n + 1)
            /\ \A i \in 1..n : Examined'[i] = Examined[i]
            /\ Examined'[n + 1] = Head(todo)
<1> DEFINE n == Len(section.listing) - Len(todo)
           list == section.listing
<1>1. Looped /\ todo # <<>> /\ UNCHANGED section /\ todo' = Tail(todo)
  BY DEF Continue, AddCounter, Looped, SearchInv
<1>2. /\ n \in Nat /\ n + 1 \in 1..Len(list)
      /\ Head(todo) = list[n + 1]
      /\ Len(Tail(todo)) = Len(todo) - 1 /\ Len(todo) \in Nat
  BY <1>1, NextPath
<1>3. list \in Seq(Paths) /\ Len(list) \in Nat
  BY DEF PathsInv
<1>4. Examined = SubSeq(list, 1, n) /\ Examined' = SubSeq(list, 1, n + 1)
  <2>1. Len(list) - Len(todo') = n + 1
    BY <1>1, <1>2, <1>3
  <2> QED
    BY <1>1, <2>1 DEF Examined
<1> HIDE DEF n, list
<1>5. n \in 0..Len(list) /\ n + 1 \in 0..Len(list)
  BY <1>2, <1>3
<1>6. DOMAIN Examined = 1..n /\ \A i \in 1..n : Examined[i] = list[i]
  BY <1>3, <1>4, <1>5, BeginOfList
<1>7. DOMAIN Examined' = 1..(n + 1) /\ \A i \in 1..(n + 1) : Examined'[i] = list[i]
  BY <1>3, <1>4, <1>5, BeginOfList
<1> QED
  BY <1>2, <1>6, <1>7 DEF n

(* What was asked about a path stays, and so does what was answered, while neither the paths nor the   *)
(* counters are touched: by what only moves a search on, ends OpenCounter, answers a request or deletes *)
(* the plugin.                                                                                          *)
LEMMA FoundStays ==
  ASSUME AskedInv, Looped, UNCHANGED <<section, todo, counters>>,
         \A i \in DOMAIN Examined : asked'[i] = asked[i]
  PROVE  \E at \in [DOMAIN counters' -> DOMAIN Examined'] : FoundBy(at)'
<1>1. PICK at \in [DOMAIN counters -> DOMAIN Examined] : FoundBy(at)
  BY DEF AskedInv
<1>2. Examined' = Examined
  BY DEF Examined
<1> USE DEF FoundBy
<1>3. ASSUME NEW k \in DOMAIN counters' PROVE counters'[k] = Examined'[at[k]] /\ LetThrough(asked[at[k]])'
  <2>1. at[k] \in DOMAIN Examined /\ counters[k] = Examined[at[k]] /\ LetThrough(asked[at[k]])
    BY <1>1
  <2> QED
    BY <1>2, <2>1 DEF LetThrough
<1>4. \A k, l \in DOMAIN counters' : k < l => at[k] < at[l]
  BY <1>1
<1>5. ASSUME NEW i \in DOMAIN Examined'
      PROVE  /\ asked'[i] \in SeenAs(section', Examined'[i])
             /\ (\E k \in DOMAIN counters' : at[k] = i) \/ TurnedAway(asked[i])'
  <2>1. /\ i \in DOMAIN Examined /\ asked[i] \in SeenAs(section, Examined[i])
        /\ (\E k \in DOMAIN counters : at[k] = i) \/ TurnedAway(asked[i])
    BY <1>1, <1>2
  <2> QED
    BY <1>2, <2>1 DEF TurnedAway, SeenAs
<1>6. FoundBy(at)'
  BY <1>3, <1>4, <1>5
<1> QED
  BY <1>1, <1>2, <1>6

(* How many paths have been examined, and what was asked about the next one. *)
LEMMA NextAsked ==
  ASSUME PathsInv, SearchInv, AskedInv, phase # "idle", pc \in {"next", "exclude"}
  PROVE  /\ Done \in Nat /\ Len(asked) = Done + 1 /\ DOMAIN Examined = 1..Done
         /\ asked[Done + 1] = text /\ text \in SeenAs(section, Head(todo))
<1>1. Looped /\ todo # <<>>
  BY DEF Looped, SearchInv
<1>2. Done \in Nat /\ Done \in 0..Len(section.listing) /\ section.listing \in Seq(Paths)
  BY <1>1, NextPath DEF Done, PathsInv
<1>3. DOMAIN Examined = 1..Done
  BY <1>2, BeginOfList DEF Examined, Done
<1> QED
  BY <1>2, <1>3 DEF AskedInv, SearchInv

(* A path that is not kept was turned away by one filter, and leaves the counters as they were ... *)
LEMMA ContinueFinds ==
  ASSUME PathsInv, SearchInv, AskedInv, Continue
  PROVE  \E at \in [DOMAIN counters' -> DOMAIN Examined'] : FoundBy(at)'
<1> DEFINE n == Len(section.listing) - Len(todo)
<1>1. /\ n \in Nat /\ DOMAIN Examined = 1..n /\ DOMAIN Examined' = 1..(n + 1)
      /\ \A i \in 1..n : Examined'[i] = Examined[i]
      /\ Examined'[n + 1] = Head(todo)
  BY OneMoreExamined
<1>2. PICK at \in [DOMAIN counters -> DOMAIN Examined] : FoundBy(at)
  BY DEF Continue, Looped, AskedInv
<1>3. UNCHANGED <<section, counters, asked>>
  BY DEF Continue
<1>4. asked[n + 1] = text /\ text \in SeenAs(section, Head(todo)) /\ TurnedAway(text)
  <2>1. asked[n + 1] = text /\ text \in SeenAs(section, Head(todo))
    BY NextAsked DEF Continue, Done
  <2>2. Comes(re, text, Now) /\ Now.phase = phase
    BY DEF SearchInv, Continue, Now
  <2>3. CASE pc = "next" /\ phase = "failed"
    <3>1. re = section.include
      BY <2>3 DEF SearchInv
    <3>2. Comes(section.include, text, Now) /\ Now.phase = "failed"
      BY <2>2, <2>3, <3>1
    <3>3. GivesUp(section.include, text)
      BY <3>2 DEF GivesUp
    <3> QED
      BY <2>1, <3>3 DEF TurnedAway
  <2>4. CASE pc = "exclude" /\ phase = "matched"
    <3>1. re = section.exclude
      BY <2>4 DEF SearchInv
    <3>2. Comes(section.exclude, text, Now) /\ Now.phase = "matched"
      BY <2>2, <2>4, <3>1
    <3>3. Finds(section.exclude, text)
      BY <3>2 DEF Finds
    <3> QED
      BY <2>1, <3>3 DEF TurnedAway
  <2> QED
    BY <2>1, <2>3, <2>4 DEF Continue
<1> HIDE DEF n
<1>5. \A k \in DOMAIN counters : at[k] \in 1..n /\ at[k] \in 1..(n + 1)
  BY <1>1
<1>6. at \in [DOMAIN counters' -> DOMAIN Examined']
  BY <1>1, <1>3, <1>5
<1>7. ASSUME NEW k \in DOMAIN counters' PROVE counters'[k] = Examined'[at[k]] /\ LetThrough(asked[at[k]])'
  <2>1. at[k] \in 1..n /\ counters[k] = Examined[at[k]] /\ LetThrough(asked[at[k]])
    BY <1>2, <1>3, <1>5 DEF FoundBy
  <2> QED
    BY <1>1, <1>3, <2>1 DEF LetThrough
<1>8. \A k, l \in DOMAIN counters' : k < l => at[k] < at[l]
  BY <1>2, <1>3 DEF FoundBy
<1>9. ASSUME NEW i \in DOMAIN Examined'
      PROVE  /\ asked'[i] \in SeenAs(section', Examined'[i])
             /\ (\E k \in DOMAIN counters' : at[k] = i) \/ TurnedAway(asked[i])'
  <2>1. CASE i = n + 1
    BY <1>1, <1>3, <1>4, <2>1 DEF TurnedAway, SeenAs
  <2>2. CASE i # n + 1
    <3>1. i \in 1..n
      BY <1>1, <2>2
    <3>2. asked[i] \in SeenAs(section, Examined[i]) /\ ((\E k \in DOMAIN counters : at[k] = i) \/ TurnedAway(asked[i]))
      BY <1>1, <1>2, <3>1 DEF FoundBy
    <3> QED
      BY <1>1, <1>3, <3>1, <3>2 DEF TurnedAway, SeenAs
  <2> QED
    BY <2>1, <2>2
<1>10. FoundBy(at)'
  BY <1>7, <1>8, <1>9 DEF FoundBy
<1> QED
  BY <1>6, <1>10

(* ... and one that is kept was let through by both: its counter is the last. *)
LEMMA AddCounterFinds ==
  ASSUME PathsInv, SearchInv, AskedInv, AddCounter
  PROVE  \E at \in [DOMAIN counters' -> DOMAIN Examined'] : FoundBy(at)'
<1>n. PICK n : n = Len(section.listing) - Len(todo)
  OBVIOUS
<1>m. PICK m : m = Len(counters)
  OBVIOUS
<1>1. /\ n \in Nat /\ DOMAIN Examined = 1..n /\ DOMAIN Examined' = 1..(n + 1)
      /\ \A i \in 1..n : Examined'[i] = Examined[i]
      /\ Examined'[n + 1] = Head(todo)
  BY <1>n, OneMoreExamined
<1>2. PICK at \in [DOMAIN counters -> DOMAIN Examined] : FoundBy(at)
  BY DEF AddCounter, Looped, AskedInv
<1>3. UNCHANGED <<section, asked>> /\ counters' = Append(counters, Head(todo))
  BY DEF AddCounter
<1>4. /\ m \in Nat /\ DOMAIN counters = 1..m /\ DOMAIN counters' = 1..(m + 1)
      /\ counters'[m + 1] = Head(todo) /\ \A k \in 1..m : counters'[k] = counters[k]
  BY <1>m, <1>3 DEF PathsInv
<1>5. asked[n + 1] = text /\ text \in SeenAs(section, Head(todo)) /\ LetThrough(text)
  <2>1. asked[n + 1] = text /\ text \in SeenAs(section, Head(todo))
    BY <1>n, NextAsked DEF AddCounter, Done
  <2>2. Comes(re, text, Now) /\ Now.phase = "failed" /\ re = section.exclude
    BY DEF SearchInv, AddCounter, Now
  <2>3. Finds(section.include, text)
    BY DEF AskedInv, AddCounter
  <2> QED
    BY <2>1, <2>2, <2>3 DEF LetThrough, GivesUp
<1>t. PICK too : too = [k \in 1..(m + 1) |-> IF k = m + 1 THEN n + 1 ELSE at[k]]
  OBVIOUS
<1>6. too[m + 1] = n + 1 /\ \A k \in 1..m : too[k] = at[k] /\ at[k] \in 1..n
  <2>1. too[m + 1] = n + 1 /\ \A k \in 1..m : too[k] = at[k]
    BY <1>4, <1>t
  <2>2. \A k \in 1..m : at[k] \in 1..n
    BY <1>1, <1>4
  <2> QED
    BY <2>1, <2>2
<1>7. too \in [DOMAIN counters' -> DOMAIN Examined']
  <2>1. ASSUME NEW k \in 1..(m + 1) PROVE too[k] \in 1..(n + 1)
    <3>1. CASE k = m + 1
      BY <1>1, <1>6, <3>1
    <3>2. CASE k \in 1..m
      <4>1. too[k] \in 1..n
        BY <1>6, <3>2
      <4> QED
        BY <1>1, <4>1
    <3> QED
      BY <1>4, <3>1, <3>2
  <2> QED
    BY <1>1, <1>4, <1>t, <2>1
<1>8. ASSUME NEW k \in DOMAIN counters' PROVE counters'[k] = Examined'[too[k]] /\ LetThrough(asked[too[k]])'
  <2>1. CASE k = m + 1
    <3>1. counters'[k] = Head(todo) /\ too[k] = n + 1 /\ Examined'[n + 1] = Head(todo)
      BY <1>1, <1>4, <1>6, <2>1
    <3>2. LetThrough(asked[n + 1])'
      BY <1>3, <1>5 DEF LetThrough
    <3> QED
      BY <3>1, <3>2 DEF LetThrough
  <2>2. CASE k \in 1..m
    <3>1. counters[k] = Examined[at[k]] /\ LetThrough(asked[at[k]])
      BY <1>2, <1>4, <2>2 DEF FoundBy
    <3>2. counters'[k] = counters[k] /\ too[k] = at[k] /\ Examined'[at[k]] = Examined[at[k]]
      BY <1>1, <1>4, <1>6, <2>2
    <3> QED
      BY <1>3, <3>1, <3>2 DEF LetThrough
  <2> QED
    BY <1>4, <2>1, <2>2
<1>9. \A k, l \in DOMAIN counters' : k < l => too[k] < too[l]
  <2> SUFFICES ASSUME NEW k \in 1..(m + 1), NEW l \in 1..(m + 1), k < l PROVE too[k] < too[l]
    BY <1>4
  <2>1. k \in 1..m
    BY <1>4
  <2>2. CASE l = m + 1
    BY <1>1, <1>6, <2>1, <2>2
  <2>3. CASE l \in 1..m
    BY <1>2, <1>4, <1>6, <2>1, <2>3 DEF FoundBy
  <2> QED
    BY <1>4, <2>2, <2>3
<1>10. ASSUME NEW i \in DOMAIN Examined'
       PROVE  /\ asked'[i] \in SeenAs(section', Examined'[i])
              /\ (\E k \in DOMAIN counters' : too[k] = i) \/ TurnedAway(asked[i])'
  <2>1. CASE i = n + 1
    <3>1. asked'[i] = text /\ Examined'[i] = Head(todo) /\ UNCHANGED section
      BY <1>1, <1>3, <1>5, <2>1
    <3>2. m + 1 \in DOMAIN counters' /\ too[m + 1] = i
      BY <1>4, <1>6, <2>1
    <3>3. asked'[i] \in SeenAs(section', Examined'[i])
      BY <1>5, <3>1
    <3> QED
      BY <3>2, <3>3
  <2>2. CASE i # n + 1
    <3>1. i \in 1..n
      BY <1>1, <2>2
    <3>2. asked[i] \in SeenAs(section, Examined[i]) /\ ((\E k \in 1..m : at[k] = i) \/ TurnedAway(asked[i]))
      BY <1>1, <1>2, <1>4, <3>1 DEF FoundBy
    <3>3. (\E k \in 1..m : at[k] = i) => \E k \in DOMAIN counters' : too[k] = i
      BY <1>4, <1>6
    <3> QED
      BY <1>1, <1>3, <3>1, <3>2, <3>3 DEF TurnedAway, SeenAs
  <2> QED
    BY <2>1, <2>2
<1>11. FoundBy(too)'
  BY <1>8, <1>9, <1>10 DEF FoundBy
<1> QED
  BY <1>7, <1>11

(* Every step of OpenCounter takes up what the search has said. *)
LEMMA AskedStep == PathsInv /\ SearchInv /\ AskedInv /\ PerfNext => AskedInv'
<1> SUFFICES ASSUME PathsInv, SearchInv, AskedInv, PerfNext PROVE AskedInv'
  OBVIOUS
<1>1. CASE OpenQuery
  BY <1>1 DEF OpenQuery, AskedInv, Looped, SearchInv, PathsInv, matchVars
<1>2. CASE Expand
  <2>1. counters' = <<>> /\ pc' = "next" /\ asked' = <<>> /\ phase' = "idle"
    BY <1>2 DEF Expand, PathsInv, AskedInv, SearchInv, matchVars
  <2>2. section'.listing \in Seq(Paths) /\ todo' = section'.listing /\ Len(section'.listing) - Len(todo') = 0
    BY <1>2 DEF Expand, PathsInv
  <2>3. DOMAIN Examined' = {}
    <3>1. 0 \in 0..Len(section'.listing) /\ Examined' = SubSeq(section'.listing, 1, 0)
      BY <2>2 DEF Examined
    <3>2. DOMAIN Examined' = 1..0
      BY <2>2, <3>1, BeginOfList
    <3> QED
      BY <3>2
  <2> DEFINE at == [k \in {} |-> 0]
  <2>4. at \in [DOMAIN counters' -> DOMAIN Examined'] /\ FoundBy(at)'
    BY <2>1, <2>3 DEF FoundBy
  <2> HIDE DEF at
  <2> QED
    <3>1. asked' \in Seq(Seq(STRING)) /\ Len(asked') = 0 /\ Done' = 0
      BY <2>1, <2>2 DEF Done
    <3>2. \E a \in [DOMAIN counters' -> DOMAIN Examined'] : FoundBy(a)'
      BY <2>4
    <3> QED
      BY <2>1, <3>1, <3>2 DEF AskedInv
<1>3. CASE Include
  <2>1. PICK seen \in SeenAs(section, Head(todo)) : MatchExact(filters.include, seen) /\ asked' = Append(asked, seen)
    BY <1>3 DEF Include
  <2>2. UNCHANGED <<section, filters, pc, todo, counters>> /\ pc = "next" /\ todo # <<>> /\ phase = "idle"
    BY <1>3 DEF Include
  <2>3. text' = seen /\ phase' \in {"running", "matched", "failed"}
    BY <2>1 DEF MatchExact, Settle
  <2>4. Looped /\ Done \in Nat /\ Len(asked) = Done /\ Head(todo) \in Paths /\ Done \in 0..Len(section.listing)
    <3>1. Looped
      BY <2>2 DEF Looped
    <3>2. Head(todo) \in Paths /\ Done \in Nat /\ Len(todo) \in Nat
      BY <2>2, <3>1, NextPath DEF Done
    <3>3. Len(section.listing) \in Nat
      BY DEF PathsInv
    <3> QED
      BY <2>2, <3>1, <3>2, <3>3 DEF AskedInv, Done
  <2>5. seen \in Seq(STRING)
    <3>1. \A i \in Unwritten \cup {Head(todo).instance} : i \in Seq(STRING)
      BY <2>4, SectionsAssumption DEF Paths
    <3>2. \A i \in Seq(STRING) : Head(todo).object \o i \o Head(todo).counter \in Seq(STRING)
      BY <2>4 DEF Paths
    <3>3. PICK i \in Unwritten \cup {Head(todo).instance} : seen = Head(todo).object \o i \o Head(todo).counter
      BY <2>1 DEF SeenAs
    <3> QED
      BY <3>1, <3>2, <3>3
  <2>6. asked \in Seq(Seq(STRING))
    BY DEF AskedInv
  <2>7. /\ asked' \in Seq(Seq(STRING)) /\ Len(asked') = Done + 1 /\ asked'[Done + 1] = seen
        /\ \A i \in 1..Done : asked'[i] = asked[i]
    BY <2>1, <2>4, <2>5, <2>6
  <2>8. DOMAIN Examined = 1..Done
    BY <2>4, BeginOfList DEF Examined, Done, PathsInv
  <2>9. \E at \in [DOMAIN counters' -> DOMAIN Examined'] : FoundBy(at)'
    BY <2>2, <2>4, <2>7, <2>8, FoundStays
  <2>10. Done' = Done
    BY <2>2 DEF Done
  <2> QED
    BY <2>2, <2>3, <2>7, <2>9, <2>10 DEF AskedInv
<1>4. CASE Exclude
  <2>1. UNCHANGED <<section, filters, todo, counters, asked>> /\ Looped /\ Finds(section.include, text)
    BY <1>4 DEF Exclude, Looped, SearchInv, Finds, Now
  <2>2. text' = text /\ phase # "idle" /\ pc' = "exclude" /\ phase' # "idle" /\ Done' = Done
    BY <1>4 DEF Exclude, MatchExact, Settle, Done
  <2>3. \E at \in [DOMAIN counters' -> DOMAIN Examined'] : FoundBy(at)'
    BY <2>1, FoundStays
  <2> QED
    BY <2>1, <2>2, <2>3 DEF AskedInv
<1>5. CASE Matching
  <2>1. text' = text /\ UNCHANGED <<section, filters, pc, todo, counters, asked>> /\ phase # "idle" /\ phase' # "idle"
    BY <1>5, SearchGoesOn DEF Matching, perfVars
  <2>2. Looped' => Looped /\ Done' = Done
    BY <2>1 DEF Looped, Done
  <2>3. Done' = Done
    BY <2>1 DEF Done
  <2> QED
    BY <2>1, <2>2, <2>3, FoundStays DEF AskedInv
<1>6. CASE Continue \/ AddCounter
  <2>1. UNCHANGED <<section, asked>> /\ pc' = "next" /\ phase' = "idle" /\ phase # "idle" /\ pc \in {"next", "exclude"}
    BY <1>6 DEF Continue, AddCounter, Release
  <2>2. Done \in Nat /\ Len(asked) = Done + 1
    BY <2>1, NextAsked
  <2>3. Done' = Done + 1
    <3>1. Looped /\ todo # <<>> /\ todo' = Tail(todo)
      BY <1>6, <2>1 DEF Continue, AddCounter, Looped, SearchInv
    <3>2. Len(Tail(todo)) = Len(todo) - 1 /\ Len(todo) \in Nat /\ Len(section.listing) \in Nat
      BY <3>1, NextPath DEF PathsInv
    <3> QED
      BY <2>1, <3>1, <3>2 DEF Done
  <2>4. \E at \in [DOMAIN counters' -> DOMAIN Examined'] : FoundBy(at)'
    BY <1>6, ContinueFinds, AddCounterFinds
  <2> QED
    BY <2>1, <2>2, <2>3, <2>4 DEF AskedInv
<1>7. CASE CollectData \/ OpenFails \/ Destroy
  <2>1. UNCHANGED <<section, todo, counters, filters, asked>> /\ pc' \in {"loaded", "unloaded", "gone"} /\ phase' = "idle"
    BY <1>7 DEF CollectData, OpenFails, Destroy, Release, SearchInv, matchVars, PathsInv
  <2>2. Looped' => Looped
    BY <1>7 DEF CollectData, OpenFails, Destroy, Looped, PathsInv
  <2> QED
    BY <2>1, <2>2, FoundStays DEF AskedInv
<1>8. CASE PerfConfig \/ PerfValues
  <2>1. UNCHANGED <<section, todo, counters, filters, asked, pc, phase, text>>
    BY <1>8 DEF PerfConfig, PerfValues, Asked, perfVars, matchVars
  <2>2. (Looped' => Looped) /\ Done' = Done
    BY <2>1 DEF Looped, Done
  <2> QED
    BY <2>1, <2>2, FoundStays DEF AskedInv
<1> QED
  BY <1>1, <1>2, <1>3, <1>4, <1>5, <1>6, <1>7, <1>8 DEF PerfNext, OpenCounter

-----------------------------------------------------------------------------
(* A plugin that is not yet made has no filters, paths or replies. *)
LEMMA InitPerfInv == Init => PerfInv
<1> SUFFICES ASSUME Init, subject = "perf" PROVE PathsInv /\ SearchInv /\ RepliesInv /\ AskedInv
  BY DEF PerfInv, Init, PerfNew
<1>1. section \in Sections /\ PerfNew /\ NoAnswers
  BY DEF Init
<1>2. section.listing \in Seq(Paths)
  BY <1>1, SectionsAssumption DEF Paths
<1>3. PathsInv
  BY <1>1, <1>2 DEF PathsInv, PerfNew, Looped
<1>4. SearchInv /\ RepliesInv /\ AskedInv
  BY <1>1 DEF SearchInv, RepliesInv, AskedInv, Looped, PerfNew, Idle, NoAnswers, Error
<1> QED
  BY <1>3, <1>4

(* A step of another plugin's, or none. *)
LEMMA OtherStep == [Next]_vars => (subject = "perf" /\ PerfNext) \/ (UNCHANGED <<perfVars, matchVars>> /\ UNCHANGED subject /\ (subject = "perf" => UNCHANGED answerVars))
<1> SUFFICES ASSUME [Next]_vars PROVE (subject = "perf" /\ PerfNext) \/ (UNCHANGED <<perfVars, matchVars>> /\ UNCHANGED subject /\ (subject = "perf" => UNCHANGED answerVars))
  OBVIOUS
<1>1. CASE GaugesNext /\ UNCHANGED <<perfVars, matchVars>>
  BY <1>1 DEF GaugesNext, Works, Crash, Tick, CalculateCpuLoad, FindDrives, DiskConfig, DiskValues, OpenDiskQuery, EnumerateDisks, AddDiskCounter,
      CollectDiskTimes, OpenDiskFails, DiskTimeConfig, DiskTimeValues, OpenUptime, UptimeConfig, UptimeValues
<1>2. CASE UNCHANGED vars
  BY <1>2 DEF vars, gaugeVars
<1> QED
  BY <1>1, <1>2 DEF Next, PerfNext

(* What holds of a performance counter holds after every step, its own or another plugin's. *)
LEMMA PerfStep == PerfInv /\ [Next]_vars => PerfInv'
<1> SUFFICES ASSUME PerfInv, [Next]_vars, subject' = "perf" PROVE (PathsInv /\ SearchInv /\ RepliesInv /\ AskedInv)'
  BY OtherStep DEF PerfInv, perfVars, PerfNext
<1>1. CASE subject = "perf" /\ PerfNext
  BY <1>1, PathsStep, SearchStep, RepliesStep, AskedStep DEF PerfInv
<1>2. CASE UNCHANGED <<perfVars, matchVars>> /\ UNCHANGED subject /\ (subject = "perf" => UNCHANGED answerVars)
  <2>1. PathsInv /\ SearchInv /\ RepliesInv /\ AskedInv
    BY <1>2 DEF PerfInv
  <2>2. UNCHANGED <<perfVars, matchVars, answerVars>>
    BY <1>2
  <2>3. (PathsInv /\ SearchInv /\ RepliesInv)'
    BY <2>1, <2>2 DEF PathsInv, SearchInv, RepliesInv, Looped, SeenAs, Now, perfVars, matchVars, answerVars
  <2>4. AskedInv'
    <3>1. UNCHANGED <<section, todo, counters, filters, asked, pc, phase, text>>
      BY <2>2 DEF perfVars, matchVars
    <3>2. (Looped' => Looped) /\ Done' = Done
      BY <3>1 DEF Looped, Done
    <3> QED
      BY <2>1, <3>1, <3>2, FoundStays DEF AskedInv
  <2> QED
    BY <2>3, <2>4
<1> QED
  BY <1>1, <1>2, OtherStep

(* The inductive invariant of the plugins that measure. *)
THEOREM AnswersInvariance == Spec => []AnswersInv
<1>1. Init => AnswersInv
  BY InitGaugesInv, InitPerfInv DEF AnswersInv
<1>2. AnswersInv /\ [Next]_vars => AnswersInv'
  BY GaugesStep, PerfStep DEF AnswersInv
<1> QED
  BY <1>1, <1>2, PTL DEF Spec

(* LoadIsOfInterval, however long the clocks run: CalculateCpuLoad gives what came since the last reading, *)
(* the idle part no larger than the whole.                                                                 *)
THEOREM LoadIsOfIntervalHolds == Spec => []LoadIsOfInterval
<1>1. AnswersInv => LoadIsOfInterval
  BY DEF AnswersInv, GaugesInv, CpuInv, LoadIsOfInterval
<1> QED
  BY AnswersInvariance, <1>1, PTL

(* FetchedIsDeclared, for any drives, disks and counters: with OpenCounter ended early, what is fetched is *)
(* of the disk or counter config has named in its place; a drive that is mute has the numbers of one       *)
(* before it, never of one after it.                                                                       *)
THEOREM FetchedIsDeclaredHolds == Spec => []FetchedIsDeclared
<1>1. AnswersInv => FetchedIsDeclared
  <2> SUFFICES ASSUME AnswersInv, config.ok, values.ok, NEW i \in DOMAIN values.of
               PROVE /\ i \in DOMAIN config.of
                     /\ \/ values.of[i] = config.of[i]
                        \/ i \notin values.read /\ values.of[i] \in {config.of[j] : j \in 1..(i - 1)} \cup {Nobody}
    BY DEF FetchedIsDeclared
  <2> USE DEF AnswersInv, GaugesInv
  <2>1. CASE subject = "disk"
    BY <2>1 DEF DiskInv, IsOwnOrOlder
  <2>2. CASE subject = "disktime"
    <3>1. i \in 1..Len(diskCounters) /\ diskCounters \in Seq(STRING) /\ diskNames \in Seq(STRING)
      BY <2>2 DEF DiskTimeInv
    <3>2. diskCounters # <<>> /\ i \in 1..Len(diskNames)
      BY <2>2, <3>1 DEF DiskTimeInv
    <3> QED
      BY <2>2, <3>1, <3>2 DEF DiskTimeInv
  <2>3. CASE subject = "uptime"
    BY <2>3 DEF UptimeInv
  <2>4. CASE subject = "perf"
    BY <2>4 DEF PerfInv, PathsInv, RepliesInv
  <2> QED
    BY <2>1, <2>2, <2>3, <2>4 DEF CpuAsksNothing
<1> QED
  BY AnswersInvariance, <1>1, PTL

(* FilteredAsFound, for any listing, any filters and whatever lies in memory: a path has a counter exactly *)
(* when MatchExact finds IncludePaths in the text put together for it and gives ExcludePaths up, both     *)
(* searches having come to their ends, and counters come each once and in PDH's order.                    *)
THEOREM FilteredAsFoundHolds == Spec => []FilteredAsFound
<1>1. AnswersInv => FilteredAsFound
  <2> SUFFICES ASSUME AnswersInv, pc \notin {"new", "opened"}, filters # <<>> PROVE FilteredAsFound
    BY DEF FilteredAsFound
  <2>1. AskedInv /\ Looped
    BY DEF AnswersInv, GaugesInv, PerfInv, Looped, PathsInv
  <2>2. PICK at \in [DOMAIN counters -> DOMAIN Examined] : FoundBy(at)
    BY <2>1 DEF AskedInv
  <2>3. \A t : ~(LetThrough(t) /\ TurnedAway(t))
    BY AnsweredOnce DEF LetThrough, TurnedAway
  <2>4. ASSUME NEW i \in DOMAIN Examined
        PROVE  asked[i] \in SeenAs(section, Examined[i]) /\ ((\E k \in DOMAIN counters : at[k] = i) <=> LetThrough(asked[i]))
    BY <2>2, <2>3 DEF FoundBy
  <2> QED
    BY <2>2, <2>4 DEF FoundBy, FilteredAsFound
<1> QED
  BY AnswersInvariance, <1>1, PTL

(* Does MatchExact answer as their authors mean for the filters of the configuration's sections and the *)
(* texts that can be put together for their paths?                                                      *)
FiltersAreRight ==
  \A s \in Sections : \A i \in DOMAIN s.listing : \A t \in SeenAs(s, s.listing[i]) : \A r \in {s.include, s.exclude} :
    (Finds(r, t) => Means(r, t)) /\ (GivesUp(r, t) => ~Means(r, t))

(* FilteredAsMeant, for configurations whose filters deelx gets right on the texts of their own paths: *)
(* other expressions and other texts do not matter, nor does what any step of a search looks like.     *)
THEOREM FilteredAsMeantHolds ==
  ASSUME FiltersAreRight
  PROVE  Spec => []FilteredAsMeant
<1>1. AnswersInv => FilteredAsMeant
  <2> SUFFICES ASSUME AnswersInv, pc \notin {"new", "opened"}, filters # <<>>
               PROVE \E at \in [DOMAIN counters -> DOMAIN Examined] : FilteredBy(at)
    BY DEF FilteredAsMeant
  <2>1. PathsInv /\ AskedInv /\ Looped
    BY DEF AnswersInv, GaugesInv, PerfInv, Looped, PathsInv
  <2>2. PICK at \in [DOMAIN counters -> DOMAIN Examined] : FoundBy(at)
    BY <2>1 DEF AskedInv
  <2>3. ASSUME NEW i \in DOMAIN Examined
        PROVE  /\ LetThrough(asked[i]) => Wanted(asked[i])
               /\ TurnedAway(asked[i]) => ~Wanted(asked[i])
    <3>1. i \in DOMAIN section.listing /\ Examined[i] = section.listing[i] /\ section \in Sections
      <4>1. section.listing \in Seq(Paths) /\ Done \in 0..Len(section.listing) /\ section \in Sections
        BY <2>1 DEF PathsInv, Done
      <4>2. DOMAIN Examined = 1..Done /\ \A j \in 1..Done : Examined[j] = section.listing[j]
        BY <4>1, BeginOfList DEF Examined, Done
      <4> QED
        BY <4>1, <4>2
    <3>2. asked[i] \in SeenAs(section, section.listing[i])
      BY <2>2, <3>1 DEF FoundBy
    <3>3. \A r \in {section.include, section.exclude} :
            (Finds(r, asked[i]) => Means(r, asked[i])) /\ (GivesUp(r, asked[i]) => ~Means(r, asked[i]))
      BY <3>1, <3>2 DEF FiltersAreRight
    <3> QED
      BY <3>3 DEF LetThrough, TurnedAway, Wanted
  <2>4. FilteredBy(at)
    BY <2>2, <2>3 DEF FoundBy, FilteredBy
  <2> QED
    BY <2>4
<1> QED
  BY AnswersInvariance, <1>1, PTL

-----------------------------------------------------------------------------
(* The context of a match.  Of the groups' entries the first `size` are in use.  The index of a group's   *)
(* number lies at or above its last entry in use; an entry that is open has counted down what was opened  *)
(* inside it.                                                                                             *)
Entries == [number : Nat, start : Int, end : Int, z : Int]
Contexts ==
  [ok : BOOLEAN, pos : Nat, text : Seq(STRING), stack : Seq(Int), groups : Seq(Entries), size : Nat, index : Seq(Int),
   begin : Int, lastBegin : Int, z : Nat, limit : Int]

IsIndexed(c, i) ==
  c.groups[i].number + 1 \in 1..Len(c.index) /\ i - 1 <= c.index[c.groups[i].number + 1]

IsCounted(g) == (g.end < 0 => g.end = -1 /\ g.z <= 0) /\ (g.end >= 0 => g.z >= 0)

WellFormed(c) ==
  /\ c \in Contexts
  /\ c.size <= Len(c.groups)
  /\ \A i \in 1..c.size : IsIndexed(c, i) /\ IsCounted(c.groups[i])

(* The last entry of a group that is in use. *)
IsLatest(c, number, i) ==
  \/ /\ i \in 0..(c.size - 1) /\ c.groups[i + 1].number = number
     /\ \A j \in 0..(c.size - 1) : c.groups[j + 1].number = number => j <= i
  \/ i = -1 /\ \A j \in 0..(c.size - 1) : c.groups[j + 1].number # number

(* Are two contexts the same to whatever is matched next? *)
SameMatch(c, d) ==
  /\ c.pos = d.pos /\ c.text = d.text /\ c.stack = d.stack /\ c.size = d.size
  /\ \A i \in 1..c.size : c.groups[i] = d.groups[i]

(* d is c but for the entry i, which is g; and g can stand there. *)
Replaces(c, i, g, d) ==
  /\ d \in Contexts /\ d.groups = [c.groups EXCEPT ![i + 1] = g] /\ d.index = c.index /\ d.size = c.size
  /\ d.pos = c.pos /\ d.text = c.text /\ d.stack = c.stack

MayReplace(c, i, g) == i \in 0..(c.size - 1) /\ g \in Entries /\ g.number = c.groups[i + 1].number /\ IsCounted(g)

(* A bracket as the builder makes it. *)
IsBracket(e) == e.number \in Nat /\ e.right \in BOOLEAN

(* The group of a closing bracket: its opening one stands before it. *)
IsOpen(c, number) ==
  /\ number + 1 \in 1..Len(c.index)
  /\ \E i \in 0..(c.size - 1) : IsLatest(c, number, i) /\ c.groups[i + 1].end < 0

(* CheckCaptureIndex finds the last entry in use when it looks down from at or above it. *)
LEMMA CheckFindsLatest ==
  ASSUME NEW c, c.size \in Nat, NEW index \in Int, NEW number,
         \A i \in 0..(c.size - 1) : c.groups[i + 1].number = number => i <= index
  PROVE  IsLatest(c, number, CheckCaptureIndex(c, index, number))
<1> DEFINE from == IF index >= c.size THEN c.size - 1 ELSE index
           found == {i \in 0..from : c.groups[i + 1].number = number}
<1>1. from \in Int /\ from <= c.size - 1
  OBVIOUS
<1>2. \A i \in 0..(c.size - 1) : c.groups[i + 1].number = number => i \in found
  OBVIOUS
<1>3. CASE found = {}
  BY <1>2, <1>3 DEF CheckCaptureIndex, IsLatest
<1>4. CASE found # {}
  <2>1. \E i \in found : \A j \in found : j <= i
    BY <1>1, <1>4, LastPlace
  <2> DEFINE last == CHOOSE i \in found : \A j \in found : j <= i
  <2>2. last \in found /\ \A j \in found : j <= last
    BY <2>1
  <2>3. CheckCaptureIndex(c, index, number) = last
    BY <1>4 DEF CheckCaptureIndex
  <2> HIDE DEF last
  <2>4. last \in 0..(c.size - 1) /\ c.groups[last + 1].number = number
    BY <1>1, <2>2
  <2> QED
    BY <1>2, <2>2, <2>3, <2>4 DEF IsLatest
<1> QED
  BY <1>3, <1>4

(* There is one last entry at most. *)
LEMMA LatestIsOne ==
  ASSUME NEW c, NEW number, NEW i, NEW j, IsLatest(c, number, i), IsLatest(c, number, j), c.size \in Nat
  PROVE  i = j
BY DEF IsLatest

(* The look-up of a bracket finds the last entry in use of its group. *)
LEMMA IndexOfFindsLatest ==
  ASSUME NEW c, WellFormed(c), NEW number \in Nat, number + 1 \in 1..Len(c.index)
  PROVE  IsLatest(c, number, IndexOf(c, number))
<1>1. c.size \in Nat /\ c.index \in Seq(Int) /\ c.index[number + 1] \in Int
  BY DEF WellFormed, Contexts
<1>2. \A i \in 0..(c.size - 1) : c.groups[i + 1].number = number => i <= c.index[number + 1]
  <2> SUFFICES ASSUME NEW i \in 0..(c.size - 1), c.groups[i + 1].number = number PROVE i <= c.index[number + 1]
    OBVIOUS
  <2>1. i + 1 \in 1..c.size /\ i + 1 - 1 = i
    BY <1>1
  <2> QED
    BY <2>1 DEF WellFormed, IsIndexed
<1> QED
  BY <1>1, <1>2, CheckFindsLatest DEF IndexOf

(* Making room in the index for a group says nothing of the others. *)
LEMMA PrepareKeeps ==
  ASSUME NEW c, WellFormed(c), NEW number \in Nat
  PROVE  LET d == PrepareIndex(c, number)
         IN WellFormed(d) /\ SameMatch(c, d) /\ d.z = c.z /\ number + 1 \in 1..Len(d.index)
<1> DEFINE n == Max({number + 1, Len(c.index)})
           index == [i \in 1..n |-> IF i <= Len(c.index) THEN c.index[i] ELSE -1]
           d == PrepareIndex(c, number)
<1>1. c.index \in Seq(Int) /\ Len(c.index) \in Nat
  BY DEF WellFormed, Contexts
<1>2. n \in Nat /\ n >= number + 1 /\ n >= Len(c.index)
  BY <1>1 DEF Max
<1> HIDE DEF n
<1>3. index \in Seq(Int) /\ Len(index) = n
  BY <1>1, <1>2
<1>4. d = [c EXCEPT !.index = index]
  BY DEF PrepareIndex, n
<1> HIDE DEF index
<1>5. /\ d \in Contexts /\ d.index = index
      /\ d.pos = c.pos /\ d.text = c.text /\ d.stack = c.stack /\ d.size = c.size /\ d.groups = c.groups /\ d.z = c.z
  BY <1>3, <1>4 DEF WellFormed, Contexts
<1>6. \A i \in 1..c.size : IsIndexed(c, i) => IsIndexed(d, i)
  <2> SUFFICES ASSUME NEW i \in 1..c.size, IsIndexed(c, i) PROVE IsIndexed(d, i)
    OBVIOUS
  <2>1. c.groups[i].number + 1 \in 1..Len(c.index) /\ c.groups[i].number + 1 \in 1..n
    BY <1>1, <1>2 DEF IsIndexed
  <2>2. index[c.groups[i].number + 1] = c.index[c.groups[i].number + 1]
    BY <1>1, <2>1 DEF index
  <2> QED
    BY <1>3, <1>5, <2>1, <2>2 DEF IsIndexed
<1> QED
  BY <1>2, <1>3, <1>5, <1>6 DEF WellFormed, SameMatch

(* An entry is pushed on those in use; what lay there is overwritten. *)
LEMMA PushedGroups ==
  ASSUME NEW groups \in Seq(Entries), NEW size \in Nat, size <= Len(groups), NEW g \in Entries
  PROVE  LET pushed == SubSeq(groups, 1, size) \o <<g>> \o SubSeq(groups, size + 2, Len(groups))
         IN /\ pushed \in Seq(Entries) /\ size + 1 <= Len(pushed)
            /\ pushed[size + 1] = g /\ \A i \in 1..size : pushed[i] = groups[i]
<1> DEFINE front == SubSeq(groups, 1, size)
           back == SubSeq(groups, size + 2, Len(groups))
<1>0. Len(groups) \in Nat
  OBVIOUS
<1>1. front \in Seq(Entries) /\ Len(front) = size /\ \A i \in 1..size : front[i] = groups[i]
  <2>1. \A i \in 1..size : groups[i] \in Entries
    BY <1>0
  <2> QED
    BY <1>0, <2>1, SubSeqProperties
<1>2. back \in Seq(Entries)
  <2>1. \A i \in (size + 2)..Len(groups) : groups[i] \in Entries
    BY <1>0
  <2> QED
    BY <1>0, <2>1, SubSeqProperties
<1> HIDE DEF front, back
<1>3. front \o <<g>> \in Seq(Entries) /\ Len(front \o <<g>>) = size + 1
  BY <1>1
<1>4. (front \o <<g>>)[size + 1] = g /\ \A i \in 1..size : (front \o <<g>>)[i] = groups[i]
  BY <1>1
<1> DEFINE fg == front \o <<g>>
<1> HIDE DEF fg
<1>5. fg \o back \in Seq(Entries) /\ size + 1 <= Len(fg \o back) /\ \A i \in 1..(size + 1) : (fg \o back)[i] = fg[i]
  BY <1>2, <1>3 DEF fg
<1>6. fg[size + 1] = g /\ \A i \in 1..size : fg[i] = groups[i]
  BY <1>4 DEF fg
<1>7. size + 1 \in 1..(size + 1) /\ \A i \in 1..size : i \in 1..(size + 1)
  OBVIOUS
<1> DEFINE pushed == fg \o back
<1> HIDE DEF pushed
<1>8. \A i \in 1..(size + 1) : pushed[i] = fg[i]
  BY <1>5 DEF pushed
<1>9. pushed[size + 1] = g /\ \A i \in 1..size : pushed[i] = groups[i]
  BY <1>6, <1>7, <1>8
<1> QED
  BY <1>5, <1>9 DEF pushed, fg, front, back

(* An entry in use. *)
LEMMA EntryInUse ==
  ASSUME NEW c, WellFormed(c), NEW k \in 1..c.size
  PROVE  /\ c.groups[k] \in Entries /\ c.groups[k].number \in Nat /\ c.groups[k].end \in Int /\ c.groups[k].z \in Int
         /\ k \in 1..Len(c.groups) /\ IsIndexed(c, k) /\ IsCounted(c.groups[k])
<1>1. c.groups \in Seq(Entries) /\ Len(c.groups) \in Nat /\ c.size \in Nat /\ c.size <= Len(c.groups)
  BY DEF WellFormed, Contexts
<1>2. k \in 1..Len(c.groups)
  BY <1>1
<1>3. c.groups[k] \in Entries
  BY <1>1, <1>2
<1> DEFINE r == c.groups[k]
<1>4. r \in Entries
  BY <1>3
<1> HIDE DEF r
<1>5. r.number \in Nat /\ r.end \in Int /\ r.z \in Int
  BY <1>4 DEF Entries
<1> QED
  BY <1>2, <1>3, <1>5 DEF WellFormed, r

(* An entry that is open. *)
LEMMA OpenEntry ==
  ASSUME NEW c, WellFormed(c), NEW i \in 0..(c.size - 1), c.groups[i + 1].end < 0
  PROVE  LET r == c.groups[i + 1]
         IN /\ r \in Entries /\ r.end = -1 /\ r.z <= 0 /\ r.z \in Int
            /\ i + 1 \in 1..Len(c.groups) /\ i + 1 \in 1..c.size /\ i \in Int /\ i >= 0
<1> DEFINE r == c.groups[i + 1]
<1>1. c.size \in Nat
  BY DEF WellFormed, Contexts
<1>2. i + 1 \in 1..c.size /\ i \in Int /\ i >= 0
  BY <1>1
<1>3. r \in Entries /\ r.end \in Int /\ r.z \in Int /\ i + 1 \in 1..Len(c.groups) /\ IsCounted(r) /\ r.end < 0
  BY <1>2, EntryInUse
<1> HIDE DEF r
<1>4. r.end = -1 /\ r.z <= 0
  BY <1>3 DEF IsCounted
<1> QED
  BY <1>2, <1>3, <1>4 DEF r

(* A change of one entry leaves the group it is of. *)
LEMMA EntryChanged ==
  ASSUME NEW c, WellFormed(c), NEW i, NEW g, MayReplace(c, i, g), NEW d, Replaces(c, i, g, d)
  PROVE  /\ WellFormed(d)
         /\ \A number : \A j : IsLatest(c, number, j) => IsLatest(d, number, j)
         /\ d.groups[i + 1] = g /\ \A k \in 1..c.size : k # i + 1 => d.groups[k] = c.groups[k]
<1>1. c.size \in Nat /\ c.groups \in Seq(Entries) /\ c.size <= Len(c.groups)
  BY DEF WellFormed, Contexts
<1>2. i + 1 \in 1..Len(c.groups) /\ i + 1 \in 1..c.size /\ i \in 0..(c.size - 1)
  BY <1>1 DEF MayReplace
<1>3. Len(d.groups) = Len(c.groups) /\ d.groups[i + 1] = g /\ \A k \in 1..c.size : k # i + 1 => d.groups[k] = c.groups[k]
  BY <1>1, <1>2 DEF Replaces
<1>4. \A k \in 1..c.size : d.groups[k].number = c.groups[k].number
  BY <1>3 DEF MayReplace
<1>5. d \in Contexts /\ d.size = c.size /\ d.index = c.index /\ IsCounted(g)
  BY DEF Replaces, MayReplace
<1>6. \A k \in 1..c.size : IsIndexed(d, k) /\ IsCounted(d.groups[k])
  BY <1>3, <1>4, <1>5 DEF WellFormed, IsIndexed
<1>7. WellFormed(d)
  BY <1>1, <1>3, <1>5, <1>6 DEF WellFormed
<1>8. \A j \in 0..(c.size - 1) : d.groups[j + 1].number = c.groups[j + 1].number
  BY <1>1, <1>4
<1>9. \A number : \A j : IsLatest(c, number, j) => IsLatest(d, number, j)
  BY <1>5, <1>8 DEF IsLatest
<1> QED
  BY <1>3, <1>7, <1>9

(* Contexts that match alike with a third match alike. *)
LEMMA SameMatchAgain ==
  ASSUME NEW c, NEW d, NEW f, SameMatch(c, d), SameMatch(d, f)
  PROVE  SameMatch(c, f)
BY DEF SameMatch

(* A match begins with a well formed context, and stays so when elements move, push, pop or give back groups  *)
(* by the size alone: of the entries in use each is still found from the index of its group.                *)
THEOREM WellFormedKept ==
  /\ \A t \in Seq(STRING), start \in Nat : WellFormed(Context(t, start))
  /\ \A c, d : WellFormed(c) /\ d \in Contexts /\ d.groups = c.groups /\ d.index = c.index /\ d.size <= c.size => WellFormed(d)
<1>1. ASSUME NEW t \in Seq(STRING), NEW start \in Nat PROVE WellFormed(Context(t, start))
  <2> DEFINE c == Context(t, start)
  <2>1. c \in Contexts
    <3>1. <<>> \in Seq(Int) /\ <<>> \in Seq(Entries) /\ -1 \in Int /\ 100 \in Int /\ 0 \in Nat /\ start \in Int
      OBVIOUS
    <3> QED
      BY <3>1 DEF Context, Contexts
  <2>2. c.size = 0 /\ c.groups = <<>>
    BY DEF Context
  <2> HIDE DEF c
  <2>3. c.size <= Len(c.groups) /\ \A i \in 1..c.size : FALSE
    BY <2>2
  <2> QED
    BY <2>1, <2>3 DEF WellFormed, c
<1>2. ASSUME NEW c, NEW d, WellFormed(c), d \in Contexts, d.groups = c.groups, d.index = c.index, d.size <= c.size
      PROVE  WellFormed(d)
  <2>1. c.size \in Nat /\ d.size \in Nat /\ Len(c.groups) \in Nat /\ c.size <= Len(c.groups)
    BY <1>2 DEF WellFormed, Contexts
  <2>2. \A i \in 1..d.size : i \in 1..c.size
    BY <1>2, <2>1
  <2>3. \A i \in 1..d.size : IsIndexed(d, i) /\ IsCounted(d.groups[i])
    BY <1>2, <2>2 DEF WellFormed, IsIndexed
  <2> QED
    BY <1>2, <2>1, <2>3 DEF WellFormed
<1> QED
  BY <1>1, <1>2

(* MatchExact's loop begins with a well formed context: group 0, the whole match, lies open at the bottom.   *)
THEOREM PreparedIsWellFormed ==
  ASSUME NEW p, p.max \in Nat, NEW t \in Seq(STRING)
  PROVE  WellFormed(Prepared(p, t))
<1> DEFINE start == IF "RIGHTTOLEFT" \in p.flags THEN Len(t) ELSE 0
           c0 == Context(t, start)
           c == PrepareIndex(c0, p.max)
           g == [number |-> 0, start |-> c.pos, end |-> -1, z |-> -1]
           pushed == SubSeq(c.groups, 1, c.size) \o <<g>> \o SubSeq(c.groups, c.size + 2, Len(c.groups))
           more == c.size + 1
           w == PushGroup(c, 0, -1)
           index == [w.index EXCEPT ![1] = 0]
           d == [w EXCEPT !.index = index]
<1>1. start \in Nat
  OBVIOUS
<1> HIDE DEF start
<1>2. WellFormed(c0) /\ c0.size = 0
  BY <1>1, WellFormedKept DEF Context
<1> HIDE DEF c0
<1>3. WellFormed(c) /\ SameMatch(c0, c) /\ p.max + 1 \in 1..Len(c.index)
  BY <1>2, PrepareKeeps
<1>4. d = Prepared(p, t)
  BY DEF Prepared, c0, start
<1> HIDE DEF c
<1>5. c \in Contexts /\ c.size = 0 /\ c.groups \in Seq(Entries) /\ c.size <= Len(c.groups) /\ c.pos \in Nat /\ c.index \in Seq(Int)
  BY <1>2, <1>3 DEF WellFormed, SameMatch, Contexts
<1>6. g \in Entries /\ g.number = 0 /\ IsCounted(g)
  BY <1>5 DEF Entries, IsCounted
<1> HIDE DEF g
<1>7. pushed \in Seq(Entries) /\ c.size + 1 <= Len(pushed) /\ pushed[c.size + 1] = g
  BY <1>5, <1>6, PushedGroups
<1> HIDE DEF pushed
<1>8. w = [c EXCEPT !.groups = pushed, !.size = more] /\ more \in Nat /\ more = 1
  BY <1>5 DEF PushGroup, pushed, g
<1> HIDE DEF w, more
<1>9. w \in Contexts /\ w.groups = pushed /\ w.size = 1 /\ w.index = c.index
  BY <1>5, <1>7, <1>8 DEF Contexts
<1>10. Len(c.index) \in Nat /\ 1 \in 1..Len(c.index)
  BY <1>3, <1>5
<1>11. index \in Seq(Int) /\ Len(index) = Len(c.index) /\ index[1] = 0
  <2> DEFINE was == c.index
  <2>1. was \in Seq(Int) /\ 1 \in 1..Len(was) /\ 0 \in Int /\ index = [was EXCEPT ![1] = 0]
    BY <1>5, <1>9, <1>10
  <2> HIDE DEF was, index
  <2>2. index \in Seq(Int) /\ Len(index) = Len(was) /\ index[1] = 0
    BY <2>1
  <2> QED
    BY <2>2 DEF was
<1> HIDE DEF index
<1>12. d \in Contexts /\ d.groups = pushed /\ d.size = 1 /\ d.index = index
  BY <1>9, <1>11 DEF Contexts
<1> HIDE DEF d
<1>13. pushed[1] = g /\ 1 <= Len(pushed)
  BY <1>5, <1>7
<1>14. IsIndexed(d, 1) /\ IsCounted(d.groups[1])
  BY <1>6, <1>10, <1>11, <1>12, <1>13 DEF IsIndexed
<1>15. \A i \in 1..d.size : i = 1
  BY <1>12
<1>16. WellFormed(d)
  BY <1>12, <1>13, <1>14, <1>15 DEF WellFormed
<1> QED
  BY <1>4, <1>16 DEF w, d, index

(* Yes and No set what is answered and nothing else. *)
LEMMA AnsweredIs ==
  ASSUME NEW c \in Contexts, NEW d, d = Yes(c) \/ d = No(c)
  PROVE  /\ d \in Contexts /\ (d = Yes(c) => d.ok) /\ (d = No(c) => ~d.ok)
         /\ d.groups = c.groups /\ d.index = c.index /\ d.size = c.size
         /\ d.pos = c.pos /\ d.text = c.text /\ d.stack = c.stack /\ d.z = c.z
BY DEF Contexts, Yes, No

(* An answer is of the entries it was given with. *)
LEMMA AnsweredReplaces ==
  ASSUME NEW c, NEW i, NEW g, NEW w, Replaces(c, i, g, w)
  PROVE  /\ Replaces(c, i, g, Yes(w)) /\ Yes(w).ok
         /\ Replaces(c, i, g, No(w)) /\ ~No(w).ok
<1>1. w \in Contexts
  BY DEF Replaces
<1> QED
  BY <1>1, AnsweredIs DEF Replaces

(* WithEntry replaces one entry; so does what also counts a group that is closed. *)
LEMMA WithEntryIs ==
  ASSUME NEW c, WellFormed(c), NEW i, NEW g, MayReplace(c, i, g)
  PROVE  LET w == WithEntry(c, i, g) IN Replaces(c, i, g, w) /\ Replaces(c, i, g, [w EXCEPT !.z = @ + 1])
<1> DEFINE h == [c.groups EXCEPT ![i + 1] = g]
           w == WithEntry(c, i, g)
<1>1. c \in Contexts /\ i + 1 \in 1..Len(c.groups) /\ g \in Entries
  BY DEF MayReplace, WellFormed, Contexts
<1>2. h \in Seq(Entries)
  BY <1>1 DEF Contexts
<1>3. w = [c EXCEPT !.groups = h]
  BY DEF WithEntry
<1> HIDE DEF h, w
<1>4. /\ w \in Contexts /\ w.groups = h /\ w.z = c.z
      /\ w.index = c.index /\ w.size = c.size /\ w.pos = c.pos /\ w.text = c.text /\ w.stack = c.stack
  BY <1>1, <1>2, <1>3 DEF Contexts
<1> DEFINE x == [w EXCEPT !.z = @ + 1]
           t == w.z + 1
<1>5. t \in Nat /\ x = [w EXCEPT !.z = t]
  BY <1>4 DEF Contexts
<1> HIDE DEF t, x
<1>6. /\ x \in Contexts /\ x.groups = w.groups
      /\ x.index = w.index /\ x.size = w.size /\ x.pos = w.pos /\ x.text = w.text /\ x.stack = w.stack
  BY <1>4, <1>5 DEF Contexts
<1> QED
  BY <1>4, <1>6 DEF Replaces, h, w, x

(* An entry that counts one more, or is closed, is still of its group. *)
LEMMA EntryCounts ==
  ASSUME NEW r \in Entries, NEW v \in Int
  PROVE  LET g == [r EXCEPT !.z = v]
         IN g \in Entries /\ g.z = v /\ g.end = r.end /\ g.number = r.number /\ [g EXCEPT !.z = r.z] = r
BY DEF Entries

(* One entry has changed and has then been put back. *)
LEMMA EntryPutBack ==
  ASSUME NEW c, WellFormed(c), NEW i, NEW g, MayReplace(c, i, g), NEW m, Replaces(c, i, g, m)
  PROVE  LET d == No(WithEntry(m, i, c.groups[i + 1])) IN ~d.ok /\ WellFormed(d) /\ SameMatch(c, d)
<1> DEFINE r == c.groups[i + 1]
           w == WithEntry(m, i, r)
           d == No(w)
<1>1. WellFormed(m) /\ m.groups[i + 1] = g /\ \A k \in 1..c.size : k # i + 1 => m.groups[k] = c.groups[k]
  BY EntryChanged
<1>2. i \in 0..(c.size - 1) /\ g.number = r.number /\ c.size \in Nat /\ m.size = c.size
  BY DEF MayReplace, Replaces, WellFormed, Contexts
<1>3. i + 1 \in 1..c.size
  BY <1>2
<1>4. r \in Entries /\ IsCounted(r)
  BY <1>3, EntryInUse
<1> HIDE DEF r
<1>5. MayReplace(m, i, r)
  BY <1>1, <1>2, <1>4 DEF MayReplace
<1>6. Replaces(m, i, r, w)
  BY <1>1, <1>5, WithEntryIs
<1> HIDE DEF w
<1>7. Replaces(m, i, r, d) /\ ~d.ok
  BY <1>6, AnsweredReplaces
<1> HIDE DEF d
<1>8. WellFormed(d) /\ d.groups[i + 1] = r /\ \A k \in 1..m.size : k # i + 1 => d.groups[k] = m.groups[k]
  BY <1>1, <1>5, <1>7, EntryChanged
<1>9. \A k \in 1..c.size : c.groups[k] = d.groups[k]
  BY <1>1, <1>2, <1>8 DEF r
<1>10. SameMatch(c, d)
  BY <1>7, <1>9 DEF SameMatch, Replaces
<1> QED
  BY <1>7, <1>8, <1>10 DEF d, w, r

(* The look-up of a bracket finds an entry that has changed where it was. *)
LEMMA ChangedIsFound ==
  ASSUME NEW c, WellFormed(c), NEW number \in Nat, number + 1 \in 1..Len(c.index),
         NEW i, NEW g, MayReplace(c, i, g), IsLatest(c, number, i), NEW m, Replaces(c, i, g, m)
  PROVE  WellFormed(m) /\ IsLatest(m, number, i) /\ IndexOf(m, number) = i /\ Entry(m, i) = g
<1>1. WellFormed(m) /\ IsLatest(m, number, i) /\ m.groups[i + 1] = g
  BY EntryChanged
<1>2. m.size \in Nat /\ number + 1 \in 1..Len(m.index)
  BY <1>1 DEF WellFormed, Contexts, Replaces
<1>3. IndexOf(m, number) = i
  BY <1>1, <1>2, IndexOfFindsLatest, LatestIsOne
<1> QED
  BY <1>1, <1>3 DEF Entry

(* A closing bracket is taken back: what it closed is open again, what it counted it counts no more. *)
LEMMA CloseTakenBack ==
  ASSUME NEW c, WellFormed(c), NEW e, IsBracket(e), e.right, IsOpen(c, e.number)
  PROVE  LET m == MatchBracket(e, c)
             d == MatchNextBracket(e, m)
         IN m.ok /\ WellFormed(m) /\ ~d.ok /\ WellFormed(d) /\ SameMatch(c, d)
<1> DEFINE m == MatchBracket(e, c)
           d == MatchNextBracket(e, m)
<1>1. PICK i \in 0..(c.size - 1) : IsLatest(c, e.number, i) /\ c.groups[i + 1].end < 0
  BY DEF IsOpen
<1>2. c.size \in Nat /\ c.pos \in Nat /\ c.z \in Nat
  BY DEF WellFormed, Contexts
<1> DEFINE r == c.groups[i + 1]
<1>3. r \in Entries /\ r.end = -1 /\ r.z <= 0 /\ r.z \in Int /\ i \in 0..(c.size - 1) /\ i >= 0
  BY <1>1, OpenEntry
<1>4. e.number \in Nat /\ e.number + 1 \in 1..Len(c.index)
  BY DEF IsBracket, IsOpen
<1>5. IndexOf(c, e.number) = i
  BY <1>1, <1>2, <1>4, IndexOfFindsLatest, LatestIsOne
<1>6. Entry(c, i) = r
  BY DEF Entry
<1>7. m = CloseGroup(e, c)
  BY <1>4 DEF MatchBracket
<1> HIDE DEF r, m
<1>8. CASE r.z < 0
  <2> DEFINE g == [r EXCEPT !.z = r.z + 1]
             w == WithEntry(c, i, g)
  <2>1. m = Yes(w)
    BY <1>3, <1>5, <1>6, <1>7, <1>8 DEF CloseGroup
  <2>2. g \in Entries /\ g.z = r.z + 1 /\ g.end = r.end /\ g.number = r.number /\ [g EXCEPT !.z = r.z] = r
    <3>1. r.z + 1 \in Int
      BY <1>3
    <3> QED
      BY <1>3, <3>1, EntryCounts, Zenon
  <2> HIDE DEF g
  <2>3. MayReplace(c, i, g)
    BY <1>3, <1>8, <2>2 DEF IsCounted, MayReplace, r
  <2>4. Replaces(c, i, g, w)
    BY <2>3, WithEntryIs
  <2> HIDE DEF w
  <2>5. Replaces(c, i, g, m) /\ m.ok
    BY <2>1, <2>4, AnsweredReplaces
  <2>6. WellFormed(m) /\ IndexOf(m, e.number) = i /\ Entry(m, i) = g
    BY <1>1, <1>4, <2>3, <2>5, ChangedIsFound
  <2>7. d = No(Reopen(m, i))
    BY <1>3, <2>6 DEF MatchNextBracket
  <2>8. ~(g.end >= 0) /\ g.z - 1 = r.z
    BY <1>3, <2>2
  <2>9. Reopen(m, i) = WithEntry(m, i, r)
    BY <2>2, <2>6, <2>8 DEF Reopen
  <2>10. ~d.ok /\ WellFormed(d) /\ SameMatch(c, d)
    BY <2>3, <2>5, <2>7, <2>9, EntryPutBack DEF r
  <2> QED
    BY <2>5, <2>6, <2>10 DEF m
<1>9. CASE ~(r.z < 0)
  <2> DEFINE g == [r EXCEPT !.end = c.pos, !.z = c.z]
             x == [WithEntry(c, i, g) EXCEPT !.z = @ + 1]
  <2>1. m = Yes(x)
    BY <1>3, <1>5, <1>6, <1>7, <1>9 DEF CloseGroup
  <2>2. r.end = -1 /\ r.z = 0
    BY <1>3, <1>9
  <2>3. g \in Entries /\ g.z = c.z /\ g.end = c.pos /\ g.number = r.number /\ [g EXCEPT !.end = -1, !.z = 0] = r
    <3>1. c.z \in Int /\ c.pos \in Int
      BY <1>2
    <3> QED
      BY <1>3, <2>2, <3>1 DEF Entries
  <2> HIDE DEF g
  <2>4. MayReplace(c, i, g)
    BY <1>2, <1>3, <2>3 DEF IsCounted, MayReplace, r
  <2>5. Replaces(c, i, g, x)
    BY <2>4, WithEntryIs
  <2> HIDE DEF x
  <2>6. Replaces(c, i, g, m) /\ m.ok
    BY <2>1, <2>5, AnsweredReplaces
  <2>7. WellFormed(m) /\ IndexOf(m, e.number) = i /\ Entry(m, i) = g
    BY <1>1, <1>4, <2>4, <2>6, ChangedIsFound
  <2>8. d = No(Reopen(m, i))
    BY <1>3, <2>7 DEF MatchNextBracket
  <2>9. g.end >= 0
    BY <1>2, <2>3
  <2>10. Reopen(m, i) = WithEntry(m, i, r)
    BY <2>3, <2>7, <2>9 DEF Reopen
  <2>11. ~d.ok /\ WellFormed(d) /\ SameMatch(c, d)
    BY <2>4, <2>6, <2>8, <2>10, EntryPutBack DEF r
  <2> QED
    BY <2>6, <2>7, <2>11 DEF m
<1> QED
  BY <1>8, <1>9 DEF m

(* A group that is open is opened once more: its entry counts down, and counts up when that is taken back. *)
LEMMA CountedTakenBack ==
  ASSUME NEW c, WellFormed(c), NEW e, IsBracket(e), ~e.right, NEW i \in 0..(c.size - 1), IsLatest(c, e.number, i),
         e.number + 1 \in 1..Len(c.index), c.groups[i + 1].end < 0
  PROVE  LET m == Yes(WithEntry(c, i, [Entry(c, i) EXCEPT !.z = @ - 1]))
             d == MatchNextBracket(e, m)
         IN m.ok /\ WellFormed(m) /\ IsOpen(m, e.number) /\ ~d.ok /\ WellFormed(d) /\ SameMatch(c, d)
<1> DEFINE r == c.groups[i + 1]
           g == [r EXCEPT !.z = r.z - 1]
           w == WithEntry(c, i, g)
           m == Yes(w)
           d == MatchNextBracket(e, m)
<1>1. e.number \in Nat
  BY DEF IsBracket
<1>2. r \in Entries /\ r.end = -1 /\ r.z <= 0 /\ r.z \in Int /\ i >= 0
  BY OpenEntry
<1>3. m = Yes(WithEntry(c, i, [Entry(c, i) EXCEPT !.z = @ - 1]))
  BY DEF Entry
<1> HIDE DEF r
<1>4. g \in Entries /\ g.z = r.z - 1 /\ g.end = r.end /\ g.number = r.number /\ [g EXCEPT !.z = r.z] = r
  <2>1. r.z - 1 \in Int
    BY <1>2
  <2> QED
    BY <1>2, <2>1, EntryCounts, Zenon
<1> HIDE DEF g
<1>5. MayReplace(c, i, g)
  BY <1>2, <1>4 DEF IsCounted, MayReplace, r
<1>6. Replaces(c, i, g, w)
  BY <1>5, WithEntryIs
<1> HIDE DEF w
<1>7. Replaces(c, i, g, m) /\ m.ok
  BY <1>6, AnsweredReplaces
<1> HIDE DEF m
<1>8. WellFormed(m) /\ IsLatest(m, e.number, i) /\ IndexOf(m, e.number) = i /\ Entry(m, i) = g
  BY <1>1, <1>5, <1>7, ChangedIsFound
<1>9. IsOpen(m, e.number)
  BY <1>2, <1>4, <1>7, <1>8 DEF IsOpen, Replaces, Entry
<1>10. d = No(Unopen(e, m, i))
  BY <1>2, <1>8 DEF MatchNextBracket
<1>11. g.z < 0 /\ g.z + 1 = r.z
  BY <1>2, <1>4
<1>12. Unopen(e, m, i) = WithEntry(m, i, r)
  BY <1>4, <1>8, <1>11 DEF Unopen
<1>13. ~d.ok /\ WellFormed(d) /\ SameMatch(c, d)
  BY <1>5, <1>7, <1>10, <1>12, EntryPutBack DEF r
<1> QED
  BY <1>3, <1>7, <1>8, <1>9, <1>13

(* Different numbers have different successors. *)
LEMMA NextDiffers ==
  ASSUME NEW a \in Int, NEW b \in Int, a # b
  PROVE  a + 1 # b + 1
OBVIOUS


(* A group that is not open is pushed, and given back when that is taken back: the look-up finds again     *)
(* what it had found before.                                                                              *)
LEMMA PushTakenBack ==
  ASSUME NEW c, WellFormed(c), NEW e, IsBracket(e), ~e.right, e.number + 1 \in 1..Len(c.index)
  PROVE  LET m == Yes(PushGroup([c EXCEPT !.index[e.number + 1] = c.size], e.number, 0))
             d == MatchNextBracket(e, m)
         IN m.ok /\ WellFormed(m) /\ IsOpen(m, e.number) /\ ~d.ok /\ WellFormed(d) /\ SameMatch(c, d)
<1> DEFINE n == e.number
           index == [c.index EXCEPT ![n + 1] = c.size]
           g == [number |-> n, start |-> c.pos, end |-> -1, z |-> 0]
           pushed == SubSeq(c.groups, 1, c.size) \o <<g>> \o SubSeq(c.groups, c.size + 2, Len(c.groups))
           q == [c EXCEPT !.index = index]
           w == PushGroup(q, n, 0)
           m == Yes(w)
           left == [m EXCEPT !.size = @ - 1]
           v == CheckCaptureIndex(left, c.size, n)
           back == [m.index EXCEPT ![n + 1] = v]
           b == [left EXCEPT !.index = back]
           d == MatchNextBracket(e, m)
<1>1. /\ c \in Contexts /\ c.size \in Nat /\ c.groups \in Seq(Entries) /\ c.size <= Len(c.groups) /\ c.index \in Seq(Int)
      /\ n \in Nat /\ c.pos \in Nat /\ Len(c.index) \in Nat
  BY DEF WellFormed, Contexts, IsBracket
<1>2. g \in Entries /\ g.number = n /\ g.end = -1 /\ g.z = 0
  BY <1>1 DEF Entries
<1>3. index \in Seq(Int) /\ Len(index) = Len(c.index) /\ index[n + 1] = c.size
      /\ \A k \in 1..Len(c.index) : k # n + 1 => index[k] = c.index[k]
  BY <1>1
<1> HIDE DEF index
<1>4. /\ q \in Contexts /\ q.index = index /\ q.groups = c.groups /\ q.size = c.size
      /\ q.pos = c.pos /\ q.text = c.text /\ q.stack = c.stack
  BY <1>1, <1>3 DEF Contexts
<1> HIDE DEF q
<1> DEFINE more == c.size + 1
<1>5. w = [q EXCEPT !.groups = pushed, !.size = more] /\ more \in Nat
  BY <1>1, <1>4 DEF PushGroup
<1>6. /\ pushed \in Seq(Entries) /\ c.size + 1 <= Len(pushed)
      /\ pushed[c.size + 1] = g /\ \A k \in 1..c.size : pushed[k] = c.groups[k]
  BY <1>1, <1>2, PushedGroups
<1> HIDE DEF pushed, g, w, more
<1>7. /\ w \in Contexts /\ w.index = index /\ w.groups = pushed /\ w.size = more
      /\ w.pos = c.pos /\ w.text = c.text /\ w.stack = c.stack
  BY <1>1, <1>4, <1>5, <1>6 DEF Contexts
<1>8. /\ m \in Contexts /\ m.ok /\ m.index = index /\ m.groups = pushed /\ m.size = c.size + 1
      /\ m.pos = c.pos /\ m.text = c.text /\ m.stack = c.stack
  BY <1>7, AnsweredIs DEF more
<1> HIDE DEF m
<1>9. WellFormed(m)
  <2>0. m.groups[c.size + 1] = g
    BY <1>1, <1>3, <1>6, <1>8
  <2>1. IsIndexed(m, c.size + 1) /\ IsCounted(m.groups[c.size + 1])
    <3> DEFINE last == c.size + 1
    <3>1. IsCounted(g)
      BY <1>2 DEF IsCounted
    <3>2. m.groups[last] = g
      BY <2>0
    <3>2a. last - 1 = c.size /\ c.size <= c.size
      BY <1>1
    <3>2b. n + 1 \in 1..Len(m.index)
      BY <1>1, <1>3, <1>8
    <3> HIDE DEF last
    <3>3. m.groups[last].number = n
      BY <1>2, <3>2
    <3>4. m.index[m.groups[last].number + 1] = index[n + 1]
      BY <1>8, <3>3
    <3>5. last - 1 <= m.index[m.groups[last].number + 1]
      BY <1>3, <3>2a, <3>4
    <3>6. m.groups[last].number + 1 \in 1..Len(m.index)
      BY <3>2b, <3>3
    <3>7. IsIndexed(m, last)
      BY <3>5, <3>6, Zenon DEF IsIndexed
    <3> QED
      BY <3>1, <3>2, <3>7 DEF last
  <2>2. ASSUME NEW k \in 1..c.size PROVE IsIndexed(m, k) /\ IsCounted(m.groups[k])
    <3>1. m.groups[k] = c.groups[k]
      BY <1>6, <1>8
    <3>2. IsIndexed(c, k) /\ IsCounted(c.groups[k]) /\ c.groups[k].number \in Nat
      BY EntryInUse
    <3>3. CASE c.groups[k].number = n
      BY <1>1, <1>3, <1>8, <3>1, <3>2, <3>3 DEF IsIndexed
    <3>4. CASE c.groups[k].number # n
      <4>1. c.groups[k].number + 1 \in 1..Len(c.index) /\ k - 1 <= c.index[c.groups[k].number + 1]
        BY <3>2 DEF IsIndexed
      <4>2. c.groups[k].number + 1 # n + 1
        BY <1>1, <3>2, <3>4, NextDiffers
      <4>3. index[c.groups[k].number + 1] = c.index[c.groups[k].number + 1]
        BY <1>3, <4>1, <4>2
      <4> QED
        BY <1>3, <1>8, <3>1, <3>2, <4>1, <4>3 DEF IsIndexed
    <3> QED
      BY <3>3, <3>4
  <2>3. \A k \in 1..(c.size + 1) : k = c.size + 1 \/ k \in 1..c.size
    BY <1>1
  <2>4. \A k \in 1..m.size : IsIndexed(m, k) /\ IsCounted(m.groups[k])
    BY <1>8, <2>1, <2>2, <2>3
  <2> QED
    BY <1>6, <1>8, <2>4 DEF WellFormed
<1>10. IsLatest(m, n, c.size)
  <2>1. c.size \in 0..(m.size - 1) /\ \A j \in 0..(m.size - 1) : j <= c.size
    BY <1>1, <1>8
  <2>2. m.groups[c.size + 1].number = n
    BY <1>2, <1>6, <1>8
  <2> QED
    BY <2>1, <2>2 DEF IsLatest
<1>11. n + 1 \in 1..Len(m.index) /\ m.size \in Nat
  BY <1>1, <1>3, <1>8
<1>12. IndexOf(m, n) = c.size
  BY <1>1, <1>9, <1>10, <1>11, IndexOfFindsLatest, LatestIsOne
<1>13. IsOpen(m, n)
  <2>1. m.groups[c.size + 1].end < 0 /\ c.size \in 0..(m.size - 1)
    BY <1>1, <1>2, <1>6, <1>8
  <2> QED
    BY <1>10, <1>11, <2>1 DEF IsOpen
<1>14. d = No(Unopen(e, m, c.size))
  BY <1>1, <1>12 DEF MatchNextBracket
<1>15. ~(Entry(m, c.size).z < 0)
  BY <1>2, <1>6, <1>8 DEF Entry
<1>16. d = No(b)
  BY <1>14, <1>15 DEF Unopen, GiveBack
<1>16a. left = [m EXCEPT !.size = c.size]
  BY <1>1, <1>8
<1> HIDE DEF left
<1>17. /\ left \in Contexts /\ left.size = c.size /\ left.groups = pushed /\ left.index = index
       /\ left.pos = c.pos /\ left.text = c.text /\ left.stack = c.stack
  BY <1>1, <1>8, <1>16a DEF Contexts
<1>18. IsLatest(left, n, v)
  BY <1>1, <1>17, CheckFindsLatest
<1>19. v \in Int
  BY <1>1, <1>17, <1>18 DEF IsLatest
<1> HIDE DEF v
<1>20. back \in Seq(Int) /\ Len(back) = Len(c.index) /\ back[n + 1] = v
       /\ \A k \in 1..Len(c.index) : k # n + 1 => back[k] = c.index[k]
  BY <1>1, <1>3, <1>8, <1>19
<1> HIDE DEF back
<1>21. /\ b \in Contexts /\ b.index = back /\ b.groups = pushed /\ b.size = c.size
       /\ b.pos = c.pos /\ b.text = c.text /\ b.stack = c.stack
  BY <1>17, <1>20 DEF Contexts
<1> HIDE DEF b
<1>22. /\ ~d.ok /\ d \in Contexts /\ d.index = back /\ d.groups = pushed /\ d.size = c.size
       /\ d.pos = c.pos /\ d.text = c.text /\ d.stack = c.stack
  BY <1>16, <1>21, AnsweredIs
<1> HIDE DEF d
<1>23. ASSUME NEW k \in 1..c.size PROVE IsIndexed(d, k) /\ IsCounted(d.groups[k])
  <2>1. d.groups[k] = c.groups[k]
    BY <1>6, <1>22
  <2>2. IsIndexed(c, k) /\ IsCounted(c.groups[k]) /\ c.groups[k].number \in Nat
    BY EntryInUse
  <2>3. CASE c.groups[k].number = n
    <3>1. left.groups[(k - 1) + 1].number = n
      BY <1>6, <1>17, <2>3
    <3>2. k - 1 \in 0..(left.size - 1)
      BY <1>1, <1>17
    <3>3. k - 1 <= v
      BY <1>18, <3>1, <3>2 DEF IsLatest
    <3> QED
      BY <1>1, <1>20, <1>22, <2>1, <2>2, <2>3, <3>3 DEF IsIndexed
  <2>4. CASE c.groups[k].number # n
    <3>1. c.groups[k].number + 1 \in 1..Len(c.index) /\ k - 1 <= c.index[c.groups[k].number + 1]
      BY <2>2 DEF IsIndexed
    <3>2. c.groups[k].number + 1 # n + 1
      BY <1>1, <2>2, <2>4, NextDiffers
    <3>3. back[c.groups[k].number + 1] = c.index[c.groups[k].number + 1]
      BY <1>20, <3>1, <3>2
    <3> QED
      BY <1>20, <1>22, <2>1, <2>2, <3>1, <3>3 DEF IsIndexed
  <2> QED
    BY <2>3, <2>4
<1>24. WellFormed(d)
  BY <1>1, <1>6, <1>22, <1>23 DEF WellFormed
<1>25. SameMatch(c, d)
  BY <1>6, <1>22 DEF SameMatch
<1> QED
  BY <1>8, <1>9, <1>13, <1>22, <1>24, <1>25 DEF d, m, w, q, index

(* An opening bracket is taken back, whichever of the two it did. *)
LEMMA OpenTakenBack ==
  ASSUME NEW c, WellFormed(c), NEW e, IsBracket(e), ~e.right
  PROVE  LET m == MatchBracket(e, c)
             d == MatchNextBracket(e, m)
         IN m.ok /\ WellFormed(m) /\ IsOpen(m, e.number) /\ ~d.ok /\ WellFormed(d) /\ SameMatch(c, d)
<1> DEFINE p == PrepareIndex(c, e.number)
           i == IndexOf(p, e.number)
           m == MatchBracket(e, c)
           d == MatchNextBracket(e, m)
<1>1. e.number \in Nat
  BY DEF IsBracket
<1>2. WellFormed(p) /\ SameMatch(c, p) /\ e.number + 1 \in 1..Len(p.index)
  BY <1>1, PrepareKeeps
<1>3. IsLatest(p, e.number, i) /\ p.size \in Nat
  BY <1>1, <1>2, IndexOfFindsLatest DEF WellFormed, Contexts
<1>4. m = OpenGroup(e, c)
  BY <1>1 DEF MatchBracket
<1> HIDE DEF p, i
<1>5. CASE i >= 0 /\ Entry(p, i).end < 0
  <2>1. m = Yes(WithEntry(p, i, [Entry(p, i) EXCEPT !.z = @ - 1]))
    BY <1>4, <1>5 DEF OpenGroup, p, i
  <2>2. i \in 0..(p.size - 1)
    BY <1>3, <1>5 DEF IsLatest
  <2>3. p.groups[i + 1].end < 0
    BY <1>5 DEF Entry
  <2>4. m.ok /\ WellFormed(m) /\ IsOpen(m, e.number) /\ ~d.ok /\ WellFormed(d) /\ SameMatch(p, d)
    BY <1>2, <1>3, <2>1, <2>2, <2>3, CountedTakenBack
  <2> QED
    BY <1>2, <2>4, SameMatchAgain
<1>6. CASE ~(i >= 0 /\ Entry(p, i).end < 0)
  <2>1. m = Yes(PushGroup([p EXCEPT !.index[e.number + 1] = p.size], e.number, 0))
    BY <1>4, <1>6 DEF OpenGroup, p, i
  <2>2. m.ok /\ WellFormed(m) /\ IsOpen(m, e.number) /\ ~d.ok /\ WellFormed(d) /\ SameMatch(p, d)
    BY <1>2, <2>1, PushTakenBack
  <2> QED
    BY <1>2, <2>2, SameMatchAgain
<1> QED
  BY <1>5, <1>6

(* A bracket that has matched is taken back by MatchNext: the groups in use, the position and the stack are *)
(* again what they were, and an opening one has left its group open for the closing one to find.          *)
THEOREM BracketTakenBack ==
  ASSUME NEW c, WellFormed(c), NEW e, IsBracket(e), e.right => IsOpen(c, e.number)
  PROVE  LET m == MatchBracket(e, c)
             d == MatchNextBracket(e, m)
         IN /\ m.ok /\ WellFormed(m) /\ (~e.right => IsOpen(m, e.number))
            /\ ~d.ok /\ WellFormed(d) /\ SameMatch(c, d)
BY CloseTakenBack, OpenTakenBack

-----------------------------------------------------------------------------
(* What lies on the stack.  Every element finds there what it has left, at the places it looks at.        *)
LEMMA FrontOfConcat ==
  ASSUME NEW s \in Seq(Int), NEW t \in Seq(Int)
  PROVE  SubSeq(s \o t, 1, Len(s)) = s
<1>1. CASE Len(s) = 0
  BY <1>1, EmptySeq, SubSeqEmpty
<1>2. CASE Len(s) # 0
  <2>1. 1 \in 1..Len(s) /\ Len(s) \in 1..Len(s)
    BY <1>2
  <2>2. SubSeq(s \o t, 1, Len(s)) = SubSeq(s, 1, Len(s))
    BY <2>1, SubSeqOfConcat1
  <2> QED
    BY <2>2, SubSeqFull
<1> QED
  BY <1>1, <1>2

(* st is s followed by t. *)
IsJoined(st, s, t) == st = s \o t

(* Where the parts are. *)
LEMMA JoinedIs ==
  ASSUME NEW s \in Seq(Int), NEW t \in Seq(Int), NEW st, IsJoined(st, s, t)
  PROVE  /\ st \in Seq(Int) /\ Len(st) = Len(s) + Len(t) /\ Len(s) \in Nat /\ Len(t) \in Nat
         /\ \A i \in 1..Len(s) : st[i] = s[i]
         /\ \A i \in 1..Len(t) : st[Len(s) + i] = t[i]
BY DEF IsJoined

(* Three parts in a row. *)
LEMMA JoinedInRow ==
  ASSUME NEW s \in Seq(Int), NEW t \in Seq(Int), NEW u \in Seq(Int)
  PROVE  (s \o t) \o u = s \o (t \o u)
BY ConcatAssociative, SMTT(60)

(* What is in the middle. *)
LEMMA MiddleOfConcat ==
  ASSUME NEW s \in Seq(Int), NEW t \in Seq(Int), NEW u \in Seq(Int)
  PROVE  SubSeq(s \o t \o u, Len(s) + 1, Len(s) + Len(t)) = t
<1> DEFINE st == s \o t
           all == st \o u
           middle == SubSeq(all, Len(s) + 1, Len(s) + Len(t))
<1>1. Len(s) \in Nat /\ Len(t) \in Nat /\ Len(u) \in Nat
  OBVIOUS
<1>2. st \in Seq(Int) /\ Len(st) = Len(s) + Len(t) /\ \A i \in 1..Len(t) : st[Len(s) + i] = t[i]
  BY <1>1
<1> HIDE DEF st
<1>3. all \in Seq(Int) /\ \A i \in 1..Len(st) : all[i] = st[i]
  BY <1>1, <1>2
<1> HIDE DEF all
<1>4. \A i \in 1..Len(t) : all[Len(s) + i] = t[i] /\ Len(s) + i \in 1..Len(st)
  BY <1>1, <1>2, <1>3
<1>5. \A i \in (Len(s) + 1)..(Len(s) + Len(t)) : all[i] \in Int
  <2> SUFFICES ASSUME NEW i \in (Len(s) + 1)..(Len(s) + Len(t)) PROVE all[i] \in Int
    OBVIOUS
  <2>1. i - Len(s) \in 1..Len(t) /\ Len(s) + (i - Len(s)) = i
    BY <1>1
  <2>2. all[i] = t[i - Len(s)]
    BY <1>4, <2>1
  <2> QED
    BY <2>1, <2>2
<1>6. middle \in Seq(Int) /\ Len(middle) = Len(t) /\ \A i \in 1..Len(t) : middle[i] = all[Len(s) + 1 + i - 1]
  <2>1. Len(s) + 1 \in Int /\ Len(s) + Len(t) \in Int /\ (Len(s) + Len(t)) - (Len(s) + 1) + 1 = Len(t)
    BY <1>1
  <2>2. Len(t) = IF Len(s) + 1 <= Len(s) + Len(t) THEN (Len(s) + Len(t)) - (Len(s) + 1) + 1 ELSE 0
    BY <1>1
  <2> QED
    BY <1>5, <2>1, <2>2, SubSeqProperties
<1>7. \A i \in 1..Len(t) : Len(s) + 1 + i - 1 = Len(s) + i
  BY <1>1
<1>8. \A i \in 1..Len(t) : middle[i] = t[i]
  BY <1>4, <1>6, <1>7
<1> HIDE DEF middle
<1>9. middle = t
  BY <1>6, <1>8, SeqEqual
<1> QED
  BY <1>9 DEF middle, all, st

(* What has been pushed is read from the top down, and popping as much gives back the context. *)
LEMMA PushedIsRead ==
  ASSUME NEW c \in Contexts, NEW ints \in Seq(Int)
  PROVE  LET p == Push(c, ints)
         IN /\ p \in Contexts /\ p.stack = c.stack \o ints /\ Len(p.stack) = Len(c.stack) + Len(ints)
            /\ \A k \in 0..(Len(ints) - 1) : Top(p, k) = ints[Len(ints) - k]
            /\ Pop(p, Len(ints)) = c
<1> DEFINE more == c.stack \o ints
           p == Push(c, ints)
<1>1. c.stack \in Seq(Int) /\ Len(c.stack) \in Nat /\ Len(ints) \in Nat
  BY DEF Contexts
<1>2. /\ more \in Seq(Int) /\ Len(more) = Len(c.stack) + Len(ints) /\ SubSeq(more, 1, Len(c.stack)) = c.stack
      /\ \A i \in 1..Len(ints) : more[Len(c.stack) + i] = ints[i]
  BY <1>1, FrontOfConcat
<1>3. p = [c EXCEPT !.stack = more]
  BY DEF Push
<1> HIDE DEF more
<1>4. p \in Contexts /\ p.stack = more
  BY <1>2, <1>3 DEF Contexts
<1>5. \A k \in 0..(Len(ints) - 1) : Len(ints) - k \in 1..Len(ints) /\ Len(more) - k = Len(c.stack) + (Len(ints) - k)
  BY <1>1, <1>2
<1>6. \A k \in 0..(Len(ints) - 1) : Top(p, k) = ints[Len(ints) - k]
  BY <1>2, <1>4, <1>5 DEF Top
<1>7. Len(p.stack) - Len(ints) = Len(c.stack)
  BY <1>1, <1>2, <1>4
<1>8. Pop(p, Len(ints)) = [p EXCEPT !.stack = c.stack]
  BY <1>2, <1>4, <1>7 DEF Pop
<1>9. [p EXCEPT !.stack = c.stack] = c
  BY <1>2, <1>3 DEF Contexts
<1> QED
  BY <1>2, <1>4, <1>6, <1>8, <1>9 DEF more

(* The characters a string has matched are given back, and the match has stayed inside the text. *)
THEOREM StringTakenBack ==
  ASSUME NEW c \in Contexts, c.pos <= Len(c.text), NEW e, e.rightleft \in BOOLEAN, e.chars \in Seq(STRING),
         MatchString(e, c).ok
  PROVE  LET m == MatchString(e, c)
         IN MatchNextString(e, m) = No(c) /\ m \in Contexts /\ m.pos <= Len(m.text)
<1> DEFINE n == Len(e.chars)
           m == MatchString(e, c)
           pos == c.pos + Step(e, n)
           back == m.pos + Step(e, -n)
<1>1. n \in Nat /\ c.pos \in Nat /\ Len(c.text) \in Nat
  BY DEF Contexts
<1>2. HasRoom(e, c, n) /\ m = Move(e, c, n)
  <2>1. CASE HasRoom(e, c, n) /\ Same(e.chars, Ahead(e, c, n), e.ignorecase)
    BY <2>1 DEF MatchString
  <2>2. CASE ~(HasRoom(e, c, n) /\ Same(e.chars, Ahead(e, c, n), e.ignorecase))
    <3>1. MatchString(e, c) = No(c)
      BY <2>2 DEF MatchString
    <3> QED
      BY <3>1, AnsweredIs
  <2> QED
    BY <2>1, <2>2
<1>3. pos \in Nat /\ pos <= Len(c.text)
  BY <1>1, <1>2 DEF HasRoom, Step
<1>4. m = [c EXCEPT !.pos = pos, !.ok = TRUE]
  BY <1>2 DEF Move
<1> HIDE DEF m
<1>5. m.pos = pos
  BY <1>4 DEF Contexts
<1>6. back = c.pos
  BY <1>1, <1>5 DEF Step
<1>7. MatchNextString(e, m) = No([m EXCEPT !.pos = back, !.ok = TRUE])
  BY DEF MatchNextString, Move
<1> HIDE DEF pos, back
<1>8. m \in Contexts /\ m.text = c.text
  BY <1>3, <1>4 DEF Contexts
<1>9. No([m EXCEPT !.pos = c.pos, !.ok = TRUE]) = No(c)
  BY <1>4 DEF No, Contexts
<1> QED
  BY <1>3, <1>5, <1>6, <1>7, <1>8, <1>9 DEF m

(* A back reference leaves on the stack where it began, and goes back there. *)
THEOREM BackrefTakenBack ==
  ASSUME NEW c \in Contexts, NEW e, MatchBackref(e, c).ok
  PROVE  MatchNextBackref(MatchBackref(e, c)) = No(c)
<1> DEFINE m == MatchBackref(e, c)
           p == Push(c, <<c.pos>>)
<1>1. PICK n : m = Move(e, p, n)
  <2>1. MatchBackref(e, c) = No(c) \/ \E n : m = Move(e, p, n)
    BY Zenon DEF MatchBackref
  <2> QED
    BY <2>1, AnsweredIs
<1> HIDE DEF m
<1>2. <<c.pos>> \in Seq(Int) /\ Len(<<c.pos>>) = 1 /\ <<c.pos>>[1] = c.pos /\ c.pos \in Nat
  BY DEF Contexts
<1>3. p \in Contexts /\ Len(p.stack) \in Nat /\ p.stack # <<>> /\ Pop(p, 1) = c /\ Top(p, 0) = c.pos
  <2> DEFINE ints == <<c.pos>>
  <2>1. ints \in Seq(Int) /\ Len(ints) = 1 /\ ints[1] = c.pos /\ 0 \in 0..(Len(ints) - 1) /\ Len(ints) - 0 = 1
    BY <1>2
  <2> HIDE DEF ints
  <2> DEFINE pushed == Push(c, ints)
  <2>1a. /\ pushed \in Contexts /\ (\A k \in 0..(Len(ints) - 1) : Top(pushed, k) = ints[Len(ints) - k])
         /\ Pop(pushed, Len(ints)) = c /\ Len(pushed.stack) = Len(c.stack) + Len(ints)
    BY <2>1, PushedIsRead
  <2> HIDE DEF pushed
  <2>2a. /\ pushed \in Contexts /\ Top(pushed, 0) = ints[1] /\ Pop(pushed, 1) = c /\ Len(pushed.stack) = Len(c.stack) + 1
    BY <2>1, <2>1a
  <2>2. /\ Push(c, ints) \in Contexts /\ Top(Push(c, ints), 0) = ints[1] /\ Pop(Push(c, ints), 1) = c
        /\ Len(Push(c, ints).stack) = Len(c.stack) + 1
    BY <2>2a DEF pushed
  <2>3. Len(c.stack) \in Nat
    BY DEF Contexts
  <2> QED
    BY <2>1, <2>2, <2>3 DEF ints
<1> DEFINE to == p.pos + Step(e, n)
<1>4. m = [p EXCEPT !.pos = to, !.ok = TRUE]
  BY <1>1 DEF Move
<1> HIDE DEF p, to
<1>5. m.stack = p.stack
  BY <1>3, <1>4 DEF Contexts
<1>6. Top(m, 0) = c.pos
  BY <1>3, <1>5 DEF Top
<1> DEFINE front == SubSeq(p.stack, 1, Len(p.stack) - 1)
<1>7. c = [p EXCEPT !.stack = front]
  BY <1>3 DEF Pop
<1>8. MatchNextBackref(m) = No([[m EXCEPT !.stack = front] EXCEPT !.pos = c.pos])
  BY <1>5, <1>6 DEF MatchNextBackref, Pop
<1> HIDE DEF front
<1>9. c.pos = p.pos
  BY <1>3, <1>7 DEF Contexts
<1>10. No([[m EXCEPT !.stack = front] EXCEPT !.pos = p.pos]) = No([p EXCEPT !.stack = front])
  BY <1>3, <1>4 DEF No, Contexts
<1> QED
  BY <1>7, <1>8, <1>9, <1>10 DEF m

(* What has begun at c has left below what it has pushed what was there. *)
BeganAt(c, m) ==
  /\ c \in Contexts /\ m \in Contexts /\ m.text = c.text
  /\ Len(c.stack) <= Len(m.stack) /\ SubSeq(m.stack, 1, Len(c.stack)) = c.stack
  /\ \A i \in 1..c.size : m.groups[i] = c.groups[i]

(* The same stack, position and size put back. *)
LEMMA BackWhereBegan ==
  ASSUME NEW c, NEW m, BeganAt(c, m), NEW d, d.text = m.text, d.groups = m.groups,
         d.stack = c.stack, d.pos = c.pos, d.size = c.size
  PROVE  SameMatch(c, d)
BY DEF BeganAt, SameMatch

(* An independent group and a possessive repetition forget how they have matched: what was pushed inside is  *)
(* dropped, and MatchNext goes back to where they began with the groups there were.                          *)
THEOREM KeptIsForgotten ==
  ASSUME NEW c, NEW m, BeganAt(c, m), m.ok
  PROVE  LET d == Forget(Keep1(m, c)) IN ~d.ok /\ SameMatch(c, d)
<1> DEFINE k == [m EXCEPT !.stack = c.stack]
           ints == <<c.pos, c.size>>
           p == Push(k, ints)
           d == Forget(p)
<1>1. c \in Contexts /\ m \in Contexts /\ c.pos \in Nat /\ c.size \in Nat /\ c.stack \in Seq(Int)
  BY DEF BeganAt, Contexts
<1>2. Keep1(m, c) = p
  BY DEF Keep1, BeganAt
<1>3. k \in Contexts /\ k.stack = c.stack /\ k.groups = m.groups /\ k.text = m.text
  BY <1>1 DEF Contexts
<1>4. ints \in Seq(Int) /\ Len(ints) = 2 /\ ints[1] = c.pos /\ ints[2] = c.size
  BY <1>1
<1> HIDE DEF k, ints
<1>5. 0 \in 0..(Len(ints) - 1) /\ 1 \in 0..(Len(ints) - 1) /\ Len(ints) - 0 = 2 /\ Len(ints) - 1 = 1
  BY <1>4
<1>6. Top(p, 0) = c.size /\ Top(p, 1) = c.pos /\ Pop(p, 2) = k
  <2>1. (\A j \in 0..(Len(ints) - 1) : Top(p, j) = ints[Len(ints) - j]) /\ Pop(p, Len(ints)) = k
    BY <1>3, <1>4, PushedIsRead
  <2> HIDE DEF p
  <2>2. Top(p, 0) = ints[2] /\ Top(p, 1) = ints[1]
    BY <1>5, <2>1
  <2> QED
    BY <1>4, <2>1, <2>2
<1> HIDE DEF p
<1>7. d = No([k EXCEPT !.size = c.size, !.pos = c.pos])
  BY <1>6 DEF Forget
<1>8. ~d.ok /\ d.text = m.text /\ d.groups = m.groups /\ d.stack = c.stack /\ d.pos = c.pos /\ d.size = c.size
  BY <1>3, <1>7 DEF No, Contexts
<1> HIDE DEF d
<1>9. SameMatch(c, d)
  BY <1>8, BackWhereBegan
<1> QED
  BY <1>2, <1>8, <1>9 DEF d

(* An assertion never moves; whether it holds or is taken back afterwards, it leaves the groups there were. *)
THEOREM AssertedIsForgotten ==
  ASSUME NEW c, NEW m, BeganAt(c, m), NEW e
  PROVE  LET a == Asserted(e, c, PutBack(m, c))
             d == MatchNextAssert(a)
         IN /\ a.pos = c.pos
            /\ a.ok => ~d.ok /\ SameMatch(c, d)
            /\ ~a.ok => SameMatch(c, a)
<1> DEFINE k == PutBack(m, c)
           ints == <<c.size>>
           p == Push(k, ints)
           a == Asserted(e, c, k)
           d == MatchNextAssert(a)
<1>1. c \in Contexts /\ m \in Contexts /\ c.pos \in Nat /\ c.size \in Nat /\ c.stack \in Seq(Int)
  BY DEF BeganAt, Contexts
<1>2. k = [m EXCEPT !.stack = c.stack, !.pos = c.pos]
  BY DEF PutBack, BeganAt
<1> HIDE DEF k
<1>3. k \in Contexts /\ k.stack = c.stack /\ k.groups = m.groups /\ k.text = m.text /\ k.pos = c.pos
  BY <1>1, <1>2 DEF Contexts
<1>4. ints \in Seq(Int) /\ Len(ints) = 1 /\ ints[1] = c.size
  BY <1>1
<1> HIDE DEF ints
<1>5. 0 \in 0..(Len(ints) - 1) /\ Len(ints) - 0 = 1
  BY <1>4
<1>6. p \in Contexts /\ p.stack = k.stack \o ints /\ Top(p, 0) = c.size /\ Pop(p, 1) = k
  BY <1>3, <1>4, <1>5, PushedIsRead
<1>7. p.pos = c.pos
  BY <1>3 DEF Push, Contexts
<1>8. CASE m.ok = e.yes
  <2>1. a = Yes(p)
    BY <1>2, <1>8, <1>1 DEF Asserted, ints, Contexts
  <2> HIDE DEF p
  <2> HIDE DEF a
  <2>2. /\ a \in Contexts /\ a.ok /\ a.stack = p.stack /\ a.pos = c.pos /\ a.text = p.text /\ a.groups = p.groups
    BY <1>6, <1>7, <2>1, AnsweredIs
  <2>3. Top(a, 0) = c.size
    BY <1>6, <2>2 DEF Top
  <2> DEFINE front == SubSeq(p.stack, 1, Len(p.stack) - 1)
  <2>4. front = c.stack
    BY <1>3, <1>6 DEF Pop, Contexts
  <2>5. Pop(a, 1) = [a EXCEPT !.stack = c.stack]
    BY <2>2, <2>4 DEF Pop
  <2>6. d = No([[a EXCEPT !.stack = c.stack] EXCEPT !.size = c.size])
    BY <2>3, <2>5 DEF MatchNextAssert
  <2>7. p.text = m.text /\ p.groups = m.groups
    BY <1>3 DEF p, Push, Contexts
  <2>8. ~d.ok /\ d.text = m.text /\ d.groups = m.groups /\ d.stack = c.stack /\ d.pos = c.pos /\ d.size = c.size
    BY <2>2, <2>6, <2>7 DEF No, Contexts
  <2> HIDE DEF d
  <2>9. SameMatch(c, d)
    BY <2>8, BackWhereBegan
  <2> QED
    BY <2>2, <2>8, <2>9 DEF a, d, k
<1>9. CASE m.ok # e.yes
  <2>2. a = No([k EXCEPT !.size = c.size])
    BY <1>9 DEF Asserted, k, PutBack
  <2> HIDE DEF a
  <2>3. ~a.ok /\ a.text = m.text /\ a.groups = m.groups /\ a.stack = c.stack /\ a.pos = c.pos /\ a.size = c.size
    BY <1>3, <2>2 DEF No, Contexts
  <2>4. SameMatch(c, a)
    BY <2>3, BackWhereBegan
  <2> QED
    BY <2>3, <2>4 DEF a, k
<1> QED
  BY <1>8, <1>9

(* What a greedy repetition leaves on the stack: the sizes of groups and stack it began with, the ends there *)
(* have been, where it began and how many iterations there are.                                            *)
Frame(size, len, ends, begin, n) == <<size, len>> \o ends \o <<Len(ends), begin, n>>
HasFrame(s, rest, size, len, ends, begin, n) ==
  /\ s \in Contexts /\ rest \in Seq(Int) /\ ends \in Seq(Int) /\ size \in Int /\ len \in Int /\ begin \in Int /\ n \in Int
  /\ s.stack = rest \o Frame(size, len, ends, begin, n)

(* Where in a frame each of these is. *)
LEMMA FrameHolds ==
  ASSUME NEW size \in Int, NEW len \in Int, NEW ends \in Seq(Int), NEW begin \in Int, NEW n \in Int
  PROVE  LET ints == Frame(size, len, ends, begin, n)
             l == Len(ends)
         IN /\ ints \in Seq(Int) /\ Len(ints) = l + 5 /\ ints[1] = size /\ ints[2] = len
            /\ (\A i \in 1..l : ints[2 + i] = ends[i])
            /\ ints[l + 3] = l /\ ints[l + 4] = begin /\ ints[l + 5] = n
<1> DEFINE l == Len(ends)
           first == <<size, len>>
           last == <<l, begin, n>>
           front == first \o ends
           ints == front \o last
<1>1. l \in Nat
  OBVIOUS
<1>2. first \in Seq(Int) /\ Len(first) = 2 /\ first[1] = size /\ first[2] = len
  OBVIOUS
<1>3. last \in Seq(Int) /\ Len(last) = 3 /\ last[1] = l /\ last[2] = begin /\ last[3] = n
  BY <1>1
<1> HIDE DEF first, last
<1>4. /\ front \in Seq(Int) /\ Len(front) = l + 2 /\ front[1] = size /\ front[2] = len
      /\ \A i \in 1..l : front[2 + i] = ends[i]
  <2>1. IsJoined(front, first, ends)
    BY DEF IsJoined
  <2> HIDE DEF front
  <2>2. first \in Seq(Int)
    BY <1>2
  <2>3. front \in Seq(Int)
    BY <2>1, <2>2, JoinedIs
  <2>4. Len(front) = Len(first) + Len(ends)
    BY <2>1, <2>2, JoinedIs
  <2>5. \A i \in 1..Len(first) : front[i] = first[i]
    BY <2>1, <2>2, JoinedIs
  <2>6. \A i \in 1..Len(ends) : front[Len(first) + i] = ends[i]
    BY <2>1, <2>2, JoinedIs
  <2>7. front[1] = size /\ front[2] = len
    BY <1>2, <2>5
  <2> QED
    BY <1>1, <1>2, <2>3, <2>4, <2>6, <2>7
<1> HIDE DEF front
<1>5. /\ ints \in Seq(Int) /\ Len(ints) = l + 5
      /\ (\A i \in 1..(l + 2) : ints[i] = front[i]) /\ \A i \in 1..3 : ints[l + 2 + i] = last[i]
  <2>1. IsJoined(ints, front, last)
    BY DEF IsJoined
  <2> HIDE DEF ints
  <2>2. front \in Seq(Int) /\ last \in Seq(Int)
    BY <1>3, <1>4
  <2>3. ints \in Seq(Int)
    BY <2>1, <2>2, JoinedIs
  <2>4. Len(ints) = Len(front) + Len(last)
    BY <2>1, <2>2, JoinedIs
  <2>5. \A i \in 1..Len(front) : ints[i] = front[i]
    BY <2>1, <2>2, JoinedIs
  <2>6. \A i \in 1..Len(last) : ints[Len(front) + i] = last[i]
    BY <2>1, <2>2, JoinedIs
  <2> QED
    BY <1>1, <1>3, <1>4, <2>3, <2>4, <2>5, <2>6
<1> HIDE DEF ints
<1>6. 1 \in 1..(l + 2) /\ 2 \in 1..(l + 2) /\ l + 2 + 1 = l + 3 /\ l + 2 + 2 = l + 4 /\ l + 2 + 3 = l + 5
  BY <1>1
<1>7. ints[l + 2 + 1] = last[1] /\ ints[l + 2 + 2] = last[2] /\ ints[l + 2 + 3] = last[3]
  BY <1>5
<1>8. ints[1] = size /\ ints[2] = len
  BY <1>4, <1>5, <1>6
<1>9. \A i \in 1..l : ints[2 + i] = ends[i]
  <2>1. \A i \in 1..l : 2 + i \in 1..(l + 2)
    BY <1>1
  <2> QED
    BY <1>4, <1>5, <2>1
<1> QED
  BY <1>3, <1>5, <1>6, <1>7, <1>8, <1>9 DEF ints, front, first, last, Frame

(* A greedy repetition reads back what it has left, however many ends there are. *)
THEOREM FrameIsRead ==
  ASSUME NEW s, NEW rest, NEW size, NEW len, NEW ends, NEW begin, NEW n, HasFrame(s, rest, size, len, ends, begin, n)
  PROVE  /\ Top(s, 0) = n /\ Top(s, 1) = begin /\ Top(s, 2) = Len(ends) /\ Ends(s) = ends
         /\ Top(s, Top(s, 2) + 3) = len /\ Top(s, Top(s, 2) + 4) = size
         /\ Pop(s, Top(s, 2) + 5).stack = rest
<1> DEFINE l == Len(ends)
           r == Len(rest)
           ints == Frame(size, len, ends, begin, n)
<1>1. /\ s \in Contexts /\ rest \in Seq(Int) /\ ends \in Seq(Int) /\ size \in Int /\ len \in Int /\ begin \in Int /\ n \in Int
      /\ s.stack = rest \o ints /\ l \in Nat /\ r \in Nat
  BY DEF HasFrame
<1>2. /\ ints \in Seq(Int) /\ Len(ints) = l + 5 /\ ints[1] = size /\ ints[2] = len
      /\ ints[l + 3] = l /\ ints[l + 4] = begin /\ ints[l + 5] = n
  BY <1>1, FrameHolds
<1>3. Ends(s) = SubSeq(s.stack, Len(s.stack) - 2 - Top(s, 2), Len(s.stack) - 3)
  BY DEF Ends
<1>4. s.stack = (rest \o <<size, len>>) \o ends \o <<l, begin, n>>
  <2> DEFINE first == <<size, len>>
             last == <<l, begin, n>>
  <2>1. first \in Seq(Int) /\ last \in Seq(Int)
    BY <1>1
  <2>2. s.stack = rest \o ((first \o ends) \o last)
    BY <1>1 DEF Frame
  <2> HIDE DEF first, last
  <2>3. first \o ends \in Seq(Int)
    BY <1>1, <2>1
  <2>3a. rest \in Seq(Int) /\ ends \in Seq(Int)
    BY <1>1
  <2>4. (rest \o first) \o ends = rest \o (first \o ends)
    BY <2>1, <2>3a, JoinedInRow, ZenonT(60)
  <2> DEFINE front == first \o ends
  <2>5. (rest \o front) \o last = rest \o (front \o last)
    <3>1. front \in Seq(Int)
      BY <2>3
    <3> HIDE DEF front
    <3> QED
      BY <2>1, <2>3a, <3>1, JoinedInRow, ZenonT(60)
  <2>6. s.stack = (rest \o first) \o ends \o last
    <3>1. s.stack = (rest \o front) \o last
      BY <2>2, <2>5, Zenon
    <3> QED
      BY <2>4, <3>1, Zenon
  <2> QED
    BY <2>6 DEF first, last
<1> HIDE DEF ints
<1>5. Len(s.stack) = r + l + 5 /\ \A i \in 1..(l + 5) : s.stack[r + i] = ints[i]
  <2> DEFINE st == s.stack
  <2>1. IsJoined(st, rest, ints)
    BY <1>1 DEF IsJoined
  <2> HIDE DEF st
  <2>2. rest \in Seq(Int) /\ ints \in Seq(Int)
    BY <1>1, <1>2
  <2>3. Len(st) = Len(rest) + Len(ints)
    BY <2>1, <2>2, JoinedIs
  <2>4. \A i \in 1..Len(ints) : st[Len(rest) + i] = ints[i]
    BY <2>1, <2>2, JoinedIs
  <2> QED
    BY <1>1, <1>2, <2>3, <2>4 DEF st
<1>6. /\ 1 \in 1..(l + 5) /\ 2 \in 1..(l + 5) /\ l + 3 \in 1..(l + 5) /\ l + 4 \in 1..(l + 5) /\ l + 5 \in 1..(l + 5)
      /\ r + l + 5 - 0 = r + (l + 5) /\ r + l + 5 - 1 = r + (l + 4) /\ r + l + 5 - 2 = r + (l + 3)
      /\ r + l + 5 - (l + 3) = r + 2 /\ r + l + 5 - (l + 4) = r + 1 /\ r + l + 5 - (l + 5) = r
      /\ r + l + 5 - 2 - l = (r + 2) + 1 /\ r + l + 5 - 3 = (r + 2) + l
  BY <1>1
<1> DEFINE st == s.stack
           all == Len(st)
<1>6a. /\ all - 0 = r + (l + 5) /\ all - 1 = r + (l + 4) /\ all - 2 = r + (l + 3) /\ all - (l + 3) = r + 2
       /\ all - (l + 4) = r + 1
  BY <1>5, <1>6
<1>6b. /\ st[r + (l + 5)] = n /\ st[r + (l + 4)] = begin /\ st[r + (l + 3)] = l /\ st[r + 2] = len /\ st[r + 1] = size
  BY <1>2, <1>5, <1>6
<1>7. Top(s, 0) = n /\ Top(s, 1) = begin /\ Top(s, 2) = l
  BY <1>6a, <1>6b DEF Top
<1>8. Top(s, l + 3) = len /\ Top(s, l + 4) = size
  BY <1>6a, <1>6b DEF Top
<1>9. Ends(s) = ends
  <2> DEFINE first == rest \o <<size, len>>
             last == <<l, begin, n>>
  <2>1. first \in Seq(Int) /\ Len(first) = r + 2 /\ last \in Seq(Int)
    BY <1>1
  <2> HIDE DEF first, last
  <2>2. SubSeq(first \o ends \o last, Len(first) + 1, Len(first) + Len(ends)) = ends
    BY <1>1, <2>1, MiddleOfConcat
  <2>3. Ends(s) = SubSeq(s.stack, (r + 2) + 1, (r + 2) + l)
    <3>1. Len(s.stack) - 2 - Top(s, 2) = (r + 2) + 1 /\ Len(s.stack) - 3 = (r + 2) + l
      BY <1>1, <1>5, <1>7
    <3> QED
      BY <1>3, <3>1
  <2>4. s.stack = first \o ends \o last
    BY <1>4 DEF first, last
  <2> QED
    BY <2>1, <2>2, <2>3, <2>4
<1>10. Pop(s, l + 5).stack = rest
  <2>0. Len(s.stack) - (l + 5) = r
    BY <1>1, <1>5
  <2>1. Pop(s, l + 5) = [s EXCEPT !.stack = SubSeq(s.stack, 1, r)]
    BY <2>0 DEF Pop
  <2>2. SubSeq(s.stack, 1, r) = rest
    BY <1>1, <1>2, FrontOfConcat
  <2> QED
    BY <1>1, <2>1, <2>2 DEF Contexts
<1> QED
  BY <1>7, <1>8, <1>9, <1>10

(* What GreedyStarts pushes is a frame that lists one end. *)
LEMMA FirstFrame ==
  ASSUME NEW size \in Int, NEW len \in Int, NEW last \in Int, NEW begin \in Int, NEW n \in Int
  PROVE  <<size, len, last, 1, begin, n>> = Frame(size, len, <<last>>, begin, n)
BY SMTT(60) DEF Frame

(* A greedy repetition leaves a frame when it has gone as far as it can. *)
THEOREM GreedyLeavesFrame ==
  ASSUME NEW c \in Contexts, NEW f, f[1] \in Nat, f[2] \in Contexts
  PROVE  HasFrame(GreedyStarts(c, f), f[2].stack, c.size, Len(c.stack), <<f[2].pos>>, c.pos, f[1])
<1>0. \A d \in Contexts : d.size \in Int /\ Len(d.stack) \in Int /\ d.pos \in Int /\ d.stack \in Seq(Int)
  BY DEF Contexts
<1> DEFINE ints == <<c.size, Len(c.stack), f[2].pos, 1, c.pos, f[1]>>
           p == Push(f[2], ints)
           ends == <<f[2].pos>>
<1>1. c.size \in Int /\ Len(c.stack) \in Int /\ f[2].pos \in Int /\ c.pos \in Int /\ f[1] \in Int /\ f[2].stack \in Seq(Int)
  BY <1>0
<1>2. ints = Frame(c.size, Len(c.stack), ends, c.pos, f[1]) /\ ends \in Seq(Int) /\ ints \in Seq(Int)
  <2>1. ends \in Seq(Int) /\ ints \in Seq(Int)
    BY <1>1
  <2>2. PICK size \in Int : size = c.size
    BY <1>1
  <2>3. PICK len \in Int : len = Len(c.stack)
    BY <1>1
  <2>4. PICK last \in Int : last = f[2].pos
    BY <1>1
  <2>5. PICK begin \in Int : begin = c.pos
    BY <1>1
  <2>6. PICK n \in Int : n = f[1]
    BY <1>1
  <2>7. <<size, len, last, 1, begin, n>> = Frame(size, len, <<last>>, begin, n)
    BY FirstFrame
  <2> QED
    BY <2>1, <2>2, <2>3, <2>4, <2>5, <2>6, <2>7
<1> HIDE DEF ints, ends
<1>3. p \in Contexts /\ p.stack = f[2].stack \o ints
  BY <1>2, PushedIsRead
<1>4. GreedyStarts(c, f) = Yes(p)
  BY DEF GreedyStarts, ints
<1> HIDE DEF p
<1>5. Yes(p) \in Contexts /\ Yes(p).stack = p.stack
  BY <1>3, AnsweredIs
<1> QED
  BY <1>1, <1>2, <1>3, <1>4, <1>5 DEF HasFrame, ends

(* It leaves one again each time an iteration has been given back or has matched otherwise: where the    *)
(* repetition began and the sizes it began with are handed on.                                            *)
THEOREM GreedyKeepsFrame ==
  ASSUME NEW c, NEW rest, NEW size, NEW len, NEW ends, NEW begin, NEW n, HasFrame(c, rest, size, len, ends, begin, n),
         NEW d \in Contexts, NEW more \in Seq(Int), NEW k \in Int
  PROVE  HasFrame(Greedy(c, d, more, k), d.stack, size, len, more, begin, k)
<1> DEFINE ints == <<Top(c, Top(c, 2) + 4), Top(c, Top(c, 2) + 3)>> \o more \o <<Len(more), Top(c, 1), k>>
           p == Push(d, ints)
<1>1. size \in Int /\ len \in Int /\ begin \in Int /\ d.stack \in Seq(Int)
  BY DEF HasFrame, Contexts
<1>2. ints = Frame(size, len, more, begin, k)
  BY FrameIsRead DEF Frame
<1> HIDE DEF ints
<1>3. ints \in Seq(Int)
  BY <1>1, <1>2, FrameHolds
<1>4. p \in Contexts /\ p.stack = d.stack \o ints
  BY <1>3, PushedIsRead
<1>5. Greedy(c, d, more, k) = Yes(p)
  BY DEF Greedy, ints
<1> HIDE DEF p
<1>6. Yes(p) \in Contexts /\ Yes(p).stack = p.stack
  BY <1>4, AnsweredIs
<1> QED
  BY <1>1, <1>2, <1>4, <1>5, <1>6 DEF HasFrame

(* When the last iteration ends where the repetition began, GivenUp goes back to that: position, stack and   *)
(* groups are what they were before the first iteration, however many iterations there have been between.   *)
THEOREM GreedyGoesBack ==
  ASSUME NEW c, NEW m, BeganAt(c, m), NEW s, NEW rest, NEW ends, NEW n,
         HasFrame(s, rest, c.size, Len(c.stack), ends, c.pos, n), m.pos = Top(s, 1)
  PROVE  LET d == GivenUp(s, m) IN ~d.ok /\ SameMatch(c, d)
<1> DEFINE d == GivenUp(s, m)
<1>1. Top(s, 1) = c.pos /\ Top(s, Top(s, 2) + 3) = Len(c.stack) /\ Top(s, Top(s, 2) + 4) = c.size
  BY FrameIsRead
<1>2. m \in Contexts /\ SubSeq(m.stack, 1, Len(c.stack)) = c.stack
  BY DEF BeganAt
<1>3. d = No([m EXCEPT !.stack = c.stack, !.size = c.size])
  BY <1>1, <1>2 DEF GivenUp
<1>4. ~d.ok /\ d.text = m.text /\ d.groups = m.groups /\ d.stack = c.stack /\ d.pos = c.pos /\ d.size = c.size
  BY <1>1, <1>2, <1>3 DEF No, Contexts
<1> HIDE DEF d
<1>5. SameMatch(c, d)
  BY <1>4, BackWhereBegan
<1> QED
  BY <1>4, <1>5 DEF d
=============================================================================
