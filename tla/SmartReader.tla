----------------------------- MODULE SmartReader ----------------------------
(***************************************************************************)
(* CSmartReader and CSmartReader2: the table of what the hard drives say   *)
(* about themselves, read again when it is more than a minute old.         *)
(*                                                                         *)
(* Drives are numbered from 0.  A reading is represented by the number of  *)
(* the refresh that made it; the table's key says which drive it is of.    *)
(***************************************************************************)
EXTENDS Integers, FiniteSets

CONSTANTS
  Drives,      \* how many drives the machine may have
  Kinds,       \* bound: the answers drives may give in this instance
  Minute,      \* what UpdateSMART compares the table's age with
  Wrap,        \* differences of times are modulo this: 2^64
  MaxClock,    \* bound: the clock reads 0 .. MaxClock
  Start,       \* the clock's reading when the service starts
  MaxRefresh   \* bound: no clock change after so many refreshes

ASSUME DrivesAssumption == Drives \in 1 .. 32   \* m_stDrivesInfo[32]

ASSUME KindsAssumption == Kinds \subseteq {"absent", "mute", "noThresholds", "ok"}

ASSUME ClockAssumption ==
  /\ Minute \in Nat /\ MaxClock \in Nat
  /\ Wrap \in Nat /\ Wrap > MaxClock + Minute   \* the clock is far from its end
  /\ Start \in Minute + 1 .. MaxClock           \* and from its beginning
  /\ MaxRefresh \in Nat

Drive == 0 .. Drives - 1

Never == 0   \* no reading

(* How a drive answers: it cannot be opened or asked for its version       *)
(* ("absent"); it has no SMART commands, does not let them be enabled or   *)
(* refuses to say its attributes but not its thresholds ("mute"); the      *)
(* other way round ("noThresholds"); or all is well ("ok").                *)
VARIABLES
  hw,          \* how each drive answers now
  clock,       \* GetSystemTimeAsFileTime
  last,        \* m_LastUpdateTime
  refresh,     \* how many times the table has been read
  count,       \* m_ucDrivesWithInfo
  driveIndex,  \* m_stDrivesInfo[d].m_ucDriveIndex
  values       \* m_oSmartInfo: of each drive, the refresh that read it, or Never

smartVars == <<hw, clock, last, refresh, count, driveIndex, values>>

SmartTypeOK ==
  /\ hw \in [Drive -> Kinds]
  /\ clock \in 0 .. MaxClock
  /\ last \in 0 .. MaxClock
  /\ refresh \in Nat
  /\ count \in 0 .. Drives
  /\ driveIndex \in [Drive -> Drive]
  /\ values \in [Drive -> 0 .. refresh]

(* The reader is a global object: its table starts as zeros.               *)
SmartInit ==
  /\ hw \in [Drive -> Kinds]
  /\ clock = Start
  /\ last = 0
  /\ refresh = 0
  /\ count = 0
  /\ driveIndex = [d \in Drive |-> 0]
  /\ values = [d \in Drive |-> Never]

-----------------------------------------------------------------------------
(* ReadSMARTInfo's result: reading the thresholds overwrites the result of *)
(* reading the attributes, and without SMART the version is enough.        *)
Answers(d) == hw[d] \in {"mute", "ok"}

(* ReadSMARTAttributes has found the attributes.                           *)
HasAttributes(d) == hw[d] \in {"noThresholds", "ok"}

(* The loop of ReadSMARTValuesForAllDrives asks one drive after the other  *)
(* and stops at the first that does not answer.                            *)
Counted == {d \in Drive : \A e \in 0 .. d : Answers(e)}
Asked   == {d \in Drive : \A e \in 0 .. d - 1 : Answers(e)}

ReadSMARTValuesForAllDrives ==
  /\ count' = Cardinality(Counted)
  /\ driveIndex' = [d \in Drive |->
       IF d \in Asked /\ HasAttributes(d) THEN d ELSE driveIndex[d]]
  /\ values' = [d \in Drive |->
       IF d \in Asked /\ HasAttributes(d) THEN refresh + 1 ELSE Never]
  /\ refresh' = refresh + 1

(* The difference of two unsigned times: a clock that was set back makes   *)
(* it enormous.                                                            *)
DiffTime == (clock - last) % Wrap

UpdateSigned ==   \* mutant: the times are compared as signed numbers
  IF clock - last > Minute
  THEN ReadSMARTValuesForAllDrives /\ last' = clock /\ UNCHANGED <<hw, clock>>
  ELSE UNCHANGED smartVars

UpdateSMART ==
  IF DiffTime > Minute
  THEN ReadSMARTValuesForAllDrives /\ last' = clock /\ UNCHANGED <<hw, clock>>
  ELSE UNCHANGED smartVars

(* The loop of GetValues at drive `index`: the reading found under the     *)
(* index the drive's record holds, if there is one.                        *)
ReadingAt(index) == values[driveIndex[index]]

-----------------------------------------------------------------------------
(* Time goes by, or the clock is set, back or forward.                     *)
ClockChanges ==
  /\ refresh < MaxRefresh
  /\ clock' \in (0 .. MaxClock) \ {clock}
  /\ UNCHANGED <<hw, last, refresh, count, driveIndex, values>>

(* A drive is plugged in, pulled out or starts to fail.                    *)
DriveChanges(d) ==
  /\ refresh < MaxRefresh
  /\ hw' \in {[hw EXCEPT ![d] = a] : a \in Kinds \ {hw[d]}}
  /\ UNCHANGED <<clock, last, refresh, count, driveIndex, values>>

Environment == ClockChanges \/ \E d \in Drive : DriveChanges(d)
=============================================================================
