------------------------------- MODULE Answers ------------------------------
(***************************************************************************)
(* The objects behind config and fetch, one at a time: a performance       *)
(* counter plugin or one of the gauges.  They have no state in common and  *)
(* each is used under a lock of its own, so nothing happens between two of *)
(* them that does not happen to one.                                       *)
(***************************************************************************)
EXTENDS PerfCounter, Gauges

vars == <<perfVars, matchVars, gaugeVars>>

Init ==
  /\ PerfNew /\ GaugesNew /\ NoAnswers
  /\ \/ subject = "perf" /\ section \in Sections /\ Total(clock) = 0
     \/ subject \in {"cpu", "disk", "disktime", "uptime"} /\ section = <<>>

Next ==
  \/ PerfNext /\ UNCHANGED ownVars
  \/ GaugesNext /\ UNCHANGED <<perfVars, matchVars>>

Spec == Init /\ [][Next]_vars
=============================================================================
