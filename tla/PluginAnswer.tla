----------------------------- MODULE PluginAnswer ---------------------------
(***************************************************************************)
(* What config and fetch of a plugin object say to each other, whatever    *)
(* its class: a field is known by its place, and `of` says what each one   *)
(* stands for, in config by its label and in fetch by what was read.       *)
(***************************************************************************)
EXTENDS Sequences, Integers

VARIABLES subject,  \* the class of the plugin object at hand
          config,   \* the last answer of GetConfig: what each field is labelled with
          values    \* the last answer of GetValues: what each field was read from, and which could be read

answerVars == <<config, values>>

(* No answer yet, or a negative result, which the client's thread answers with "# Unknown Error". *)
Error == [ok |-> FALSE, of |-> <<>>, read |-> {}]
Answer(of) == [ok |-> TRUE, of |-> of, read |-> DOMAIN of]

(* What a field was read from that nothing was read for. *)
Nobody == "none"

NoAnswers == config = Error /\ values = Error

(* A master draws what it fetches under the label that config gave the field of the same name.  Fetch     *)
(* gives no field that config has not declared, and the number in a field was read from the disk, drive   *)
(* or counter its label names; the one exception is a drive that did not answer, whose field is given     *)
(* too, with the numbers of a drive declared before it or, when none of them answered, with none at all:  *)
(* never with those of a drive that comes after it.                                                       *)
FetchedIsDeclared ==
  config.ok /\ values.ok =>
    \A i \in DOMAIN values.of :
      /\ i \in DOMAIN config.of
      /\ \/ values.of[i] = config.of[i]
         \/ i \notin values.read /\ values.of[i] \in {config.of[j] : j \in 1..(i - 1)} \cup {Nobody}
=============================================================================
