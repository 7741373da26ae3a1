----------------------------- MODULE PerfCounter ----------------------------
(***************************************************************************)
(* A performance counter plugin: OpenCounter, which expands a path with    *)
(* wildcards into the counters there are and adds those that the section's *)
(* IncludePaths matches and its ExcludePaths does not; GetConfig,          *)
(* GetValues and the destructor.  Every call of the PDH library may fail.  *)
(***************************************************************************)
EXTENDS Search, PluginAnswer

CONSTANTS
  Sections,   \* the sections of the configuration, each with the paths PDH makes of its wildcards
  Unwritten   \* what may lie in a buffer that was never written

(* A path in the parts the code takes it apart into; the instance, with its parentheses, may be missing. *)
Paths == [object : Seq(STRING), instance : Seq(STRING), counter : Seq(STRING)]

ASSUME SectionsAssumption ==
  /\ \A s \in Sections : s.listing \in Seq(Paths) /\ s.english \in BOOLEAN
  /\ Unwritten \subseteq Seq(STRING)

VARIABLES
  section,   \* its [include, exclude, english, listing]: IncludePaths, ExcludePaths and UseEnglishObjectNames
  filters,   \* includeRegEx and excludeRegEx
  pc,        \* "new", "opened", "next", "exclude", "loaded", "unloaded" or "gone"
  todo,      \* pathList, from the path on that is next
  counters,  \* m_Counters, a counter being known by its path
  names,     \* m_CounterNames, likewise
  attached,  \* the counters PDH holds for the query, external
  asked      \* history: what IncludePaths was asked about, of one path after the other

perfVars == <<section, filters, pc, todo, counters, names, attached, asked>>

(* The filters are asked with the path itself or, with English names, with one put together of its parts: *)
(* the buffer an instance is copied to is never written when there is none.                               *)
SeenAs(s, path) ==
  {path.object \o i \o path.counter :
     i \in IF s.english /\ path.instance = <<>> THEN Unwritten ELSE {path.instance}}

PerfNew ==
  /\ filters = <<>> /\ pc = "new" /\ todo = <<>>
  /\ counters = <<>> /\ names = <<>> /\ attached = {} /\ asked = <<>>
  /\ Idle

----------------------------------------------------------------------------
(* OpenCounter. *)
OpenQuery ==
  /\ pc = "new"
  /\ pc' = "opened"
  /\ UNCHANGED <<section, filters, todo, counters, names, attached, asked, matchVars>>

Expand ==
  /\ pc = "opened"
  /\ pc' = "next"
  /\ todo' = section.listing
  /\ filters' = [part \in {"include", "exclude"} |-> Compiled(section[part])]
  /\ UNCHANGED <<section, counters, names, attached, asked, matchVars>>

Include ==
  /\ pc = "next" /\ todo # <<>> /\ phase = "idle"
  /\ \E seen \in SeenAs(section, Head(todo)) : MatchExact(filters.include, seen) /\ asked' = Append(asked, seen)
  /\ UNCHANGED <<section, filters, pc, todo, counters, names, attached>>

ExcludeAsksInclude ==   \* mutant: the other filter is asked again
  /\ pc = "next" /\ phase = "matched"
  /\ pc' = "exclude"
  /\ MatchExact(filters.include, text)
  /\ UNCHANGED <<section, filters, todo, counters, names, attached, asked>>

Exclude ==
  /\ pc = "next" /\ phase = "matched"
  /\ pc' = "exclude"
  /\ MatchExact(filters.exclude, text)
  /\ UNCHANGED <<section, filters, todo, counters, names, attached, asked>>

Matching == GoOn /\ UNCHANGED perfVars

Continue ==
  /\ \/ pc = "next" /\ phase = "failed"
     \/ pc = "exclude" /\ phase = "matched"
  /\ pc' = "next"
  /\ todo' = Tail(todo)
  /\ UNCHANGED <<section, filters, counters, names, attached, asked>>
  /\ Release

AddCounter ==
  /\ pc = "exclude" /\ phase = "failed"
  /\ pc' = "next"
  /\ todo' = Tail(todo)
  /\ attached' = attached \cup {Head(todo)}
  /\ counters' = Append(counters, Head(todo))
  /\ names' = Append(names, Head(todo))
  /\ UNCHANGED <<section, filters, asked>>
  /\ Release

CollectData ==
  /\ pc = "next" /\ todo = <<>>
  /\ pc' = "loaded"
  /\ UNCHANGED <<section, filters, todo, counters, names, attached, asked, matchVars>>

(* A call that fails ends OpenCounter; what was opened and added stays until the destructor. *)
OpenFails ==
  /\ \/ pc \in {"new", "opened"}
     \/ pc = "exclude" /\ phase = "failed"
     \/ pc = "next" /\ todo = <<>>
  /\ pc' = "unloaded"
  /\ UNCHANGED <<section, filters, todo, counters, names, attached, asked>>
  /\ Release

OpenCounter ==
  \/ OpenQuery \/ Expand \/ Include \/ Exclude \/ Matching \/ Continue \/ AddCounter \/ CollectData \/ OpenFails

----------------------------------------------------------------------------
(* Requests.  Without counters none of the calls that may fail for one is made. *)
Asked == pc = "loaded" /\ UNCHANGED <<perfVars, matchVars>>

PerfConfig ==
  /\ Asked
  /\ config' \in {Answer(names)} \cup (IF counters = <<>> THEN {} ELSE {Error})
  /\ UNCHANGED values

PerfValues ==
  /\ Asked
  /\ values' \in {Answer(counters), Error}
  /\ UNCHANGED config

(* A plugin that is not loaded is deleted at once, any other when the service ends.  The query stays open: *)
(* what the destructor closes is the address of its handle.                                                *)
Destroy ==
  /\ pc \in {"loaded", "unloaded"}
  /\ pc' = "gone"
  /\ attached' = attached \ ToSet(counters)
  /\ UNCHANGED <<section, filters, todo, counters, names, asked, matchVars, answerVars>>

PerfNext ==
  /\ subject = "perf"
  /\ \/ OpenCounter /\ UNCHANGED answerVars
     \/ PerfConfig
     \/ PerfValues
     \/ Destroy
  /\ UNCHANGED subject

----------------------------------------------------------------------------
Examined == SubSeq(section.listing, 1, Len(section.listing) - Len(todo))
Wanted(seen) == Means(section.include, seen) /\ ~Means(section.exclude, seen)

(* `at` says which path each counter is the one of: counters are in the order of their paths, and all  *)
(* that are wanted, and only those, have one.                                                          *)
FilteredBy(at) ==
  /\ \A k \in DOMAIN counters : counters[k] = Examined[at[k]] /\ Wanted(asked[at[k]])
  /\ \A k, l \in DOMAIN counters : k < l => at[k] < at[l]
  /\ \A i \in DOMAIN Examined :
       asked[i] \in SeenAs(section, Examined[i]) /\ (Wanted(asked[i]) => \E k \in DOMAIN counters : at[k] = i)

(* What the filters do: a counter is kept exactly when the text the filters were asked with for its path *)
(* is one that the author of IncludePaths means and that of ExcludePaths does not, each once and in      *)
(* PDH's order, so that the compiled patterns, the search and the loop lose none and let none slip in.   *)
(* The filters decide alone: the last path is kept like any other, DropTotal being read nowhere.  And    *)
(* it is the text that counts: of a path without an instance, with English names, memory that was never  *)
(* written is a part of it, and what the path itself would deserve is not said.                          *)
FilteredAsMeant ==
  pc \notin {"new", "opened"} /\ filters # <<>> => \E at \in [DOMAIN counters -> DOMAIN Examined] : FilteredBy(at)
=============================================================================
