----------------------------- MODULE ConfigMap ------------------------------
(***************************************************************************)
(* What a configuration file promises to those who ask it: a dictionary of *)
(* entries <<section, name, value>> with one value for a name at most, and *)
(* an answer that says what a call has done.                               *)
(***************************************************************************)
CONSTANT Nothing   \* no answer

VARIABLES
  sections,  \* the sections there are, with or without values
  entries,
  answer     \* what the last call has returned

dictionary == <<sections, entries>>
vars       == <<dictionary, answer>>

Init == sections = {} /\ entries = {} /\ answer = Nothing

Of(e) == {f \in entries : f[1] = e[1] /\ f[2] = e[2]}

(* Entry e takes the place of what its name had, if anything.              *)
Put(e) ==
  /\ sections' = sections \cup {e[1]}
  /\ entries' = (entries \ Of(e)) \cup {e}

(* A section is named, or a value read, in the file.                       *)
Add ==
  /\ answer' = Nothing
  /\ \E k \in sections' : sections' = sections \cup {k}
  /\ UNCHANGED entries

Learn == answer' = Nothing /\ \E e \in entries' : Put(e)

(* A value is set by its name; or by its place, and then the caller is not *)
(* told.                                                                   *)
Set == answer' = TRUE /\ \E e \in entries' : Put(e)

SetAt == answer' = FALSE /\ \E e \in entries' : Of(e) # {} /\ Put(e)

(* Asked for a value that is not there, the dictionary keeps the default.  *)
Get ==
  \/ UNCHANGED dictionary /\ \E e \in entries : answer' = e[3]
  \/ \E e \in entries' : answer' = e[3] /\ Of(e) = {} /\ Put(e)

DeleteValue ==
  /\ answer' = TRUE
  /\ \E e \in entries : entries' = entries \ {e}
  /\ UNCHANGED sections

(* A file may name a section twice: the second, which is empty, stays.     *)
DeleteKey ==
  /\ answer' = TRUE
  /\ \E k \in sections :
       /\ sections' \in {sections, sections \ {k}}
       /\ entries' = {e \in entries : e[1] # k}

Erase == Init'

(* Calls about comments and files, and calls that find nothing to change.  *)
Other == answer' \in BOOLEAN \cup {Nothing} /\ UNCHANGED dictionary

Next ==
  Add \/ Learn \/ Set \/ SetAt \/ Get \/ DeleteValue \/ DeleteKey \/ Erase \/ Other

Spec == Init /\ [][Next]_vars
=============================================================================
