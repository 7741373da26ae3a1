----------------------------- MODULE Ownership ------------------------------
(***************************************************************************)
(* What a reference-counted object promises to the threads that share it,  *)
(* said without a count: the object is created with a first owner, an      *)
(* owner may share it with another one, an owner may let it go, and the    *)
(* object is destroyed once, after its last owner has let it go.           *)
(***************************************************************************)
CONSTANT Owner   \* everyone who may ever own the object

VARIABLES
  owners,        \* who owns the object now
  life           \* "unborn", "live" or "deleted"

vars == <<owners, life>>

Init ==
  /\ owners = {}
  /\ life = "unborn"

Create(x) ==
  /\ life = "unborn"
  /\ life' = "live"
  /\ owners' = {x}

(* Only somebody who owns the object can make somebody else own it.        *)
Share(x) ==
  /\ life = "live"
  /\ owners # {}
  /\ x \notin owners
  /\ owners' = owners \cup {x}
  /\ UNCHANGED life

LetGo(x) ==
  /\ life = "live"
  /\ x \in owners
  /\ owners' = owners \ {x}
  /\ UNCHANGED life

Destroy ==
  /\ life = "live"
  /\ owners = {}
  /\ life' = "deleted"
  /\ UNCHANGED owners

Next ==
  \/ \E x \in Owner : Create(x) \/ Share(x) \/ LetGo(x)
  \/ Destroy

Spec == Init /\ [][Next]_vars
=============================================================================
